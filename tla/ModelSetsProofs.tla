--------------------------- MODULE ModelSetsProofs ---------------------------
(***************************************************************************)
(* Proofs about ModelSets, for any sets of ids and any number of           *)
(* publications, deaths, rollbacks, restarts and failing reads of          *)
(* state.json.  Two inductive invariants carry them.  SwapInvariant        *)
(* follows the downloader: a set being swapped in is not the recorded one  *)
(* until it is whole, unless the poll was blind.  LoadInvariant follows    *)
(* the detector: a load that read through a link still points at the set   *)
(* it read unless the root moved, state.json carries the flag of every     *)
(* withdrawal in force, and a load that went past the check and could read *)
(* it began while none was.                                                *)
(***************************************************************************)
EXTENDS ModelSets, TLAPS

SwapInvariant ==
  /\ TypeOK
  /\ pc # "idle" => job \in Ids
  /\ pc \in {"clearing", "moving"} => blind \/ job # record.active
  /\ pc \in {"keeping", "flipping", "recording"} => disk[job] = "whole"
  /\ pc = "moving" /\ job = record.active => torn
  /\ pc = "undoing" /\ ~torn => disk[job] = "whole"
  /\ RecordedIsWhole

LoadInvariant ==
  /\ phase = "stampActive" /\ ~moved => bundle = active
  /\ phase = "stampGood" /\ ~moved => bundle = lastGood
  /\ phase \notin {"stampActive", "stampGood"} /\ bundle # stamp /\ bundle # None => mixed
  /\ held => barred
  /\ barred => record.withdrawn
  /\ phase \in {"active", "good"} => ~held

-----------------------------------------------------------------------------
RootSteps == Install \/ Rollback
DetectorSteps == Detect \/ ObserveFails \/ Restart

LEMMA NextCases ==
  ASSUME Next
  PROVE  Publish \/ (\E state \in States : WithState(state)) \/ RootSteps \/ Die
         \/ DetectorSteps
BY DEF Next, Poll, RootSteps, DetectorSteps

\* The detector's steps leave the root, the pointer and the downloader alone.
LEMMA DetectorAside ==
  ASSUME DetectorSteps
  PROVE  UNCHANGED <<pointer, disk, active, lastGood, record, pc, job, barred, blind, torn,
                     publishes>>
BY DEF DetectorSteps, Detect, Load, ServeCached, StartLoad, CheckWithdrawal, LoadActive,
       LoadLastGood, LoadFrom, StampBundle, Observe, ObserveFails, Restart, Aside,
       rootVars, downloaderVars

-----------------------------------------------------------------------------
LEMMA StateType ==
  ASSUME TypeOK, NEW state \in States
  PROVE  /\ state \in [active : MaybeId, withdrawn : BOOLEAN]
         /\ Reads(state) => upsets' \in 0..MaxUpsets
<1> USE ModelSetsAssumption DEF ModelSetsAssumption, TypeOK
<1>1. state \in [active : MaybeId, withdrawn : BOOLEAN]
  <2>1. record \in [active : MaybeId, withdrawn : BOOLEAN]
    OBVIOUS
  <2>2. Unread \in [active : MaybeId, withdrawn : BOOLEAN]
    BY DEF Unread, MaybeId
  <2> QED
    BY <2>1, <2>2 DEF States
<1>2. ASSUME Reads(state) PROVE upsets' \in 0..MaxUpsets
  <2>1. upsets' = upsets \/ (upsets < MaxUpsets /\ upsets' = upsets + 1)
    BY <1>2, Zenon DEF Reads, Upset
  <2> QED
    BY <2>1
<1> QED
  BY <1>1, <1>2

\* What a step of the downloader leaves alone, and its effect on the histories.
LEMMA BesideStep ==
  ASSUME TypeOK, NEW bar \in BOOLEAN, Beside(bar)
  PROVE  /\ UNCHANGED <<pointer, phase, bundle, stamp, seen, shown, mixed, publishes>>
         /\ barred' = bar /\ (held' <=> held /\ bar)
         /\ barred' \in BOOLEAN /\ held' \in BOOLEAN
BY Zenon DEF Beside, detectorVars, TypeOK

LEMMA TypeStep == TypeOK /\ [Next]_vars => TypeOK'
<1> SUFFICES ASSUME TypeOK, [Next]_vars PROVE TypeOK'
  OBVIOUS
<1> USE ModelSetsAssumption DEF ModelSetsAssumption, MaybeId
<1> DEFINE RootOK == /\ disk \in [Ids -> {"absent", "torn", "whole"}]
                     /\ active \in MaybeId /\ lastGood \in MaybeId
                     /\ record \in [active : MaybeId, withdrawn : BOOLEAN]
                     /\ pc \in {"idle", "undoing"} \cup Swapping /\ job \in MaybeId
                     /\ upsets \in 0..MaxUpsets
           BesideOK == /\ UNCHANGED <<pointer, phase, bundle, stamp, seen, shown, mixed,
                                      publishes>>
                       /\ {barred', held', moved', blind', torn'} \subseteq BOOLEAN
<1>a. RootOK
  BY DEF TypeOK
<1>b. barred \in BOOLEAN /\ held \in BOOLEAN /\ moved \in BOOLEAN /\ blind \in BOOLEAN
      /\ torn \in BOOLEAN
  BY DEF TypeOK
<1>c. RootOK' /\ BesideOK => TypeOK'
  BY DEF TypeOK
<1>1. CASE Publish
  BY <1>1 DEF Publish, TypeOK, rootVars, downloaderVars, detectorVars, historyVars
<1>2. ASSUME NEW state \in States, WithState(state) PROVE TypeOK'
  <2>1. state \in [active : MaybeId, withdrawn : BOOLEAN] /\ upsets' \in 0..MaxUpsets
    BY <1>2, StateType DEF WithState
  <2>a. (state = record) \in BOOLEAN /\ (barred /\ state = record) \in BOOLEAN
    OBVIOUS
  <2>b. (state # record) \in BOOLEAN
    OBVIOUS
  <2>2. CASE RecordWithdrawal(state)
    <3>1. BesideOK
      BY <2>2, <1>b, BesideStep, Zenon DEF RecordWithdrawal
    <3>2. RootOK'
      BY <2>2, <2>1, <1>a DEF RecordWithdrawal, downloaderVars
    <3> QED
      BY <3>1, <3>2, <1>c
  <2>3. CASE WriteBack(state)
    <3>1. BesideOK
      BY <2>3, <1>b, BesideStep, Zenon DEF WriteBack
    <3>2. RootOK'
      BY <2>3, <2>1, <1>a DEF WriteBack, downloaderVars
    <3> QED
      BY <3>1, <3>2, <1>c
  <2>4. CASE FetchManifest(state)
    <3>1. BesideOK
      BY <2>4, <1>b, <2>b, Zenon DEF FetchManifest, detectorVars
    <3>2. RootOK'
      BY <2>4, <2>1, <1>a DEF FetchManifest, rootVars, Verified, Pointers, TypeOK, Swapping
    <3> QED
      BY <3>1, <3>2, <1>c
  <2>5. CASE KeepPrevious(state)
    <3>1. moved' \in BOOLEAN
      BY <2>5, <1>b, Zenon DEF KeepPrevious, Moves
    <3>2. BesideOK
      BY <2>5, <1>b, <3>1, BesideStep, Zenon DEF KeepPrevious
    <3>3. RootOK'
      BY <2>5, <2>1, <1>a DEF KeepPrevious, Swapping
    <3> QED
      BY <3>2, <3>3, <1>c
  <2>6. CASE RecordRollback(state)
    <3>1. BesideOK
      BY <2>6, <1>b, <2>a, BesideStep, Zenon DEF RecordRollback
    <3>2. RootOK'
      BY <2>6, <2>1, <1>a DEF RecordRollback
    <3> QED
      BY <3>1, <3>2, <1>c
  <2> QED
    BY <1>2, <2>2, <2>3, <2>4, <2>5, <2>6 DEF WithState
<1>3. CASE RootSteps
  <2>1. moved' \in BOOLEAN /\ torn' \in BOOLEAN /\ blind' \in BOOLEAN
    BY <1>3, <1>b, Zenon DEF RootSteps, Install, ClearOld, MoveIn, FlipActive, RecordActive,
       Rollback, Moves
  <2>2. BesideOK
    BY <1>3, <1>b, <2>1, BesideStep, Zenon DEF RootSteps, Install, ClearOld, MoveIn,
       FlipActive, RecordActive, Rollback
  <2>3. RootOK'
    <3>2. CASE ClearOld
      BY <1>a, <3>2 DEF ClearOld, Swapping
    <3>3. CASE MoveIn
      BY <1>a, <3>3 DEF MoveIn, Swapping
    <3>5. CASE FlipActive
      BY <1>a, <3>5 DEF FlipActive, Swapping
    <3>6. CASE RecordActive
      BY <1>a, <3>6 DEF RecordActive
    <3>7. CASE Rollback
      BY <1>a, <3>7 DEF Rollback, Upset
    <3> QED
      BY <1>3, <3>2, <3>3, <3>5, <3>6, <3>7 DEF RootSteps, Install
  <2> QED
    BY <2>2, <2>3, <1>c
<1>6. CASE Die
  <2>1. BesideOK
    BY <1>6, <1>b, Zenon DEF Die, detectorVars
  <2>2. RootOK'
    BY <1>6, <1>a DEF Die, Upset, rootVars
  <2> QED
    BY <2>1, <2>2, <1>c
<1>4. CASE DetectorSteps
  <2>1. OnDisk \in MaybeId
    BY DEF OnDisk, TypeOK
  <2>2. bundle' \in MaybeId /\ stamp' \in MaybeId /\ seen' \in MaybeId
    BY <1>4, <2>1 DEF TypeOK, DetectorSteps, Detect, Load, ServeCached, StartLoad, CheckWithdrawal,
          LoadActive, LoadLastGood, LoadFrom, Loads, StampBundle, Stamped, Observe, ObserveFails,
          Restart
  <2>3. phase' \in {"idle", "check", "active", "stampActive", "good", "stampGood", "predict"}
        /\ shown' \in [set : MaybeId, stamp : MaybeId]
    BY <1>4 DEF TypeOK, DetectorSteps, Detect, Load, ServeCached, StartLoad, CheckWithdrawal,
          LoadActive, LoadLastGood, LoadFrom, StampBundle, Observe, ObserveFails, Restart
  <2>4. held' \in BOOLEAN /\ moved' \in BOOLEAN /\ mixed' \in BOOLEAN
    <3>1. barred \in BOOLEAN /\ HalfRemoved(OnDisk) \in BOOLEAN
      BY <1>b DEF HalfRemoved
    <3> QED
      BY <1>4, <3>1, Zenon DEF TypeOK, DetectorSteps, Detect, Load, ServeCached, StartLoad,
          CheckWithdrawal, LoadActive, LoadLastGood, LoadFrom, StampBundle, Observe,
          ObserveFails, Restart
  <2>5. upsets' \in 0..MaxUpsets
    BY <1>4 DEF TypeOK, DetectorSteps, Detect, Load, ServeCached, StartLoad, CheckWithdrawal,
          LoadActive, LoadLastGood, LoadFrom, StampBundle, Observe, ObserveFails, Restart, Upset,
          Reads
  <2> QED
    BY <1>4, <2>2, <2>3, <2>4, <2>5, DetectorAside DEF TypeOK
<1>5. CASE UNCHANGED vars
  BY <1>5 DEF vars, TypeOK, rootVars, downloaderVars, detectorVars, historyVars, budgetVars
<1> QED
  BY <1>1, <1>2, <1>3, <1>4, <1>5, <1>6, NextCases

LEMMA TypeInit == Init => TypeOK
<1> SUFFICES ASSUME Init PROVE TypeOK
  OBVIOUS
<1> USE ModelSetsAssumption DEF ModelSetsAssumption, Init, MaybeId, Unread
<1>1. pointer \in Pointers
  BY DEF Pointers
<1>2. barred \in BOOLEAN /\ held \in BOOLEAN /\ moved \in BOOLEAN /\ mixed \in BOOLEAN
      /\ blind \in BOOLEAN /\ torn \in BOOLEAN
  BY Zenon
<1> QED
  BY <1>1, <1>2 DEF TypeOK

\* The pointer, the artifact root, both processes and their histories stay in their
\* domains, whatever is published and wherever the downloader dies.
THEOREM TypeCorrect == Spec => []TypeOK
BY TypeInit, TypeStep, PTL DEF Spec

-----------------------------------------------------------------------------
LEMMA SwapInit == Init => SwapInvariant
BY TypeInit DEF Init, SwapInvariant, RecordedIsWhole, Unread

\* One step per change of the artifact root: only ClearOld damages a set, and it is
\* never the recorded one but in a blind poll.
LEMMA SwapStep == SwapInvariant /\ [Next]_vars => SwapInvariant'
<1> SUFFICES ASSUME SwapInvariant, [Next]_vars PROVE SwapInvariant'
  OBVIOUS
<1>t. TypeOK /\ TypeOK'
  BY TypeStep DEF SwapInvariant
<1>n. None \notin Ids
  BY ModelSetsAssumption DEF ModelSetsAssumption
<1>d. disk \in [Ids -> {"absent", "torn", "whole"}] /\ job \in MaybeId /\ lastGood \in MaybeId
      /\ record \in [active : MaybeId, withdrawn : BOOLEAN]
  BY <1>t DEF TypeOK
<1> USE <1>n, <1>d DEF SwapInvariant, MaybeId, RecordedIsWhole
<1>1. CASE Publish
  BY <1>1, <1>t DEF Publish, rootVars, downloaderVars, historyVars
<1>2. ASSUME NEW state \in States, WithState(state) PROVE SwapInvariant'
  <2>1. state \in {record, Unread}
    BY DEF States
  <2>2. CASE RecordWithdrawal(state) \/ WriteBack(state)
    <3>1. UNCHANGED <<disk, pc, job, blind, torn>> /\ pc = "idle"
      BY <2>2 DEF RecordWithdrawal, WriteBack, downloaderVars
    <3>2. state.active \in {record.active, None} /\ state \in [active : MaybeId, withdrawn : BOOLEAN]
      BY <2>1, <1>t, StateType DEF Unread
    <3>3. record'.active = state.active
      BY <2>2, <3>2 DEF RecordWithdrawal, WriteBack
    <3> QED
      BY <3>1, <3>2, <3>3, <1>t
  <2>3. CASE FetchManifest(state)
    <3>1. pointer.id \in Ids
      BY <2>3, <1>t DEF FetchManifest, TypeOK, Pointers
    <3>2. job' \in Ids /\ pc' = Verified(job') /\ UNCHANGED <<disk, record, torn>>
          /\ blind' = (state # record) /\ (state = record => job' # record.active)
      BY <2>3, <3>1 DEF FetchManifest, NewSet, rootVars
    <3>3. pc' \in {"clearing", "moving"} /\ (pc' = "moving" => disk[job'] = "absent")
      BY <3>2 DEF Verified
    <3>4. pc' = "moving" /\ job' = record.active => torn
      BY <3>2, <3>3
    <3>5. blind' \/ job' # record'.active
      BY <3>2
    <3> QED
      BY <1>t, <3>2, <3>3, <3>4, <3>5
  <2>4. CASE KeepPrevious(state)
    BY <2>4, <1>t DEF KeepPrevious
  <2>5. CASE RecordRollback(state)
    <3>1. job \in Ids /\ record'.active = job /\ UNCHANGED <<disk, torn>> /\ pc' = "idle"
          /\ pc = "undoing"
      BY <2>5, <2>1 DEF RecordRollback, Unread
    <3> QED
      BY <3>1, <1>t
  <2> QED
    BY <1>2, <2>2, <2>3, <2>4, <2>5 DEF WithState
<1>4. CASE Die
  BY <1>4, <1>t DEF Die, rootVars
<1>6. CASE ClearOld
  <2>1. job \in Ids /\ (blind \/ job # record.active)
    BY <1>6 DEF ClearOld
  <2>2. UNCHANGED <<record, job, blind>> /\ pc' \in {"clearing", "moving"}
    BY <1>6 DEF ClearOld
  <2>3. torn' <=> torn \/ (blind /\ job = record.active)
    BY <1>6 DEF ClearOld
  <2>4. record.active # None /\ record.active # job => disk'[record.active] = disk[record.active]
    BY <1>6, <2>1 DEF ClearOld
  <2>5. record.active = job => torn'
    BY <2>1, <2>3
  <2> QED
    BY <1>t, <2>1, <2>2, <2>3, <2>4, <2>5
<1>7. CASE MoveIn
  BY <1>7, <1>t DEF MoveIn
<1>9. CASE FlipActive
  BY <1>9, <1>t DEF FlipActive
<1>10. CASE RecordActive
  BY <1>10, <1>t DEF RecordActive
<1>11. CASE Rollback
  <2>1. lastGood \in Ids /\ job' = lastGood /\ pc' = "undoing" /\ UNCHANGED <<disk, record>>
    BY <1>11 DEF Rollback, Resolves
  <2>2. torn' <=> torn \/ disk[lastGood] # "whole"
    BY <1>11 DEF Rollback
  <2> QED
    BY <1>t, <2>1, <2>2
<1>13. CASE DetectorSteps
  BY <1>13, <1>t, DetectorAside
<1>14. CASE UNCHANGED vars
  BY <1>14, <1>t DEF vars, rootVars, downloaderVars, historyVars
<1> QED
  BY <1>1, <1>2, <1>4, <1>6, <1>7, <1>9, <1>10, <1>11, <1>13, <1>14,
     NextCases DEF RootSteps, Install

\* The set state.json calls active is whole on disk through every swap, every death in
\* one and every rollback; the exceptions are a poll that could not read state.json and
\* removed the recorded set, and a rollback onto a half removed one (_read_state,
\* _promote, rollback_to_last_good).
THEOREM RecordedSetWhole == Spec => []RecordedIsWhole
<1>1. SwapInvariant => RecordedIsWhole
  BY DEF SwapInvariant
<1> QED
  BY <1>1, SwapInit, SwapStep, PTL DEF Spec

-----------------------------------------------------------------------------
LEMMA LoadInit == Init => LoadInvariant
BY DEF Init, LoadInvariant

LEMMA LoadStep == TypeOK /\ LoadInvariant /\ [Next]_vars => LoadInvariant'
<1> SUFFICES ASSUME TypeOK, LoadInvariant, [Next]_vars PROVE LoadInvariant'
  OBVIOUS
<1>r. record \in [active : MaybeId, withdrawn : BOOLEAN] /\ barred \in BOOLEAN
  BY DEF TypeOK
<1> USE DEF LoadInvariant
<1>1. CASE Publish
  BY <1>1 DEF Publish, rootVars, detectorVars, historyVars
<1>2. ASSUME NEW state \in States, WithState(state) PROVE LoadInvariant'
  <2>1. state \in [active : MaybeId, withdrawn : BOOLEAN]
    BY StateType
  <2>2. CASE RecordWithdrawal(state)
    <3>1. UNCHANGED <<phase, bundle, stamp, mixed, active, lastGood, moved>>
          /\ barred' /\ (held' <=> held)
      BY <2>2, BesideStep DEF RecordWithdrawal
    <3>2. record'.withdrawn
      BY <2>2, <2>1 DEF RecordWithdrawal
    <3> QED
      BY <3>1, <3>2
  <2>3. CASE WriteBack(state)
    <3>1. UNCHANGED <<phase, bundle, stamp, mixed, active, lastGood, moved>>
          /\ ~barred' /\ ~held'
      BY <2>3, BesideStep DEF WriteBack
    <3> QED
      BY <3>1
  <2>4. CASE FetchManifest(state)
    BY <2>4 DEF FetchManifest, rootVars, detectorVars
  <2>5. CASE KeepPrevious(state)
    <3>1. UNCHANGED <<phase, bundle, stamp, mixed, record, barred>> /\ (held' => held)
      BY <2>5, <1>r, BesideStep DEF KeepPrevious
    <3>2. phase \notin {"idle", "predict"} => moved'
      BY <2>5 DEF KeepPrevious, Moves, Loading
    <3> QED
      BY <3>1, <3>2
  <2>6. CASE RecordRollback(state)
    <3>1. (barred /\ state = record) \in BOOLEAN
      OBVIOUS
    <3>2. UNCHANGED <<phase, bundle, stamp, mixed, active, lastGood, moved>>
          /\ (barred' <=> barred /\ state = record) /\ (held' <=> held /\ barred')
      BY <2>6, <3>1, BesideStep DEF RecordRollback
    <3>3. barred' => record'.withdrawn
      BY <2>6, <1>r, <3>2 DEF RecordRollback
    <3> QED
      BY <3>2, <3>3
  <2> QED
    BY <1>2, <2>2, <2>3, <2>4, <2>5, <2>6 DEF WithState
<1>3. CASE Die
  BY <1>3 DEF Die, rootVars, detectorVars
<1>4. CASE ClearOld \/ MoveIn \/ FlipActive \/ Rollback
  <2>1. UNCHANGED <<phase, bundle, stamp, mixed, record, barred>> /\ (held' => held)
    BY <1>4, <1>r, BesideStep DEF ClearOld, MoveIn, FlipActive, Rollback
  <2>2. phase \notin {"idle", "predict"} => moved'
    BY <1>4 DEF ClearOld, MoveIn, FlipActive, Rollback, Moves, Loading
  <2> QED
    BY <2>1, <2>2
<1>5. CASE RecordActive
  <2>1. UNCHANGED <<phase, bundle, stamp, mixed, active, lastGood, moved>> /\ ~barred' /\ ~held'
    BY <1>5, BesideStep DEF RecordActive
  <2> QED
    BY <2>1
<1>6. CASE DetectorSteps
  <2>a. UNCHANGED <<active, lastGood, record, barred>>
    BY <1>6, DetectorAside
  <2>1. CASE ServeCached \/ Observe \/ ObserveFails
    BY <2>1, <2>a DEF ServeCached, Observe, ObserveFails
  <2>2. CASE StartLoad
    BY <2>2, <2>a DEF StartLoad
  <2>3. ASSUME NEW state \in States, CheckWithdrawal(state) PROVE LoadInvariant'
    <3>1. CASE Refused(state)
      BY <2>3, <2>a, <3>1 DEF CheckWithdrawal
    <3>2. CASE ~Refused(state)
      <4>1. phase' = "active" /\ UNCHANGED <<bundle, stamp, mixed>> /\ phase = "check"
            /\ (held' <=> held /\ state = record)
        BY <2>3, <3>2 DEF CheckWithdrawal
      <4>2. ~held'
        BY <4>1, <3>2 DEF Refused
      <4> QED
        BY <4>1, <4>2, <2>a
    <3> QED
      BY <3>1, <3>2
  <2>4. CASE LoadActive \/ LoadLastGood
    BY <2>4, <2>a DEF LoadActive, LoadLastGood, LoadFrom
  <2>5. CASE StampBundle
    BY <2>5, <2>a DEF StampBundle, Stamped
  <2>6. CASE Restart
    BY <2>6, <2>a DEF Restart
  <2> QED
    BY <1>6, <2>1, <2>2, <2>3, <2>4, <2>5, <2>6 DEF DetectorSteps, Detect, Load
<1>7. CASE UNCHANGED vars
  BY <1>7 DEF vars, rootVars, detectorVars, historyVars
<1> QED
  BY <1>1, <1>2, <1>3, <1>4, <1>5, <1>6, <1>7, NextCases DEF RootSteps, Install

LEMMA LoadInvariantHolds == Spec => [](TypeOK /\ LoadInvariant)
BY TypeInit, TypeStep, LoadInit, LoadStep, PTL DEF Spec

\* An observation carries the id of the set its bundle was read from, unless the links
\* or the sets moved under the load (load_bundle, _model_set_id).
THEOREM StampsHonest == Spec => []StampHonest
<1>1. LoadInvariant => StampHonest
  BY DEF LoadInvariant, StampHonest
<1> QED
  BY <1>1, LoadInvariantHolds, PTL

\* No load that begins after a recorded withdrawal and before the next activation brings
\* a bundle in, through active or through last_good, but through a read of state.json
\* that failed, its own or the downloader's (load_bundle, _withdrawal, _read_state).
THEOREM WithdrawnStaysOut == Spec => WithdrawnNeverReloaded
<1>1. LoadInvariant /\ [Next]_vars => [bundle' \notin {None, bundle} => ~held]_vars
  <2> SUFFICES ASSUME LoadInvariant, Next, bundle' \notin {None, bundle} PROVE ~held
    OBVIOUS
  <2>1. LoadActive \/ LoadLastGood
    <3>1. DetectorSteps
      BY NextCases DEF Publish, WithState, FetchManifest, Die, RecordWithdrawal, WriteBack,
         RootSteps, Install, ClearOld, MoveIn, KeepPrevious, FlipActive, RecordActive,
         Rollback, RecordRollback, Beside, detectorVars
    <3> QED
      BY <3>1 DEF DetectorSteps, Detect, Load, ServeCached, StartLoad, CheckWithdrawal,
         StampBundle, Observe, ObserveFails, Restart
  <2> QED
    BY <2>1 DEF LoadActive, LoadLastGood, LoadFrom, LoadInvariant
<1> QED
  BY <1>1, LoadInvariantHolds, PTL DEF Spec, WithdrawnNeverReloaded
=============================================================================
