----------------------------- MODULE ModelSets -----------------------------
(***************************************************************************)
(* The model sets of the regime detector: the publisher's pointer, the     *)
(* downloader that verifies a set and swaps it in (artifact_sync/          *)
(* downloader.py), and the detector that keeps a bundle of it in memory    *)
(* (artifact_sync/live_regime.py, driven by regime_scheduler.py).  The two *)
(* are processes of their own and share the artifact root: the directories *)
(* of the sets, the links active and last_good, and state.json.            *)
(*                                                                         *)
(* A step is one change of the artifact root or one read of it, so the     *)
(* detector may load between any two steps of a swap and the downloader    *)
(* may die between them; an I/O error that escapes poll_once leaves the    *)
(* root as a death at that point does.  A read of state.json may fail, by  *)
(* either process: the downloader then goes on from an empty state, and    *)
(* the detector without a withdrawal.  rollback_to_last_good is a method   *)
(* of the same object as poll_once, and runs between two polls.            *)
(***************************************************************************)
EXTENDS Naturals

CONSTANTS
  Ids,           \* the model set ids the publisher may name
  Unloadable,    \* the sets whose regime bundle fails the detector's contract
  None,          \* no set
  MaxPublishes,  \* changes of the publisher's pointer (bounds the model)
  MaxUpsets      \* deaths, rollbacks, detector restarts, failing reads of state.json (bounds the model)

ASSUME ModelSetsAssumption ==
  /\ Unloadable \subseteq Ids
  /\ None \notin Ids
  /\ MaxPublishes \in Nat
  /\ MaxUpsets \in Nat

VARIABLES
  pointer,    \* latest.json: a set, a withdrawal, or nothing that can be read yet
  disk,       \* sets/<id>: absent, being removed, or whole (verified)
  active,     \* the link active: the set it points at
  lastGood,   \* the link last_good
  record,     \* state.json: the set it calls active, and the withdrawal flag
  pc,         \* the downloader: where it stands in a poll or a rollback
  job,        \* the downloader: the set it is swapping in
  phase,      \* the detector: where it stands in detect()
  bundle,     \* the set the bundle in memory was read from
  stamp,      \* _bundle_set_id: the set it is said to be from
  seen,       \* _seen_set_id: the set last observed on disk
  shown,      \* _last_obs: the set an observation was made with, and its stamp
  barred,     \* a withdrawal was recorded: no set activated, no state lost since (history)
  held,       \* barred since the load in progress began, and the load read it (history)
  moved,      \* the root moved under the last load, or it saw a half removed set (history)
  mixed,      \* it moved under the load the bundle is from (history)
  blind,      \* the poll in progress could not read which set is active (history)
  torn,       \* a blind poll removed the recorded set, or a rollback took a half removed
              \* one, and no set has been activated since (history)
  publishes, upsets

rootVars == <<disk, active, lastGood, record>>
downloaderVars == <<pc, job>>
detectorVars == <<phase, bundle, stamp, seen, shown>>
historyVars == <<barred, held, moved, mixed, blind, torn>>
budgetVars == <<publishes, upsets>>
vars == <<pointer, rootVars, downloaderVars, detectorVars, historyVars,
          budgetVars>>

-----------------------------------------------------------------------------
MaybeId == Ids \cup {None}
Pointers == [kind : {"set"}, id : Ids] \cup [kind : {"withdrawn", "unreadable"}, id : {None}]
Swapping == {"clearing", "moving", "keeping", "flipping", "recording"}

TypeOK ==
  /\ pointer \in Pointers
  /\ disk \in [Ids -> {"absent", "torn", "whole"}]
  /\ active \in MaybeId /\ lastGood \in MaybeId
  /\ record \in [active : MaybeId, withdrawn : BOOLEAN]
  /\ pc \in {"idle", "undoing"} \cup Swapping
  /\ job \in MaybeId
  /\ phase \in {"idle", "check", "active", "stampActive", "good", "stampGood", "predict"}
  /\ bundle \in MaybeId /\ stamp \in MaybeId /\ seen \in MaybeId
  /\ shown \in [set : MaybeId, stamp : MaybeId]
  /\ {barred, held, moved, mixed, blind, torn} \subseteq BOOLEAN
  /\ publishes \in 0..MaxPublishes /\ upsets \in 0..MaxUpsets

\* _read_state: {} when there is no state.json, or when reading it fails.
Unread == [active |-> None, withdrawn |-> FALSE]

Init ==
  /\ pointer = [kind |-> "unreadable", id |-> None]
  /\ disk = [s \in Ids |-> "absent"]
  /\ active = None /\ lastGood = None
  /\ record = Unread
  /\ pc = "idle" /\ job = None
  /\ phase = "idle" /\ bundle = None /\ stamp = None /\ seen = None
  /\ shown = [set |-> None, stamp |-> None]
  /\ barred = FALSE /\ held = FALSE /\ moved = FALSE /\ mixed = FALSE
  /\ blind = FALSE /\ torn = FALSE
  /\ publishes = 0 /\ upsets = 0

Loading == phase \notin {"idle", "predict"}
\* link.exists(): the link is there and what it points at is too.
Resolves(link) == link # None /\ disk[link] # "absent"
HalfRemoved(link) == link # None /\ disk[link] = "torn"
Upset == upsets < MaxUpsets /\ upsets' = upsets + 1
Reads(state) == IF state = record THEN UNCHANGED upsets ELSE Upset

-----------------------------------------------------------------------------
\* The publisher names another set, or withdraws.  (A text damaged later on is a fetch
\* that fails: see WriteBack.)
Publish ==
  /\ publishes < MaxPublishes /\ publishes' = publishes + 1
  /\ pointer' \in Pointers \ {pointer} /\ pointer'.kind # "unreadable"
  /\ UNCHANGED <<rootVars, downloaderVars, detectorVars, historyVars, upsets>>

\* Every step of the downloader that touches the root, seen from the load in progress.
Beside(bar) ==
  /\ barred' = bar /\ held' = (held /\ bar)
  /\ UNCHANGED <<pointer, detectorVars, mixed, publishes>>
Moves == moved' = (moved \/ Loading)

\* poll_once: a withdrawal is an instruction, recorded at every poll that finds it.
\* The links stay where they are.
RecordWithdrawal(state) ==
  /\ pc = "idle" /\ pointer.kind = "withdrawn"
  /\ record' = [state EXCEPT !.withdrawn = TRUE] /\ record' # record
  /\ Beside(TRUE)
  /\ UNCHANGED <<disk, active, lastGood, downloaderVars, moved, blind, torn>>

\* A fetch that fails, for a damaged pointer or the storage, and a poll that finds no
\* change write back the state they read: a state they could not read is lost.
WriteBack(state) ==
  /\ pc = "idle" /\ state # record
  /\ record' = state
  /\ Beside(FALSE)
  /\ UNCHANGED <<disk, active, lastGood, downloaderVars, moved, blind, torn>>

\* The manifest names a set that the state, as read, does not call active: it is
\* downloaded beside the sets and every checksum is verified.  A download that fails is
\* discarded, which changes nothing: it is no step, and the next poll tries again.
NewSet_Differs(id, state) == id # active
NewSet(id, state) == id # state.active
Verified(id) == IF disk[id] = "absent" THEN "moving" ELSE "clearing"
FetchManifest(state) ==
  /\ pc = "idle" /\ pointer.kind = "set" /\ NewSet(pointer.id, state)
  /\ pc' = Verified(pointer.id) /\ job' = pointer.id
  /\ blind' = (state # record)
  /\ UNCHANGED <<pointer, rootVars, detectorVars, barred, held, moved, mixed, torn, publishes>>

\* _promote.  A directory under the set's id is removed first, file by file.
ClearOld ==
  /\ pc = "clearing"
  /\ IF disk[job] = "whole"
     THEN disk' = [disk EXCEPT ![job] = "torn"] /\ pc' = pc
     ELSE disk' = [disk EXCEPT ![job] = "absent"] /\ pc' = "moving"
  /\ torn' = (torn \/ (blind /\ job = record.active))
  /\ Beside(barred) /\ Moves
  /\ UNCHANGED <<active, lastGood, record, job, blind, upsets>>

MoveIn ==
  /\ pc = "moving" /\ pc' = "keeping"
  /\ disk' = [disk EXCEPT ![job] = "whole"]
  /\ Beside(barred) /\ Moves
  /\ UNCHANGED <<active, lastGood, record, job, blind, torn, upsets>>

\* last_good becomes what state.json calls active, if it can be read, then active flips.
KeepPrevious(state) ==
  /\ pc = "keeping" /\ pc' = "flipping"
  /\ lastGood' = IF state.active \in {None, job} THEN lastGood ELSE state.active
  /\ Beside(barred) /\ Moves
  /\ UNCHANGED <<disk, active, record, job, blind, torn>>

FlipActive ==
  /\ pc = "flipping" /\ pc' = "recording"
  /\ active' = job
  /\ Beside(barred) /\ Moves
  /\ UNCHANGED <<disk, lastGood, record, job, blind, torn, upsets>>

\* state.json is written whole: a withdrawal is superseded.
RecordActive ==
  /\ pc = "recording" /\ pc' = "idle" /\ job' = None
  /\ record' = [active |-> job, withdrawn |-> FALSE]
  /\ blind' = FALSE /\ torn' = FALSE
  /\ Beside(FALSE)
  /\ UNCHANGED <<disk, active, lastGood, moved, upsets>>

\* rollback_to_last_good: the link, then state.json, which keeps a withdrawal it can read.
Rollback ==
  /\ pc = "idle" /\ Resolves(lastGood) /\ Upset
  /\ active' = lastGood /\ pc' = "undoing" /\ job' = lastGood
  /\ torn' = (torn \/ disk[lastGood] # "whole")
  /\ Beside(barred) /\ Moves
  /\ UNCHANGED <<disk, lastGood, record, blind>>
RecordRollback(state) ==
  /\ pc = "undoing" /\ pc' = "idle" /\ job' = None
  /\ record' = [state EXCEPT !.active = job]
  /\ Beside(barred /\ state = record)
  /\ UNCHANGED <<disk, active, lastGood, moved, blind, torn>>

\* A step of the downloader that reads state.json, and may fail to.
WithState(state) ==
  /\ Reads(state)
  /\ \/ RecordWithdrawal(state) \/ WriteBack(state) \/ FetchManifest(state)
     \/ KeepPrevious(state) \/ RecordRollback(state)

\* The downloader dies, or an I/O error escapes to run_forever.
Die ==
  /\ pc # "idle" /\ Upset
  /\ pc' = "idle" /\ job' = None /\ blind' = FALSE
  /\ UNCHANGED <<pointer, rootVars, detectorVars, barred, held, moved, mixed, torn, publishes>>

-----------------------------------------------------------------------------
\* The detector's steps leave the root and the downloader alone.
Aside == UNCHANGED <<pointer, rootVars, downloaderVars, barred, blind, torn, publishes>>

\* _on_disk_set_id: active's target if it is there, else last_good's.
OnDisk ==
  IF Resolves(active) THEN active ELSE IF Resolves(lastGood) THEN lastGood ELSE None

\* load_bundle: the bundle in memory serves as long as the set seen on disk is the
\* one seen at the last load.
Cached_Any == bundle # None
Cached == bundle # None /\ OnDisk \in {None, seen}
ServeCached ==
  /\ phase = "idle" /\ Cached
  /\ phase' = "predict"
  /\ Aside /\ UNCHANGED <<bundle, stamp, seen, shown, held, moved, mixed, upsets>>
StartLoad ==
  /\ phase = "idle" /\ ~Cached
  /\ phase' = "check" /\ seen' = OnDisk
  /\ held' = barred /\ moved' = HalfRemoved(OnDisk)
  /\ Aside /\ UNCHANGED <<bundle, stamp, shown, mixed, upsets>>

\* _withdrawal: a withdrawn set is refused before active and last_good are tried.  A
\* state.json that cannot be read is no withdrawal.
Refused_Never(state) == FALSE
Refused(state) == state.withdrawn
CheckWithdrawal(state) ==
  /\ phase = "check" /\ Reads(state)
  /\ IF Refused(state)
     THEN phase' = "idle" /\ bundle' = None
          /\ held' = FALSE /\ moved' = FALSE /\ mixed' = FALSE
     ELSE phase' = "active" /\ bundle' = bundle
          /\ held' = (held /\ state = record) /\ UNCHANGED <<moved, mixed>>
  /\ Aside /\ UNCHANGED <<stamp, seen, shown>>

\* A bundle is read through the link if its file is there (it may still be in a set
\* that is being removed) and its contract can be met.
Loads(link) == Resolves(link) /\ link \notin Unloadable
CannotLoad(link) == Resolves(link) => disk[link] = "torn" \/ link \in Unloadable
LoadFrom(link, here, then, otherwise) ==
  /\ phase = here
  /\ \/ Loads(link) /\ bundle' = link /\ phase' = then
     \/ CannotLoad(link) /\ bundle' = bundle /\ phase' = otherwise
  /\ Aside /\ UNCHANGED <<stamp, seen, shown, held, moved, mixed, upsets>>
LoadActive == LoadFrom(active, "active", "stampActive", "good")
LoadLastGood == LoadFrom(lastGood, "good", "stampGood", "idle")

\* The stamp is what the link points at once the bundle has been read.
Stamped_Seen(link) == seen
Stamped_Name(link) == IF link = active THEN "active" ELSE "last_good"
Stamped(link) == link
StampBundle ==
  /\ phase \in {"stampActive", "stampGood"} /\ phase' = "predict"
  /\ stamp' = Stamped(IF phase = "stampActive" THEN active ELSE lastGood)
  /\ mixed' = moved
  /\ Aside /\ UNCHANGED <<bundle, seen, shown, held, moved, upsets>>

\* detect: an observation is made and kept.  With no candles, a short history, no
\* model for the granularity or an inference that raises, the one before is kept.
Observe ==
  /\ phase = "predict" /\ phase' = "idle"
  /\ shown' = [set |-> bundle, stamp |-> stamp]
  /\ Aside /\ UNCHANGED <<bundle, stamp, seen, held, moved, mixed, upsets>>
ObserveFails ==
  /\ phase = "predict" /\ phase' = "idle"
  /\ Aside /\ UNCHANGED <<bundle, stamp, seen, shown, held, moved, mixed, upsets>>

\* The engine's process restarts, and the detector with it.
Restart ==
  /\ Upset
  /\ phase' = "idle" /\ bundle' = None /\ stamp' = None /\ seen' = None
  /\ shown' = [set |-> None, stamp |-> None]
  /\ held' = FALSE /\ moved' = FALSE /\ mixed' = FALSE
  /\ Aside

-----------------------------------------------------------------------------
States == {record, Unread}
Install == ClearOld \/ MoveIn \/ FlipActive \/ RecordActive
Poll == \E state \in States : WithState(state)
Load == StartLoad \/ (\E state \in States : CheckWithdrawal(state))
        \/ LoadActive \/ LoadLastGood \/ StampBundle
Detect == ServeCached \/ Load \/ Observe

Next ==
  \/ Publish
  \/ Poll \/ Install
  \/ Rollback \/ Die
  \/ Detect \/ ObserveFails \/ Restart

\* Both loops go on; reading state.json, a download and an observation, tried again and
\* again, succeed.
Fairness ==
  /\ WF_vars(WithState(record) \/ Install)
  /\ SF_vars(Observe)
  /\ WF_vars(Detect)

Spec == Init /\ [][Next]_vars /\ Fairness

-----------------------------------------------------------------------------
\* The set state.json calls active is whole on disk, through every swap and every
\* death in one: a swap only removes a set that is not recorded.  Hence as long as
\* the link agrees with the record there is a whole set to serve.  Two things break
\* it, until the next set is activated: a poll that could not read state.json, took
\* the recorded set for new and removed it, and a rollback onto a set that a death
\* had left half removed.
RecordedIsWhole == record.active # None /\ ~torn => disk[record.active] = "whole"

\* An observation is stamped with the set its bundle came from, unless the links or
\* the sets moved between the load's first read of the disk and its stamp.
StampHonest == phase \in {"idle", "predict"} /\ bundle # stamp /\ bundle # None => mixed

\* From a recorded withdrawal until the next set is activated, through rollbacks and
\* deaths, no load that begins brings a bundle in, not even through last_good: a
\* withdrawn set is served only by a detector that had it, or was reading it, before.
\* A failing read of state.json is the only way round, for the load by its own check
\* and for the downloader, which writes back what it could not read without the flag.
WithdrawnNeverReloaded == [][bundle' \notin {None, bundle} => ~held]_vars

\* Where the published set is not taken up: state.json names it, so that no poll goes
\* for it, though active does not (a death inside a rollback or a swap), or it was
\* withdrawn under this very id, or it was half removed by a blind poll that died;
\* or the detector settled on what it could read while the root moved under its load
\* or the set it saw was half removed.
NotTakenUp ==
  \/ /\ record.active = pointer.id
     /\ active # pointer.id \/ record.withdrawn \/ torn
  \/ moved

\* A published set that can be loaded is served in the end, whatever the deaths,
\* rollbacks and failing downloads before; but for the cases of NotTakenUp.
PublishedIsServed ==
  <>[](pointer.kind = "set" /\ pointer.id \notin Unloadable =>
         shown = [set |-> pointer.id, stamp |-> pointer.id] \/ NotTakenUp)
=============================================================================
