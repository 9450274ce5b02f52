------------------------- MODULE CloseTrackingProofs -------------------------
(***************************************************************************)
(* Proofs about CloseTracking: its types, what a persisted close event, a  *)
(* ledger mark and a delivered row vouch for, when a trade may go silent,  *)
(* when a close may be announced twice, which transaction it names and     *)
(* when it may lose its identity, and that System 3's view refines         *)
(* CloseJournal.  The argument: the broker's transactions, the outbox's    *)
(* messages, the ledger and what System 3 heard only grow (Growth), so     *)
(* what an actor has established before a call still holds after it        *)
(* (Calls).                                                                *)
(***************************************************************************)
EXTENDS CloseTracking, FiniteSetTheorems, WellFoundedInduction, TLAPS

\* A nonempty set of transaction numbers has a last one.
LEMMA Largest ==
  ASSUME NEW n \in Nat, NEW S, S \subseteq 0..n, S # {}
  PROVE  Max(S) \in S /\ \A x \in S : Max(S) >= x
<1> DEFINE Above(x) == {y \in S : x < y}
           Family == {Above(x) : x \in S}
<1>1. IsFiniteSet(S)
  <2>1. IsFiniteSet(0..n)
    BY FS_Interval
  <2> QED
    BY <2>1, FS_Subset
<1>2. IsWellFoundedOn(StrictSubsetOrdering(S), SUBSET S)
  BY <1>1, FS_StrictSubsetOrderingWellFounded, FS_FiniteSubsetsOfFinite
<1>3. Family \subseteq SUBSET S /\ Family # {}
  OBVIOUS
<1> HIDE DEF Family
<1>4. PICK least \in Family : \A f \in Family : <<f, least>> \notin StrictSubsetOrdering(S)
  BY <1>2, <1>3, WFMin
<1>5. PICK x \in S : least = Above(x)
  BY <1>4 DEF Family
<1>6. \A y \in S : x >= y
  <2> SUFFICES ASSUME NEW y \in S, x < y PROVE FALSE
    OBVIOUS
  <2>1. Above(y) \in Family
    BY DEF Family
  <2>2. Above(y) \subseteq Above(x) /\ Above(y) # Above(x) /\ Above(x) \subseteq S
    <3>1. y \in Above(x) /\ y \notin Above(y)
      OBVIOUS
    <3>2. \A z \in S : y < z => x < z
      OBVIOUS
    <3> QED
      BY <3>1, <3>2
  <2>3. <<Above(y), Above(x)>> \in StrictSubsetOrdering(S)
    BY <2>2 DEF StrictSubsetOrdering
  <2> QED
    BY <1>4, <1>5, <2>1, <2>3
<1> QED
  BY <1>5, <1>6 DEF Max

-----------------------------------------------------------------------------
\* The transactions that say a trade closed, and what may be named as its close.

\* Every transaction but an opening belongs to a trade opened before, and an opening
\* gives the trade its number.
StreamOK ==
  /\ stream \in Seq(Txn) /\ Len(stream) <= MaxTxns
  /\ \A n \in DOMAIN stream :
       IF stream[n].kind = "open" THEN stream[n].trade = n ELSE Opened(stream[n].trade)

LEMMA LastClosingIsTxn ==
  ASSUME StreamOK, NEW t \in Trades, ClosedAtBroker(t)
  PROVE  LastClosing(t) \in 1..MaxTxns
<1>1. Closings(t) # {} /\ Closings(t) \subseteq 1..Len(stream) /\ Len(stream) \in Nat
  BY DEF ClosedAtBroker, Closings, StreamOK
<1>2. Closings(t) \subseteq 0..Len(stream)
  BY <1>1
<1>3. Max(Closings(t)) \in Closings(t)
  BY <1>1, <1>2, Largest
<1> QED
  BY <1>1, <1>3, CloseAssumption DEF LastClosing, StreamOK

LEMMA LocatedIsTxn ==
  ASSUME StreamOK, NEW t \in Trades, Located(t) # NoTxn
  PROVE  Located(t) \in Closings(t) /\ Located(t) \in 1..MaxTxns
<1> DEFINE found == {n \in Closings(t) : n <= LastRead(t, Len(stream))}
<1>1. found # {} /\ Located(t) = Max(found)
  BY DEF Located
<1>2. found \subseteq 1..Len(stream) /\ Len(stream) \in Nat
  BY DEF Closings, StreamOK
<1>3. found \subseteq 0..Len(stream)
  BY <1>2
<1>4. Max(found) \in found
  <2> HIDE DEF found
  <2> QED
    BY <1>1, <1>2, <1>3, Largest
<1> QED
  BY <1>1, <1>2, <1>4, CloseAssumption DEF StreamOK

-----------------------------------------------------------------------------
\* Types.

LEMMA BooksStream ==
  ASSUME StreamOK, NEW kind \in {"open", "part", "close"}, NEW t \in Trades, Books(kind, t),
         kind = "open" => t = Len(stream) + 1,
         kind # "open" => Opened(t)
  PROVE  /\ StreamOK'
         /\ stream' = Append(stream, [kind |-> kind, trade |-> t])
<1> DEFINE x == [kind |-> kind, trade |-> t]
<1>1. x \in Txn /\ stream' = Append(stream, x) /\ Len(stream) < MaxTxns /\ stream \in Seq(Txn)
  BY DEF Txn, Books, StreamOK
<1>2. /\ stream' \in Seq(Txn) /\ Len(stream') = Len(stream) + 1
      /\ DOMAIN stream' = 1..(Len(stream) + 1)
      /\ stream'[Len(stream) + 1] = x
      /\ \A n \in DOMAIN stream : n \in DOMAIN stream' /\ stream'[n] = stream[n]
  BY <1>1
<1>3. Len(stream') <= MaxTxns
  BY <1>1, <1>2, CloseAssumption DEF StreamOK
<1>4. \A n \in DOMAIN stream' : n \in DOMAIN stream \/ n = Len(stream) + 1
  BY <1>1, <1>2
<1>5. ASSUME NEW n \in DOMAIN stream'
      PROVE  IF stream'[n].kind = "open" THEN stream'[n].trade = n
             ELSE stream'[n].trade \in DOMAIN stream' /\ stream'[stream'[n].trade].kind = "open"
  <2>1. CASE n \in DOMAIN stream
    BY <1>2, <2>1 DEF StreamOK, Opened
  <2>2. CASE n = Len(stream) + 1
    BY <1>2, <2>2 DEF Opened
  <2> QED
    BY <1>4, <2>1, <2>2
<1> QED
  BY <1>1, <1>2, <1>3, <1>5 DEF StreamOK, Opened

LEMMA Alphabet ==
  /\ {"down", "idle", "answered", "persist", "register", "list", "each", "emit", "unseen",
      "mark", "flush", "acking", "emitted", "stop", "flatten", "exit"} \subseteq Points
  /\ "engine" \in Actors /\ "backfill" \in Actors
  /\ Untracked \in Record /\ Tracked(TRUE) \in Record /\ Tracked(FALSE) \in Record
  /\ NoJob \in Job /\ NoJob.txn = NoTxn /\ NoTxn \in 0..MaxTxns
BY CloseAssumption
   DEF Points, Actors, Untracked, Tracked, Record, NoJob, Job, Trades, NoTxn

LEMMA MessageTypes ==
  /\ \A t \in Trades : [msg |-> FillOf(t), done |-> FALSE] \in Row
  /\ \A j \in Job : [msg |-> CloseOf(j), done |-> FALSE] \in Row
BY CloseAssumption DEF FillOf, CloseOf, Row, Message, Topics, Job, NoTxn

\* What startup_reconcile makes of the open list and of the confirmations it can read.
LEMMA AdoptedIs ==
  ASSUME Startup
  PROVE  \E listed \in OpenLists, lost \in SUBSET Trades :
           /\ managed' = [t \in Trades |->
                           IF t \in listed THEN Tracked(FillPersisted(t) /\ t \notin lost)
                           ELSE Untracked]
           /\ IF lost = {} THEN UNCHANGED upsets ELSE Upset
           /\ unread' = unread \cup lost
<1>1. PICK listed \in OpenLists :
        \E lost \in SUBSET {t \in listed : FillPersisted(t)} :
          /\ managed' = [t \in Trades |->
                          IF t \in listed THEN Tracked(FillPersisted(t) /\ t \notin lost)
                          ELSE Untracked]
          /\ IF lost = {} THEN UNCHANGED upsets ELSE Upset
          /\ unread' = unread \cup lost
  BY DEF Startup
<1>2. SUBSET {t \in listed : FillPersisted(t)} \subseteq SUBSET Trades
  BY DEF OpenLists
<1> QED
  BY <1>1, <1>2

\* What the backfill emits: the last closing, or one it asked the transactions for.
LEMMA BackfillEmits ==
  ASSUME StreamOK, Backfill
  PROVE  \E t \in Trades, n \in 1..MaxTxns :
           /\ \/ n = LastClosing(t) /\ ClosedAtBroker(t) /\ UNCHANGED hasty
              \/ n = Located(t) /\ Located(t) # NoTxn /\ Asked(t)
           /\ GoEmit("backfill", [trade |-> t, txn |-> n, known |-> TRUE], "idle")
<1>1. PICK t \in Trades :
        \/ /\ ClosedAtBroker(t) /\ UNCHANGED hasty
           /\ GoEmit("backfill", [trade |-> t, txn |-> LastClosing(t), known |-> TRUE], "idle")
        \/ /\ Located(t) # NoTxn /\ Asked(t)
           /\ GoEmit("backfill", [trade |-> t, txn |-> Located(t), known |-> TRUE], "idle")
  BY DEF Backfill
<1>2. ClosedAtBroker(t) => LastClosing(t) \in 1..MaxTxns
  BY LastClosingIsTxn
<1>3. Located(t) # NoTxn => Located(t) \in 1..MaxTxns
  BY LocatedIsTxn
<1>4. CASE /\ ClosedAtBroker(t) /\ UNCHANGED hasty
           /\ GoEmit("backfill", [trade |-> t, txn |-> LastClosing(t), known |-> TRUE], "idle")
  BY <1>2, <1>4
<1>5. CASE /\ Located(t) # NoTxn /\ Asked(t)
           /\ GoEmit("backfill", [trade |-> t, txn |-> Located(t), known |-> TRUE], "idle")
  BY <1>3, <1>5
<1> QED
  BY <1>1, <1>4, <1>5

TypeInv == TypeOK /\ StreamOK

LEMMA InitTypes == Init => TypeInv
BY CloseAssumption, Alphabet DEF Init, TypeInv, TypeOK, StreamOK

LEMMA NextTypes == TypeInv /\ [Next]_vars => TypeInv'
<1> SUFFICES ASSUME TypeInv, [Next]_vars PROVE TypeInv'
  OBVIOUS
<1> USE CloseAssumption, Alphabet DEF TypeInv, storeVars, memoryVars, callVars, histVars, brokerVars
<1>1. CASE UNCHANGED vars
  BY <1>1 DEF vars, TypeOK, StreamOK, Opened
<1>2. CASE BrokerActs
  <2>1. PICK t \in Trades, kind \in {"part", "close"} :
          /\ OpenAtBroker(t) /\ Books(kind, t)
          /\ UNCHANGED <<storeVars, memoryVars, callVars, histVars, upsets>>
    BY <1>2 DEF BrokerActs
  <2>2. StreamOK'
    BY <2>1, BooksStream DEF OpenAtBroker
  <2> QED
    BY <2>1, <2>2 DEF TypeOK, StreamOK
<1>3. CASE Filled
  <2>1. Len(stream) \in Nat /\ Len(stream) < MaxTxns
    BY <1>3 DEF Filled, Books, StreamOK
  <2>2. Len(stream) + 1 \in Trades
    BY <2>1 DEF Trades
  <2>3. StreamOK'
    BY <1>3, <2>2, BooksStream DEF Filled
  <2>4. job' \in [Actors -> Job]
    BY <1>3, <2>2 DEF Filled, TypeOK, Job, NoJob
  <2> QED
    BY <1>3, <2>3, <2>4 DEF Filled, Go, TypeOK, StreamOK
<1>4. CASE \/ Startup \/ Crash \/ Redelivered \/ FillRaises \/ StartSweep \/ ListOpenTrades
           \/ ListFails \/ SweepEnds \/ Stop \/ EmitStopped \/ Exit
  <2>1. StreamOK'
    BY <1>4 DEF Startup, Crash, Redelivered, FillRaises, StartSweep, ListOpenTrades, ListFails,
         SweepEnds, Stop, EmitStopped, Exit, StreamOK, Opened
  <2>2. CASE Startup
    <3>1. PICK listed \in OpenLists, lost \in SUBSET Trades :
            /\ managed' = [t \in Trades |->
                            IF t \in listed THEN Tracked(FillPersisted(t) /\ t \notin lost)
                            ELSE Untracked]
            /\ IF lost = {} THEN UNCHANGED upsets ELSE Upset
            /\ unread' = unread \cup lost
      BY <2>2, AdoptedIs
    <3>2. \A known \in BOOLEAN : Tracked(known) \in Record
      BY DEF Tracked, Record
    <3>3. managed' \in [Trades -> Record]
      BY <3>1, <3>2 DEF FillPersisted
    <3>4. upsets' \in 0..MaxUpsets /\ unread' \subseteq Trades
      BY <3>1 DEF Upset, TypeOK
    <3> QED
      BY <2>1, <2>2, <3>3, <3>4 DEF Startup, Go, TypeOK
  <2>3. CASE Crash
    BY <2>1, <2>3 DEF Crash, Forget, Upset, Torn, TypeOK, Job
  <2>4. CASE Redelivered
    <3>1. PICK t \in Trades : job' = [job EXCEPT !["engine"] = [NoJob EXCEPT !.trade = t]]
      BY <2>4 DEF Redelivered
    <3>2. job' \in [Actors -> Job]
      BY <3>1 DEF TypeOK, Job, NoJob
    <3> QED
      BY <2>1, <2>4, <3>2 DEF Redelivered, Go, TypeOK
  <2>5. CASE FillRaises
    BY <2>1, <2>5 DEF FillRaises, Resume, Upset, TypeOK
  <2>6. CASE StartSweep
    BY <2>1, <2>6 DEF StartSweep, GoFlush, TypeOK
  <2>7. CASE ListOpenTrades
    BY <2>1, <2>7 DEF ListOpenTrades, Watched, Go, TypeOK
  <2>8. CASE ListFails
    BY <2>1, <2>8 DEF ListFails, Go, TypeOK
  <2>9. CASE SweepEnds
    BY <2>1, <2>9 DEF SweepEnds, Go, TypeOK
  <2>10. CASE Stop
    BY <2>1, <2>10 DEF Stop, Watched, GoFlush, TypeOK
  <2>11. CASE EmitStopped
    BY <2>1, <2>11 DEF EmitStopped, GoFlush, TypeOK
  <2>12. CASE Exit
    BY <2>1, <2>12 DEF Exit, Forget, TypeOK
  <2> QED
    BY <1>4, <2>2, <2>3, <2>4, <2>5, <2>6, <2>7, <2>8, <2>9, <2>10, <2>11, <2>12
<1>5. CASE FillSteps \/ MarkClosed \/ Backfill
  <2>1. StreamOK'
    BY <1>5 DEF FillSteps, MarkProcessed, PersistFill, Register, MarkClosed, Backfill,
         StreamOK, Opened
  <2>2. CASE MarkProcessed
    BY <2>1, <2>2 DEF MarkProcessed, Go, TypeOK, Job
  <2>3. CASE PersistFill
    BY <2>1, <2>3, MessageTypes DEF PersistFill, GoFlush, TypeOK, Job
  <2>4. CASE Register
    BY <2>1, <2>4 DEF Register, Resume, TypeOK, Job
  <2>5. CASE MarkClosed
    BY <2>1, <2>5 DEF MarkClosed, Resume, TypeOK, Record
  <2>6. CASE Backfill
    <3>1. PICK t \in Trades, n \in 1..MaxTxns :
            /\ \/ n = LastClosing(t) /\ ClosedAtBroker(t) /\ UNCHANGED hasty
               \/ n = Located(t) /\ Located(t) # NoTxn /\ Asked(t)
            /\ GoEmit("backfill", [trade |-> t, txn |-> n, known |-> TRUE], "idle")
      BY <2>6, BackfillEmits
    <3>2. hasty' \subseteq Trades
      BY <3>1 DEF Asked, TypeOK
    <3> QED
      BY <2>1, <2>6, <3>1, <3>2 DEF Backfill, Upset, GoEmit, TypeOK, Job
  <2> QED
    BY <1>5, <2>2, <2>3, <2>4, <2>5, <2>6 DEF FillSteps
<1>6. ASSUME NEW t \in Trades, LookUp(t) PROVE TypeInv'
  <2>1. StreamOK'
    BY <1>6 DEF LookUp, DetailsClosed, FallbackFinds, LeftForLater,
         StreamOK, Opened
  <2>2. managed[t].known \in BOOLEAN
    BY DEF TypeOK, Record
  <2>3. CASE DetailsClosed(t)
    BY <2>1, <2>2, <2>3, LastClosingIsTxn DEF DetailsClosed, Vanished, GoEmit, TypeOK, Job
  <2>4. CASE FallbackFinds(t)
    BY <2>1, <2>2, <2>4, LocatedIsTxn DEF FallbackFinds, Asked, Vanished, GoEmit, TypeOK, Job
  <2>5. CASE LeftForLater(t)
    BY <2>1, <2>5 DEF LeftForLater, TypeOK
  <2> QED
    BY <1>6, <2>3, <2>4, <2>5 DEF LookUp
<1>7. ASSUME NEW a \in Actors, Emission(a) \/ EmitFails(a) \/ Flushing(a) PROVE TypeInv'
  <2>1. StreamOK'
    BY <1>7 DEF Emission, AlreadyEmitted, FindUnmarked, PersistClose, MarkLedger, EmitFails,
         Flushing, Send, AckRow, EndFlush, StreamOK, Opened
  <2>2. CASE AlreadyEmitted(a)
    BY <2>1, <2>2 DEF AlreadyEmitted, Resume, TypeOK
  <2>3. CASE PersistClose(a)
    <3>1. [msg |-> CloseOf(job[a]), done |-> FALSE] \in Row
      BY MessageTypes DEF TypeOK
    <3>2. outbox' \in Seq(Row)
      BY <2>3, <3>1 DEF PersistClose, TypeOK
    <3> QED
      BY <2>1, <2>3, <3>2 DEF PersistClose, Go, TypeOK
  <2>4. CASE MarkLedger(a)
    BY <2>1, <2>4 DEF MarkLedger, GoFlush, TypeOK, Job
  <2>5. CASE EmitFails(a)
    BY <2>1, <2>5 DEF EmitFails, Lost, Resume, Unemitted, Upset, Torn, TypeOK, Job
  <2>6. CASE Send(a)
    <3>1. PICK i \in DOMAIN outbox :
            heard' = heard \cup {outbox[i].msg} /\ sent' = [sent EXCEPT ![a] = i]
      BY <2>6 DEF Send
    <3>2. i \in Nat /\ outbox[i] \in Row
      BY <3>1 DEF TypeOK
    <3>3. outbox[i].msg \in Message
      BY <3>2 DEF Row
    <3> QED
      BY <2>1, <2>6, <3>1, <3>2, <3>3 DEF Send, Go, TypeOK
  <2>7. CASE AckRow(a)
    <3>1. \A row \in Row : [row EXCEPT !.done = TRUE] \in Row
      BY DEF Row
    <3>2. outbox' = [outbox EXCEPT ![sent[a]] = [outbox[sent[a]] EXCEPT !.done = TRUE]]
      BY <2>7 DEF AckRow
    <3>3. outbox' \in Seq(Row)
      <4>1. /\ DOMAIN outbox' = 1..Len(outbox) /\ Len(outbox) \in Nat
            /\ \A i \in 1..Len(outbox) : outbox[i] \in Row
        BY <3>2 DEF TypeOK
      <4>2. \A i \in 1..Len(outbox) : outbox'[i] \in Row
        BY <3>1, <3>2, <4>1 DEF TypeOK
      <4>3. outbox' = [i \in 1..Len(outbox) |-> outbox'[i]]
        BY <3>2, <4>1
      <4> QED
        BY <4>1, <4>2, <4>3
    <3> QED
      BY <2>1, <2>7, <3>3 DEF AckRow, Go, TypeOK
  <2>8. CASE EndFlush(a)
    BY <2>1, <2>8 DEF EndFlush, Resume, TypeOK
  <2>9. CASE FindUnmarked(a)
    BY <2>1, <2>9 DEF FindUnmarked, Go, TypeOK, Job
  <2> QED
    BY <1>7, <2>2, <2>3, <2>4, <2>5, <2>6, <2>7, <2>8, <2>9 DEF Emission, Flushing
<1>8. ASSUME NEW t \in Trades, CloseFilled(t) \/ CloseUnfilled(t) \/ CloseRaises(t)
      PROVE  TypeInv'
  <2>1. StreamOK'
    <3>1. CASE UNCHANGED stream
      BY <3>1 DEF StreamOK, Opened
    <3>2. CASE OpenAtBroker(t) /\ Books("close", t)
      BY <3>2, BooksStream DEF OpenAtBroker
    <3> QED
      BY <1>8, <3>1, <3>2 DEF CloseFilled, CloseUnfilled, CloseRaises
  <2>2. managed[t].known \in BOOLEAN
    BY DEF TypeOK, Record
  <2>3. CASE CloseFilled(t)
    <3>1. Len(stream) + 1 \in 0..MaxTxns
      BY <2>3 DEF CloseFilled, Books, StreamOK
    <3>2. [trade |-> t, txn |-> Len(stream) + 1, known |-> managed[t].known] \in Job
      BY <2>2, <3>1 DEF Job
    <3> QED
      BY <2>1, <2>3, <3>2 DEF CloseFilled, GoEmit, TypeOK, StreamOK, Record
  <2>4. CASE CloseUnfilled(t)
    BY <2>1, <2>4 DEF CloseUnfilled, TypeOK, StreamOK, Record
  <2>5. CASE CloseRaises(t)
    <3>1. CASE Stopping
      BY <2>1, <2>5, <3>1 DEF CloseRaises, TypeOK, StreamOK
    <3>2. CASE Forget
      BY <2>1, <2>5, <3>2 DEF CloseRaises, Forget, TypeOK, StreamOK
    <3> QED
      BY <2>5, <3>1, <3>2 DEF CloseRaises
  <2> QED
    BY <1>8, <2>3, <2>4, <2>5
<1> QED
  BY <1>1, <1>2, <1>3, <1>4, <1>5, <1>6, <1>7, <1>8
     DEF Next, SweepSteps, ForcedClose, StopSteps

-----------------------------------------------------------------------------
\* What only grows: the broker's closings, the outbox's messages, what System 3 heard.

ClosedTrades == {t \in Trades : ClosedAtBroker(t)}
\* The trades the broker closed at least part of.
CutTrades == {t \in Trades : Closings(t) # {}}
RowTrades == {t \in Trades : RowsOf("close", t) # {}}

Growth ==
  /\ CutTrades \subseteq CutTrades' /\ RowTrades \subseteq RowTrades'
  /\ \A i \in DOMAIN outbox : i \in DOMAIN outbox' /\ outbox'[i].msg = outbox[i].msg
  /\ heard \subseteq heard' /\ ledger \subseteq ledger'
  /\ torn \subseteq torn' /\ hasty \subseteq hasty' /\ unread \subseteq unread'

LEMMA ClosesGrow ==
  ASSUME TypeInv, stream' = stream \/ \E kind \in {"open", "part", "close"}, t \in Trades : Books(kind, t)
  PROVE  /\ CutTrades \subseteq CutTrades' /\ ClosedTrades \subseteq ClosedTrades'
         /\ \A t \in Trades : Closings(t) \subseteq Closings(t)'
<1>1. \A n \in DOMAIN stream : n \in DOMAIN stream' /\ stream'[n] = stream[n]
  <2>1. stream \in Seq(Txn)
    BY DEF TypeInv, StreamOK
  <2>2. ASSUME NEW kind \in {"open", "part", "close"}, NEW t \in Trades, Books(kind, t)
        PROVE  \E x \in Txn : stream' = Append(stream, x)
    BY <2>2 DEF Books, Txn
  <2>3. ASSUME NEW x \in Txn, stream' = Append(stream, x)
        PROVE  \A n \in DOMAIN stream : n \in DOMAIN stream' /\ stream'[n] = stream[n]
    BY <2>1, <2>3
  <2> QED
    BY <2>2, <2>3
<1> QED
  BY <1>1 DEF CutTrades, ClosedTrades, ClosedAtBroker, Closings

LEMMA RowsGrow ==
  ASSUME \A i \in DOMAIN outbox : i \in DOMAIN outbox' /\ outbox'[i].msg = outbox[i].msg
  PROVE  RowTrades \subseteq RowTrades'
BY DEF RowTrades, RowsOf

\* The broker's transactions change by a fill, or by closing of what is open.
LEMMA NextBooks ==
  ASSUME [Next]_vars
  PROVE  \/ stream' = stream
         \/ Filled
         \/ \E kind \in {"part", "close"}, t \in Trades : OpenAtBroker(t) /\ Books(kind, t)
<1> USE DEF storeVars, histVars, brokerVars
<1>1. CASE BrokerActs
  BY <1>1 DEF BrokerActs
<1>2. CASE ForcedClose
  BY <1>2 DEF ForcedClose, CloseFilled, CloseUnfilled, CloseRaises
<1>3. CASE SweepSteps \/ UNCHANGED vars
  BY <1>3 DEF SweepSteps, StartSweep, ListOpenTrades, ListFails, SweepEnds, MarkClosed, LookUp,
       DetailsClosed, FallbackFinds, LeftForLater, vars
<1>4. CASE \E a \in Actors : Emission(a) \/ EmitFails(a) \/ Flushing(a)
  BY <1>4 DEF Emission, AlreadyEmitted, FindUnmarked, PersistClose, MarkLedger, EmitFails,
       Flushing, Send, AckRow, EndFlush
<1>5. CASE Startup \/ Crash \/ Redelivered \/ FillRaises \/ FillSteps \/ Stop \/ StopSteps \/ Backfill
  BY <1>5 DEF Startup, Crash, Redelivered, FillRaises, FillSteps, MarkProcessed, PersistFill,
       Register, Stop, StopSteps, EmitStopped, Exit, Backfill
<1> QED
  BY <1>1, <1>2, <1>3, <1>4, <1>5 DEF Next

LEMMA FilledBooks ==
  ASSUME TypeInv, Filled
  PROVE  Len(stream) + 1 \in Trades /\ Books("open", Len(stream) + 1)
<1>1. Books("open", Len(stream) + 1)
  BY DEF Filled
<1>2. Len(stream) \in Nat /\ Len(stream) < MaxTxns
  BY <1>1 DEF Books, TypeInv, StreamOK
<1> QED
  BY <1>1, <1>2, CloseAssumption DEF Trades

LEMMA NextGrows == TypeInv /\ [Next]_vars => Growth
<1> SUFFICES ASSUME TypeInv, [Next]_vars PROVE Growth
  OBVIOUS
<1> USE DEF storeVars, histVars, brokerVars
<1>1. stream' = stream \/ \E kind \in {"open", "part", "close"}, t \in Trades : Books(kind, t)
  BY NextBooks, FilledBooks
<1>2. /\ heard \subseteq heard' /\ ledger \subseteq ledger'
      /\ torn \subseteq torn' /\ hasty \subseteq hasty' /\ unread \subseteq unread'
      /\ \/ outbox' = outbox
         \/ \E row \in Row : outbox' = Append(outbox, row)
         \/ \E i \in Nat : outbox' = [outbox EXCEPT ![i].done = TRUE]
  <2>1. CASE BrokerActs \/ Filled
    BY <2>1 DEF BrokerActs, Filled
  <2>2. CASE ForcedClose
    BY <2>2 DEF ForcedClose, CloseFilled, CloseUnfilled, CloseRaises
  <2>3. CASE SweepSteps \/ UNCHANGED vars
    BY <2>3 DEF SweepSteps, StartSweep, ListOpenTrades, ListFails, SweepEnds, MarkClosed, LookUp,
         DetailsClosed, FallbackFinds, Asked, LeftForLater, vars
  <2>4. CASE \E a \in Actors : Emission(a) \/ EmitFails(a) \/ Flushing(a)
    <3> SUFFICES ASSUME NEW a \in Actors, Emission(a) \/ EmitFails(a) \/ Flushing(a)
                 PROVE  <1>2!1 /\ <1>2!2 /\ <1>2!3
      BY <2>4
    <3>1. job[a] \in Job /\ sent[a] \in Nat
      BY DEF TypeInv, TypeOK
    <3> QED
      BY <3>1, MessageTypes DEF Emission, AlreadyEmitted, FindUnmarked, PersistClose, MarkLedger,
           EmitFails, Torn, Flushing, Send, AckRow, EndFlush
  <2>5. CASE FillSteps
    <3>1. job["engine"].trade \in Trades
      BY Alphabet DEF TypeInv, TypeOK, Job
    <3> QED
      BY <2>5, <3>1, MessageTypes DEF FillSteps, MarkProcessed, PersistFill, Register
  <2>6. CASE Startup \/ Crash \/ Redelivered \/ FillRaises \/ Stop \/ StopSteps \/ Backfill
    BY <2>6 DEF Startup, Crash, Torn, Redelivered, FillRaises, Stop, StopSteps, EmitStopped, Exit,
         Backfill, Asked
  <2> QED
    BY <2>1, <2>2, <2>3, <2>4, <2>5, <2>6 DEF Next
<1>3. \A i \in DOMAIN outbox : i \in DOMAIN outbox' /\ outbox'[i].msg = outbox[i].msg
  <2>1. outbox \in Seq(Row)
    BY DEF TypeInv, TypeOK
  <2>2. CASE \E row \in Row : outbox' = Append(outbox, row)
    BY <2>1, <2>2
  <2>3. CASE \E i \in Nat : outbox' = [outbox EXCEPT ![i].done = TRUE]
    <3>1. PICK k \in Nat : outbox' = [outbox EXCEPT ![k] = [outbox[k] EXCEPT !.done = TRUE]]
      BY <2>3
    <3>2. \A row \in Row : [row EXCEPT !.done = TRUE].msg = row.msg
      BY DEF Row
    <3> QED
      BY <2>1, <3>1, <3>2
  <2> QED
    BY <1>2, <2>2, <2>3
<1> QED
  BY <1>1, <1>2, <1>3, ClosesGrow, RowsGrow DEF Growth

-----------------------------------------------------------------------------
\* What an actor has established before the call it is in.

Returns == {"idle", "register", "list", "emitted", "stop", "flatten", "exit"}

\* The broker closed some of the trade whose close is emitted; past the outbox write its
\* row exists, until the trade is marked closed; the row being acked was heard.
CallHonest(a) ==
  /\ back[a] \in Returns
  /\ at[a] \in {"emit", "unseen"} => job[a].trade \in CutTrades
  /\ \/ at[a] \in {"mark", "emitted"}
     \/ at[a] \in {"flush", "acking"} /\ back[a] = "emitted"
     => job[a].trade \in CutTrades \cap RowTrades
  /\ at[a] = "acking" => sent[a] \in DOMAIN outbox /\ outbox[sent[a]].msg \in heard

Calls == \A a \in Actors : CallHonest(a)

\* The engine emits the close it forced on trade t.
InFlight(t) ==
  at["engine"] \in {"emit", "unseen"} /\ back["engine"] # "emitted" /\ job["engine"].trade = t

\* A row, a mark and what was heard vouch for the closing behind them, and a flag for
\* the event, unless a forced close was given up.
StoresHonest ==
  /\ \A i \in DOMAIN outbox : outbox[i].done => outbox[i].msg \in heard
  /\ \A i \in DOMAIN outbox : outbox[i].msg.topic = "close" => outbox[i].msg.trade \in CutTrades
  /\ \A m \in heard : m.topic = "close" => m.trade \in CutTrades
  /\ ledger \subseteq RowTrades
  /\ \A t \in Trades : managed[t].closed => t \in dropped \cup RowTrades \/ InFlight(t)

HonestInv == TypeInv /\ Calls /\ StoresHonest

LEMMA InitHonest == Init => HonestInv
<1> SUFFICES ASSUME Init PROVE HonestInv
  OBVIOUS
<1>1. Calls
  BY DEF Init, Calls, CallHonest, Returns, Actors
<1>2. StoresHonest
  BY DEF Init, StoresHonest, Untracked
<1> QED
  BY <1>1, <1>2, InitTypes DEF HonestInv

\* An actor that does not move keeps what it has established.
LEMMA Undisturbed ==
  ASSUME TypeInv, Growth, NEW a \in Actors, CallHonest(a),
         at'[a] = at[a], back'[a] = back[a], job'[a] = job[a], sent'[a] = sent[a]
  PROVE  CallHonest(a)'
BY DEF CallHonest, Growth

LEMMA CallsUndisturbed ==
  ASSUME TypeInv, Growth, Calls, UNCHANGED callVars
  PROVE  Calls'
<1>1. ASSUME NEW a \in Actors PROVE CallHonest(a)'
  BY Undisturbed DEF Calls, callVars
<1> QED
  BY <1>1 DEF Calls

\* The same, when one actor moves and is honest about where it is now.
LEMMA OneMoves ==
  ASSUME TypeInv, Growth, Calls, NEW a \in Actors, CallHonest(a)',
         \A b \in Actors \ {a} : /\ at'[b] = at[b] /\ back'[b] = back[b]
                                 /\ job'[b] = job[b] /\ sent'[b] = sent[b]
  PROVE  Calls'
<1>1. ASSUME NEW b \in Actors PROVE CallHonest(b)'
  BY Undisturbed DEF Calls
<1> QED
  BY <1>1 DEF Calls

\* The outbox with a row more.
LEMMA AppendedRow ==
  ASSUME TypeInv, NEW row \in Row, outbox' = Append(outbox, row)
  PROVE  /\ Len(outbox) + 1 \in DOMAIN outbox' /\ outbox'[Len(outbox) + 1] = row
         /\ \A i \in DOMAIN outbox : i \in DOMAIN outbox' /\ outbox'[i] = outbox[i]
         /\ \A i \in DOMAIN outbox' : i \in DOMAIN outbox \/ i = Len(outbox) + 1
BY DEF TypeInv, TypeOK

LEMMA PersistedClose ==
  ASSUME TypeInv, NEW a \in Actors, PersistClose(a)
  PROVE  /\ [msg |-> CloseOf(job[a]), done |-> FALSE] \in Row
         /\ outbox' = Append(outbox, [msg |-> CloseOf(job[a]), done |-> FALSE])
         /\ job[a].trade \in RowTrades'
<1>1. /\ [msg |-> CloseOf(job[a]), done |-> FALSE] \in Row
      /\ outbox' = Append(outbox, [msg |-> CloseOf(job[a]), done |-> FALSE])
      /\ job[a].trade \in Trades
  BY MessageTypes DEF TypeInv, TypeOK, PersistClose, Job
<1>2. Len(outbox) + 1 \in DOMAIN outbox' /\ outbox'[Len(outbox) + 1].msg = CloseOf(job[a])
  BY <1>1, AppendedRow
<1> QED
  BY <1>1, <1>2 DEF CloseOf, RowTrades, RowsOf

LEMMA EngineCalls ==
  ASSUME HonestInv, Growth,
         \/ Startup \/ Crash \/ Filled \/ Redelivered \/ FillRaises \/ FillSteps
         \/ StartSweep \/ ListOpenTrades \/ ListFails \/ SweepEnds \/ MarkClosed
         \/ Stop \/ StopSteps
  PROVE  Calls'
<1> USE DEF HonestInv, callVars, TypeInv
<1> DEFINE rests == at'["engine"] \in {"down", "idle", "answered", "persist", "list", "each"}
           flushes == at'["engine"] = "flush" /\ back'["engine"] \in Returns \ {"emitted"}
<1>1. \A b \in Actors \ {"engine"} : /\ at'[b] = at[b] /\ back'[b] = back[b]
                                     /\ job'[b] = job[b] /\ sent'[b] = sent[b]
  BY DEF Startup, Crash, Forget, Filled, Redelivered, FillRaises, FillSteps, MarkProcessed,
     PersistFill, Register, StartSweep, ListOpenTrades, ListFails, SweepEnds, MarkClosed, Stop,
     StopSteps, EmitStopped, Exit, Go, GoFlush, Resume, TypeOK
<1>2. back'["engine"] \in Returns /\ (rests \/ flushes)
  <2>1. back["engine"] \in Returns
    BY Alphabet DEF Calls, CallHonest
  <2> QED
    BY <2>1, Alphabet
       DEF Startup, Crash, Forget, Filled, Redelivered, FillRaises, FillSteps, MarkProcessed,
       PersistFill, Register, StartSweep, ListOpenTrades, ListFails, SweepEnds, MarkClosed, Stop,
       StopSteps, EmitStopped, Exit, Go, GoFlush, Resume, TypeOK, Returns
<1>3. CallHonest("engine")'
  BY <1>2 DEF CallHonest
<1> QED
  BY <1>1, <1>3, OneMoves, Alphabet

LEMMA EmissionCalls ==
  ASSUME HonestInv, Growth, NEW a \in Actors, Emission(a) \/ EmitFails(a) \/ Flushing(a)
  PROVE  Calls'
<1> USE DEF HonestInv, callVars, TypeInv
<1>1. \A b \in Actors \ {a} : /\ at'[b] = at[b] /\ back'[b] = back[b]
                              /\ job'[b] = job[b] /\ sent'[b] = sent[b]
  BY DEF Emission, AlreadyEmitted, FindUnmarked, PersistClose, MarkLedger, EmitFails, Flushing,
       Send, AckRow, EndFlush, Go, GoFlush, Resume, TypeOK
<1> SUFFICES CallHonest(a)'
  BY <1>1, OneMoves
<1>2. CallHonest(a) /\ back[a] \in Returns /\ job[a] \in Job /\ job[a].trade \in Trades
  BY DEF Calls, CallHonest, TypeOK, Job
<1>3. CASE AlreadyEmitted(a)
  BY <1>2, <1>3 DEF AlreadyEmitted, Unmarked, Resume, TypeOK, StoresHonest, Growth, CallHonest,
       Returns
<1>4. CASE PersistClose(a)
  <2>1. job[a].trade \in RowTrades'
    BY <1>4, PersistedClose
  <2> QED
    BY <1>2, <1>4, <2>1 DEF PersistClose, Go, TypeOK, Growth, CallHonest, Returns
<1>5. CASE MarkLedger(a)
  BY <1>2, <1>5 DEF MarkLedger, GoFlush, TypeOK, Growth, CallHonest, Returns
<1>6. CASE EmitFails(a)
  BY <1>2, <1>6 DEF EmitFails, Resume, Unemitted, TypeOK, Growth, CallHonest, Returns
<1>7. CASE Send(a)
  BY <1>2, <1>7 DEF Send, Go, TypeOK, Growth, CallHonest, Returns
<1>8. CASE AckRow(a)
  BY <1>2, <1>8 DEF AckRow, Go, TypeOK, Growth, CallHonest, Returns
<1>9. CASE EndFlush(a)
  BY <1>2, <1>9 DEF EndFlush, Resume, TypeOK, Growth, CallHonest, Returns
<1>10. CASE FindUnmarked(a)
  BY <1>2, <1>10 DEF FindUnmarked, Go, TypeOK, Growth, CallHonest, Returns
<1> QED
  BY <1>3, <1>4, <1>5, <1>6, <1>7, <1>8, <1>9, <1>10
     DEF Emission, Flushing

\* A closing booked now, or found in the transactions, closed some of the trade.
LEMMA BookedClose ==
  ASSUME TypeInv, NEW t \in Trades, Books("close", t)
  PROVE  t \in CutTrades'
<1>1. stream' = Append(stream, [kind |-> "close", trade |-> t]) /\ stream \in Seq(Txn)
  BY DEF Books, TypeInv, StreamOK
<1>2. [kind |-> "close", trade |-> t] \in Txn
  BY DEF Txn
<1>3. /\ Len(stream) + 1 \in DOMAIN stream'
      /\ stream'[Len(stream) + 1] = [kind |-> "close", trade |-> t]
  BY <1>1, <1>2
<1> QED
  BY <1>3 DEF CutTrades, Closings

LEMMA FoundClose ==
  ASSUME HonestInv, Growth, NEW t \in Trades, ClosedAtBroker(t) \/ Located(t) # NoTxn
  PROVE  t \in CutTrades'
<1>1. Located(t) # NoTxn => Located(t) \in Closings(t)
  BY LocatedIsTxn DEF HonestInv, TypeInv
<1> QED
  BY <1>1 DEF ClosedAtBroker, CutTrades, Growth

LEMMA EmitsCalls ==
  ASSUME HonestInv, Growth, NEW a \in Actors, NEW t \in Trades, NEW n, NEW known,
         NEW then \in Returns, GoEmit(a, [trade |-> t, txn |-> n, known |-> known], then),
         UNCHANGED sent, t \in CutTrades'
  PROVE  Calls'
<1>1. CallHonest(a)'
  BY DEF HonestInv, TypeInv, TypeOK, GoEmit, CallHonest
<1>2. \A b \in Actors \ {a} : /\ at'[b] = at[b] /\ back'[b] = back[b]
                              /\ job'[b] = job[b] /\ sent'[b] = sent[b]
  BY DEF HonestInv, TypeInv, TypeOK, GoEmit
<1> QED
  BY <1>1, <1>2, OneMoves DEF HonestInv

LEMMA OtherCalls ==
  ASSUME HonestInv, Growth, BrokerActs \/ Backfill \/ ForcedClose \/ \E t \in Trades : LookUp(t)
  PROVE  Calls'
<1> USE DEF HonestInv, callVars
<1>1. CASE BrokerActs
  BY <1>1, CallsUndisturbed DEF BrokerActs
<1>2. CASE Backfill
  <2>1. PICK t \in Trades, n \in 1..MaxTxns :
          /\ ClosedAtBroker(t) \/ Located(t) # NoTxn
          /\ GoEmit("backfill", [trade |-> t, txn |-> n, known |-> TRUE], "idle")
    BY <1>2, BackfillEmits DEF TypeInv
  <2>2. t \in CutTrades' /\ UNCHANGED sent /\ "idle" \in Returns
    BY <1>2, <2>1, FoundClose DEF Backfill, Returns
  <2> QED
    BY <2>1, <2>2, EmitsCalls, Alphabet
<1>3. ASSUME NEW t \in Trades, LookUp(t) PROVE Calls'
  <2>1. "emitted" \in Returns
    BY DEF Returns
  <2>2. CASE DetailsClosed(t)
    <3>1. t \in CutTrades'
      BY <2>2, FoundClose DEF DetailsClosed
    <3> QED
      BY <2>1, <2>2, <3>1, EmitsCalls, Alphabet DEF DetailsClosed
  <2>3. CASE FallbackFinds(t)
    <3>1. t \in CutTrades'
      BY <2>3, FoundClose DEF FallbackFinds
    <3> QED
      BY <2>1, <2>3, <3>1, EmitsCalls, Alphabet DEF FallbackFinds
  <2>4. CASE LeftForLater(t)
    BY <2>4, CallsUndisturbed DEF LeftForLater
  <2> QED
    BY <1>3, <2>2, <2>3, <2>4 DEF LookUp
<1>4. ASSUME NEW t \in Trades, CloseFilled(t) \/ CloseUnfilled(t) \/ CloseRaises(t)
      PROVE  Calls'
  <2>1. CASE CloseFilled(t)
    <3>1. t \in CutTrades'
      BY <2>1, BookedClose DEF CloseFilled
    <3>2. (IF Stopping THEN "flatten" ELSE "idle") \in Returns
      BY DEF Returns
    <3> QED
      BY <2>1, <3>1, <3>2, EmitsCalls, Alphabet DEF CloseFilled
  <2>2. CASE UNCHANGED callVars
    BY <2>2, CallsUndisturbed
  <2>3. CASE Forget
    <3>1. /\ at'["engine"] = "down" /\ back'["engine"] = "idle"
          /\ \A b \in Actors \ {"engine"} : /\ at'[b] = at[b] /\ back'[b] = back[b]
                                            /\ job'[b] = job[b] /\ sent'[b] = sent[b]
      BY <2>3, Alphabet DEF Forget, TypeInv, TypeOK
    <3>2. CallHonest("engine")'
      BY <3>1 DEF CallHonest, Returns
    <3> QED
      BY <3>1, <3>2, OneMoves, Alphabet
  <2> QED
    BY <1>4, <2>1, <2>2, <2>3 DEF CloseUnfilled, CloseRaises
<1> QED
  BY <1>1, <1>2, <1>3, <1>4 DEF ForcedClose

LEMMA NextCalls == HonestInv /\ [Next]_vars => Calls'
<1> SUFFICES ASSUME HonestInv, [Next]_vars PROVE Calls'
  OBVIOUS
<1>1. Growth
  BY NextGrows DEF HonestInv
<1>2. CASE UNCHANGED vars
  BY <1>1, <1>2, CallsUndisturbed DEF vars, HonestInv
<1> QED
  BY <1>1, <1>2, EngineCalls, EmissionCalls, OtherCalls DEF Next, SweepSteps

\* What is newly stored or said is vouched for by the actor that stores or says it.
LEMMA OutboxHonest ==
  ASSUME HonestInv, Growth, NEW a \in Actors,
         PersistClose(a) \/ AckRow(a) \/ Send(a) \/ PersistFill
  PROVE  /\ \A i \in DOMAIN outbox' : outbox'[i].done => outbox'[i].msg \in heard'
         /\ \A i \in DOMAIN outbox' :
              outbox'[i].msg.topic = "close" => outbox'[i].msg.trade \in CutTrades'
         /\ \A m \in heard' : m.topic = "close" => m.trade \in CutTrades'
<1> USE DEF HonestInv, StoresHonest, Growth
<1>1. CASE PersistClose(a)
  <2> DEFINE row == [msg |-> CloseOf(job[a]), done |-> FALSE]
  <2>1. row \in Row /\ outbox' = Append(outbox, row) /\ heard' = heard
    BY <1>1, PersistedClose DEF PersistClose
  <2>2. ~row.done /\ row.msg.trade \in CutTrades'
    BY <1>1 DEF PersistClose, CloseOf, Calls, CallHonest
  <2> HIDE DEF row
  <2> QED
    BY <2>1, <2>2, AppendedRow
<1>2. CASE PersistFill
  <2> DEFINE row == [msg |-> FillOf(job["engine"].trade), done |-> FALSE]
  <2>1. job["engine"].trade \in Trades
    BY Alphabet DEF TypeInv, TypeOK, Job
  <2>2. row \in Row /\ outbox' = Append(outbox, row) /\ heard' = heard
    BY <1>2, <2>1, MessageTypes DEF PersistFill
  <2>3. ~row.done /\ row.msg.topic # "close"
    BY DEF FillOf
  <2> HIDE DEF row
  <2> QED
    BY <2>2, <2>3, AppendedRow
<1>3. CASE AckRow(a)
  <2>1. sent[a] \in DOMAIN outbox /\ outbox[sent[a]].msg \in heard /\ heard' = heard
    BY <1>3 DEF AckRow, Calls, CallHonest
  <2>2. outbox' = [outbox EXCEPT ![sent[a]] = [outbox[sent[a]] EXCEPT !.done = TRUE]]
    BY <1>3 DEF AckRow
  <2>3. DOMAIN outbox' = DOMAIN outbox
    BY <2>2
  <2>4. \A i \in DOMAIN outbox : i # sent[a] => outbox'[i] = outbox[i]
    BY <2>2
  <2> QED
    BY <2>1, <2>3, <2>4
<1>4. CASE Send(a)
  BY <1>4 DEF Send
<1> QED
  BY <1>1, <1>2, <1>3, <1>4

LEMMA SameOutboxHonest ==
  ASSUME HonestInv, Growth, UNCHANGED <<outbox, heard>>
  PROVE  /\ \A i \in DOMAIN outbox' : outbox'[i].done => outbox'[i].msg \in heard'
         /\ \A i \in DOMAIN outbox' :
              outbox'[i].msg.topic = "close" => outbox'[i].msg.trade \in CutTrades'
         /\ \A m \in heard' : m.topic = "close" => m.trade \in CutTrades'
BY DEF HonestInv, StoresHonest, Growth

\* A flag is set with the close announced, or with a forced close under way or given up.
LEMMA NextFlags ==
  ASSUME HonestInv, [Next]_vars, NEW t \in Trades, managed'[t].closed
  PROVE  \/ managed[t].closed /\ managed'[t].closed = managed[t].closed
         \/ MarkClosed /\ t = job["engine"].trade
         \/ CloseFilled(t) \/ CloseUnfilled(t)
<1> USE Alphabet DEF HonestInv, TypeInv, TypeOK, storeVars, memoryVars, callVars, histVars
<1>1. CASE managed'[t].closed = managed[t].closed
  BY <1>1
<1>2. CASE Startup
  <2>1. PICK listed, lost :
          managed' = [u \in Trades |->
                       IF u \in listed THEN Tracked(FillPersisted(u) /\ u \notin lost)
                       ELSE Untracked]
    BY <1>2, AdoptedIs
  <2>2. ~managed'[t].closed
    BY <2>1 DEF Tracked, Untracked
  <2> QED
    BY <2>2
<1>3. CASE Crash \/ Exit
  BY <1>3 DEF Crash, Exit, Forget, Untracked
<1>4. CASE Register
  <2>1. managed'[t] \in {managed[t], Tracked(TRUE)}
    BY <1>4 DEF Register
  <2>2. Tracked(TRUE).closed = FALSE
    BY DEF Tracked
  <2> QED
    BY <1>1, <2>1, <2>2
<1>5. CASE BrokerActs \/ UNCHANGED vars \/ Filled \/ Redelivered \/ FillRaises
             \/ MarkProcessed \/ PersistFill \/ Stop \/ EmitStopped \/ Backfill
  BY <1>1, <1>5 DEF BrokerActs, vars, Filled, Redelivered, FillRaises, MarkProcessed, PersistFill,
       Stop, EmitStopped, Backfill
<1>6. CASE StartSweep \/ ListOpenTrades \/ ListFails \/ SweepEnds \/ \E u \in Trades : LookUp(u)
  BY <1>1, <1>6 DEF StartSweep, ListOpenTrades, ListFails, SweepEnds, LookUp, DetailsClosed,
       FallbackFinds, LeftForLater
<1>7. CASE \E a \in Actors : Emission(a) \/ EmitFails(a) \/ Flushing(a)
  BY <1>1, <1>7 DEF Emission, AlreadyEmitted, FindUnmarked, PersistClose, MarkLedger, EmitFails,
       Flushing, Send, AckRow, EndFlush
<1>8. ASSUME NEW u \in Trades, managed' = [managed EXCEPT ![u].closed = TRUE]
      PROVE  t = u \/ managed'[t].closed = managed[t].closed
  BY <1>8
<1>9. CASE MarkClosed
  BY <1>1, <1>8, <1>9 DEF MarkClosed, Job
<1>10. ASSUME NEW u \in Trades, CloseFilled(u) \/ CloseUnfilled(u) \/ CloseRaises(u)
       PROVE  managed'[t].closed = managed[t].closed \/ CloseFilled(t) \/ CloseUnfilled(t)
  <2>1. CASE CloseFilled(u) \/ CloseUnfilled(u)
    BY <1>8, <1>10, <2>1 DEF CloseFilled, CloseUnfilled
  <2>2. CASE CloseRaises(u)
    <3>1. managed' = managed \/ Forget
      BY <2>2 DEF CloseRaises
    <3>2. Forget => ~managed'[t].closed
      BY DEF Forget, Untracked
    <3> QED
      BY <3>1, <3>2
  <2> QED
    BY <1>10, <2>1, <2>2
<1> QED
  BY <1>1, <1>2, <1>3, <1>4, <1>5, <1>6, <1>7, <1>9, <1>10
     DEF Next, FillSteps, SweepSteps, ForcedClose, StopSteps

\* What vouches for a flag that stays.
LEMMA FlagStays ==
  ASSUME HonestInv, Growth, [Next]_vars, NEW t \in Trades, managed[t].closed, managed'[t].closed
  PROVE  t \in dropped' \cup RowTrades' \/ InFlight(t)'
<1> USE Alphabet DEF HonestInv, TypeInv, TypeOK, storeVars, memoryVars, callVars, histVars
<1> DEFINE kept == /\ dropped \subseteq dropped'
                   /\ InFlight(t) => InFlight(t)' \/ t \in dropped' \cup RowTrades'
<1>1. ASSUME kept PROVE t \in dropped' \cup RowTrades' \/ InFlight(t)'
  BY <1>1 DEF StoresHonest, Growth
<1>2. ASSUME Forget PROVE FALSE
  BY <1>2 DEF Forget, Untracked
<1>3. SUFFICES ASSUME ~Forget PROVE kept
  BY <1>1, <1>2
<1>4. CASE BrokerActs \/ UNCHANGED vars
  BY <1>4 DEF BrokerActs, vars, InFlight
<1>5. CASE Startup \/ Crash \/ Filled \/ Redelivered \/ FillRaises \/ FillSteps \/ Stop \/ StopSteps
  BY <1>3, <1>5 DEF Startup, Crash, Filled, Redelivered, FillRaises, FillSteps, MarkProcessed,
       PersistFill, Register, Stop, StopSteps, EmitStopped, Exit, Stopping, InFlight
<1>6. CASE StartSweep \/ ListOpenTrades \/ ListFails \/ SweepEnds \/ MarkClosed
  BY <1>6 DEF StartSweep, ListOpenTrades, ListFails, SweepEnds, MarkClosed, InFlight
<1>7. ASSUME NEW u \in Trades, LookUp(u) PROVE kept
  BY <1>7 DEF LookUp, DetailsClosed, FallbackFinds, LeftForLater, Vanished, InFlight
<1>8. CASE Backfill
  BY <1>8 DEF Backfill, GoEmit, InFlight
<1>9. ASSUME NEW u \in Trades, CloseFilled(u) \/ CloseUnfilled(u) \/ CloseRaises(u) PROVE kept
  BY <1>3, <1>9 DEF CloseFilled, CloseUnfilled, CloseRaises, Forcing, Stopping, InFlight
<1>10. ASSUME NEW a \in Actors, Emission(a) \/ EmitFails(a) \/ Flushing(a) PROVE kept
  <2>1. dropped \subseteq dropped'
    BY <1>10 DEF Emission, AlreadyEmitted, FindUnmarked, PersistClose, MarkLedger, EmitFails,
         Flushing, Send, AckRow, EndFlush
  <2>2. ASSUME a # "engine" PROVE InFlight(t) => InFlight(t)'
    BY <1>10, <2>2 DEF Emission, AlreadyEmitted, FindUnmarked, PersistClose, MarkLedger, EmitFails,
         Flushing, Send, AckRow, EndFlush, Go, GoFlush, Resume, InFlight
  <2>3. ASSUME a = "engine", InFlight(t) PROVE InFlight(t)' \/ t \in dropped' \cup RowTrades'
    <3>1. CASE AlreadyEmitted(a)
      BY <2>3, <3>1 DEF AlreadyEmitted, Unmarked, InFlight, StoresHonest, Growth
    <3>2. CASE FindUnmarked(a)
      BY <2>3, <3>2 DEF FindUnmarked, Go, InFlight
    <3>3. CASE PersistClose(a)
      BY <2>3, <3>3, PersistedClose DEF InFlight
    <3>4. CASE EmitFails(a)
      BY <2>3, <3>4 DEF EmitFails, Lost, InFlight
    <3>5. CASE MarkLedger(a) \/ Flushing(a)
      BY <2>3, <3>5 DEF MarkLedger, Flushing, Send, AckRow, EndFlush, InFlight
    <3> QED
      BY <1>10, <3>1, <3>2, <3>3, <3>4, <3>5 DEF Emission
  <2> QED
    BY <2>1, <2>2, <2>3
<1> HIDE DEF kept
<1> QED
  BY <1>4, <1>5, <1>6, <1>7, <1>8, <1>9, <1>10 DEF Next, SweepSteps, ForcedClose

\* A trade is given up with its close announced, under way or accounted for.
LEMMA SilenceHonest ==
  ASSUME HonestInv, Growth, [Next]_vars, NEW t \in Trades, managed'[t].closed
  PROVE  t \in dropped' \cup RowTrades' \/ InFlight(t)'
<1> USE Alphabet DEF HonestInv, TypeInv, TypeOK
<1>1. CASE managed[t].closed
  BY <1>1, FlagStays
<1>2. CASE MarkClosed /\ t = job["engine"].trade
  BY <1>2 DEF MarkClosed, Calls, CallHonest, Growth
<1>3. CASE CloseFilled(t)
  BY <1>3 DEF CloseFilled, GoEmit, InFlight
<1>4. CASE CloseUnfilled(t)
  BY <1>4 DEF CloseUnfilled
<1> QED
  BY <1>1, <1>2, <1>3, <1>4, NextFlags

LEMMA NextStores == HonestInv /\ [Next]_vars => StoresHonest'
<1> SUFFICES ASSUME HonestInv, [Next]_vars PROVE StoresHonest'
  OBVIOUS
<1>1. Growth
  BY NextGrows DEF HonestInv
<1>2. UNCHANGED <<outbox, heard>> \/ PersistFill
        \/ \E a \in Actors : PersistClose(a) \/ AckRow(a) \/ Send(a)
  <2> USE DEF storeVars
  <2>1. CASE BrokerActs \/ UNCHANGED vars \/ Startup \/ Crash \/ Filled \/ Redelivered
               \/ FillRaises \/ FillSteps \/ Stop \/ StopSteps \/ Backfill
    BY <2>1 DEF BrokerActs, vars, Startup, Crash, Filled, Redelivered, FillRaises, FillSteps,
         MarkProcessed, Register, Stop, StopSteps, EmitStopped, Exit, Backfill
  <2>2. CASE SweepSteps
    BY <2>2 DEF SweepSteps, StartSweep, ListOpenTrades, ListFails, SweepEnds, MarkClosed, LookUp,
         DetailsClosed, FallbackFinds, LeftForLater
  <2>3. CASE \E a \in Actors : Emission(a) \/ EmitFails(a) \/ Flushing(a)
    BY <2>3 DEF Emission, AlreadyEmitted, FindUnmarked, MarkLedger, EmitFails, Flushing, EndFlush
  <2>4. CASE ForcedClose
    BY <2>4 DEF ForcedClose, CloseFilled, CloseUnfilled, CloseRaises
  <2> QED
    BY <2>1, <2>2, <2>3, <2>4 DEF Next
<1>3. ledger' \subseteq RowTrades'
  <2>1. ledger' = ledger \/ \E a \in Actors : MarkLedger(a)
    <3> USE DEF storeVars
    <3>1. CASE BrokerActs \/ UNCHANGED vars \/ Startup \/ Crash \/ Filled \/ Redelivered
                 \/ FillRaises \/ FillSteps \/ Stop \/ StopSteps \/ Backfill
      BY <3>1 DEF BrokerActs, vars, Startup, Crash, Filled, Redelivered, FillRaises, FillSteps,
           MarkProcessed, PersistFill, Register, Stop, StopSteps, EmitStopped, Exit, Backfill
    <3>2. CASE SweepSteps
      BY <3>2 DEF SweepSteps, StartSweep, ListOpenTrades, ListFails, SweepEnds, MarkClosed,
           LookUp, DetailsClosed, FallbackFinds, LeftForLater
    <3>3. CASE \E a \in Actors : Emission(a) \/ EmitFails(a) \/ Flushing(a)
      BY <3>3 DEF Emission, AlreadyEmitted, FindUnmarked, PersistClose, EmitFails, Flushing, Send,
           AckRow, EndFlush
    <3>4. CASE ForcedClose
      BY <3>4 DEF ForcedClose, CloseFilled, CloseUnfilled, CloseRaises
    <3> QED
      BY <3>1, <3>2, <3>3, <3>4 DEF Next
  <2>2. ASSUME NEW a \in Actors, MarkLedger(a) PROVE ledger' \subseteq RowTrades'
    BY <1>1, <2>2 DEF MarkLedger, HonestInv, Calls, CallHonest, StoresHonest, Growth
  <2> QED
    BY <1>1, <2>1, <2>2 DEF HonestInv, StoresHonest, Growth
<1>4. /\ \A i \in DOMAIN outbox' : outbox'[i].done => outbox'[i].msg \in heard'
      /\ \A i \in DOMAIN outbox' :
           outbox'[i].msg.topic = "close" => outbox'[i].msg.trade \in CutTrades'
      /\ \A m \in heard' : m.topic = "close" => m.trade \in CutTrades'
  BY <1>1, <1>2, OutboxHonest, SameOutboxHonest, Alphabet
<1>5. \A t \in Trades : managed'[t].closed => t \in dropped' \cup RowTrades' \/ InFlight(t)'
  BY <1>1, SilenceHonest
<1> QED
  BY <1>3, <1>4, <1>5 DEF StoresHonest

LEMMA NextHonest == HonestInv /\ [Next]_vars => HonestInv'
BY NextTypes, NextCalls, NextStores DEF HonestInv

LEMMA Honest == Spec => []HonestInv
<1>1. Init => HonestInv
  BY InitHonest
<1>2. HonestInv /\ [Next]_vars => HonestInv'
  BY NextHonest
<1> QED
  BY <1>1, <1>2, PTL DEF Spec

\* Every variable stays in its domain.
THEOREM TypeCorrect == Spec => []TypeOK
<1>1. HonestInv => TypeOK
  BY DEF HonestInv, TypeInv
<1> QED
  BY <1>1, Honest, PTL

\* FillProducer.flush acks a row after its publish, and the emitter marks the ledger
\* after the outbox write: neither ever vouches for what is not there.
THEOREM DurableNeverAhead == Spec => []DurableFirst
<1>1. HonestInv => DurableFirst
  BY DEF HonestInv, StoresHonest, DurableFirst, RowTrades
<1> QED
  BY <1>1, Honest, PTL

\* A trade is given up as closed only with its close event in the outbox or on its way
\* there; what goes silent is a forced close that was given up.
THEOREM SilenceIsAccounted == Spec => []SilenceAccounted
<1>1. HonestInv => SilenceAccounted
  BY DEF HonestInv, StoresHonest, SilenceAccounted, InFlight, RowTrades
<1> QED
  BY <1>1, Honest, PTL

-----------------------------------------------------------------------------
\* One close event per trade.

\* The trades whose close is persisted and about to be marked.
Marking == {job[a].trade : a \in {b \in Actors : at[b] = "mark"}}

\* Actor a has found no mark of a trade of which it is the only emitter, and no close of
\* the trade is persisted.
Alone(a) ==
  /\ job[a].trade \notin RowTrades
  /\ \A b \in Actors \ {a} : at[b] \in {"unseen", "mark"} => job[b].trade # job[a].trade

\* A trade that is not torn has at most one close row; with one, it is in the ledger
\* or its emitter is about to mark it; and who found it unmarked is alone.
OnceInv ==
  /\ RowTrades \subseteq ledger \cup Marking \cup torn
  /\ \A t \in Trades \ torn : \A i, j \in RowsOf("close", t) : i = j
  /\ \A a \in Actors : at[a] = "unseen" => job[a].trade \in torn \/ Alone(a)

EventInv == HonestInv /\ OnceInv

LEMMA InitEvents == Init => EventInv
<1> SUFFICES ASSUME Init PROVE EventInv
  OBVIOUS
<1>1. OnceInv
  BY DEF Init, OnceInv, RowTrades, RowsOf, Actors
<1> QED
  BY <1>1, InitHonest DEF EventInv

\* The outbox changes by a fill, a close or an ack.
LEMMA NextOutbox ==
  ASSUME [Next]_vars
  PROVE  outbox' = outbox \/ PersistFill \/ \E a \in Actors : PersistClose(a) \/ AckRow(a)
<1> USE DEF storeVars
<1>1. CASE BrokerActs \/ UNCHANGED vars \/ Startup \/ Crash \/ Filled \/ Redelivered
             \/ FillRaises \/ FillSteps \/ Stop \/ StopSteps \/ Backfill
  BY <1>1 DEF BrokerActs, vars, Startup, Crash, Filled, Redelivered, FillRaises, FillSteps,
       MarkProcessed, Register, Stop, StopSteps, EmitStopped, Exit, Backfill
<1>2. CASE SweepSteps
  BY <1>2 DEF SweepSteps, StartSweep, ListOpenTrades, ListFails, SweepEnds, MarkClosed, LookUp,
       DetailsClosed, FallbackFinds, LeftForLater
<1>3. CASE \E a \in Actors : Emission(a) \/ EmitFails(a) \/ Flushing(a)
  BY <1>3 DEF Emission, AlreadyEmitted, FindUnmarked, MarkLedger, EmitFails, Flushing, Send,
       EndFlush
<1>4. CASE ForcedClose
  BY <1>4 DEF ForcedClose, CloseFilled, CloseUnfilled, CloseRaises
<1> QED
  BY <1>1, <1>2, <1>3, <1>4 DEF Next

\* Only the emitter's outbox write adds to the rows of the closes.
LEMMA NextRows ==
  ASSUME HonestInv, [Next]_vars
  PROVE  \/ \E a \in Actors : PersistClose(a)
         \/ \A t \in Trades : RowsOf("close", t)' = RowsOf("close", t)
<1> USE DEF storeVars
<1>1. CASE outbox' = outbox
  BY <1>1 DEF RowsOf
<1>2. CASE PersistFill
  <2> DEFINE row == [msg |-> FillOf(job["engine"].trade), done |-> FALSE]
  <2>1. job["engine"].trade \in Trades
    BY Alphabet DEF HonestInv, TypeInv, TypeOK, Job
  <2>2. row \in Row /\ outbox' = Append(outbox, row) /\ row.msg.topic # "close"
    BY <1>2, <2>1, MessageTypes DEF PersistFill, FillOf
  <2> HIDE DEF row
  <2> QED
    BY <2>2, AppendedRow DEF HonestInv, RowsOf
<1>3. ASSUME NEW a \in Actors, AckRow(a)
      PROVE  \A t \in Trades : RowsOf("close", t)' = RowsOf("close", t)
  <2>1. DOMAIN outbox' = DOMAIN outbox
    BY <1>3 DEF AckRow
  <2>2. \A i \in DOMAIN outbox : outbox'[i].msg = outbox[i].msg
    BY NextGrows DEF HonestInv, Growth
  <2> QED
    BY <2>1, <2>2 DEF RowsOf
<1>4. outbox' = outbox \/ PersistFill \/ \E a \in Actors : PersistClose(a) \/ AckRow(a)
  BY NextOutbox
<1> QED
  BY <1>1, <1>2, <1>3, <1>4

\* An emitter about to mark stays so, marks, or leaves its trade torn.
LEMMA NextMarking ==
  ASSUME HonestInv, [Next]_vars
  PROVE  Marking \subseteq Marking' \cup ledger' \cup torn'
<1> SUFFICES ASSUME NEW a \in Actors, at[a] = "mark"
             PROVE  \/ at'[a] = "mark" /\ job'[a] = job[a]
                    \/ job[a].trade \in ledger' \cup torn'
  BY DEF Marking
<1> USE Alphabet DEF HonestInv, TypeInv, TypeOK, storeVars, memoryVars, callVars, histVars
<1>1. CASE BrokerActs \/ UNCHANGED vars
  BY <1>1 DEF BrokerActs, vars
<1>2. CASE Crash
  BY <1>2 DEF Crash, Forget, Torn, Actors
<1>3. CASE Startup \/ Filled \/ Redelivered \/ FillRaises \/ FillSteps \/ Stop \/ StopSteps
  BY <1>3 DEF Startup, Filled, Redelivered, FillRaises, FillSteps, MarkProcessed, PersistFill,
       Register, Stop, StopSteps, EmitStopped, Exit, Forget, Stopping, Go, GoFlush, Resume, Actors
<1>4. CASE Backfill
  BY <1>4 DEF Backfill, GoEmit, Actors
<1>5. CASE StartSweep \/ ListOpenTrades \/ ListFails \/ SweepEnds \/ MarkClosed
  BY <1>5 DEF StartSweep, ListOpenTrades, ListFails, SweepEnds, MarkClosed, Go, GoFlush, Resume
<1>6. ASSUME NEW t \in Trades, LookUp(t) PROVE at'[a] = "mark" /\ job'[a] = job[a]
  BY <1>6 DEF LookUp, DetailsClosed, FallbackFinds, LeftForLater, Vanished, GoEmit
<1>7. ASSUME NEW t \in Trades, CloseFilled(t) \/ CloseUnfilled(t) \/ CloseRaises(t)
      PROVE  at'[a] = "mark" /\ job'[a] = job[a]
  BY <1>7 DEF CloseFilled, CloseUnfilled, CloseRaises, Forcing, Stopping, GoEmit, Forget
<1>8. ASSUME NEW b \in Actors, Emission(b) \/ EmitFails(b) \/ Flushing(b)
      PROVE  \/ at'[a] = "mark" /\ job'[a] = job[a]
             \/ job[a].trade \in ledger' \cup torn'
  <2>1. CASE a # b \/ PersistClose(b)
    BY <1>8, <2>1 DEF Emission, AlreadyEmitted, FindUnmarked, PersistClose, MarkLedger, EmitFails,
         Flushing, Send, AckRow, EndFlush, Go, GoFlush, Resume
  <2>2. CASE a = b
    BY <1>8, <2>2 DEF Emission, AlreadyEmitted, FindUnmarked, PersistClose, MarkLedger, EmitFails,
         Torn, Flushing, Send, AckRow, EndFlush
  <2> QED
    BY <2>1, <2>2
<1> QED
  BY <1>1, <1>2, <1>3, <1>4, <1>5, <1>6, <1>7, <1>8 DEF Next, SweepSteps, ForcedClose

\* Who is between the check and the mark was there before, or checks just now.
LEMMA NextUnseen ==
  ASSUME HonestInv, [Next]_vars, NEW a \in Actors, at'[a] \in {"unseen", "mark"}
  PROVE  \/ FindUnmarked(a) /\ at'[a] = "unseen" /\ job'[a] = job[a]
         \/ /\ at[a] \in {"unseen", "mark"} /\ job'[a] = job[a]
            /\ at'[a] = "mark" => at[a] = "mark" \/ PersistClose(a)
            /\ at'[a] = "unseen" => at[a] = "unseen" /\ ~PersistClose(a)
<1> USE Alphabet DEF HonestInv, TypeInv, TypeOK, storeVars, memoryVars, callVars, histVars
<1> DEFINE stays == at[a] = at'[a] /\ job'[a] = job[a]
<1>1. ASSUME stays
      PROVE  /\ at[a] \in {"unseen", "mark"} /\ job'[a] = job[a]
             /\ at'[a] = "mark" => at[a] = "mark" \/ PersistClose(a)
             /\ at'[a] = "unseen" => at[a] = "unseen" /\ ~PersistClose(a)
  BY <1>1 DEF PersistClose, Go
<1>2. back[a] \in Returns /\ back["engine"] \in Returns
  BY DEF Calls, CallHonest
<1>3. ASSUME BrokerActs \/ UNCHANGED vars PROVE stays
  BY <1>3 DEF BrokerActs, vars
<1>4. ASSUME Startup \/ Crash \/ Filled \/ Redelivered \/ FillRaises \/ FillSteps \/ Stop \/ StopSteps
      PROVE  stays
  BY <1>4 DEF Startup, Crash, Forget, Filled, Redelivered, FillRaises, FillSteps, MarkProcessed,
       PersistFill, Register, Stop, StopSteps, EmitStopped, Exit, Go, GoFlush, Resume, Actors
<1>5. ASSUME StartSweep \/ ListOpenTrades \/ ListFails \/ SweepEnds \/ MarkClosed PROVE stays
  BY <1>5 DEF StartSweep, ListOpenTrades, ListFails, SweepEnds, MarkClosed, Go, GoFlush, Resume,
       Actors
<1>6. ASSUME Backfill PROVE stays
  BY <1>6 DEF Backfill, GoEmit, Actors
<1>7. ASSUME NEW t \in Trades, LookUp(t) PROVE stays
  BY <1>7 DEF LookUp, DetailsClosed, FallbackFinds, LeftForLater, GoEmit, Actors
<1>8. ASSUME NEW t \in Trades, CloseFilled(t) \/ CloseUnfilled(t) \/ CloseRaises(t)
      PROVE  stays
  BY <1>8 DEF CloseFilled, CloseUnfilled, CloseRaises, GoEmit, Forget, Actors
<1>9. ASSUME NEW b \in Actors, b # a, Emission(b) \/ EmitFails(b) \/ Flushing(b) PROVE stays
  BY <1>9 DEF Emission, AlreadyEmitted, FindUnmarked, PersistClose, MarkLedger, EmitFails,
       Flushing, Send, AckRow, EndFlush, Go, GoFlush, Resume
<1>10. ASSUME Emission(a) \/ EmitFails(a) \/ Flushing(a)
       PROVE  \/ FindUnmarked(a) /\ at'[a] = "unseen" /\ job'[a] = job[a]
              \/ PersistClose(a) /\ at[a] = "unseen" /\ at'[a] = "mark" /\ job'[a] = job[a]
  BY <1>2, <1>10
     DEF Emission, AlreadyEmitted, FindUnmarked, PersistClose, MarkLedger, EmitFails, Unemitted,
         Flushing, Send, AckRow, EndFlush, Go, GoFlush, Resume, Returns
<1>11. ASSUME SweepSteps \/ ForcedClose PROVE stays
  BY <1>5, <1>7, <1>8, <1>11 DEF SweepSteps, ForcedClose
<1>12. CASE \E b \in Actors : Emission(b) \/ EmitFails(b) \/ Flushing(b)
  <2> HIDE DEF stays
  <2> QED
    BY <1>1, <1>9, <1>10, <1>12
<1> HIDE DEF stays
<1> QED
  BY <1>1, <1>3, <1>4, <1>6, <1>11, <1>12 DEF Next

\* Who found a trade unmarked stays alone, or the trade is torn.
LEMMA NextAlone ==
  ASSUME EventInv, [Next]_vars, NEW a \in Actors, at'[a] = "unseen", job'[a].trade \notin torn'
  PROVE  Alone(a)'
<1> USE DEF EventInv
<1>1. Growth
  BY NextGrows DEF HonestInv
<1>2. job'[a] = job[a] /\ job[a].trade \notin torn /\ ~PersistClose(a)
  BY <1>1, NextUnseen DEF Growth, PersistClose, FindUnmarked
<1>3. job[a].trade \in Trades
  BY DEF HonestInv, TypeInv, TypeOK, Job
\* Whoever checks now while another is past the check leaves the trade torn.
<1>4. ASSUME NEW b \in Actors, FindUnmarked(b), NEW c \in Actors,
             at[c] \in {"unseen", "mark"}, job[c].trade = job[b].trade
      PROVE  job[b].trade \in torn'
  BY <1>4 DEF FindUnmarked
<1>5. /\ job[a].trade \notin RowTrades
      /\ \A b \in Actors \ {a} : at[b] \in {"unseen", "mark"} => job[b].trade # job[a].trade
      /\ FindUnmarked(a) \/ at[a] = "unseen"
  <2>1. CASE FindUnmarked(a)
    <3>1. job[a].trade \notin ledger
      BY <2>1 DEF FindUnmarked, Unmarked
    <3>2. \A b \in Actors : at[b] \in {"unseen", "mark"} => job[b].trade # job[a].trade
      BY <1>2, <1>4, <2>1
    <3>3. job[a].trade \notin Marking
      BY <3>2 DEF Marking
    <3> QED
      BY <1>2, <2>1, <3>1, <3>2, <3>3 DEF OnceInv
  <2>2. CASE at[a] = "unseen"
    BY <1>2, <2>2 DEF OnceInv, Alone
  <2> QED
    BY <2>1, <2>2, NextUnseen
<1>6. ASSUME NEW b \in Actors \ {a}, at'[b] \in {"unseen", "mark"}, job'[b].trade = job[a].trade
      PROVE  FALSE
  <2>1. FindUnmarked(b) /\ job'[b] = job[b]
    BY <1>5, <1>6, NextUnseen
  <2>2. ~FindUnmarked(a)
    BY <2>1, <1>6 DEF FindUnmarked, Go, HonestInv, TypeInv, TypeOK
  <2>3. job[b].trade \in torn'
    BY <1>4, <1>5, <1>6, <2>1, <2>2
  <2> QED
    BY <1>2, <1>6, <2>1, <2>3
<1>7. job[a].trade \notin RowTrades'
  <2>1. CASE \A t \in Trades : RowsOf("close", t)' = RowsOf("close", t)
    BY <1>3, <1>5, <2>1 DEF RowTrades
  <2>2. ASSUME NEW b \in Actors, PersistClose(b) PROVE job[a].trade \notin RowTrades'
    <3>1. b # a /\ at[b] = "unseen"
      BY <1>2, <2>2 DEF PersistClose
    <3>2. PICK u \in Trades : u = job[a].trade /\ u # job[b].trade
      BY <1>3, <1>5, <3>1
    <3> DEFINE row == [msg |-> CloseOf(job[b]), done |-> FALSE]
    <3>3. row \in Row /\ outbox' = Append(outbox, row) /\ row.msg.trade = job[b].trade
      BY <2>2, PersistedClose DEF HonestInv, CloseOf
    <3> HIDE DEF row
    <3>4. RowsOf("close", u)' = RowsOf("close", u)
      BY <3>2, <3>3, AppendedRow DEF HonestInv, RowsOf
    <3> QED
      BY <1>5, <3>2, <3>4 DEF RowTrades
  <2> QED
    BY <2>1, <2>2, NextRows
<1> QED
  BY <1>2, <1>6, <1>7 DEF Alone

LEMMA NextEvents == EventInv /\ [Next]_vars => EventInv'
<1> SUFFICES ASSUME EventInv, [Next]_vars PROVE OnceInv'
  BY NextHonest DEF EventInv
<1> USE DEF EventInv
<1>1. Growth /\ Marking \subseteq Marking' \cup ledger' \cup torn'
  BY NextGrows, NextMarking DEF HonestInv
<1>2. \A a \in Actors : at'[a] = "unseen" => job'[a].trade \in torn' \/ Alone(a)'
  BY NextAlone
<1>3. CASE \A t \in Trades : RowsOf("close", t)' = RowsOf("close", t)
  <2>1. RowTrades' = RowTrades
    BY <1>3 DEF RowTrades
  <2>2. \A t \in Trades \ torn' : \A i, j \in RowsOf("close", t)' : i = j
    BY <1>1, <1>3 DEF OnceInv, Growth
  <2> QED
    BY <1>1, <1>2, <2>1, <2>2 DEF OnceInv, Growth
<1>4. ASSUME NEW a \in Actors, PersistClose(a) PROVE OnceInv'
  <2>1. PICK u \in Trades : u = job[a].trade
    BY DEF HonestInv, TypeInv, TypeOK, Job
  <2> DEFINE row == [msg |-> CloseOf(job[a]), done |-> FALSE]
  <2>2. row \in Row /\ outbox' = Append(outbox, row) /\ row.msg.topic = "close" /\ row.msg.trade = u
    BY <1>4, <2>1, PersistedClose DEF HonestInv, CloseOf
  <2>3. u \in Marking'
    BY <1>4, <2>1 DEF PersistClose, Go, Marking, HonestInv, TypeInv, TypeOK
  <2>4. u \in torn' \/ u \notin RowTrades
    BY <1>1, <1>4, <2>1 DEF PersistClose, OnceInv, Alone, Growth
  <2>5. \A t \in Trades \ {u} : RowsOf("close", t)' = RowsOf("close", t)
    <3> HIDE DEF row
    <3> QED
      BY <2>2, AppendedRow DEF HonestInv, RowsOf
  <2>6. u \notin RowTrades => \A i \in RowsOf("close", u)' : i = Len(outbox) + 1
    <3> HIDE DEF row
    <3> SUFFICES ASSUME u \notin RowTrades, NEW i \in RowsOf("close", u)', i # Len(outbox) + 1
                 PROVE  FALSE
      OBVIOUS
    <3>1. i \in DOMAIN outbox /\ outbox'[i] = outbox[i]
      BY <2>2, AppendedRow DEF HonestInv, RowsOf
    <3>2. i \in RowsOf("close", u)
      BY <3>1 DEF RowsOf
    <3> QED
      BY <3>2 DEF RowTrades
  <2> HIDE DEF row
  <2>7. RowTrades' \subseteq RowTrades \cup {u}
    BY <2>5 DEF RowTrades
  <2>8. \A t \in Trades \ torn' : \A i, j \in RowsOf("close", t)' : i = j
    <3> SUFFICES ASSUME NEW t \in Trades \ torn', NEW i \in RowsOf("close", t)',
                        NEW j \in RowsOf("close", t)'
                 PROVE  i = j
      OBVIOUS
    <3>1. CASE t # u
      <4>1. i \in RowsOf("close", t) /\ j \in RowsOf("close", t)
        BY <2>5, <3>1
      <4> QED
        BY <1>1, <4>1 DEF OnceInv, Growth
    <3>2. CASE t = u
      BY <2>4, <2>6, <3>2
    <3> QED
      BY <3>1, <3>2
  <2> QED
    BY <1>1, <1>2, <2>3, <2>7, <2>8 DEF OnceInv, Growth
<1> QED
  BY <1>3, <1>4, NextRows

\* CloseEmitter.emit announces a close once: a second event takes a death or a failing
\* write between the outbox and the ledger, or two emitters between the check of the
\* ledger and its mark.
THEOREM ClosesAnnouncedOnce == Spec => []OneEventPerClose
<1>1. EventInv => OneEventPerClose
  <2> SUFFICES ASSUME EventInv, NEW t \in Trades, t \notin torn
               PROVE  ~(Cardinality(RowsOf("close", t)) > 1)
    BY DEF OneEventPerClose
  <2>1. \A i, j \in RowsOf("close", t) : i = j
    BY DEF EventInv, OnceInv
  <2>2. CASE RowsOf("close", t) = {}
    BY <2>2, FS_EmptySet
  <2>3. CASE RowsOf("close", t) # {}
    <3>1. PICK i \in RowsOf("close", t) : RowsOf("close", t) = {i}
      BY <2>1, <2>3
    <3>2. Cardinality(RowsOf("close", t)) = 1
      BY <3>1, FS_Singleton
    <3> QED
      BY <3>2
  <2> QED
    BY <2>2, <2>3
<1> QED
  BY <1>1, InitEvents, NextEvents, PTL DEF Spec

-----------------------------------------------------------------------------
\* System 3's view refines CloseJournal.

OpenedTrades == {t \in Trades : Opened(t)}
ToldTrades == {t \in Trades : \E m \in heard : m.topic = "close" /\ m.trade = t /\ m.known}

LEMMA PhaseIs ==
  ASSUME NEW t \in Trades
  PROVE  /\ TradePhase(t) =
              IF t \notin OpenedTrades THEN "unopened"
              ELSE IF t \in ClosedTrades THEN (IF t \in ToldTrades THEN "told" ELSE "closed")
              ELSE IF t \notin CutTrades THEN (IF t \in ToldTrades THEN "invented" ELSE "open")
              ELSE (IF t \in ToldTrades THEN "misled" ELSE "reduced")
         /\ TradePhase(t)' =
              IF t \notin OpenedTrades' THEN "unopened"
              ELSE IF t \in ClosedTrades' THEN (IF t \in ToldTrades' THEN "told" ELSE "closed")
              ELSE IF t \notin CutTrades' THEN (IF t \in ToldTrades' THEN "invented" ELSE "open")
              ELSE (IF t \in ToldTrades' THEN "misled" ELSE "reduced")
BY DEF TradePhase, Heard, OpenedTrades, ClosedTrades, CutTrades, ToldTrades

\* What one transaction more changes.
LEMMA BookedTrades ==
  ASSUME TypeInv, NEW kind \in {"open", "part", "close"}, NEW t \in Trades, Books(kind, t)
  PROVE  /\ OpenedTrades' = OpenedTrades \cup {u \in {Len(stream) + 1} : kind = "open"}
         /\ ClosedTrades' = ClosedTrades \cup {u \in {t} : kind = "close"}
         /\ CutTrades' = CutTrades \cup {u \in {t} : kind # "open"}
<1> DEFINE x == [kind |-> kind, trade |-> t]
<1>1. stream' = Append(stream, x) /\ stream \in Seq(Txn) /\ x \in Txn /\ Len(stream) < MaxTxns
  BY DEF Books, TypeInv, StreamOK, Txn
<1>2. x.kind = kind /\ x.trade = t
  OBVIOUS
<1> HIDE DEF x
<1>3. /\ Len(stream) + 1 \in DOMAIN stream' /\ stream'[Len(stream) + 1] = x
      /\ \A n \in DOMAIN stream : n \in DOMAIN stream' /\ stream'[n] = stream[n]
      /\ \A n \in DOMAIN stream' : n \in DOMAIN stream \/ n = Len(stream) + 1
      /\ Len(stream) + 1 \notin DOMAIN stream /\ Len(stream) + 1 \in Trades
  BY <1>1, CloseAssumption DEF Trades
<1>4. \A u \in Trades : Opened(u)' <=> Opened(u) \/ (u = Len(stream) + 1 /\ kind = "open")
  BY <1>2, <1>3 DEF Opened
<1>5. ASSUME NEW u \in Trades
      PROVE  Closings(u)' = Closings(u) \cup {n \in {Len(stream) + 1} : u = t /\ kind # "open"}
  BY <1>2, <1>3 DEF Closings
<1>6. ASSUME NEW u \in Trades
      PROVE  ClosedAtBroker(u)' <=> ClosedAtBroker(u) \/ (u = t /\ kind = "close")
  <2>1. \A n \in Closings(u) : n \in DOMAIN stream
    BY DEF Closings
  <2>2. ClosedAtBroker(u)' <=> \E n \in Closings(u)' : stream'[n].kind = "close"
    BY DEF ClosedAtBroker
  <2> QED
    BY <1>2, <1>3, <1>5, <2>1, <2>2 DEF ClosedAtBroker
<1>7. OpenedTrades' = OpenedTrades \cup {u \in {Len(stream) + 1} : kind = "open"}
  BY <1>3, <1>4 DEF OpenedTrades
<1>8. ClosedTrades' = ClosedTrades \cup {u \in {t} : kind = "close"}
  BY <1>6 DEF ClosedTrades
<1>9. CutTrades' = CutTrades \cup {u \in {t} : kind # "open"}
  BY <1>5 DEF CutTrades
<1> QED
  BY <1>7, <1>8, <1>9

LEMMA SameTrades ==
  ASSUME stream' = stream
  PROVE  OpenedTrades' = OpenedTrades /\ ClosedTrades' = ClosedTrades /\ CutTrades' = CutTrades
BY DEF OpenedTrades, ClosedTrades, CutTrades, Opened, ClosedAtBroker, Closings

\* System 3 hears by a publish, and a publish books nothing.
LEMMA NextHears ==
  ASSUME [Next]_vars
  PROVE  heard' = heard \/ \E a \in Actors : Send(a) /\ UNCHANGED stream
<1> USE DEF storeVars, brokerVars
<1>1. CASE BrokerActs \/ UNCHANGED vars \/ Startup \/ Crash \/ Filled \/ Redelivered
             \/ FillRaises \/ FillSteps \/ Stop \/ StopSteps \/ Backfill
  BY <1>1 DEF BrokerActs, vars, Startup, Crash, Filled, Redelivered, FillRaises, FillSteps,
       MarkProcessed, PersistFill, Register, Stop, StopSteps, EmitStopped, Exit, Backfill
<1>2. CASE SweepSteps
  BY <1>2 DEF SweepSteps, StartSweep, ListOpenTrades, ListFails, SweepEnds, MarkClosed, LookUp,
       DetailsClosed, FallbackFinds, LeftForLater
<1>3. CASE \E a \in Actors : Emission(a) \/ EmitFails(a) \/ Flushing(a)
  BY <1>3 DEF Emission, AlreadyEmitted, FindUnmarked, PersistClose, MarkLedger, EmitFails,
       Flushing, Send, AckRow, EndFlush
<1>4. CASE ForcedClose
  BY <1>4 DEF ForcedClose, CloseFilled, CloseUnfilled, CloseRaises
<1> QED
  BY <1>1, <1>2, <1>3, <1>4 DEF Next

\* One trade moves along the journal, or stays, and the others stay where they are.
LEMMA JournalMoves ==
  ASSUME NEW t \in Trades,
         TradePhase(t)' \in Journal!After[TradePhase(t)] \/ TradePhase(t)' = TradePhase(t),
         \A u \in Trades \ {t} : TradePhase(u)' = TradePhase(u)
  PROVE  Journal!Next \/ UNCHANGED Phases
<1>1. Phases' = [Phases EXCEPT ![t] = TradePhase(t)'] /\ Phases'[t] = TradePhase(t)'
      /\ Phases[t] = TradePhase(t)
  BY DEF Phases
<1>2. CASE TradePhase(t)' = TradePhase(t)
  BY <1>1, <1>2 DEF Phases
<1>3. CASE TradePhase(t)' \in Journal!After[TradePhase(t)]
  BY <1>1, <1>3 DEF Journal!Next
<1> QED
  BY <1>2, <1>3

LEMMA JournalStays ==
  ASSUME \A u \in Trades : TradePhase(u)' = TradePhase(u)
  PROVE  UNCHANGED Phases
BY DEF Phases

LEMMA JournalStep ==
  HonestInv /\ [Next]_vars => [Journal!Next]_Phases
<1> SUFFICES ASSUME HonestInv, [Next]_vars
             PROVE  Journal!Next \/ UNCHANGED Phases
  OBVIOUS
<1> USE DEF HonestInv
<1>1. ClosedTrades \subseteq CutTrades /\ CutTrades \subseteq OpenedTrades /\ ToldTrades \subseteq CutTrades
  <2>1. ClosedTrades \subseteq CutTrades
    BY DEF ClosedTrades, CutTrades, ClosedAtBroker
  <2>2. CutTrades \subseteq OpenedTrades
    BY DEF CutTrades, OpenedTrades, Closings, TypeInv, StreamOK
  <2>3. ToldTrades \subseteq CutTrades
    BY DEF ToldTrades, StoresHonest
  <2> QED
    BY <2>1, <2>2, <2>3
<1>2. CASE heard' = heard /\ stream' = stream
  <2>1. \A u \in Trades : TradePhase(u)' = TradePhase(u)
    BY <1>2 DEF TradePhase, Heard, Opened, ClosedAtBroker, Closings
  <2> QED
    BY <2>1, JournalStays
<1>3. CASE heard' = heard /\ Filled
  <2>1. PICK t \in Trades : t = Len(stream) + 1 /\ Books("open", t)
    BY <1>3, FilledBooks
  <2>2. /\ OpenedTrades' = OpenedTrades \cup {t} /\ ClosedTrades' = ClosedTrades
        /\ CutTrades' = CutTrades /\ ToldTrades' = ToldTrades
    BY <1>3, <2>1, BookedTrades DEF ToldTrades
  <2>3. t \notin OpenedTrades
    BY <2>1 DEF OpenedTrades, Opened, TypeInv, StreamOK
  <2>4. TradePhase(t) = "unopened" /\ TradePhase(t)' = "open"
    BY <1>1, <2>2, <2>3, PhaseIs
  <2>5. \A u \in Trades \ {t} : TradePhase(u)' = TradePhase(u)
    BY <2>2, PhaseIs
  <2> QED
    BY <2>4, <2>5, JournalMoves DEF Journal!After
<1>4. CASE /\ heard' = heard
           /\ \E kind \in {"part", "close"}, t \in Trades : OpenAtBroker(t) /\ Books(kind, t)
  <2>1. PICK kind \in {"part", "close"}, t \in Trades : OpenAtBroker(t) /\ Books(kind, t)
    BY <1>4
  <2>2. /\ t \in OpenedTrades \ ClosedTrades /\ ToldTrades' = ToldTrades
        /\ OpenedTrades' = OpenedTrades /\ CutTrades' = CutTrades \cup {t}
    BY <1>4, <2>1, BookedTrades DEF OpenAtBroker, OpenedTrades, ClosedTrades, ToldTrades
  <2>3. ClosedTrades' = ClosedTrades \cup {u \in {t} : kind = "close"}
    BY <2>1, BookedTrades
  <2>4. \A u \in Trades \ {t} : TradePhase(u)' = TradePhase(u)
    BY <2>2, <2>3, PhaseIs
  <2>5. \/ TradePhase(t) = "open" /\ TradePhase(t)' \in {"reduced", "closed"}
        \/ TradePhase(t) = "reduced" /\ TradePhase(t)' \in {"reduced", "closed"}
        \/ TradePhase(t) = "misled" /\ TradePhase(t)' \in {"misled", "told"}
    BY <1>1, <2>2, <2>3, PhaseIs
  <2> QED
    BY <2>4, <2>5, JournalMoves DEF Journal!After
<1>5. ASSUME NEW a \in Actors, Send(a), stream' = stream
      PROVE  Journal!Next \/ UNCHANGED Phases
  <2>1. PICK i \in DOMAIN outbox : heard' = heard \cup {outbox[i].msg}
    BY <1>5 DEF Send
  <2>2. OpenedTrades' = OpenedTrades /\ ClosedTrades' = ClosedTrades /\ CutTrades' = CutTrades
    BY <1>5, SameTrades
  <2>3. PICK m \in Message : m = outbox[i].msg
    <3>1. outbox[i] \in Row
      BY <2>1 DEF TypeInv, TypeOK
    <3> QED
      BY <3>1 DEF Row
  <2>4. CASE ToldTrades' = ToldTrades
    <3>1. \A u \in Trades : TradePhase(u)' = TradePhase(u)
      BY <2>2, <2>4, PhaseIs
    <3> QED
      BY <3>1, JournalStays
  <2>5. CASE ToldTrades' # ToldTrades
    <3>1. PICK t \in Trades : t = m.trade
      BY <2>3 DEF Message
    <3>2. m.topic = "close" /\ t \notin ToldTrades /\ ToldTrades' = ToldTrades \cup {t}
      BY <2>1, <2>3, <2>5, <3>1 DEF ToldTrades
    <3>3. t \in CutTrades
      BY <2>1, <2>3, <3>1, <3>2 DEF StoresHonest
    <3>4. \/ TradePhase(t) = "closed" /\ TradePhase(t)' = "told"
          \/ TradePhase(t) = "reduced" /\ TradePhase(t)' = "misled"
      BY <1>1, <2>2, <3>2, <3>3, PhaseIs
    <3>5. \A u \in Trades \ {t} : TradePhase(u)' = TradePhase(u)
      BY <2>2, <3>2, PhaseIs
    <3> QED
      BY <3>4, <3>5, JournalMoves DEF Journal!After
  <2> QED
    BY <2>4, <2>5
<1> QED
  BY <1>2, <1>3, <1>4, <1>5, NextHears, NextBooks

\* System 3 is told of a close only after the broker closed the trade or part of it, and
\* the news is never undone: the detailed close path implements CloseJournal.
THEOREM CloseJournalImplemented == Spec => ImplementsCloseJournal
<1>1. Init => Journal!Init
  BY DEF Init, Journal!Init, Phases, TradePhase, Opened
<1> QED
  BY <1>1, JournalStep, Honest, PTL DEF Spec, ImplementsCloseJournal, Journal!Spec

-----------------------------------------------------------------------------
\* How far the bounded scan of the transactions reads.

LEMMA SmallerOfTwo ==
  ASSUME NEW x \in Int, NEW y \in Int
  PROVE  Min({x, y}) = IF x <= y THEN x ELSE y
BY DEF Min

\* The page that starts at lo goes on while it is below the end and the bound, and the
\* next one starts behind its last transaction.
GoesOn(from, to, lo) == lo <= to /\ lo - from < MaxScan
NextPage(to, lo) == Min({lo + PageSize - 1, to}) + 1
\* The function page of LastRead.
PageFrom(from, to) ==
  CHOOSE page : page = [lo \in from..(to + 1) |->
    IF GoesOn(from, to, lo) THEN page[NextPage(to, lo)] ELSE lo - 1]

LEMMA NextPageStart ==
  ASSUME NEW to \in Nat, NEW lo \in Nat, lo <= to
  PROVE  /\ NextPage(to, lo) = IF lo + PageSize <= to THEN lo + PageSize ELSE to + 1
         /\ NextPage(to, lo) \in (lo + 1)..(to + 1)
<1>1. lo + PageSize - 1 \in Int /\ PageSize \in Nat \ {0}
  BY CloseAssumption
<1>2. Min({lo + PageSize - 1, to}) = IF lo + PageSize - 1 <= to THEN lo + PageSize - 1 ELSE to
  BY <1>1, SmallerOfTwo
<1> QED
  BY <1>1, <1>2 DEF NextPage

LEMMA NextMultiple ==
  ASSUME NEW lo \in Nat, NEW k \in Nat, NEW p \in Nat
  PROVE  lo + (k + 1) * p = (lo + p) + k * p
<1>1. (k + 1) * p = k * p + p
  BY Z3
<1> QED
  BY <1>1, Z3

\* There is a function that satisfies the recursion: what is read ends before the first
\* page start past the bound, or with the last transaction.
LEMMA PageExists ==
  ASSUME NEW from \in Nat, NEW to \in Nat
  PROVE  \E page : page = [lo \in from..(to + 1) |->
           IF GoesOn(from, to, lo) THEN page[NextPage(to, lo)] ELSE lo - 1]
<1> DEFINE starts == from..(to + 1)
           Stops(lo) == {x \in lo..(to + 1) :
                           x = to + 1 \/ (x - from >= MaxScan /\ \E k \in Nat : x = lo + k * PageSize)}
           page == [lo \in starts |-> Min(Stops(lo)) - 1]
<1>1. ASSUME NEW lo \in starts, GoesOn(from, to, lo)
      PROVE  NextPage(to, lo) \in starts /\ Stops(NextPage(to, lo)) = Stops(lo)
  <2>1. lo \in Nat /\ lo <= to /\ lo >= from /\ PageSize \in Nat \ {0} /\ MaxScan \in Nat
        /\ lo - from < MaxScan
    BY <1>1, CloseAssumption DEF GoesOn
  <2>2. /\ NextPage(to, lo) = IF lo + PageSize <= to THEN lo + PageSize ELSE to + 1
        /\ NextPage(to, lo) \in (lo + 1)..(to + 1)
    BY <2>1, NextPageStart
  <2>3. ASSUME NEW x \in Stops(lo), x # to + 1
        PROVE  x \in Stops(NextPage(to, lo))
    <3>1. PICK k \in Nat : x = lo + k * PageSize
      BY <2>3
    <3>2. k # 0
      <4>1. k = 0 => x = lo
        BY <2>1, <3>1, Z3
      <4> QED
        BY <2>1, <2>3, <4>1
    <3>3. k - 1 \in Nat /\ x = (lo + PageSize) + (k - 1) * PageSize
      BY <2>1, <3>1, <3>2, NextMultiple
    <3>4. (k - 1) * PageSize >= 0
      BY <2>1, <3>3, Z3
    <3>5. x >= lo + PageSize /\ x <= to /\ x - from >= MaxScan
      BY <2>1, <2>3, <3>3, <3>4
    <3>6. NextPage(to, lo) = lo + PageSize
      BY <2>1, <2>2, <3>5
    <3> QED
      BY <2>1, <2>3, <3>3, <3>5, <3>6
  <2>4. ASSUME NEW x \in Stops(NextPage(to, lo)), x # to + 1
        PROVE  x \in Stops(lo)
    <3>1. NextPage(to, lo) = lo + PageSize
      BY <2>1, <2>2, <2>4
    <3>2. PICK k \in Nat : x = (lo + PageSize) + k * PageSize
      BY <2>4, <3>1
    <3>3. k + 1 \in Nat /\ x = lo + (k + 1) * PageSize
      BY <2>1, <3>2, NextMultiple
    <3> QED
      BY <2>1, <2>2, <2>4, <3>3
  <2>5. to + 1 \in Stops(lo) /\ to + 1 \in Stops(NextPage(to, lo))
    BY <2>1, <2>2
  <2>6. NextPage(to, lo) \in starts
    BY <2>1, <2>2
  <2> QED
    <3> HIDE DEF Stops
    <3> QED
      BY <2>3, <2>4, <2>5, <2>6
<1>2. ASSUME NEW lo \in starts, ~GoesOn(from, to, lo)
      PROVE  Min(Stops(lo)) = lo
  <2>1. lo \in Nat /\ lo <= to + 1 /\ MaxScan \in Nat /\ PageSize \in Nat
        /\ (lo = to + 1 \/ lo - from >= MaxScan)
    BY <1>2, CloseAssumption DEF GoesOn
  <2>2. lo = lo + 0 * PageSize
    BY <2>1, Z3
  <2>3. lo \in Stops(lo) /\ \A x \in Stops(lo) : x \in Nat /\ lo <= x
    BY <2>1, <2>2
  <2> QED
    <3> HIDE DEF Stops
    <3> QED
      BY <2>1, <2>3 DEF Min
<1>3. page = [lo \in starts |-> IF GoesOn(from, to, lo) THEN page[NextPage(to, lo)] ELSE lo - 1]
  <2>1. ASSUME NEW lo \in starts
        PROVE  page[lo] = IF GoesOn(from, to, lo) THEN page[NextPage(to, lo)] ELSE lo - 1
    <3> HIDE DEF Stops
    <3>1. CASE GoesOn(from, to, lo)
      BY <1>1, <3>1
    <3>2. CASE ~GoesOn(from, to, lo)
      BY <1>2, <3>2
    <3> QED
      BY <3>1, <3>2
  <2> QED
    <3> HIDE DEF Stops
    <3> QED
      BY <2>1
<1> QED
  BY <1>3

LEMMA LastReadIsPage ==
  ASSUME NEW from \in Nat, NEW to \in Nat, from <= to + 1
  PROVE  LastRead(from, to) = PageFrom(from, to)[from]
BY DEF LastRead, PageFrom, GoesOn, NextPage

LEMMA PageStep ==
  ASSUME NEW from \in Nat, NEW to \in Nat, NEW lo \in from..(to + 1)
  PROVE  PageFrom(from, to)[lo] =
           IF GoesOn(from, to, lo) THEN PageFrom(from, to)[NextPage(to, lo)] ELSE lo - 1
<1> DEFINE P == PageFrom(from, to)
<1>1. P = [l \in from..(to + 1) |-> IF GoesOn(from, to, l) THEN P[NextPage(to, l)] ELSE l - 1]
  BY PageExists DEF PageFrom
<1> HIDE DEF P
<1> QED
  BY <1>1 DEF P

\* A multiple of the page size past the bound is past the last page read.
LEMMA PagesEnough ==
  ASSUME NEW k \in Nat, k * PageSize >= MaxScan
  PROVE  k * PageSize >= PageSize * ((MaxScan + PageSize - 1) \div PageSize)
<1> DEFINE pages == (MaxScan + PageSize - 1) \div PageSize
<1>1. MaxScan \in Nat /\ PageSize \in Nat \ {0} /\ MaxScan + PageSize - 1 \in Int
  BY CloseAssumption
<1>2. pages \in Int /\ PageSize * pages <= MaxScan + PageSize - 1
  BY <1>1, Z3
<1> HIDE DEF pages
<1>3. pages <= k
  <2> SUFFICES ASSUME pages >= k + 1 PROVE FALSE
    BY <1>2
  <2>1. PageSize * pages >= PageSize * (k + 1)
    BY <1>1, <1>2, Z3
  <2>2. PageSize * (k + 1) = k * PageSize + PageSize
    BY <1>1, Z3
  <2>3. k * PageSize \in Nat /\ PageSize * (k + 1) \in Nat /\ PageSize * pages \in Int
    BY <1>1, <1>2, Z3
  <2> QED
    BY <1>1, <1>2, <2>1, <2>2, <2>3
<1>4. k * PageSize >= PageSize * pages
  BY <1>1, <1>2, <1>3, Z3
<1> QED
  BY <1>4 DEF pages

\* The scan that starts at the trade reads up to the last transaction, or every one
\* before the horizon.
LEMMA ScanReaches ==
  ASSUME NEW t \in Trades, NEW to \in Nat, t <= to
  PROVE  /\ LastRead(t, to) \in Int
         /\ LastRead(t, to) >= to \/ LastRead(t, to) >= Horizon(t) - 1
<1> DEFINE starts == t..(to + 1)
           page == PageFrom(t, to)
           OnGrid(lo) == lo = to + 1 \/ \E k \in Nat : lo = t + k * PageSize
           Far(lo) == page[lo] \in Int /\ (page[lo] >= to \/ page[lo] >= Horizon(t) - 1)
           bad == {lo \in starts : OnGrid(lo) /\ ~Far(lo)}
<1>1. t \in Nat /\ PageSize \in Nat \ {0} /\ MaxScan \in Nat
  BY CloseAssumption DEF Trades
<1>2. bad = {}
  <2> SUFFICES ASSUME bad # {} PROVE FALSE
    OBVIOUS
  <2>1. bad \subseteq 0..(to + 1) /\ to + 1 \in Nat
    BY <1>1
  <2>2. PICK lo \in bad : \A x \in bad : lo >= x
    <3> HIDE DEF bad
    <3> QED
      BY <2>1, Largest
  <2>3. lo \in Nat /\ lo >= t /\ lo <= to + 1 /\ OnGrid(lo) /\ ~Far(lo)
    BY <1>1
  <2>4. page[lo] = IF GoesOn(t, to, lo) THEN page[NextPage(to, lo)] ELSE lo - 1
    BY <1>1, <2>3, PageStep
  <2>5. CASE GoesOn(t, to, lo)
    <3>1. lo <= to
      BY <2>5 DEF GoesOn
    <3>2. /\ NextPage(to, lo) = IF lo + PageSize <= to THEN lo + PageSize ELSE to + 1
          /\ NextPage(to, lo) \in (lo + 1)..(to + 1)
      BY <2>3, <3>1, NextPageStart
    <3>3. OnGrid(NextPage(to, lo))
      <4>1. PICK k \in Nat : lo = t + k * PageSize
        BY <2>3, <3>1
      <4>2. k + 1 \in Nat /\ lo + PageSize = t + (k + 1) * PageSize
        <5>1. (k + 1) * PageSize = k * PageSize + PageSize /\ k * PageSize \in Nat
          BY <1>1, Z3
        <5> QED
          BY <1>1, <4>1, <5>1
      <4> QED
        BY <3>2, <4>2
    <3>4. NextPage(to, lo) \notin bad /\ NextPage(to, lo) \in starts
      <4> HIDE DEF bad
      <4> QED
        BY <1>1, <2>2, <2>3, <3>2
    <3>5. Far(NextPage(to, lo))
      BY <3>3, <3>4
    <3> QED
      BY <2>3, <2>4, <2>5, <3>5
  <2>6. CASE ~GoesOn(t, to, lo)
    <3>1. page[lo] = lo - 1 /\ (lo = to + 1 \/ lo - t >= MaxScan)
      BY <1>1, <2>3, <2>4, <2>6 DEF GoesOn
    <3>2. lo # to + 1
      BY <2>3, <3>1
    <3>3. PICK k \in Nat : lo = t + k * PageSize
      BY <2>3, <3>2
    <3>4. k * PageSize \in Nat
      BY <1>1, Z3
    <3>5. k * PageSize >= PageSize * ((MaxScan + PageSize - 1) \div PageSize)
      BY <1>1, <2>3, <3>1, <3>2, <3>3, <3>4, PagesEnough
    <3>6. PageSize * ((MaxScan + PageSize - 1) \div PageSize) \in Int
      BY <1>1, Z3
    <3>7. lo >= Horizon(t)
      BY <1>1, <3>3, <3>4, <3>5, <3>6 DEF Horizon
    <3>8. Horizon(t) \in Int
      BY <1>1, <3>6 DEF Horizon
    <3> QED
      BY <2>3, <3>1, <3>7, <3>8
  <2> QED
    BY <2>5, <2>6
<1>3. t = t + 0 * PageSize
  BY <1>1, Z3
<1>4. Far(t)
  <2>1. t \in starts /\ OnGrid(t)
    BY <1>1, <1>3
  <2> QED
    BY <1>2, <2>1
<1> QED
  BY <1>1, <1>4, LastReadIsPage

-----------------------------------------------------------------------------
\* What a close event names.

\* Transaction n may be named as the close of trade t.
Names(t, n) ==
  /\ n \in Closings(t)
  /\ \/ ClosedAtBroker(t) /\ n = LastClosing(t)
     \/ ClosedAtBroker(t) /\ LastClosing(t) >= Horizon(t)
     \/ t \in hasty

\* What is about to be announced, and what has been, names such a transaction.
ActorsTruthful ==
  \A a \in Actors : at[a] \in {"emit", "unseen", "mark"} => Names(job[a].trade, job[a].txn)
RowsTruthful ==
  \A i \in DOMAIN outbox :
    outbox[i].msg.topic = "close" => Names(outbox[i].msg.trade, outbox[i].msg.txn)

TruthInv == HonestInv /\ ActorsTruthful /\ RowsTruthful

\* The last closing is one, and none is later.
LEMMA LastClosingIsLast ==
  ASSUME StreamOK, NEW t \in Trades, Closings(t) # {}
  PROVE  /\ LastClosing(t) \in Closings(t) /\ LastClosing(t) \in 1..Len(stream)
         /\ \A n \in Closings(t) : n \in Nat /\ LastClosing(t) >= n
<1>1. Closings(t) \subseteq 1..Len(stream) /\ Len(stream) \in Nat
  BY DEF Closings, StreamOK
<1>2. Closings(t) \subseteq 0..Len(stream)
  BY <1>1
<1>3. Max(Closings(t)) \in Closings(t) /\ \A n \in Closings(t) : Max(Closings(t)) >= n
  BY <1>1, <1>2, Largest
<1> QED
  BY <1>1, <1>3 DEF LastClosing

LEMMA HorizonIsTxn == \A t \in Trades : Horizon(t) \in Int
<1> SUFFICES ASSUME NEW t \in Trades PROVE Horizon(t) \in Int
  OBVIOUS
<1>1. PageSize \in Nat \ {0} /\ MaxScan + PageSize - 1 \in Int /\ t \in Int
  BY CloseAssumption DEF Trades
<1>2. (MaxScan + PageSize - 1) \div PageSize \in Int
  BY <1>1
<1>3. PageSize * ((MaxScan + PageSize - 1) \div PageSize) \in Int
  BY <1>1, <1>2, Z3
<1> QED
  BY <1>1, <1>3 DEF Horizon

\* facts_from_trade_details names the last closing.
LEMMA DetailsTruthful ==
  ASSUME StreamOK, NEW t \in Trades, ClosedAtBroker(t)
  PROVE  Names(t, LastClosing(t))
BY LastClosingIsLast DEF Names, ClosedAtBroker

\* find_close_transaction names it too, unless the scan ends before it.
LEMMA FallbackTruthful ==
  ASSUME StreamOK, NEW t \in Trades, Located(t) # NoTxn, ClosedAtBroker(t)
  PROVE  Names(t, Located(t))
<1> DEFINE end == LastRead(t, Len(stream))
           found == {n \in Closings(t) : n <= end}
<1>1. found # {} /\ Located(t) = Max(found)
  BY DEF Located
<1>2. found \subseteq 0..Len(stream) /\ Len(stream) \in Nat
  BY DEF Closings, StreamOK
<1>3. Located(t) \in found /\ \A n \in found : Located(t) >= n
  <2> HIDE DEF found
  <2> QED
    BY <1>1, <1>2, Largest
<1>4. /\ LastClosing(t) \in Closings(t) /\ LastClosing(t) \in 1..Len(stream)
      /\ \A n \in Closings(t) : n \in Nat /\ LastClosing(t) >= n
  BY <1>3, LastClosingIsLast
<1>5. CASE LastClosing(t) \in found
  BY <1>3, <1>4, <1>5 DEF Names
<1>6. CASE LastClosing(t) \notin found
  <2>1. ~(LastClosing(t) <= end)
    BY <1>4, <1>6
  <2>2. t \in Nat /\ t <= Len(stream)
    BY <1>3 DEF Closings, StreamOK, Opened, Trades
  <2>3. end \in Int /\ (end >= Len(stream) \/ end >= Horizon(t) - 1)
    BY <1>2, <2>2, ScanReaches
  <2> HIDE DEF end
  <2>4. LastClosing(t) >= Horizon(t)
    BY <1>2, <1>4, <2>1, <2>3, HorizonIsTxn
  <2> QED
    BY <1>3, <2>4 DEF Names
<1> QED
  BY <1>5, <1>6

\* Asked while the trade was open, it names a closing.
LEMMA AskedTruthful ==
  ASSUME StreamOK, NEW t \in Trades, Located(t) # NoTxn, Asked(t), stream' = stream,
         NEW n \in Nat, n = Located(t)
  PROVE  Names(t, n)'
<1>1. Closings(t)' = Closings(t) /\ (ClosedAtBroker(t)' <=> ClosedAtBroker(t))
  BY DEF Closings, ClosedAtBroker
<1>2. LastClosing(t)' = LastClosing(t) /\ Horizon(t)' = Horizon(t)
  BY <1>1 DEF LastClosing, Horizon
<1>3. CASE ClosedAtBroker(t)
  BY <1>1, <1>2, <1>3, FallbackTruthful DEF Names, Asked
<1>4. CASE ~ClosedAtBroker(t)
  <2>1. n \in Closings(t)' /\ t \in hasty'
    BY <1>1, <1>4, LocatedIsTxn DEF Asked
  <2> QED
    BY <2>1 DEF Names
<1> QED
  BY <1>3, <1>4

\* The closing booked by a forced close is the last one.
LEMMA ForcedTruthful ==
  ASSUME TypeInv, NEW t \in Trades, OpenAtBroker(t), Books("close", t),
         NEW n \in Nat, n = Len(stream) + 1
  PROVE  Names(t, n)'
<1>1. stream' = Append(stream, [kind |-> "close", trade |-> t]) /\ stream \in Seq(Txn)
  BY DEF Books, TypeInv, StreamOK
<1>2. StreamOK'
  BY BooksStream DEF TypeInv, OpenAtBroker
<1>3. [kind |-> "close", trade |-> t] \in Txn
  BY DEF Txn
<1>4. /\ Len(stream') = Len(stream) + 1 /\ Len(stream) \in Nat
      /\ Len(stream) + 1 \in DOMAIN stream'
      /\ stream'[Len(stream) + 1] = [kind |-> "close", trade |-> t]
  BY <1>1, <1>3
<1>5. Len(stream) + 1 \in Closings(t)'
  BY <1>4 DEF Closings
<1>6. /\ LastClosing(t)' \in 1..Len(stream')
      /\ \A k \in Closings(t)' : LastClosing(t)' >= k
  <2>1. Closings(t)' \subseteq 1..Len(stream')
    BY <1>2 DEF Closings, StreamOK
  <2>2. Closings(t)' \subseteq 0..Len(stream') /\ Len(stream') \in Nat
    BY <1>4, <2>1
  <2>3. Max(Closings(t)') \in Closings(t)' /\ \A k \in Closings(t)' : Max(Closings(t)') >= k
    BY <1>5, <2>2, Largest
  <2> QED
    BY <2>1, <2>3 DEF LastClosing
<1>7. LastClosing(t)' = Len(stream) + 1
  BY <1>4, <1>5, <1>6
<1>8. ClosedAtBroker(t)'
  BY <1>4, <1>5 DEF ClosedAtBroker
<1> QED
  BY <1>5, <1>7, <1>8 DEF Names

\* A trade that is closed has no closing more: what may be named stays.
LEMMA ClosingsStay ==
  ASSUME TypeInv, [Next]_vars, NEW t \in ClosedTrades
  PROVE  Closings(t)' = Closings(t)
<1>1. CASE stream' = stream
  BY <1>1 DEF Closings
<1>2. ASSUME NEW x \in Txn, stream' = Append(stream, x), x.kind = "open" \/ x.trade # t
      PROVE  Closings(t)' = Closings(t)
  <2>1. /\ \A n \in DOMAIN stream' : n \in DOMAIN stream \/ n = Len(stream) + 1
        /\ \A n \in DOMAIN stream : n \in DOMAIN stream' /\ stream'[n] = stream[n]
        /\ Len(stream) + 1 \in DOMAIN stream' /\ stream'[Len(stream) + 1] = x
    BY <1>2 DEF TypeInv, StreamOK
  <2> QED
    BY <1>2, <2>1 DEF Closings
<1>3. CASE Filled
  <2>1. [kind |-> "open", trade |-> Len(stream) + 1] \in Txn
    BY <1>3, FilledBooks DEF Txn
  <2>2. stream' = Append(stream, [kind |-> "open", trade |-> Len(stream) + 1])
    BY <1>3, FilledBooks DEF Books
  <2> QED
    BY <1>2, <2>1, <2>2
<1>4. ASSUME NEW kind \in {"part", "close"}, NEW u \in Trades, OpenAtBroker(u), Books(kind, u)
      PROVE  Closings(t)' = Closings(t)
  <2>1. u # t
    BY <1>4 DEF OpenAtBroker, ClosedTrades
  <2>2. [kind |-> kind, trade |-> u] \in Txn
    BY DEF Txn
  <2>3. stream' = Append(stream, [kind |-> kind, trade |-> u])
    BY <1>4 DEF Books
  <2> QED
    BY <1>2, <2>1, <2>2, <2>3
<1> QED
  BY <1>1, <1>3, <1>4, NextBooks

LEMMA NamesStay ==
  ASSUME TypeInv, [Next]_vars, NEW t \in Trades, NEW n, Names(t, n)
  PROVE  Names(t, n)'
<1>1. Closings(t) \subseteq Closings(t)' /\ hasty \subseteq hasty' /\ ClosedTrades \subseteq ClosedTrades'
  BY NextBooks, FilledBooks, ClosesGrow, NextGrows DEF Growth
<1>2. CASE ClosedAtBroker(t)
  <2>1. Closings(t)' = Closings(t)
    BY <1>2, ClosingsStay DEF ClosedTrades
  <2>2. LastClosing(t)' = LastClosing(t)
    BY <2>1 DEF LastClosing
  <2>3. ClosedAtBroker(t)'
    BY <1>1, <1>2 DEF ClosedTrades
  <2> QED
    BY <1>1, <2>1, <2>2, <2>3 DEF Names, Horizon
<1>3. CASE ~ClosedAtBroker(t)
  BY <1>1, <1>3 DEF Names
<1> QED
  BY <1>2, <1>3

\* Only these steps bring an actor to an emission, each with a transaction to name.
LEMMA NextEmits ==
  ASSUME HonestInv, [Next]_vars, NEW a \in Actors, at'[a] \in {"emit", "unseen", "mark"}
  PROVE  \/ at[a] \in {"emit", "unseen", "mark"} /\ job'[a] = job[a]
         \/ Names(job[a].trade, job[a].txn)'
<1> USE Alphabet DEF HonestInv, TypeInv, TypeOK, storeVars, memoryVars, callVars, histVars,
     brokerVars
<1> DEFINE stays == at[a] \in {"emit", "unseen", "mark"} /\ job'[a] = job[a]
           names == Names(job[a].trade, job[a].txn)'
<1> SUFFICES stays \/ names
  OBVIOUS
<1>1. back[a] \in Returns /\ back["engine"] \in Returns
  BY DEF Calls, CallHonest
<1>2. CASE BrokerActs \/ UNCHANGED vars
  BY <1>2 DEF BrokerActs, vars
<1>3. CASE Startup \/ Crash \/ Filled \/ Redelivered \/ FillRaises \/ FillSteps \/ Stop \/ StopSteps
  BY <1>3 DEF Startup, Crash, Forget, Filled, Redelivered, FillRaises, FillSteps, MarkProcessed,
       PersistFill, Register, Stop, StopSteps, EmitStopped, Exit, Go, GoFlush, Resume, Actors
<1>4. CASE StartSweep \/ ListOpenTrades \/ ListFails \/ SweepEnds \/ MarkClosed
  BY <1>4 DEF StartSweep, ListOpenTrades, ListFails, SweepEnds, MarkClosed, Go, GoFlush, Resume,
       Actors
<1>5. ASSUME NEW b \in Actors, NEW t \in Trades, NEW n, NEW known, NEW then,
             GoEmit(b, [trade |-> t, txn |-> n, known |-> known], then), Names(t, n)'
      PROVE  stays \/ names
  <2>1. CASE a = b
    <3>1. job'[a].trade = t /\ job'[a].txn = n
      BY <1>5, <2>1 DEF GoEmit
    <3> QED
      BY <1>5, <3>1
  <2>2. CASE a # b
    BY <1>5, <2>2 DEF GoEmit
  <2> QED
    BY <2>1, <2>2
<1>6. CASE Backfill
  <2>1. PICK t \in Trades, n \in 1..MaxTxns :
          /\ \/ n = LastClosing(t) /\ ClosedAtBroker(t) /\ UNCHANGED hasty
             \/ n = Located(t) /\ Located(t) # NoTxn /\ Asked(t)
          /\ GoEmit("backfill", [trade |-> t, txn |-> n, known |-> TRUE], "idle")
    BY <1>6, BackfillEmits
  <2>2. Names(t, n)'
    <3>1. CASE n = LastClosing(t) /\ ClosedAtBroker(t)
      BY <3>1, DetailsTruthful, NamesStay
    <3>2. CASE n = Located(t) /\ Located(t) # NoTxn /\ Asked(t)
      <4>1. n \in Nat /\ stream' = stream
        BY <1>6 DEF Backfill
      <4> QED
        BY <3>2, <4>1, AskedTruthful
    <3> QED
      BY <2>1, <3>1, <3>2
  <2> QED
    BY <1>5, <2>1, <2>2
<1>7. ASSUME NEW t \in Trades, LookUp(t) PROVE stays \/ names
  <2>1. CASE DetailsClosed(t)
    <3>1. PICK n : n = LastClosing(t)
      OBVIOUS
    <3>2. Names(t, n)'
      BY <2>1, <3>1, DetailsTruthful, NamesStay DEF DetailsClosed
    <3> QED
      BY <1>5, <2>1, <3>1, <3>2 DEF DetailsClosed
  <2>2. CASE FallbackFinds(t)
    <3>1. PICK n \in Nat : n = Located(t)
      BY <2>2, LocatedIsTxn DEF FallbackFinds
    <3>2. Names(t, n)'
      BY <2>2, <3>1, AskedTruthful DEF FallbackFinds
    <3> QED
      BY <1>5, <2>2, <3>1, <3>2 DEF FallbackFinds
  <2>3. CASE LeftForLater(t)
    BY <2>3 DEF LeftForLater
  <2> QED
    BY <1>7, <2>1, <2>2, <2>3 DEF LookUp
<1>8. ASSUME NEW t \in Trades, CloseFilled(t) \/ CloseUnfilled(t) \/ CloseRaises(t)
      PROVE  stays \/ names
  <2>1. CASE CloseFilled(t)
    <3>1. PICK n \in Nat : n = Len(stream) + 1
      BY DEF StreamOK
    <3>2. Names(t, n)'
      BY <2>1, <3>1, ForcedTruthful DEF CloseFilled
    <3> QED
      BY <1>5, <2>1, <3>1, <3>2 DEF CloseFilled
  <2>2. CASE CloseUnfilled(t) \/ CloseRaises(t)
    BY <2>2 DEF CloseUnfilled, CloseRaises, Forget, Actors
  <2> QED
    BY <1>8, <2>1, <2>2
<1>9. ASSUME NEW b \in Actors, Emission(b) \/ EmitFails(b) \/ Flushing(b)
      PROVE  stays
  <2>1. back[b] \in Returns
    BY DEF Calls, CallHonest
  <2>2. CASE a # b
    BY <1>9, <2>2 DEF Emission, AlreadyEmitted, FindUnmarked, PersistClose, MarkLedger, EmitFails,
         Flushing, Send, AckRow, EndFlush, Go, GoFlush, Resume
  <2>3. CASE a = b
    BY <1>9, <2>1, <2>3
       DEF Emission, AlreadyEmitted, FindUnmarked, PersistClose, MarkLedger, EmitFails, Unemitted, Flushing,
           Send, AckRow, EndFlush, Go, GoFlush, Resume, Returns
  <2> QED
    BY <2>2, <2>3
<1> HIDE DEF stays, names
<1>10. ASSUME SweepSteps \/ ForcedClose PROVE stays \/ names
  BY <1>4, <1>7, <1>8, <1>10 DEF SweepSteps, ForcedClose
<1> QED
  BY <1>2, <1>3, <1>6, <1>9, <1>10 DEF Next

LEMMA NextTruth == TruthInv /\ [Next]_vars => TruthInv'
<1> SUFFICES ASSUME TruthInv, [Next]_vars PROVE ActorsTruthful' /\ RowsTruthful'
  BY NextHonest DEF TruthInv
<1> USE DEF TruthInv
<1>1. TypeInv /\ Growth /\ HonestInv'
  BY NextGrows, NextHonest DEF HonestInv
<1>2. ASSUME NEW a \in Actors, at[a] \in {"emit", "unseen", "mark"}
      PROVE  job[a].trade \in Trades /\ Names(job[a].trade, job[a].txn)
  BY <1>1, <1>2 DEF TypeInv, TypeOK, Job, ActorsTruthful
<1>3. ActorsTruthful'
  <2> SUFFICES ASSUME NEW a \in Actors, at'[a] \in {"emit", "unseen", "mark"}
               PROVE  Names(job[a].trade, job[a].txn)'
    BY DEF ActorsTruthful
  <2>1. CASE at[a] \in {"emit", "unseen", "mark"} /\ job'[a] = job[a]
    <3>1. PICK t, n :
            t \in Trades /\ t = job[a].trade /\ n = job[a].txn /\ Names(t, n)
      BY <1>2, <2>1
    <3>2. Names(t, n)'
      BY <1>1, <3>1, NamesStay
    <3> QED
      BY <2>1, <3>1, <3>2
  <2> QED
    BY <2>1, NextEmits
<1>4. RowsTruthful'
  <2>1. ASSUME NEW i \in DOMAIN outbox, outbox[i].msg.topic = "close"
        PROVE  Names(outbox[i].msg.trade, outbox[i].msg.txn)'
    <3>1. PICK t, n :
            t \in Trades /\ t = outbox[i].msg.trade /\ n = outbox[i].msg.txn /\ Names(t, n)
      BY <2>1 DEF RowsTruthful, HonestInv, StoresHonest, CutTrades
    <3>2. Names(t, n)'
      BY <1>1, <3>1, NamesStay
    <3>3. outbox'[i].msg = outbox[i].msg
      BY <1>1 DEF Growth
    <3> QED
      BY <3>1, <3>2, <3>3
  <2>2. ASSUME NEW a \in Actors, PersistClose(a) PROVE RowsTruthful'
    <3> DEFINE row == [msg |-> CloseOf(job[a]), done |-> FALSE]
    <3>1. row \in Row /\ outbox' = Append(outbox, row)
      BY <1>1, <2>2, PersistedClose
    <3>2. PICK t, n :
            t \in Trades /\ t = job[a].trade /\ n = job[a].txn /\ Names(t, n)
      BY <1>2, <2>2 DEF PersistClose
    <3>3. Names(t, n)' /\ row.msg.trade = t /\ row.msg.txn = n
      BY <1>1, <3>2, NamesStay DEF CloseOf
    <3> HIDE DEF row
    <3> SUFFICES ASSUME NEW i \in DOMAIN outbox', outbox'[i].msg.topic = "close"
                 PROVE  Names(outbox[i].msg.trade, outbox[i].msg.txn)'
      BY DEF RowsTruthful
    <3>4. CASE i \in DOMAIN outbox
      BY <1>1, <2>1, <3>1, <3>4, AppendedRow
    <3>5. CASE i = Len(outbox) + 1
      <4>1. outbox'[i] = row
        BY <1>1, <3>1, <3>5, AppendedRow
      <4> QED
        BY <3>3, <4>1
    <3> QED
      BY <1>1, <3>1, <3>4, <3>5, AppendedRow
  <2>3. CASE \A t \in Trades : RowsOf("close", t)' = RowsOf("close", t)
    <3> SUFFICES ASSUME NEW i \in DOMAIN outbox', outbox'[i].msg.topic = "close"
                 PROVE  Names(outbox[i].msg.trade, outbox[i].msg.txn)'
      BY DEF RowsTruthful
    <3>1. outbox'[i].msg.trade \in Trades
      BY <1>1 DEF HonestInv, StoresHonest, CutTrades
    <3>2. i \in DOMAIN outbox /\ outbox[i].msg.topic = "close"
      BY <2>3, <3>1 DEF RowsOf
    <3> QED
      BY <2>1, <3>2
  <2> QED
    BY <2>2, <2>3, NextRows
<1> QED
  BY <1>3, <1>4

\* A close event, whichever source it comes from, names a closing transaction of its
\* trade, and the last one of a closed trade; an earlier one takes a scan that ends before
\* the last, or a scan made while the trade was open.
THEOREM ClosesTruthful == Spec => []TruthfulClose
<1>1. Init => TruthInv
  <2> SUFFICES ASSUME Init PROVE ActorsTruthful /\ RowsTruthful
    BY InitHonest DEF TruthInv
  <2> QED
    BY DEF Init, ActorsTruthful, RowsTruthful, Actors
<1>2. TruthInv => TruthfulClose
  BY DEF TruthInv, RowsTruthful, Names, TruthfulClose
<1> QED
  BY <1>1, <1>2, NextTruth, PTL DEF Spec

-----------------------------------------------------------------------------
\* The identity of a close.

\* The engine reports the fill of trade t, and then registers the trade.
Reporting(t) == at["engine"] \in {"answered", "persist"} /\ job["engine"].trade = t
Registering(t) ==
  /\ job["engine"].trade = t
  /\ \/ at["engine"] = "register"
     \/ at["engine"] \in {"flush", "acking"} /\ back["engine"] = "register"
Nameless(t) == managed[t].tracked /\ ~managed[t].known

\* A fill the engine lost has cost an upset; a trade is tracked without an identity
\* after one, and with its confirmation in the outbox only on the way to be registered
\* or after another, unless the confirmation could not be read; an emission knows no
\* less than the tracked trade did.
FillsReported == \A t \in Trades : Opened(t) => FillPersisted(t) \/ upsets > 0 \/ Reporting(t)
NamelessTrades ==
  \A t \in Trades : Nameless(t) =>
    \/ t \in unread
    \/ upsets > 0 /\ (FillPersisted(t) => upsets > 1 \/ Registering(t))
NamelessEmissions ==
  \A a \in Actors : at[a] \in {"emit", "unseen"} /\ ~job[a].known =>
    a = "engine" /\ (FillPersisted(job[a].trade) => job[a].trade \in unread \/ upsets > 1)
LoopTracked ==
  /\ \A t \in todo : managed[t].tracked
  /\ at["engine"] = "down" => todo = {}

IdentityInv ==
  HonestInv /\ FillsReported /\ NamelessTrades /\ NamelessEmissions /\ LoopTracked /\ IdentityKept

LEMMA UpsetsGrow ==
  ASSUME TypeInv, [Next]_vars
  PROVE  upsets \in Nat /\ upsets' \in Nat /\ upsets' >= upsets
<1>1. upsets \in 0..MaxUpsets /\ MaxUpsets \in Nat
  BY CloseAssumption DEF TypeInv, TypeOK
<1>2. upsets' = upsets \/ upsets' = upsets + 1
  <2>1. CASE BrokerActs \/ UNCHANGED vars \/ Filled \/ Redelivered \/ FillSteps
               \/ Stop \/ StopSteps
    BY <2>1 DEF BrokerActs, vars, Filled, Redelivered, FillSteps, MarkProcessed,
         PersistFill, Register, Stop, StopSteps, EmitStopped, Exit
  <2>2. CASE Crash \/ FillRaises \/ Backfill
    BY <2>2 DEF Crash, FillRaises, Backfill, Upset
  <2>3. CASE SweepSteps
    BY <2>3 DEF SweepSteps, StartSweep, ListOpenTrades, ListFails, SweepEnds, MarkClosed, LookUp,
         DetailsClosed, FallbackFinds, LeftForLater
  <2>4. CASE \E a \in Actors : Emission(a) \/ EmitFails(a) \/ Flushing(a)
    BY <2>4 DEF Emission, AlreadyEmitted, FindUnmarked, PersistClose, MarkLedger, EmitFails,
         Upset, Flushing, Send, AckRow, EndFlush
  <2>5. CASE ForcedClose
    BY <2>5 DEF ForcedClose, CloseFilled, CloseUnfilled, CloseRaises
  <2>6. CASE Startup
    BY <2>6, AdoptedIs DEF Upset
  <2> QED
    BY <2>1, <2>2, <2>3, <2>4, <2>5, <2>6 DEF Next
<1> QED
  BY <1>1, <1>2

\* Only publish_fill adds a confirmation, behind every row there was.
LEMMA NextFills ==
  ASSUME HonestInv, [Next]_vars, NEW t \in Trades
  PROVE  \/ ~(PersistFill /\ t = job["engine"].trade) /\ RowsOf("fill", t)' = RowsOf("fill", t)
         \/ /\ PersistFill /\ t = job["engine"].trade
            /\ RowsOf("fill", t)' = RowsOf("fill", t) \cup {Len(outbox) + 1}
<1> USE DEF HonestInv
<1>1. CASE PersistFill
  <2> DEFINE row == [msg |-> FillOf(job["engine"].trade), done |-> FALSE]
  <2>1. job["engine"].trade \in Trades
    BY Alphabet DEF TypeInv, TypeOK, Job
  <2>2. /\ row \in Row /\ outbox' = Append(outbox, row)
        /\ row.msg.topic = "fill" /\ row.msg.trade = job["engine"].trade
    BY <1>1, <2>1, MessageTypes DEF PersistFill, FillOf
  <2> HIDE DEF row
  <2>3. CASE t = job["engine"].trade
    BY <1>1, <2>2, <2>3, AppendedRow DEF RowsOf
  <2>4. CASE t # job["engine"].trade
    BY <1>1, <2>2, <2>4, AppendedRow DEF RowsOf
  <2> QED
    BY <2>3, <2>4
<1>2. ASSUME ~PersistFill PROVE RowsOf("fill", t)' = RowsOf("fill", t)
  <2>1. CASE outbox' = outbox
    BY <2>1 DEF RowsOf
  <2>2. ASSUME NEW a \in Actors, AckRow(a) PROVE RowsOf("fill", t)' = RowsOf("fill", t)
    <3>1. DOMAIN outbox' = DOMAIN outbox
      BY <2>2 DEF AckRow
    <3>2. \A i \in DOMAIN outbox : outbox'[i].msg = outbox[i].msg
      BY NextGrows DEF Growth
    <3> QED
      BY <3>1, <3>2 DEF RowsOf
  <2>3. ASSUME NEW a \in Actors, PersistClose(a) PROVE RowsOf("fill", t)' = RowsOf("fill", t)
    <3> DEFINE row == [msg |-> CloseOf(job[a]), done |-> FALSE]
    <3>1. row \in Row /\ outbox' = Append(outbox, row) /\ row.msg.topic = "close"
      BY <2>3, PersistedClose DEF CloseOf
    <3> HIDE DEF row
    <3> QED
      BY <3>1, AppendedRow DEF RowsOf
  <2> QED
    BY <1>2, <2>1, <2>2, <2>3, NextOutbox
<1> QED
  BY <1>1, <1>2

\* A fill that is being reported is persisted, or it cost an upset.
LEMMA NextReporting ==
  ASSUME HonestInv, [Next]_vars, NEW t \in Trades, Reporting(t)
  PROVE  Reporting(t)' \/ PersistFill \/ upsets' > 0
<1> USE Alphabet DEF HonestInv, TypeInv, TypeOK, Reporting, storeVars, memoryVars, callVars,
     histVars
<1>1. CASE BrokerActs \/ UNCHANGED vars
  BY <1>1 DEF BrokerActs, vars
<1>2. CASE Crash \/ FillRaises
  BY <1>2, CloseAssumption DEF Crash, FillRaises, Upset
<1>3. CASE Startup \/ Filled \/ Redelivered \/ FillSteps \/ Stop \/ StopSteps
  BY <1>3 DEF Startup, Filled, Redelivered, FillSteps, MarkProcessed, Register, Stop, StopSteps,
       EmitStopped, Exit, Stopping, Go
<1>4. CASE StartSweep \/ ListOpenTrades \/ ListFails \/ SweepEnds \/ MarkClosed
  BY <1>4 DEF StartSweep, ListOpenTrades, ListFails, SweepEnds, MarkClosed
<1>5. ASSUME NEW u \in Trades, LookUp(u) PROVE FALSE
  BY <1>5 DEF LookUp, DetailsClosed, FallbackFinds, LeftForLater, Vanished
<1>6. ASSUME NEW u \in Trades, CloseFilled(u) \/ CloseUnfilled(u) \/ CloseRaises(u) PROVE FALSE
  BY <1>6 DEF CloseFilled, CloseUnfilled, CloseRaises, Forcing, Stopping
<1>7. CASE Backfill
  BY <1>7 DEF Backfill, GoEmit
<1>8. ASSUME NEW a \in Actors, Emission(a) \/ EmitFails(a) \/ Flushing(a) PROVE Reporting(t)'
  BY <1>8 DEF Emission, AlreadyEmitted, FindUnmarked, PersistClose, MarkLedger, EmitFails,
       Flushing, Send, AckRow, EndFlush, Go, GoFlush, Resume
<1> QED
  BY <1>1, <1>2, <1>3, <1>4, <1>5, <1>6, <1>7, <1>8 DEF Next, SweepSteps, ForcedClose

\* A trade being registered is registered, or it cost an upset.
LEMMA NextRegistering ==
  ASSUME HonestInv, [Next]_vars, NEW t \in Trades, Registering(t)
  PROVE  Registering(t)' \/ ~Nameless(t)' \/ upsets' = upsets + 1
<1> USE Alphabet
    DEF HonestInv, TypeInv, TypeOK, Registering, storeVars, memoryVars, callVars, histVars
<1>1. CASE BrokerActs \/ UNCHANGED vars
  BY <1>1 DEF BrokerActs, vars
<1>2. CASE Crash \/ FillRaises
  BY <1>2 DEF Crash, FillRaises, Upset
<1>3. CASE Startup \/ Filled \/ Redelivered \/ MarkProcessed \/ PersistFill \/ Stop \/ StopSteps
  BY <1>3 DEF Startup, Filled, Redelivered, MarkProcessed, PersistFill, Stop, StopSteps,
       EmitStopped, Exit, Stopping
<1>4. CASE Register
  BY <1>4 DEF Register, Nameless, Tracked
<1>5. CASE StartSweep \/ ListOpenTrades \/ ListFails \/ SweepEnds \/ MarkClosed
  BY <1>5 DEF StartSweep, ListOpenTrades, ListFails, SweepEnds, MarkClosed
<1>6. ASSUME NEW u \in Trades, LookUp(u) PROVE FALSE
  BY <1>6 DEF LookUp, DetailsClosed, FallbackFinds, LeftForLater, Vanished
<1>7. ASSUME NEW u \in Trades, CloseFilled(u) \/ CloseUnfilled(u) \/ CloseRaises(u) PROVE FALSE
  BY <1>7 DEF CloseFilled, CloseUnfilled, CloseRaises, Forcing, Stopping
<1>8. CASE Backfill
  BY <1>8 DEF Backfill, GoEmit
<1>9. ASSUME NEW a \in Actors, Emission(a) \/ EmitFails(a) \/ Flushing(a) PROVE Registering(t)'
  <2>1. CASE a = "engine"
    BY <1>9, <2>1 DEF Emission, AlreadyEmitted, FindUnmarked, PersistClose, MarkLedger, EmitFails,
         Flushing, Send, AckRow, EndFlush, Go, Resume
  <2>2. CASE a # "engine"
    BY <1>9, <2>2 DEF Emission, AlreadyEmitted, FindUnmarked, PersistClose, MarkLedger, EmitFails,
         Flushing, Send, AckRow, EndFlush, Go, GoFlush, Resume
  <2> QED
    BY <2>1, <2>2
<1> QED
  BY <1>1, <1>2, <1>3, <1>4, <1>5, <1>6, <1>7, <1>8, <1>9
     DEF Next, SweepSteps, ForcedClose, FillSteps

\* Giving a trade up keeps what is known of it, as of the others.
LEMMA GivenUp ==
  ASSUME TypeInv, NEW u \in Trades, managed' = [managed EXCEPT ![u].closed = TRUE], NEW t \in Trades
  PROVE  managed'[t].tracked = managed[t].tracked /\ managed'[t].known = managed[t].known
<1>1. managed \in [Trades -> Record]
  BY DEF TypeInv, TypeOK
<1>2. CASE t = u
  <2>1. managed'[t] = [managed[t] EXCEPT !.closed = TRUE] /\ managed[t] \in Record
    BY <1>1, <1>2
  <2> QED
    BY <2>1 DEF Record
<1>3. CASE t # u
  BY <1>1, <1>3
<1> QED
  BY <1>2, <1>3

\* The trades of a loop are tracked, and a loop does not outlive the process.
LEMMA NextLoop ==
  ASSUME HonestInv, LoopTracked, [Next]_vars
  PROVE  LoopTracked'
<1> USE Alphabet DEF HonestInv, TypeInv, TypeOK, LoopTracked, storeVars, memoryVars, callVars,
     histVars
<1> DEFINE keeps == /\ \A t \in Trades : managed[t].tracked => managed'[t].tracked
                    /\ todo' \subseteq todo /\ at["engine"] # "down" /\ at'["engine"] # "down"
<1>1. ASSUME keeps PROVE LoopTracked'
  BY <1>1
<1>2. CASE UNCHANGED vars \/ BrokerActs \/ Backfill
  BY <1>2 DEF vars, BrokerActs, Backfill, GoEmit, Actors
<1>3. CASE Startup
  BY <1>3 DEF Startup, Go
<1>4. CASE Crash \/ Exit
  BY <1>4 DEF Crash, Exit, Forget
<1>5. ASSUME StartSweep \/ ListFails \/ SweepEnds \/ Filled \/ Redelivered \/ MarkProcessed
               \/ PersistFill \/ EmitStopped
      PROVE  keeps
  BY <1>5 DEF StartSweep, ListFails, SweepEnds, Filled, Redelivered, MarkProcessed, PersistFill,
       EmitStopped, Stopping, Go, GoFlush
<1>6. ASSUME FillRaises PROVE keeps
  BY <1>6 DEF FillRaises, Resume
<1>7. ASSUME Register \/ MarkClosed PROVE keeps
  <2>1. at["engine"] # "down" /\ at'["engine"] # "down" /\ todo' = todo
    BY <1>7 DEF Register, MarkClosed, Resume
  <2>2. \A t \in Trades : managed[t].tracked => managed'[t].tracked
    <3> SUFFICES ASSUME NEW t \in Trades, managed[t].tracked PROVE managed'[t].tracked
      OBVIOUS
    <3>1. CASE Register
      <4>1. managed'[t] = managed[t] \/ managed'[t] = Tracked(TRUE)
        BY <3>1 DEF Register
      <4> QED
        BY <4>1 DEF Tracked
    <3>2. CASE MarkClosed
      <4>1. PICK u \in Trades : u = job["engine"].trade
        BY DEF Job
      <4> QED
        BY <3>2, <4>1, GivenUp DEF MarkClosed
    <3> QED
      BY <1>7, <3>1, <3>2
  <2> QED
    BY <2>1, <2>2
<1>8. CASE ListOpenTrades \/ Stop
  BY <1>8 DEF ListOpenTrades, Stop, Watched, Go, GoFlush
<1>9. ASSUME NEW t \in Trades, LookUp(t) PROVE keeps
  BY <1>9 DEF LookUp, DetailsClosed, FallbackFinds, LeftForLater, Vanished,
       GoEmit
<1>10. ASSUME NEW t \in Trades, CloseFilled(t) \/ CloseUnfilled(t) \/ CloseRaises(t)
       PROVE  keeps \/ Forget
  <2>1. at["engine"] # "down"
    BY <1>10 DEF CloseFilled, CloseUnfilled, CloseRaises, Forcing, Stopping
  <2>2. CASE CloseFilled(t) \/ CloseUnfilled(t)
    <3>1. \A u \in Trades : managed[u].tracked => managed'[u].tracked
      BY <2>2, GivenUp DEF CloseFilled, CloseUnfilled
    <3> QED
      BY <2>1, <2>2, <3>1 DEF CloseFilled, CloseUnfilled, GoEmit
  <2>3. CASE CloseRaises(t)
    BY <2>1, <2>3 DEF CloseRaises
  <2> QED
    BY <1>10, <2>2, <2>3
<1>11. ASSUME NEW a \in Actors, Emission(a) \/ EmitFails(a) \/ Flushing(a) PROVE LoopTracked'
  <2>1. back[a] \in Returns
    BY DEF Calls, CallHonest
  <2>2. UNCHANGED memoryVars
    BY <1>11 DEF Emission, AlreadyEmitted, FindUnmarked, PersistClose, MarkLedger, EmitFails,
         Flushing, Send, AckRow, EndFlush
  <2>3. at'["engine"] = "down" => at["engine"] = "down"
    <3>1. CASE a = "engine"
      BY <1>11, <2>1, <3>1 DEF Emission, AlreadyEmitted, FindUnmarked, PersistClose, MarkLedger,
           EmitFails, Unemitted, Flushing, Send, AckRow, EndFlush, Go, GoFlush, Resume, Returns
    <3>2. CASE a # "engine"
      BY <1>11, <3>2 DEF Emission, AlreadyEmitted, FindUnmarked, PersistClose, MarkLedger,
           EmitFails, Flushing, Send, AckRow, EndFlush, Go, GoFlush, Resume
    <3> QED
      BY <3>1, <3>2
  <2> QED
    BY <2>2, <2>3
<1>12. CASE Forget
  BY <1>12 DEF Forget
<1> HIDE DEF keeps
<1>13. ASSUME SweepSteps \/ ForcedClose PROVE LoopTracked'
  BY <1>1, <1>5, <1>7, <1>8, <1>9, <1>10, <1>12, <1>13 DEF SweepSteps, ForcedClose
<1>14. ASSUME FillSteps \/ StopSteps PROVE LoopTracked'
  BY <1>1, <1>4, <1>5, <1>7, <1>14 DEF FillSteps, StopSteps
<1> QED
  BY <1>1, <1>2, <1>3, <1>4, <1>5, <1>6, <1>8, <1>11, <1>13, <1>14 DEF Next

\* A trade loses its identity only when it is adopted without a confirmation.
LEMMA NextNameless ==
  ASSUME HonestInv, [Next]_vars, NEW t \in Trades, Nameless(t)'
  PROVE  Nameless(t) \/ (Startup /\ Opened(t) /\ (FillPersisted(t) => t \in unread'))
<1> USE Alphabet DEF HonestInv, TypeInv, TypeOK, Nameless, storeVars, memoryVars, callVars, histVars
<1>1. CASE managed' = managed
  BY <1>1
<1>2. CASE Startup
  <2>1. PICK listed \in OpenLists, lost \in SUBSET Trades :
          /\ managed' = [u \in Trades |->
                          IF u \in listed THEN Tracked(FillPersisted(u) /\ u \notin lost)
                          ELSE Untracked]
          /\ unread' = unread \cup lost
    BY <1>2, AdoptedIs
  <2>2. t \in listed
    BY <2>1 DEF Untracked
  <2>3. managed'[t].known = (FillPersisted(t) /\ t \notin lost)
    BY <2>1, <2>2 DEF Tracked
  <2>4. Opened(t)
    BY <2>2 DEF OpenLists
  <2> QED
    BY <1>2, <2>1, <2>3, <2>4
<1>3. CASE Forget
  BY <1>3 DEF Forget, Untracked
<1>4. CASE Register
  <2>1. managed'[t] = managed[t] \/ managed'[t] = Tracked(TRUE)
    BY <1>4 DEF Register
  <2> QED
    BY <2>1 DEF Tracked
<1>5. ASSUME NEW u \in Trades, managed' = [managed EXCEPT ![u].closed = TRUE]
      PROVE  Nameless(t)
  BY <1>5, GivenUp
<1>6. CASE MarkClosed
  <2>1. PICK u \in Trades : u = job["engine"].trade
    BY DEF Job
  <2> QED
    BY <1>5, <1>6, <2>1 DEF MarkClosed
<1>7. CASE \E u \in Trades : CloseFilled(u) \/ CloseUnfilled(u) \/ CloseRaises(u)
  BY <1>1, <1>3, <1>5, <1>7 DEF CloseFilled, CloseUnfilled, CloseRaises
<1>8. CASE BrokerActs \/ UNCHANGED vars \/ Filled \/ Redelivered \/ FillRaises \/ MarkProcessed
             \/ PersistFill \/ Stop \/ EmitStopped \/ Backfill
  BY <1>8 DEF BrokerActs, vars, Filled, Redelivered, FillRaises, MarkProcessed, PersistFill, Stop,
       EmitStopped, Backfill
<1>9. CASE StartSweep \/ ListOpenTrades \/ ListFails \/ SweepEnds \/ \E u \in Trades : LookUp(u)
  BY <1>9 DEF StartSweep, ListOpenTrades, ListFails, SweepEnds, LookUp, DetailsClosed,
       FallbackFinds, LeftForLater
<1>10. CASE \E a \in Actors : Emission(a) \/ EmitFails(a) \/ Flushing(a)
  BY <1>10 DEF Emission, AlreadyEmitted, FindUnmarked, PersistClose, MarkLedger, EmitFails,
       Flushing, Send, AckRow, EndFlush
<1>11. CASE Crash \/ Exit
  BY <1>3, <1>11 DEF Crash, Exit
<1> QED
  BY <1>2, <1>4, <1>6, <1>7, <1>8, <1>9, <1>10, <1>11
     DEF Next, FillSteps, SweepSteps, ForcedClose, StopSteps

\* An emission that begins without an identity is about a nameless trade, and the
\* engine is not registering any.
LEMMA NextNamelessEmission ==
  ASSUME HonestInv, LoopTracked, [Next]_vars, NEW a \in Actors, at'[a] \in {"emit", "unseen"},
         ~job'[a].known
  PROVE  \/ at[a] \in {"emit", "unseen"} /\ job'[a] = job[a]
         \/ /\ a = "engine" /\ Nameless(job'[a].trade)
            /\ at["engine"] \in {"each", "idle", "stop", "flatten"}
<1> USE Alphabet DEF HonestInv, TypeInv, TypeOK, storeVars, memoryVars, callVars, histVars
<1> DEFINE stays == at[a] \in {"emit", "unseen"} /\ job'[a] = job[a]
           begins == /\ a = "engine" /\ Nameless(job'[a].trade)
                     /\ at["engine"] \in {"each", "idle", "stop", "flatten"}
<1> SUFFICES stays \/ begins
  OBVIOUS
<1>1. back[a] \in Returns /\ back["engine"] \in Returns
  BY DEF Calls, CallHonest
<1>2. CASE BrokerActs \/ UNCHANGED vars
  BY <1>2 DEF BrokerActs, vars
<1>3. CASE Startup \/ Crash \/ Filled \/ Redelivered \/ FillRaises \/ FillSteps \/ Stop \/ StopSteps
  BY <1>3 DEF Startup, Crash, Forget, Filled, Redelivered, FillRaises, FillSteps, MarkProcessed,
       PersistFill, Register, Stop, StopSteps, EmitStopped, Exit, Go, GoFlush, Resume, Actors
<1>4. CASE StartSweep \/ ListOpenTrades \/ ListFails \/ SweepEnds \/ MarkClosed
  BY <1>4 DEF StartSweep, ListOpenTrades, ListFails, SweepEnds, MarkClosed, Go, GoFlush, Resume,
       Actors
<1>5. CASE Backfill
  BY <1>5 DEF Backfill, GoEmit, Actors
<1>6. ASSUME NEW t \in Trades, NEW n, NEW then, managed[t].tracked,
             at["engine"] \in {"each", "idle", "stop", "flatten"},
             GoEmit("engine", [trade |-> t, txn |-> n, known |-> managed[t].known], then)
      PROVE  stays \/ begins
  <2>1. CASE a = "engine"
    <3>1. job'[a].trade = t /\ job'[a].known = managed[t].known
      BY <1>6, <2>1 DEF GoEmit
    <3> QED
      BY <1>6, <2>1, <3>1 DEF Nameless
  <2>2. CASE a # "engine"
    BY <1>6, <2>2 DEF GoEmit
  <2> QED
    BY <2>1, <2>2
<1>7. ASSUME NEW t \in Trades, LookUp(t) PROVE stays \/ begins
  <2>1. managed[t].tracked /\ at["engine"] = "each"
    BY <1>7 DEF LookUp, DetailsClosed, FallbackFinds, LeftForLater,
         Vanished, LoopTracked
  <2>2. CASE DetailsClosed(t) \/ FallbackFinds(t)
    BY <1>6, <2>1, <2>2 DEF DetailsClosed, FallbackFinds
  <2>3. CASE LeftForLater(t)
    BY <2>3 DEF LeftForLater
  <2> QED
    BY <1>7, <2>2, <2>3 DEF LookUp
<1>8. ASSUME NEW t \in Trades, CloseFilled(t) \/ CloseUnfilled(t) \/ CloseRaises(t)
      PROVE  stays \/ begins
  <2>1. managed[t].tracked /\ at["engine"] \in {"idle", "stop", "flatten"}
    BY <1>8 DEF CloseFilled, CloseUnfilled, CloseRaises, Forcing, Stopping, Watched, LoopTracked
  <2>2. CASE CloseFilled(t)
    BY <1>6, <2>1, <2>2 DEF CloseFilled
  <2>3. CASE CloseUnfilled(t) \/ CloseRaises(t)
    BY <2>3 DEF CloseUnfilled, CloseRaises, Forget, Actors
  <2> QED
    BY <1>8, <2>2, <2>3
<1>9. ASSUME NEW b \in Actors, Emission(b) \/ EmitFails(b) \/ Flushing(b)
      PROVE  stays
  <2>1. back[b] \in Returns
    BY DEF Calls, CallHonest
  <2>2. CASE a # b
    BY <1>9, <2>2 DEF Emission, AlreadyEmitted, FindUnmarked, PersistClose, MarkLedger, EmitFails,
         Flushing, Send, AckRow, EndFlush, Go, GoFlush, Resume
  <2>3. CASE a = b
    BY <1>9, <2>1, <2>3
       DEF Emission, AlreadyEmitted, FindUnmarked, PersistClose, MarkLedger, EmitFails, Unemitted, Flushing,
           Send, AckRow, EndFlush, Go, GoFlush, Resume, Returns
  <2> QED
    BY <2>2, <2>3
<1> HIDE DEF stays, begins
<1>10. ASSUME SweepSteps \/ ForcedClose PROVE stays \/ begins
  BY <1>4, <1>7, <1>8, <1>10 DEF SweepSteps, ForcedClose
<1> QED
  BY <1>2, <1>3, <1>5, <1>9, <1>10 DEF Next

LEMMA NextIdentity == IdentityInv /\ [Next]_vars => IdentityInv'
<1> SUFFICES ASSUME IdentityInv, [Next]_vars PROVE IdentityInv'
  OBVIOUS
<1> USE DEF IdentityInv
<1>1. HonestInv' /\ LoopTracked' /\ TypeInv
  BY NextHonest, NextLoop DEF HonestInv
<1>2. upsets \in Nat /\ upsets' \in Nat /\ upsets' >= upsets
  BY <1>1, UpsetsGrow
<1>3. ASSUME NEW t \in Trades, FillPersisted(t) PROVE FillPersisted(t)'
  BY <1>3, NextFills DEF FillPersisted
<1>4. ASSUME NEW t \in Trades, FillPersisted(t)', ~FillPersisted(t)
      PROVE  PersistFill /\ t = job["engine"].trade
  BY <1>4, NextFills DEF FillPersisted
<1>5. unread \subseteq unread'
  BY <1>1, NextGrows DEF Growth
<1>6. FillsReported'
  <2> SUFFICES ASSUME NEW t \in Trades, Opened(t)', ~FillPersisted(t)', ~(upsets' > 0)
               PROVE  Reporting(t)'
    BY DEF FillsReported
  <2>1. ~FillPersisted(t) /\ ~(upsets > 0)
    BY <1>2, <1>3
  <2>2. CASE Opened(t)
    <3>1. Reporting(t)
      BY <2>1, <2>2 DEF FillsReported
    <3>2. ~PersistFill
      BY <3>1, NextFills DEF Reporting, FillPersisted
    <3> QED
      BY <3>1, <3>2, NextReporting
  <2>3. CASE ~Opened(t)
    <3>1. CASE Filled
      <4>1. stream' = Append(stream, [kind |-> "open", trade |-> Len(stream) + 1])
        BY <1>1, <3>1, FilledBooks DEF Books
      <4>2. t = Len(stream) + 1
        <5>1. [kind |-> "open", trade |-> Len(stream) + 1] \in Txn /\ stream \in Seq(Txn)
          BY <1>1, <3>1, FilledBooks DEF Txn, TypeInv, StreamOK
        <5> QED
          BY <2>3, <4>1, <5>1 DEF Opened
      <4> QED
        BY <1>1, <3>1, <4>2, Alphabet DEF Filled, Go, Reporting, NoJob, TypeInv, TypeOK
    <3>2. CASE stream' = stream
      BY <2>3, <3>2 DEF Opened
    <3>3. ASSUME NEW kind \in {"part", "close"}, NEW u \in Trades, Books(kind, u)
          PROVE  FALSE
      <4>1. /\ stream' = Append(stream, [kind |-> kind, trade |-> u]) /\ stream \in Seq(Txn)
            /\ [kind |-> kind, trade |-> u] \in Txn
        BY <1>1, <3>3 DEF Books, TypeInv, StreamOK, Txn
      <4> QED
        BY <2>3, <3>3, <4>1 DEF Opened
    <3> QED
      BY <3>1, <3>2, <3>3, NextBooks
  <2> QED
    BY <2>2, <2>3
<1>7. NamelessTrades'
  <2> SUFFICES ASSUME NEW t \in Trades, Nameless(t)'
               PROVE  \/ t \in unread'
                      \/ upsets' > 0 /\ (FillPersisted(t)' => upsets' > 1 \/ Registering(t)')
    BY DEF NamelessTrades
  <2>1. CASE Nameless(t)
    <3>1. t \in unread \/ (upsets > 0 /\ (FillPersisted(t) => upsets > 1 \/ Registering(t)))
      BY <2>1 DEF NamelessTrades
    <3>2. ASSUME FillPersisted(t)', ~FillPersisted(t) PROVE Registering(t)'
      <4>1. PersistFill /\ t = job["engine"].trade
        BY <1>4, <3>2
      <4> QED
        BY <1>1, <4>1, Alphabet DEF PersistFill, GoFlush, Registering, TypeInv, TypeOK
    <3>3. ASSUME Registering(t) PROVE Registering(t)' \/ upsets' = upsets + 1
      BY <3>3, NextRegistering
    <3> QED
      BY <1>2, <1>5, <3>1, <3>2, <3>3
  <2>2. CASE Startup /\ Opened(t) /\ (FillPersisted(t) => t \in unread')
    <3>1. FillPersisted(t) \/ upsets > 0
      BY <2>2 DEF FillsReported, Reporting, Startup
    <3>2. FillPersisted(t)' => FillPersisted(t)
      BY <2>2 DEF Startup, storeVars, FillPersisted, RowsOf
    <3> QED
      BY <1>2, <2>2, <3>1, <3>2
  <2> QED
    BY <2>1, <2>2, NextNameless
<1>8. NamelessEmissions'
  <2> SUFFICES ASSUME NEW a \in Actors, at'[a] \in {"emit", "unseen"}, ~job'[a].known
               PROVE  /\ a = "engine"
                      /\ FillPersisted(job[a].trade)' => job'[a].trade \in unread' \/ upsets' > 1
    BY DEF NamelessEmissions
  <2>1. PICK t \in Trades : t = job'[a].trade
    BY <1>1 DEF HonestInv, TypeInv, TypeOK, Job
  <2>2. /\ a = "engine" /\ (FillPersisted(t) => t \in unread \/ upsets > 1)
        /\ at["engine"] \in {"emit", "unseen", "each", "idle", "stop", "flatten"}
    <3>1. CASE at[a] \in {"emit", "unseen"} /\ job'[a] = job[a]
      BY <2>1, <3>1 DEF NamelessEmissions
    <3>2. CASE /\ a = "engine" /\ Nameless(job'[a].trade)
               /\ at["engine"] \in {"each", "idle", "stop", "flatten"}
      BY <2>1, <3>2 DEF NamelessTrades, Registering
    <3> QED
      BY <3>1, <3>2, NextNamelessEmission
  <2>3. FillPersisted(t)' => FillPersisted(t)
    BY <1>4, <2>2 DEF PersistFill
  <2> QED
    BY <1>2, <1>5, <2>1, <2>2, <2>3
<1>9. IdentityKept'
  <2> SUFFICES ASSUME NEW t \in Trades, NEW i \in RowsOf("close", t)', NEW k \in RowsOf("fill", t)',
                      k < i, ~outbox'[i].msg.known
               PROVE  t \in unread' \/ upsets' > 1
    BY DEF IdentityKept
  <2>1. /\ i \in DOMAIN outbox' /\ outbox'[i].msg.topic = "close" /\ outbox'[i].msg.trade = t
        /\ k \in DOMAIN outbox' /\ outbox'[k].msg.topic = "fill"
    BY DEF RowsOf
  <2>2. \A j \in DOMAIN outbox : j \in DOMAIN outbox' /\ outbox'[j].msg = outbox[j].msg
    BY <1>1, NextGrows DEF Growth
  <2>3. outbox \in Seq(Row) /\ outbox' \in Seq(Row)
    BY <1>1 DEF HonestInv, TypeInv, TypeOK
  <2>4. CASE i \in DOMAIN outbox
    <3>1. k \in DOMAIN outbox
      BY <2>1, <2>3, <2>4
    <3>2. i \in RowsOf("close", t) /\ k \in RowsOf("fill", t) /\ ~outbox[i].msg.known
      BY <2>1, <2>2, <2>4, <3>1 DEF RowsOf
    <3> QED
      BY <1>2, <1>5, <3>2 DEF IdentityKept
  <2>5. CASE i \notin DOMAIN outbox
    <3>1. PICK a \in Actors : PersistClose(a)
      <4>1. RowsOf("close", t)' # RowsOf("close", t)
        BY <2>5 DEF RowsOf
      <4> QED
        BY <4>1, NextRows
    <3>2. /\ [msg |-> CloseOf(job[a]), done |-> FALSE] \in Row
          /\ outbox' = Append(outbox, [msg |-> CloseOf(job[a]), done |-> FALSE])
      BY <1>1, <3>1, PersistedClose
    <3>3. outbox'[i].msg = CloseOf(job[a])
      BY <1>1, <2>1, <2>5, <3>2, AppendedRow
    <3>4. at[a] = "unseen" /\ ~job[a].known /\ job[a].trade = t
      BY <2>1, <3>1, <3>3 DEF PersistClose, CloseOf
    <3>5. RowsOf("fill", t)' = RowsOf("fill", t)
      <4>1. ~PersistFill
        BY <2>1, <3>4 DEF NamelessEmissions, PersistFill
      <4> QED
        BY <4>1, NextFills
    <3> QED
      BY <1>2, <1>5, <3>4, <3>5 DEF NamelessEmissions, FillPersisted
  <2> QED
    BY <2>4, <2>5
<1> QED
  BY <1>1, <1>6, <1>7, <1>8, <1>9

\* A restart does not cost a close its identity: the trade is adopted with what its fill
\* confirmation says, so that an unmatched event was persisted before the confirmation,
\* or the confirmation could not be read at the restart, or it takes two upsets.
THEOREM IdentityNotLost == Spec => []IdentityKept
<1>1. Init => IdentityInv
  <2> SUFFICES ASSUME Init PROVE IdentityInv
    OBVIOUS
  <2>1. FillsReported
    BY DEF Init, FillsReported, Opened
  <2>2. NamelessTrades
    BY DEF Init, NamelessTrades, Nameless, Untracked
  <2>3. NamelessEmissions
    BY DEF Init, NamelessEmissions, Actors
  <2>4. LoopTracked
    BY DEF Init, LoopTracked
  <2>5. IdentityKept
    BY DEF Init, IdentityKept, RowsOf
  <2> QED
    BY <2>1, <2>2, <2>3, <2>4, <2>5, InitHonest DEF IdentityInv
<1>2. IdentityInv => IdentityKept
  BY DEF IdentityInv
<1> QED
  BY <1>1, <1>2, NextIdentity, PTL DEF Spec
=============================================================================
