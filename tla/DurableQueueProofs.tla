------------------------- MODULE DurableQueueProofs -------------------------
(***************************************************************************)
(* What the durable queue guarantees for any number of messages, restarts  *)
(* and attempts.  Type correctness, the filing of dead messages, what may  *)
(* bring a settled message back and the bound on overruns hold however     *)
(* many processes consume; the bound on deliveries, the finality of a      *)
(* settled message, the bound on duplicate wrappers and the refinement of  *)
(* AtLeastOnce hold when one live process at a time consumes the           *)
(* subscription.                                                           *)
(***************************************************************************)
EXTENDS DurableQueue, FiniteSetTheorems, TLAPS

LEMMA InsertedType == Inserted \in Row
BY QueueAssumption DEF Inserted, AbsentRow, Row, States, NoAck, NoOwner

LEMMA RequeuedType ==
  ASSUME NEW r \in Row, NEW b \in Nat PROVE Requeued(r, b) \in Row
BY QueueAssumption DEF Requeued, Row, States, NoAck, NoOwner

LEMMA ClaimedType ==
  ASSUME NEW r \in Row, NEW i \in Instances PROVE Claimed(r, i) \in Row
BY QueueAssumption DEF Claimed, Row, States

LEMMA AgedType ==
  ASSUME NEW r \in Row PROVE Aged(r) \in Row
BY QueueAssumption DEF Aged, Elapsed, Row

LEMMA NoMessageType == NoMessage \in Message
BY QueueAssumption DEF NoMessage, Message, NoAck, Rows

\* An UPDATE that only changes a row's state keeps it a row.
LEMMA StateType ==
  ASSUME NEW r \in Row, NEW q \in States PROVE [r EXCEPT !.state = q] \in Row
BY DEF Row

\* ... and leaves its other columns alone.
LEMMA StateWritten ==
  ASSUME NEW r \in Row, NEW q
  PROVE  /\ [r EXCEPT !.state = q].state = q
         /\ [r EXCEPT !.state = q].attempts = r.attempts
         /\ [r EXCEPT !.state = q].ack = r.ack
BY DEF Row

\* A statement that raises is counted for the row it was about, or not at all.
LEMMA TornType ==
  ASSUME torn \in [Rows -> Nat], NEW i \in Instances, NEW from, NEW s \in Rows
  PROVE  /\ Torn(i, from, s) \in [Rows -> Nat]
         /\ \A r \in Rows : /\ Torn(i, from, s)[r] >= torn[r]
                            /\ r # s \/ pc[i] # from => Torn(i, from, s)[r] = torn[r]
         /\ pc[i] = from => Torn(i, from, s)[s] = torn[s] + 1
BY DEF Torn

LEMMA TypeStep == TypeOK /\ [Next]_vars => TypeOK'
<1> SUFFICES ASSUME TypeOK, [Next]_vars PROVE TypeOK'
  OBVIOUS
<1> USE QueueAssumption DEF TypeOK
<1>1. CASE Publish
  BY <1>1, InsertedType DEF Publish
<1>2. CASE Tick
  BY <1>2, AgedType DEF Tick
<1>3. ASSUME NEW i \in Instances, Start(i) PROVE TypeOK'
  BY <1>3 DEF Start
<1>4. ASSUME NEW i \in Instances, Crash(i) PROVE TypeOK'
  BY <1>4 DEF Crash
<1>5. ASSUME NEW i \in Instances, PullRaises(i) PROVE TypeOK'
  <2>1. cur[i].seq \in Rows
    BY DEF Message
  <2>2. torn' \in [Rows -> Nat]
    BY <1>5, <2>1, TornType DEF PullRaises
  <2>3. QED
    BY <1>5, <2>2, NoMessageType DEF PullRaises, Calls
<1>6. ASSUME NEW i \in Instances, Pull(i) PROVE TypeOK'
  <2>1. {[seq |-> s, attempts |-> row[s].attempts] : s \in {t \in Rows : Orphaned(i, t)}}
          \in SUBSET Orphan
    BY DEF Row, Orphan
  <2>2. QED
    BY <1>6, <2>1 DEF Pull, Calls
<1>7. ASSUME NEW i \in Instances, Reclaim(i) PROVE TypeOK'
  BY <1>7, RequeuedType DEF Reclaim, Orphan
<1>8. ASSUME NEW i \in Instances, DeadLetterRow(i) PROVE TypeOK'
  <2>1. PICK t \in todo[i] :
          /\ todo' = [todo EXCEPT ![i] = @ \ {t}]
          /\ IF row[t.seq].state = "inflight"
             THEN /\ row' = [row EXCEPT ![t.seq].state = "dead"]
                  /\ pc' = [pc EXCEPT ![i] = "file"]
                  /\ cur' = [cur EXCEPT ![i] = [seq |-> t.seq, ack |-> NoAck]]
             ELSE UNCHANGED <<row, pc, cur>>
    BY <1>8 DEF DeadLetterRow
  <2>2. t.seq \in Rows /\ row[t.seq] \in Row
    BY <2>1 DEF Orphan
  <2>3. [row[t.seq] EXCEPT !.state = "dead"] \in Row
    BY <2>2, StateType DEF States
  <2>4. [seq |-> t.seq, ack |-> NoAck] \in Message
    BY <2>2 DEF Message, NoAck
  <2>5. /\ row' \in [Rows -> Row]
        /\ pc' \in [Instances -> Calls]
        /\ cur' \in [Instances -> Message]
    BY <2>1, <2>2, <2>3, <2>4 DEF Calls
  <2>6. QED
    BY <1>8, <2>1, <2>5 DEF DeadLetterRow
<1>9. ASSUME NEW i \in Instances, FileDeadLetter(i) PROVE TypeOK'
  <2>1. cur[i].seq \in Rows
    BY DEF Message
  <2>2. QED
    BY <1>9, <2>1, NoMessageType DEF FileDeadLetter, Calls
<1>10. ASSUME NEW i \in Instances, Select(i) PROVE TypeOK'
  <2>1. Selected \in SUBSET Rows
    BY DEF Selected, Deliverable
  <2>2. QED
    BY <1>10, <2>1 DEF Select, Calls
<1>11. ASSUME NEW i \in Instances, ClaimRow(i) PROVE TypeOK'
  <2>1. PICK s \in batch[i] :
          /\ batch' = [batch EXCEPT ![i] = @ \ {s}]
          /\ IF StillReady(s)
             THEN /\ row' = [row EXCEPT ![s] = Claimed(@, i)]
                  /\ held' = [held EXCEPT ![i] =
                                @ \cup {[seq |-> s, ack |-> row[s].attempts + 1]}]
             ELSE UNCHANGED <<row, held>>
    BY <1>11 DEF ClaimRow
  <2>2. s \in Rows /\ row[s] \in Row
    BY <2>1
  <2>3. [seq |-> s, ack |-> row[s].attempts + 1] \in Message
    BY <2>2 DEF Message, Row
  <2>4. row' \in [Rows -> Row] /\ held' \in [Instances -> SUBSET Message]
    <3>1. CASE StillReady(s)
      <4>1. row' = [row EXCEPT ![s] = Claimed(row[s], i)]
        BY <2>1, <3>1
      <4>2. Claimed(row[s], i) \in Row
        BY <2>2, ClaimedType
      <4>3. held' = [held EXCEPT ![i] =
                       held[i] \cup {[seq |-> s, ack |-> row[s].attempts + 1]}]
        BY <2>1, <3>1
      <4>4. QED
        BY <2>2, <2>3, <4>1, <4>2, <4>3
    <3>2. CASE ~StillReady(s)
      BY <2>1, <3>2
    <3>3. QED
      BY <3>1, <3>2
  <2>5. QED
    BY <1>11, <2>1, <2>4 DEF ClaimRow
<1>12. ASSUME NEW i \in Instances, PullReturn(i) PROVE TypeOK'
  BY <1>12 DEF PullReturn, Calls
<1>13. ASSUME NEW i \in Instances, NEW m \in held[i], Ack(i, m) PROVE TypeOK'
  <2>1. m.seq \in Rows /\ row[m.seq] \in Row
    BY DEF Message
  <2>2. [row[m.seq] EXCEPT !.state = IF Matches(m) THEN "done" ELSE @] \in Row
    BY <2>1 DEF Row, States
  <2>3. QED
    BY <1>13, <2>1, <2>2 DEF Ack
<1>14. ASSUME NEW i \in Instances, NEW m \in held[i], Nack(i, m) PROVE TypeOK'
  BY <1>14 DEF Nack, Calls
<1>15. ASSUME NEW i \in Instances, NEW m \in held[i], ToDlq(i, m) PROVE TypeOK'
  BY <1>15 DEF ToDlq, Calls
<1>16. ASSUME NEW i \in Instances, NEW m \in held[i], Drop(i, m) PROVE TypeOK'
  BY <1>16 DEF Drop
<1>17. ASSUME NEW i \in Instances, NackUpdate(i) PROVE TypeOK'
  <2>1. PICK b \in Backoffs : row' = [row EXCEPT ![cur[i].seq] = Requeued(@, b)]
    BY <1>17 DEF NackUpdate
  <2>2. cur[i].seq \in Rows /\ Requeued(row[cur[i].seq], b) \in Row
    BY RequeuedType DEF Message
  <2>3. row' \in [Rows -> Row]
    BY <2>1, <2>2
  <2>4. QED
    BY <1>17, <2>3, NoMessageType DEF NackUpdate, Calls
<1>18. ASSUME NEW i \in Instances, ToDlqInsert(i) PROVE TypeOK'
  BY <1>18 DEF ToDlqInsert, Calls, Message
<1>19. ASSUME NEW i \in Instances, ToDlqUpdate(i) PROVE TypeOK'
  <2>1. cur[i].seq \in Rows /\ row[cur[i].seq] \in Row
    BY DEF Message
  <2>2. [row[cur[i].seq] EXCEPT !.state = IF Matches(cur[i]) THEN "dead" ELSE @] \in Row
    BY <2>1 DEF Row, States
  <2>3. row' \in [Rows -> Row]
    BY <1>19, <2>1, <2>2 DEF ToDlqUpdate
  <2>4. QED
    BY <1>19, <2>3, NoMessageType DEF ToDlqUpdate, Calls
<1>20. ASSUME NEW i \in Instances, SettleRaises(i) PROVE TypeOK'
  <2>1. cur[i].seq \in Rows
    BY DEF Message
  <2>2. torn' \in [Rows -> Nat]
    BY <1>20, <2>1, TornType DEF SettleRaises
  <2>3. QED
    BY <1>20, <2>2, NoMessageType DEF SettleRaises, Calls
<1>21. CASE UNCHANGED vars
  BY <1>21 DEF vars
<1>22. QED
  BY <1>1, <1>2, <1>3, <1>4, <1>5, <1>6, <1>7, <1>8, <1>9, <1>10, <1>11, <1>12,
     <1>13, <1>14, <1>15, <1>16, <1>17, <1>18, <1>19, <1>20, <1>21
     DEF Next, PullStep, SettleStep

LEMMA TypeInit == Init => TypeOK
BY QueueAssumption DEF Init, TypeOK, AbsentRow, Row, States, NoAck, NoOwner,
   NoMessage, Message, Rows, Calls

\* Every step of every process keeps all variables in their domains (the queue
\* schema and the locals of reclaim, pull, nack and to_dlq).
THEOREM TypeCorrect == Spec => []TypeOK
BY TypeInit, TypeStep, PTL DEF Spec

-----------------------------------------------------------------------------
\* One consumer at a time.

\* A step of the live process i leaves the others alone: they are not live, so
\* only the rows and i's own call can disturb the invariant.
LEMMA OwnStep ==
  ASSUME ConsumerInvariant, TypeOK',
         NEW i \in Instances, Live(i), life' = life,
         \A j \in Instances \ {i} :
            /\ pc'[j] = pc[j] /\ todo'[j] = todo[j]
            /\ batch'[j] = batch[j] /\ held'[j] = held[j],
         \A s \in Rows : RowSound(row'[s]),
         CallSound(i)'
  PROVE  ConsumerInvariant'
<1>1. SoleConsumer'
  BY DEF ConsumerInvariant, SoleConsumer, Live
<1>2. NotStarted'
  BY DEF ConsumerInvariant, NotStarted, Live
<1>3. \A j \in Instances : Live(j)' => CallSound(j)'
  BY DEF ConsumerInvariant, SoleConsumer, Live
<1>4. QED
  BY <1>1, <1>2, <1>3 DEF ConsumerInvariant

\* Publishing and the passing of time change no row a call in progress relies on.
LEMMA BackgroundStep ==
  ASSUME ConsumerInvariant, TypeOK', Publish \/ Tick
  PROVE  ConsumerInvariant'
<1> USE QueueAssumption DEF ConsumerInvariant
<1>1. /\ UNCHANGED <<life, pc, todo, batch, held, cur>>
      /\ \A s \in Rows :
           \/ /\ row'[s].state = row[s].state
              /\ row'[s].attempts = row[s].attempts
              /\ row'[s].ack = row[s].ack
           \/ /\ row[s].state = "absent" /\ row'[s].state = "ready"
              /\ row'[s].attempts = 0
  <2>1. CASE Publish
    BY <2>1 DEF Publish, Inserted, TypeOK
  <2>2. CASE Tick
    BY <2>2 DEF Tick, Aged, TypeOK
  <2>3. QED
    BY <2>1, <2>2
<1>2. SoleConsumer' /\ NotStarted'
  BY <1>1 DEF SoleConsumer, NotStarted, Live
<1>3. \A s \in Rows : RowSound(row'[s])
  BY <1>1 DEF RowSound, Exhausted
<1>4. ASSUME NEW i \in Instances, Live(i)' PROVE CallSound(i)'
  <2>1. CallSound(i)
    BY <1>1, <1>4 DEF Live
  <2>2. /\ \A t \in todo[i] : t.seq \in Rows
        /\ \A s \in batch[i] : s \in Rows
        /\ \A m \in held[i] : m.seq \in Rows
        /\ cur[i].seq \in Rows
    BY DEF TypeOK, Orphan, Message
  <2>3. QED
    BY <1>1, <2>1, <2>2 DEF CallSound, Holds, Matches, Exhausted
<1>5. QED
  BY <1>2, <1>3, <1>4

\* A process opens the queue, or dies: no row changes and no other call does.
LEMMA LifeStep ==
  ASSUME ~Shared, ConsumerInvariant, TypeOK', NEW i \in Instances, Start(i) \/ Crash(i)
  PROVE  ConsumerInvariant'
<1> USE DEF ConsumerInvariant
<1>1. CASE Start(i)
  <2>1. SoleConsumer' /\ NotStarted'
    BY <1>1 DEF Start, SoleConsumer, NotStarted, Live, TypeOK
  <2>2. \A s \in Rows : RowSound(row'[s])
    BY <1>1 DEF Start
  <2>3. ASSUME NEW j \in Instances, Live(j)' PROVE CallSound(j)'
    BY <1>1, <2>3 DEF Start, Live, TypeOK, NotStarted, CallSound
  <2>4. QED
    BY <2>1, <2>2, <2>3
<1>2. CASE Crash(i)
  <2>1. SoleConsumer' /\ NotStarted'
    BY <1>2 DEF Crash, SoleConsumer, NotStarted, Live, TypeOK
  <2>2. \A s \in Rows : RowSound(row'[s])
    BY <1>2 DEF Crash
  <2>3. ASSUME NEW j \in Instances, Live(j)' PROVE CallSound(j)'
    BY <1>2, <2>3 DEF Crash, Live, TypeOK, SoleConsumer
  <2>4. QED
    BY <2>1, <2>2, <2>3
<1>3. QED
  BY <1>1, <1>2

\* The statements of pull.
LEMMA PullInvariant ==
  ASSUME ConsumerInvariant, TypeOK', NEW i \in Instances, PullStep(i) \/ PullRaises(i)
  PROVE  ConsumerInvariant'
<1> USE QueueAssumption DEF ConsumerInvariant
<1>0. Live(i) => CallSound(i)
  OBVIOUS
<1>1. CASE Pull(i)
  <2>1. CallSound(i)'
    BY <1>0, <1>1 DEF Pull, CallSound, TypeOK, Orphaned
  <2>2. QED
    BY <1>1, <2>1, OwnStep DEF Pull, TypeOK
<1>2. CASE Reclaim(i)
  <2>1. PICK t \in todo[i] :
          /\ ~Exhausted(t.attempts)
          /\ row' = [row EXCEPT ![t.seq] =
                       IF @.state = "inflight" THEN Requeued(@, 0) ELSE @]
          /\ todo' = [todo EXCEPT ![i] = @ \ {t}]
    BY <1>2 DEF Reclaim
  <2>2. t \in Orphan /\ t.seq \in Rows
    BY DEF TypeOK, Orphan
  <2>3. /\ row'[t.seq] = Requeued(row[t.seq], 0)
        /\ \A s \in Rows \ {t.seq} : row'[s] = row[s]
    BY <1>0, <1>2, <2>1, <2>2 DEF CallSound, TypeOK, Reclaim
  <2>4. \A s \in Rows : RowSound(row'[s])
    BY <1>0, <1>2, <2>1, <2>2, <2>3 DEF CallSound, Reclaim, RowSound, Requeued
  <2>5. ASSUME NEW u \in todo'[i] PROVE u.seq \in Rows \ {t.seq}
    <3>1. u \in todo[i] /\ u # t /\ u \in Orphan
      BY <2>1 DEF TypeOK
    <3>2. u.seq = t.seq => u.attempts = t.attempts
      BY <1>0, <1>2, <3>1 DEF CallSound, Reclaim
    <3>3. QED
      BY <2>2, <3>1, <3>2 DEF Orphan
  <2>6. CallSound(i)'
    BY <1>0, <1>2, <2>1, <2>3, <2>5 DEF CallSound, Reclaim, TypeOK
  <2>7. QED
    BY <1>2, <2>1, <2>4, <2>6, OwnStep DEF Reclaim, TypeOK
<1>3. CASE DeadLetterRow(i)
  <2>1. PICK t \in todo[i] :
          /\ todo' = [todo EXCEPT ![i] = @ \ {t}]
          /\ IF row[t.seq].state = "inflight"
             THEN /\ row' = [row EXCEPT ![t.seq].state = "dead"]
                  /\ pc' = [pc EXCEPT ![i] = "file"]
                  /\ cur' = [cur EXCEPT ![i] = [seq |-> t.seq, ack |-> NoAck]]
             ELSE UNCHANGED <<row, pc, cur>>
    BY <1>3 DEF DeadLetterRow
  <2>2. t \in Orphan /\ t.seq \in Rows /\ row[t.seq].state = "inflight"
    BY <1>0, <1>3 DEF TypeOK, Orphan, CallSound, DeadLetterRow
  <2>3. /\ row'[t.seq].state = "dead"
        /\ row'[t.seq].attempts = row[t.seq].attempts
        /\ \A s \in Rows \ {t.seq} : row'[s] = row[s]
    <3>1. row' = [row EXCEPT ![t.seq].state = "dead"]
      BY <2>1, <2>2
    <3>2. row' = [row EXCEPT ![t.seq] = [row[t.seq] EXCEPT !.state = "dead"]]
      BY <3>1
    <3>3. row \in [Rows -> Row] /\ row[t.seq] \in Row
      BY <2>2 DEF TypeOK
    <3>4. QED
      BY <2>2, <3>2, <3>3, StateWritten
  <2>4. \A s \in Rows : RowSound(row'[s])
    BY <2>2, <2>3 DEF RowSound
  <2>5. ASSUME NEW u \in todo'[i] PROVE u.seq \in Rows \ {t.seq}
    <3>1. u \in todo[i] /\ u # t /\ u \in Orphan
      BY <2>1 DEF TypeOK
    <3>2. u.seq = t.seq => u.attempts = t.attempts
      BY <1>0, <1>3, <3>1 DEF CallSound, DeadLetterRow
    <3>3. QED
      BY <2>2, <3>1, <3>2 DEF Orphan
  <2>6. CallSound(i)'
    BY <1>0, <1>3, <2>1, <2>2, <2>3, <2>5 DEF CallSound, DeadLetterRow, TypeOK
  <2>7. QED
    BY <1>3, <2>1, <2>4, <2>6, OwnStep DEF DeadLetterRow, TypeOK
<1>4. CASE FileDeadLetter(i)
  <2>1. CallSound(i)'
    BY <1>0, <1>4 DEF FileDeadLetter, CallSound, TypeOK
  <2>2. QED
    BY <1>4, <2>1, OwnStep DEF FileDeadLetter, TypeOK
<1>5. CASE Select(i)
  <2>1. CallSound(i)'
    BY <1>0, <1>5 DEF Select, CallSound, TypeOK, Selected, Deliverable
  <2>2. QED
    BY <1>5, <2>1, OwnStep DEF Select, TypeOK
<1>6. CASE ClaimRow(i)
  <2>1. PICK s \in batch[i] :
          /\ batch' = [batch EXCEPT ![i] = @ \ {s}]
          /\ IF StillReady(s)
             THEN /\ row' = [row EXCEPT ![s] = Claimed(@, i)]
                  /\ held' = [held EXCEPT ![i] =
                                @ \cup {[seq |-> s, ack |-> row[s].attempts + 1]}]
             ELSE UNCHANGED <<row, held>>
    BY <1>6 DEF ClaimRow
  <2>2. s \in Rows /\ row[s] \in Row /\ row[s].state = "ready"
    BY <1>0, <1>6 DEF TypeOK, CallSound, ClaimRow
  <2>3. /\ row'[s] = Claimed(row[s], i)
        /\ \A t \in Rows \ {s} : row'[t] = row[t]
        /\ held'[i] = held[i] \cup {[seq |-> s, ack |-> row[s].attempts + 1]}
        /\ \A j \in Instances \ {i} : held'[j] = held[j]
        /\ batch'[i] = batch[i] \ {s}
        /\ \A j \in Instances \ {i} : batch'[j] = batch[j]
    BY <2>1, <2>2 DEF TypeOK, StillReady
  <2>4. \A t \in Rows : RowSound(row'[t])
    BY <2>2, <2>3 DEF RowSound, Claimed, Exhausted, Row
  <2>5. ASSUME NEW m \in held'[i] PROVE Holds(m)'
    <3>1. CASE m \in held[i]
      <4>1. m.seq \in Rows /\ Holds(m)
        BY <1>0, <1>6, <3>1 DEF CallSound, ClaimRow, TypeOK, Message
      <4>2. m.seq # s
        BY <2>2, <4>1 DEF Holds
      <4>3. QED
        BY <2>3, <4>1, <4>2 DEF Holds, Matches
    <3>2. CASE m = [seq |-> s, ack |-> row[s].attempts + 1]
      BY <2>3, <3>2 DEF Holds, Matches, Claimed
    <3>3. QED
      BY <2>3, <3>1, <3>2
  <2>6. CallSound(i)'
    BY <1>0, <1>6, <2>3, <2>5 DEF CallSound, ClaimRow, TypeOK
  <2>7. QED
    BY <1>6, <2>3, <2>4, <2>6, OwnStep DEF ClaimRow
<1>7. CASE PullReturn(i)
  <2>1. CallSound(i)'
    BY <1>0, <1>7 DEF PullReturn, CallSound, TypeOK, Holds, Matches
  <2>2. QED
    BY <1>7, <2>1, OwnStep DEF PullReturn, TypeOK
<1>8. CASE PullRaises(i)
  <2>1. CallSound(i)'
    BY <1>0, <1>8 DEF PullRaises, CallSound, TypeOK
  <2>2. QED
    BY <1>8, <2>1, OwnStep DEF PullRaises, TypeOK
<1>9. QED
  BY <1>1, <1>2, <1>3, <1>4, <1>5, <1>6, <1>7, <1>8 DEF PullStep

\* Two messages held for one row carry the row's ack id: they are the same.
LEMMA HeldOnce ==
  ASSUME TypeOK, NEW i \in Instances, \A m \in held[i] : Holds(m),
         NEW m \in held[i], NEW n \in held[i], m.seq = n.seq
  PROVE  m = n
BY DEF TypeOK, Message, Holds, Matches

\* The statements that settle a message.
LEMMA SettleInvariant ==
  ASSUME ConsumerInvariant, TypeOK', NEW i \in Instances, SettleStep(i) \/ SettleRaises(i)
  PROVE  ConsumerInvariant'
<1> USE QueueAssumption DEF ConsumerInvariant
<1>0. /\ Live(i) => CallSound(i)
      /\ row \in [Rows -> Row] /\ \A m \in held[i] : m.seq \in Rows
      /\ cur[i].seq \in Rows
  BY DEF TypeOK, Message
<1>1. ASSUME NEW m \in held[i], Ack(i, m) PROVE ConsumerInvariant'
  <2>1. CallSound(i) /\ m.seq \in Rows /\ Holds(m) /\ row[m.seq] \in Row
    BY <1>0, <1>1 DEF Ack, Settling, CallSound
  <2>2. row' = [row EXCEPT ![m.seq] = [row[m.seq] EXCEPT !.state = "done"]]
    BY <1>1, <2>1 DEF Ack, Holds
  <2>3. /\ row'[m.seq].state = "done"
        /\ row'[m.seq].attempts = row[m.seq].attempts
        /\ \A s \in Rows \ {m.seq} : row'[s] = row[s]
    BY <1>0, <2>1, <2>2, StateWritten
  <2>4. \A s \in Rows : RowSound(row'[s])
    BY <2>3 DEF RowSound
  <2>5. ASSUME NEW n \in held'[i] PROVE Holds(n)'
    <3>1. n \in held[i] /\ n.seq # m.seq
      BY <1>1, <2>1, HeldOnce DEF Ack, TypeOK, CallSound
    <3>2. QED
      BY <1>0, <2>1, <2>3, <3>1 DEF CallSound, Holds, Matches
  <2>6. CallSound(i)'
    BY <1>1, <2>1, <2>5 DEF Ack, Settling, CallSound, TypeOK
  <2>7. QED
    BY <1>1, <2>4, <2>6, OwnStep DEF Ack, Settling, TypeOK
<1>2. ASSUME NEW m \in held[i], Nack(i, m) \/ ToDlq(i, m) \/ Drop(i, m)
      PROVE  ConsumerInvariant'
  <2>1. /\ CallSound(i) /\ Holds(m) /\ Live(i) /\ UNCHANGED <<row, life, todo, batch>>
        /\ held' = [held EXCEPT ![i] = @ \ {m}]
        /\ pc[i] = "idle"
    BY <1>0, <1>2 DEF Nack, ToDlq, Drop, Settling, CallSound
  <2>2. \A n \in held'[i] : n \in held[i] /\ n.seq # m.seq /\ Holds(n)'
    BY <1>0, <2>1, HeldOnce DEF TypeOK, CallSound, Holds, Matches
  <2>3. /\ \/ pc'[i] = "idle"
           \/ /\ pc'[i] \in {"nack", "wrap"} /\ cur'[i] = m
              /\ pc'[i] = "nack" => ~Exhausted(row[m.seq].attempts)
        /\ \A j \in Instances \ {i} : pc'[j] = pc[j]
    BY <1>2, <2>1 DEF Nack, ToDlq, Drop, TypeOK, Holds
  <2>4. Holds(m)'
    BY <2>1 DEF Holds, Matches
  <2>5. CallSound(i)'
    BY <1>0, <2>1, <2>2, <2>3, <2>4 DEF CallSound, Exhausted
  <2>6. QED
    BY <2>1, <2>3, <2>5, OwnStep DEF TypeOK
<1>3. CASE NackUpdate(i)
  <2>1. PICK b \in Backoffs : row' = [row EXCEPT ![cur[i].seq] = Requeued(@, b)]
    BY <1>3 DEF NackUpdate
  <2>2. /\ row'[cur[i].seq] = Requeued(row[cur[i].seq], b)
        /\ \A s \in Rows \ {cur[i].seq} : row'[s] = row[s]
    BY <1>0, <2>1
  <2>3. CallSound(i) /\ ~Exhausted(row[cur[i].seq].attempts)
    BY <1>0, <1>3 DEF NackUpdate, CallSound
  <2>4. \A s \in Rows : RowSound(row'[s])
    BY <1>0, <2>2, <2>3 DEF RowSound, Requeued
  <2>5. \A n \in held[i] : n.seq # cur[i].seq /\ Holds(n)
    BY <1>3, <2>3 DEF NackUpdate, CallSound
  <2>6. CallSound(i)'
    BY <1>0, <1>3, <2>2, <2>3, <2>5 DEF NackUpdate, CallSound, TypeOK, Holds, Matches
  <2>7. QED
    BY <1>3, <2>4, <2>6, OwnStep DEF NackUpdate, TypeOK
<1>4. CASE ToDlqInsert(i)
  <2>1. CallSound(i)'
    BY <1>0, <1>4 DEF ToDlqInsert, CallSound, TypeOK, Holds, Matches
  <2>2. QED
    BY <1>4, <2>1, OwnStep DEF ToDlqInsert, TypeOK
<1>5. CASE ToDlqUpdate(i)
  <2>1. CallSound(i) /\ Holds(cur[i]) /\ row[cur[i].seq] \in Row
    BY <1>0, <1>5 DEF ToDlqUpdate, CallSound
  <2>2. row' = [row EXCEPT ![cur[i].seq] = [row[cur[i].seq] EXCEPT !.state = "dead"]]
    BY <1>5, <2>1 DEF ToDlqUpdate, Holds
  <2>3. /\ row'[cur[i].seq].state = "dead"
        /\ row'[cur[i].seq].attempts = row[cur[i].seq].attempts
        /\ \A s \in Rows \ {cur[i].seq} : row'[s] = row[s]
    BY <1>0, <2>1, <2>2, StateWritten
  <2>4. \A s \in Rows : RowSound(row'[s])
    BY <2>3 DEF RowSound
  <2>5. \A n \in held[i] : n.seq # cur[i].seq /\ Holds(n)
    BY <1>5, <2>1 DEF ToDlqUpdate, CallSound
  <2>6. CallSound(i)'
    BY <1>0, <1>5, <2>1, <2>3, <2>5 DEF ToDlqUpdate, CallSound, TypeOK, Holds, Matches
  <2>7. QED
    BY <1>5, <2>4, <2>6, OwnStep DEF ToDlqUpdate, TypeOK
<1>6. CASE SettleRaises(i)
  <2>1. CallSound(i) /\ Holds(cur[i]) /\ pc[i] \in {"nack", "wrap", "bury"} /\ row' = row
    BY <1>0, <1>6 DEF SettleRaises, CallSound
  <2>2. \A n \in held'[i] : Holds(n)'
    BY <1>0, <1>6, <2>1 DEF SettleRaises, CallSound, TypeOK, Holds, Matches
  <2>3. CallSound(i)'
    BY <1>0, <1>6, <2>1, <2>2 DEF SettleRaises, CallSound, TypeOK
  <2>4. QED
    BY <1>6, <2>1, <2>3, OwnStep DEF SettleRaises, TypeOK
<1>7. QED
  BY <1>1, <1>2, <1>3, <1>4, <1>5, <1>6 DEF SettleStep

LEMMA ConsumerStep ==
  ASSUME ~Shared, ConsumerInvariant, [Next]_vars PROVE ConsumerInvariant'
<1>1. TypeOK'
  BY TypeStep DEF ConsumerInvariant
<1>2. CASE Publish \/ Tick
  BY <1>1, <1>2, BackgroundStep
<1>3. ASSUME NEW i \in Instances, Start(i) \/ Crash(i) PROVE ConsumerInvariant'
  BY <1>1, <1>3, LifeStep
<1>4. ASSUME NEW i \in Instances, PullRaises(i) \/ PullStep(i) PROVE ConsumerInvariant'
  BY <1>1, <1>4, PullInvariant
<1>5. ASSUME NEW i \in Instances, SettleStep(i) \/ SettleRaises(i) PROVE ConsumerInvariant'
  BY <1>1, <1>5, SettleInvariant
<1>6. CASE UNCHANGED vars
  BY <1>6 DEF vars, ConsumerInvariant, TypeOK, SoleConsumer, NotStarted, Live,
     CallSound, Holds, Matches, Exhausted
<1>7. QED
  BY <1>2, <1>3, <1>4, <1>5, <1>6 DEF Next

\* With one live consumer, whatever a call has read from the table is still so
\* when the call writes: the reason behind the next three theorems.
THEOREM ConsumerInvariantHolds == ~Shared => (Spec => []ConsumerInvariant)
<1> SUFFICES ASSUME ~Shared PROVE Spec => []ConsumerInvariant
  OBVIOUS
<1>1. Init => ConsumerInvariant
  BY TypeInit, QueueAssumption DEF Init, ConsumerInvariant, SoleConsumer, NotStarted,
     Live, RowSound, AbsentRow
<1>2. QED
  BY <1>1, ConsumerStep, PTL DEF Spec

\* However often a message is leased and orphaned by restarts, lost leases,
\* failing pulls and nacks, it is delivered max_attempts times at most, and a
\* ready row always has a delivery left (reclaim, pull, nack).
THEOREM BoundedRedelivery == ~Shared => (Spec => []RedeliveryBounded)
<1> SUFFICES ASSUME ~Shared PROVE Spec => []RedeliveryBounded
  OBVIOUS
<1>1. ConsumerInvariant => RedeliveryBounded
  BY QueueAssumption DEF ConsumerInvariant, RowSound, RedeliveryBounded, Exhausted,
     TypeOK, Row
<1>2. QED
  BY <1>1, ConsumerInvariantHolds, PTL

-----------------------------------------------------------------------------
\* What one step can do to the rows.

Kept(s) == row'[s].state = row[s].state /\ row'[s].attempts = row[s].attempts

Sent(s) == /\ row[s].state = "absent" /\ row'[s].state = "ready"
           /\ row'[s].attempts = row[s].attempts

Returned(s) == /\ row[s].state = "inflight" /\ row'[s].state = "ready"
               /\ row'[s].attempts = row[s].attempts

Delivered(s) == /\ row[s].state = "ready" /\ row'[s].state = "inflight"
                /\ row'[s].attempts = row[s].attempts + 1

Finished(s) == /\ row[s].state = "inflight" /\ row'[s].state \in {"done", "dead"}
               /\ row'[s].attempts = row[s].attempts

OnlyRow(s) == /\ Sent(s) \/ Returned(s) \/ Delivered(s) \/ Finished(s)
              /\ \A t \in Rows \ {s} : Kept(t)

LEMMA RowStep ==
  ASSUME ConsumerInvariant, [Next]_vars
  PROVE  (\A s \in Rows : Kept(s)) \/ (\E s \in Rows : OnlyRow(s))
<1> USE QueueAssumption
<1>0. /\ row \in [Rows -> Row]
      /\ \A i \in Instances : cur[i].seq \in Rows /\ \A t \in todo[i] : t.seq \in Rows
      /\ \A i \in Instances : batch[i] \subseteq Rows /\ \A m \in held[i] : m.seq \in Rows
      /\ \A i \in Instances : Live(i) => CallSound(i)
  BY DEF ConsumerInvariant, TypeOK, Orphan, Message
<1> DEFINE Goal == (\A s \in Rows : Kept(s)) \/ (\E s \in Rows : OnlyRow(s))
<1>1. CASE row' = row
  BY <1>1 DEF Kept
<1>2. CASE Tick
  BY <1>0, <1>2 DEF Tick, Aged, Kept
<1>3. CASE Publish
  <2>1. PICK s \in Rows : row[s].state = "absent" /\ row' = [row EXCEPT ![s] = Inserted]
    BY <1>3 DEF Publish
  <2>2. row[s].attempts = 0
    BY <2>1 DEF ConsumerInvariant, RowSound
  <2>3. Sent(s) /\ \A t \in Rows \ {s} : Kept(t)
    BY <1>0, <2>1, <2>2 DEF Sent, Kept, Inserted
  <2>4. QED
    BY <2>3 DEF OnlyRow
<1>4. ASSUME NEW i \in Instances, Reclaim(i) PROVE Goal
  <2>1. PICK t \in todo[i] :
          row' = [row EXCEPT ![t.seq] =
                    IF @.state = "inflight" THEN Requeued(@, 0) ELSE @]
    BY <1>4 DEF Reclaim
  <2>2. t.seq \in Rows /\ row[t.seq].state = "inflight"
    BY <1>0, <1>4 DEF Reclaim, CallSound
  <2>3. row' = [row EXCEPT ![t.seq] = Requeued(row[t.seq], 0)]
    BY <2>1, <2>2
  <2>4. Returned(t.seq) /\ \A s \in Rows \ {t.seq} : Kept(s)
    BY <1>0, <2>2, <2>3 DEF Returned, Kept, Requeued
  <2>5. QED
    BY <2>2, <2>4 DEF OnlyRow
<1>5. ASSUME NEW i \in Instances, DeadLetterRow(i) PROVE Goal
  <2>1. PICK t \in todo[i] :
          IF row[t.seq].state = "inflight"
          THEN row' = [row EXCEPT ![t.seq].state = "dead"]
          ELSE row' = row
    BY <1>5 DEF DeadLetterRow
  <2>2. t.seq \in Rows /\ row[t.seq].state = "inflight" /\ row[t.seq] \in Row
    BY <1>0, <1>5 DEF DeadLetterRow, CallSound
  <2>3. row' = [row EXCEPT ![t.seq] = [row[t.seq] EXCEPT !.state = "dead"]]
    BY <2>1, <2>2
  <2>4. Finished(t.seq) /\ \A s \in Rows \ {t.seq} : Kept(s)
    BY <1>0, <2>2, <2>3, StateWritten DEF Finished, Kept
  <2>5. QED
    BY <2>2, <2>4 DEF OnlyRow
<1>6. ASSUME NEW i \in Instances, ClaimRow(i) PROVE Goal
  <2>1. PICK s \in batch[i] :
          IF StillReady(s) THEN row' = [row EXCEPT ![s] = Claimed(@, i)] ELSE row' = row
    BY <1>6 DEF ClaimRow
  <2>2. s \in Rows
    BY <1>0
  <2>3. CASE StillReady(s)
    <3>1. row' = [row EXCEPT ![s] = Claimed(row[s], i)]
      BY <2>1, <2>3
    <3>2. Delivered(s) /\ \A t \in Rows \ {s} : Kept(t)
      BY <1>0, <2>2, <2>3, <3>1 DEF Delivered, Kept, Claimed, StillReady
    <3>3. QED
      BY <2>2, <3>2 DEF OnlyRow
  <2>4. CASE ~StillReady(s)
    BY <1>1, <2>1, <2>4
  <2>5. QED
    BY <2>3, <2>4
<1>7. ASSUME NEW i \in Instances, NEW m \in held[i], Ack(i, m) PROVE Goal
  <2>1. m.seq \in Rows /\ row[m.seq].state = "inflight" /\ Matches(m) /\ row[m.seq] \in Row
    BY <1>0, <1>7 DEF Ack, Settling, CallSound, Holds
  <2>2. row' = [row EXCEPT ![m.seq] = [row[m.seq] EXCEPT !.state = "done"]]
    BY <1>7, <2>1 DEF Ack
  <2>3. Finished(m.seq) /\ \A s \in Rows \ {m.seq} : Kept(s)
    BY <1>0, <2>1, <2>2, StateWritten DEF Finished, Kept
  <2>4. QED
    BY <2>1, <2>3 DEF OnlyRow
<1>8. ASSUME NEW i \in Instances, NackUpdate(i) PROVE Goal
  <2>1. PICK b \in Backoffs : row' = [row EXCEPT ![cur[i].seq] = Requeued(@, b)]
    BY <1>8 DEF NackUpdate
  <2>2. cur[i].seq \in Rows /\ row[cur[i].seq].state = "inflight"
    BY <1>0, <1>8 DEF NackUpdate, CallSound, Holds
  <2>3. Returned(cur[i].seq) /\ \A s \in Rows \ {cur[i].seq} : Kept(s)
    BY <1>0, <2>1, <2>2 DEF Returned, Kept, Requeued
  <2>4. QED
    BY <2>2, <2>3 DEF OnlyRow
<1>9. ASSUME NEW i \in Instances, ToDlqUpdate(i) PROVE Goal
  <2>1. /\ cur[i].seq \in Rows /\ row[cur[i].seq].state = "inflight"
        /\ Matches(cur[i]) /\ row[cur[i].seq] \in Row
    BY <1>0, <1>9 DEF ToDlqUpdate, CallSound, Holds
  <2>2. row' = [row EXCEPT ![cur[i].seq] = [row[cur[i].seq] EXCEPT !.state = "dead"]]
    BY <1>9, <2>1 DEF ToDlqUpdate
  <2>3. Finished(cur[i].seq) /\ \A s \in Rows \ {cur[i].seq} : Kept(s)
    BY <1>0, <2>1, <2>2, StateWritten DEF Finished, Kept
  <2>4. QED
    BY <2>1, <2>3 DEF OnlyRow
<1>10. QED
  <2>1. \/ row' = row \/ Publish \/ Tick
        \/ \E i \in Instances :
             \/ Reclaim(i) \/ DeadLetterRow(i) \/ ClaimRow(i) \/ NackUpdate(i) \/ ToDlqUpdate(i)
             \/ \E m \in held[i] : Ack(i, m)
    BY DEF Next, PullStep, SettleStep, vars, Start, Crash, PullRaises, SettleRaises, Pull,
       FileDeadLetter, Select, PullReturn, Nack, ToDlq, Drop, ToDlqInsert
  <2>2. QED
    BY <1>1, <1>2, <1>3, <1>4, <1>5, <1>6, <1>7, <1>8, <1>9, <2>1

\* A message that was acked or dead-lettered is never delivered again: no stale
\* read of reclaim, pull, nack or to_dlq survives with one consumer at a time.
THEOREM SettledForGood == ~Shared => (Spec => SettledIsFinal)
<1> SUFFICES ASSUME ~Shared PROVE Spec => SettledIsFinal
  OBVIOUS
<1>1. ConsumerInvariant /\ [Next]_vars =>
        [\A s \in Rows :
           /\ row[s].state = "done" => row'[s].state = "done"
           /\ row[s].state = "dead" => row'[s].state \in {"dead", "done"}]_vars
  <2> SUFFICES ASSUME ConsumerInvariant, [Next]_vars, NEW s \in Rows
               PROVE  /\ row[s].state = "done" => row'[s].state = "done"
                      /\ row[s].state = "dead" => row'[s].state \in {"dead", "done"}
    OBVIOUS
  <2> QED
    BY RowStep DEF OnlyRow, Kept, Sent, Returned, Delivered, Finished
<1>2. QED
  BY <1>1, ConsumerInvariantHolds, PTL DEF Spec, SettledIsFinal

\* The step half of ImplementsAtLeastOnce: every statement of every process is
\* a send, a delivery or a settlement of the abstract queue, or invisible in it.
THEOREM RefinesAtLeastOnce ==
  ~Shared => (Spec => Abstract!Init /\ [][Abstract!Next]_(Abstract!vars))
<1> SUFFICES ASSUME ~Shared PROVE Spec => Abstract!Init /\ [][Abstract!Next]_(Abstract!vars)
  OBVIOUS
<1> DEFINE phase == [s \in Rows |-> IF row[s].state = "absent" THEN "unsent"
                                    ELSE IF Settled(s) THEN "settled" ELSE "pending"]
           delivered == [s \in Rows |-> row[s].attempts]
<1>1. Init => Abstract!Init
  BY DEF Init, Abstract!Init, AbsentRow
<1>2. ConsumerInvariant /\ [Next]_vars => [Abstract!Next]_(Abstract!vars)
  <2> SUFFICES ASSUME ConsumerInvariant, [Next]_vars
               PROVE  Abstract!Next \/ (phase' = phase /\ delivered' = delivered)
    BY DEF Abstract!vars
  <2>1. CASE \A s \in Rows : Kept(s)
    BY <2>1 DEF Kept, Settled
  <2>2. ASSUME NEW s \in Rows, OnlyRow(s)
        PROVE  Abstract!Next \/ (phase' = phase /\ delivered' = delivered)
    <3>0. \A t \in Rows \ {s} : phase'[t] = phase[t] /\ delivered'[t] = delivered[t]
      BY <2>2 DEF OnlyRow, Kept, Settled
    <3>1. CASE Sent(s)
      <4>1. phase[s] = "unsent" /\ phase'[s] = "pending" /\ delivered'[s] = delivered[s]
        BY <3>1 DEF Sent, Settled
      <4>2. phase' = [phase EXCEPT ![s] = "pending"] /\ delivered' = delivered
        BY <3>0, <4>1
      <4>3. Abstract!Send(s)
        BY <4>1, <4>2 DEF Abstract!Send
      <4>4. QED
        BY <4>3 DEF Abstract!Next
    <3>2. CASE Returned(s)
      <4>1. phase'[s] = phase[s] /\ delivered'[s] = delivered[s]
        BY <3>2 DEF Returned, Settled
      <4>2. QED
        BY <3>0, <4>1
    <3>3. CASE Delivered(s)
      <4>1. row[s].attempts < MaxAttempts
        BY <3>3, QueueAssumption DEF Delivered, ConsumerInvariant, RowSound, Exhausted,
           TypeOK, Row
      <4>2. /\ phase[s] = "pending" /\ phase'[s] = "pending"
            /\ delivered[s] < MaxAttempts /\ delivered'[s] = delivered[s] + 1
        BY <3>3, <4>1 DEF Delivered, Settled
      <4>3. delivered' = [delivered EXCEPT ![s] = @ + 1] /\ phase' = phase
        BY <3>0, <4>2
      <4>4. Abstract!Deliver(s)
        BY <4>2, <4>3 DEF Abstract!Deliver
      <4>5. QED
        BY <4>4 DEF Abstract!Next
    <3>4. CASE Finished(s)
      <4>1. delivered[s] > 0
        BY <3>4, QueueAssumption DEF Finished, ConsumerInvariant, RowSound
      <4>2. /\ phase[s] = "pending" /\ phase'[s] = "settled" /\ delivered'[s] = delivered[s]
        BY <3>4 DEF Finished, Settled
      <4>3. phase' = [phase EXCEPT ![s] = "settled"] /\ delivered' = delivered
        BY <3>0, <4>2
      <4>4. Abstract!Settle(s)
        BY <4>1, <4>2, <4>3 DEF Abstract!Settle
      <4>5. QED
        BY <4>4 DEF Abstract!Next
    <3>5. QED
      BY <2>2, <3>1, <3>2, <3>3, <3>4 DEF OnlyRow
  <2>3. QED
    BY <2>1, <2>2, RowStep
<1>3. QED
  BY <1>1, <1>2, ConsumerInvariantHolds, PTL DEF Spec

-----------------------------------------------------------------------------
\* The dead-letter topic, however many consumers there are.

\* Past to_dlq's first statement the wrapper is filed.
Filed ==
  /\ DeadLetterAccounted
  /\ \A i \in Instances : pc[i] = "bury" => dlq[cur[i].seq] > 0

LEMMA FiledKept ==
  ASSUME TypeOK, TypeOK', Filed, NEW i \in Instances,
         \A j \in Instances \ {i} : pc'[j] = pc[j] /\ cur'[j] = cur[j],
         \A s \in Rows : dlq'[s] >= dlq[s] /\ torn'[s] >= torn[s],
         \A s \in Rows : row'[s].state = "dead" =>
           row[s].state = "dead" \/ dlq'[s] > 0 \/ (pc'[i] = "file" /\ cur'[i].seq = s),
         pc[i] = "file" => \/ dlq'[cur[i].seq] > 0 \/ torn'[cur[i].seq] > 0
                           \/ pc'[i] = "file" /\ cur'[i] = cur[i],
         pc'[i] = "bury" => dlq'[cur'[i].seq] > 0
  PROVE  Filed'
<1>1. \A s \in Rows : dlq[s] \in Nat /\ dlq'[s] \in Nat /\ torn[s] \in Nat /\ torn'[s] \in Nat
  BY DEF TypeOK
<1>2. ASSUME NEW s \in Rows, row'[s].state = "dead", dlq'[s] = 0, ~(torn'[s] > 0)
      PROVE  \E j \in Instances : pc'[j] = "file" /\ cur'[j].seq = s
  <2>1. CASE pc'[i] = "file" /\ cur'[i].seq = s
    BY <2>1
  <2>2. CASE ~(pc'[i] = "file" /\ cur'[i].seq = s)
    <3>1. row[s].state = "dead" /\ dlq[s] = 0 /\ ~(torn[s] > 0)
      BY <1>1, <1>2, <2>2
    <3>2. PICK j \in Instances : pc[j] = "file" /\ cur[j].seq = s
      BY <3>1 DEF Filed, DeadLetterAccounted
    <3>3. j # i
      BY <1>1, <1>2, <2>2, <3>2
    <3>4. QED
      BY <3>2, <3>3
  <2>3. QED
    BY <2>1, <2>2
<1>3. ASSUME NEW j \in Instances \ {i}, pc'[j] = "bury" PROVE dlq'[cur'[j].seq] > 0
  <2>1. cur[j].seq \in Rows /\ dlq[cur[j].seq] > 0 /\ cur'[j] = cur[j]
    BY <1>3 DEF Filed, TypeOK, Message
  <2>2. QED
    BY <1>1, <2>1
<1>4. QED
  BY <1>2, <1>3 DEF Filed, DeadLetterAccounted

LEMMA FiledStep ==
  ASSUME TypeOK, Filed, [Next]_vars PROVE Filed'
<1>0. TypeOK'
  BY TypeStep
<1> USE DEF TypeOK, Filed, DeadLetterAccounted
<1>1. \A i \in Instances : cur[i].seq \in Rows
  BY DEF Message
<1>2. CASE Publish \/ Tick \/ UNCHANGED vars
  <2>1. UNCHANGED <<dlq, pc, cur, torn>> /\ \A s \in Rows : row'[s].state = "dead" => row[s].state = "dead"
    BY <1>2 DEF Publish, Inserted, Tick, Aged, vars
  <2> QED
    BY <1>1, <2>1
<1>3. ASSUME NEW i \in Instances, Start(i) \/ Crash(i) PROVE Filed'
  BY <1>1, <1>3 DEF Start, Crash
<1>6. ASSUME NEW i \in Instances, PullRaises(i) \/ SettleRaises(i) PROVE Filed'
  <2>1. /\ dlq' = dlq /\ row' = row /\ pc'[i] = "idle"
        /\ \A j \in Instances \ {i} : pc'[j] = pc[j] /\ cur'[j] = cur[j]
    BY <1>6 DEF PullRaises, SettleRaises
  <2>2. /\ \A s \in Rows : torn'[s] >= torn[s]
        /\ pc[i] = "file" => torn'[cur[i].seq] > 0
    BY <1>1, <1>6, TornType DEF PullRaises, SettleRaises
  <2>3. \A s \in Rows : dlq'[s] >= dlq[s]
    BY <2>1
  <2>4. QED
    BY TypeOK, Filed, <1>0, <2>1, <2>2, <2>3, FiledKept
<1>4. ASSUME NEW i \in Instances, PullStep(i) PROVE Filed'
  <2>1. CASE Pull(i) \/ Select(i) \/ PullReturn(i)
    BY <1>1, <2>1 DEF Pull, Select, PullReturn
  <2>2. CASE Reclaim(i)
    <3>1. PICK t \in todo[i] :
            row' = [row EXCEPT ![t.seq] = IF @.state = "inflight" THEN Requeued(@, 0) ELSE @]
      BY <2>2 DEF Reclaim
    <3>2. \A s \in Rows : row'[s].state = "dead" => row[s].state = "dead"
      BY <3>1 DEF Requeued
    <3> QED
      BY <1>1, <2>2, <3>2 DEF Reclaim
  <2>3. CASE DeadLetterRow(i)
    <3>1. PICK t \in todo[i] :
            IF row[t.seq].state = "inflight"
            THEN /\ row' = [row EXCEPT ![t.seq].state = "dead"]
                 /\ pc' = [pc EXCEPT ![i] = "file"]
                 /\ cur' = [cur EXCEPT ![i] = [seq |-> t.seq, ack |-> NoAck]]
            ELSE UNCHANGED <<row, pc, cur>>
      BY <2>3 DEF DeadLetterRow
    <3>2. CASE UNCHANGED <<row, pc, cur>>
      BY <1>1, <2>3, <3>2 DEF DeadLetterRow
    <3>3. CASE /\ row' = [row EXCEPT ![t.seq].state = "dead"]
               /\ pc' = [pc EXCEPT ![i] = "file"]
               /\ cur' = [cur EXCEPT ![i] = [seq |-> t.seq, ack |-> NoAck]]
      <4>1. pc[i] = "reap" /\ dlq' = dlq /\ torn' = torn /\ t.seq \in Rows
        BY <2>3 DEF DeadLetterRow, Orphan
      <4>2. pc'[i] = "file" /\ cur'[i].seq = t.seq
        BY <3>3
      <4>3. \A j \in Instances \ {i} : pc'[j] = pc[j] /\ cur'[j] = cur[j]
        BY <3>3
      <4>4. \A s \in Rows \ {t.seq} : row'[s] = row[s]
        BY <3>3
      <4>5. \A s \in Rows : dlq[s] \in Nat /\ torn[s] \in Nat
        OBVIOUS
      <4>6. QED
        BY TypeOK, Filed, <1>0, <4>1, <4>2, <4>3, <4>4, <4>5, FiledKept
    <3> QED
      BY <3>1, <3>2, <3>3
  <2>4. CASE FileDeadLetter(i)
    <3>1. /\ dlq'[cur[i].seq] > 0 /\ \A s \in Rows : dlq'[s] >= dlq[s]
          /\ pc[i] = "file" /\ pc'[i] = "reap" /\ row' = row /\ torn' = torn
          /\ \A j \in Instances \ {i} : pc'[j] = pc[j] /\ cur'[j] = cur[j]
      BY <1>1, <2>4 DEF FileDeadLetter
    <3>2. \A s \in Rows : torn'[s] >= torn[s]
      BY <3>1
    <3> QED
      BY TypeOK, Filed, <1>0, <3>1, <3>2, FiledKept
  <2>5. CASE ClaimRow(i)
    <3>1. \A s \in Rows : row'[s].state = "dead" => row[s].state = "dead"
      BY <2>5 DEF ClaimRow, Claimed
    <3> QED
      BY <1>1, <2>5, <3>1 DEF ClaimRow
  <2> QED
    BY <1>4, <2>1, <2>2, <2>3, <2>4, <2>5 DEF PullStep
<1>5. ASSUME NEW i \in Instances, SettleStep(i) PROVE Filed'
  <2>1. ASSUME NEW m \in held[i], Ack(i, m) \/ Nack(i, m) \/ ToDlq(i, m) \/ Drop(i, m)
        PROVE  Filed'
    <3>1. \A s \in Rows : row'[s].state = "dead" => row[s].state = "dead"
      <4>1. CASE Ack(i, m)
        <5>1. row' = [row EXCEPT ![m.seq] =
                       [row[m.seq] EXCEPT !.state = IF Matches(m) THEN "done" ELSE @]]
          BY <4>1 DEF Ack
        <5>2. m.seq \in Rows /\ row[m.seq] \in Row
          BY DEF Message
        <5>3. QED
          BY <5>1, <5>2, StateWritten
      <4>2. CASE Nack(i, m) \/ ToDlq(i, m) \/ Drop(i, m)
        BY <4>2 DEF Nack, ToDlq, Drop
      <4>3. QED
        BY <2>1, <4>1, <4>2
    <3>2. /\ dlq' = dlq /\ torn' = torn /\ pc[i] = "idle" /\ pc'[i] \in {"idle", "nack", "wrap"}
          /\ \A j \in Instances \ {i} : pc'[j] = pc[j] /\ cur'[j] = cur[j]
      BY <2>1 DEF Ack, Nack, ToDlq, Drop, Settling
    <3> QED
      BY TypeOK, Filed, <1>0, <3>1, <3>2, FiledKept
  <2>2. CASE NackUpdate(i)
    <3>1. \A s \in Rows : row'[s].state = "dead" => row[s].state = "dead"
      BY <2>2 DEF NackUpdate, Requeued
    <3>2. /\ dlq' = dlq /\ torn' = torn /\ pc[i] = "nack" /\ pc'[i] = "idle"
          /\ \A j \in Instances \ {i} : pc'[j] = pc[j] /\ cur'[j] = cur[j]
      BY <2>2 DEF NackUpdate
    <3> QED
      BY TypeOK, Filed, <1>0, <3>1, <3>2, FiledKept
  <2>3. CASE ToDlqInsert(i)
    <3>1. /\ dlq'[cur[i].seq] > 0 /\ \A s \in Rows : dlq'[s] >= dlq[s]
          /\ pc[i] = "wrap" /\ row' = row /\ cur' = cur /\ torn' = torn
          /\ \A j \in Instances \ {i} : pc'[j] = pc[j]
      BY <1>1, <2>3 DEF ToDlqInsert
    <3>2. /\ \A s \in Rows : torn'[s] >= torn[s]
          /\ \A j \in Instances \ {i} : pc'[j] = pc[j] /\ cur'[j] = cur[j]
          /\ \A s \in Rows : row'[s].state = "dead" => row[s].state = "dead"
          /\ dlq'[cur'[i].seq] > 0 /\ pc[i] # "file"
      BY <3>1
    <3> QED
      BY TypeOK, Filed, <1>0, <3>1, <3>2, FiledKept
  <2>4. CASE ToDlqUpdate(i)
    <3>1. /\ dlq' = dlq /\ torn' = torn /\ pc[i] = "bury" /\ pc'[i] = "idle"
          /\ \A j \in Instances \ {i} : pc'[j] = pc[j] /\ cur'[j] = cur[j]
      BY <2>4 DEF ToDlqUpdate
    <3>2. \A s \in Rows \ {cur[i].seq} : row'[s] = row[s]
      BY <2>4 DEF ToDlqUpdate
    <3> QED
      BY TypeOK, Filed, <1>0, <3>1, <3>2, FiledKept
  <2> QED
    BY <1>5, <2>1, <2>2, <2>3, <2>4 DEF SettleStep
<1> QED
  BY <1>2, <1>3, <1>4, <1>5, <1>6 DEF Next

\* _dead_letter_row and to_dlq: a dead message has its wrapper on the dead-letter topic,
\* but for a death exactly between the two statements of _dead_letter_row, or a second
\* statement that raised.
THEOREM DeadLettersFiled == Spec => []DeadLetterAccounted
<1>1. Init => Filed
  BY DEF Init, Filed, DeadLetterAccounted, AbsentRow
<1>2. Filed => DeadLetterAccounted
  BY DEF Filed
<1> QED
  BY <1>1, <1>2, FiledStep, TypeCorrect, PTL DEF Spec

-----------------------------------------------------------------------------
\* How often a message is filed on the dead-letter topic, with one live consumer.

\* The live consumer stands between to_dlq's two statements for the row s ...
Burying(s) == \E i \in Instances : Live(i) /\ pc[i] = "bury" /\ cur[i].seq = s
\* ... or between those of _dead_letter_row.
FilingRow(s) == \E i \in Instances : Live(i) /\ pc[i] = "file" /\ cur[i].seq = s

\* The deaths and failures that account for a second wrapper of the row.
Excuses(s) == Cardinality(DiedBurying(s)) + torn[s]

\* The wrappers of a row that nothing excuses: one, once it is settled or about to be;
\* none as long as it may still be delivered or its wrapper is yet to be filed.
WrappedOnce(s) ==
  /\ FilingRow(s) => Settled(s)
  /\ dlq[s] <= 1 + Excuses(s)
  /\ FilingRow(s) \/ (~Settled(s) /\ ~Burying(s)) => dlq[s] <= Excuses(s)

FilingInvariant ==
  \A s \in Rows : IsFiniteSet(DiedBurying(s)) /\ WrappedOnce(s)

LEMMA ExcuseCount ==
  ASSUME TypeOK, FilingInvariant, NEW s \in Rows
  PROVE  /\ Cardinality(DiedBurying(s)) \in Nat /\ torn[s] \in Nat /\ dlq[s] \in Nat
         /\ Excuses(s) \in Nat
BY FS_CardinalityType DEF TypeOK, FilingInvariant, Excuses

\* A step of a live process that files nothing and counts no failure: a row may become
\* settled, but none comes back.
LEMMA NothingFiled ==
  ASSUME FilingInvariant, dlq' = dlq, torn' = torn,
         \A s \in Rows : DiedBurying(s)' = DiedBurying(s),
         \A s \in Rows : Settled(s) => Settled(s)',
         \A s \in Rows : FilingRow(s)' => (FilingRow(s) \/ (~Settled(s) /\ ~Burying(s))) /\ Settled(s)',
         \A s \in Rows : Burying(s) => Burying(s)' \/ Settled(s)'
  PROVE  FilingInvariant'
BY DEF FilingInvariant, WrappedOnce, Excuses

\* The dead stay where they died.
LEMMA DeadStay ==
  ASSUME NEW i \in Instances, Live(i), life' = life,
         \A j \in Instances \ {i} : pc'[j] = pc[j] /\ cur'[j] = cur[j], NEW s \in Rows
  PROVE  DiedBurying(s)' = DiedBurying(s)
BY DEF DiedBurying, Live

LEMMA FilingLife ==
  ASSUME ConsumerInvariant, FilingInvariant, NEW i \in Instances, Start(i) \/ Crash(i)
  PROVE  FilingInvariant'
<1> USE DEF ConsumerInvariant, TypeOK
<1>1. CASE Start(i)
  <2>1. \A s \in Rows : DiedBurying(s)' = DiedBurying(s)
    BY <1>1 DEF Start, DiedBurying
  <2>2. pc[i] = "idle"
    BY <1>1 DEF Start, NotStarted
  <2>3. \A s \in Rows : (FilingRow(s)' => FilingRow(s)) /\ (Burying(s) => Burying(s)')
    BY <1>1, <2>2 DEF Start, FilingRow, Burying, Live
  <2>4. QED
    BY <1>1, <2>1, <2>3 DEF Start, FilingInvariant, WrappedOnce, Excuses, Settled
<1>2. CASE Crash(i)
  <2> SUFFICES ASSUME NEW s \in Rows
               PROVE  IsFiniteSet(DiedBurying(s)') /\ WrappedOnce(s)'
    BY DEF FilingInvariant
  <2>1. UNCHANGED <<row, dlq, pc, cur, torn>> /\ life' = [life EXCEPT ![i] = "dead"] /\ Live(i)
    BY <1>2 DEF Crash
  <2>2. /\ Excuses(s) \in Nat /\ Cardinality(DiedBurying(s)) \in Nat /\ torn[s] \in Nat
        /\ IsFiniteSet(DiedBurying(s)) /\ WrappedOnce(s)
    BY ExcuseCount DEF FilingInvariant
  <2>3. FilingRow(s)' => FilingRow(s)
    BY <2>1 DEF FilingRow, Live
  <2>4. CASE pc[i] = "bury" /\ cur[i].seq = s
    <3>1. DiedBurying(s)' = DiedBurying(s) \cup {i} /\ i \notin DiedBurying(s)
      BY <2>1, <2>4 DEF DiedBurying, Live
    <3>4. /\ IsFiniteSet(DiedBurying(s)')
          /\ Cardinality(DiedBurying(s)') = Cardinality(DiedBurying(s)) + 1
      BY <2>2, <3>1, FS_AddElement
    <3>2. Excuses(s)' = Excuses(s) + 1
      BY <2>1, <2>2, <3>4 DEF Excuses
    <3>3. QED
      BY <2>1, <2>2, <2>3, <3>2, <3>4 DEF WrappedOnce, Settled
  <2>5. CASE ~(pc[i] = "bury" /\ cur[i].seq = s)
    <3>1. DiedBurying(s)' = DiedBurying(s) /\ (Burying(s) => Burying(s)')
      BY <2>1, <2>5 DEF DiedBurying, Live, Burying
    <3>2. QED
      BY <2>1, <2>2, <2>3, <3>1 DEF WrappedOnce, Excuses, Settled
  <2>6. QED
    BY <2>4, <2>5
<1>3. QED
  BY <1>1, <1>2

\* A statement that raises: where it leaves a wrapper filed and its row unsettled, it is
\* counted for that row.
LEMMA FilingRaises ==
  ASSUME ConsumerInvariant, FilingInvariant, NEW i \in Instances,
         PullRaises(i) \/ SettleRaises(i)
  PROVE  FilingInvariant'
<1> SUFFICES ASSUME NEW s \in Rows
             PROVE  IsFiniteSet(DiedBurying(s)') /\ WrappedOnce(s)'
  BY DEF FilingInvariant
<1>0. TypeOK /\ SoleConsumer /\ cur[i].seq \in Rows
  BY DEF ConsumerInvariant, TypeOK, Message
<1>1. /\ UNCHANGED <<row, dlq, life>> /\ Live(i) /\ pc'[i] = "idle"
      /\ \A j \in Instances \ {i} : pc'[j] = pc[j] /\ cur'[j] = cur[j]
  BY <1>0 DEF PullRaises, SettleRaises, TypeOK
<1>2. \A j \in Instances : Live(j) => j = i
  BY <1>0, <1>1 DEF SoleConsumer
<1>3. ~FilingRow(s)' /\ ~Burying(s)'
  BY <1>1, <1>2 DEF FilingRow, Burying, Live
<1>4. DiedBurying(s)' = DiedBurying(s)
  BY <1>1, DeadStay
<1>5. /\ Excuses(s) \in Nat /\ Cardinality(DiedBurying(s)) \in Nat /\ dlq[s] \in Nat
      /\ torn[s] \in Nat /\ IsFiniteSet(DiedBurying(s)) /\ WrappedOnce(s)
  BY <1>0, ExcuseCount DEF FilingInvariant
<1>6. /\ torn'[s] \in Nat /\ torn'[s] >= torn[s]
      /\ Burying(s) => torn'[s] = torn[s] + 1
  <2>1. torn \in [Rows -> Nat]
    BY <1>0 DEF TypeOK
  <2>2. Burying(s) => pc[i] = "bury" /\ cur[i].seq = s
    BY <1>2 DEF Burying
  <2>3. CASE PullRaises(i)
    BY <1>0, <2>1, <2>2, <2>3, TornType DEF PullRaises
  <2>4. CASE SettleRaises(i)
    BY <1>0, <2>1, <2>2, <2>4, TornType DEF SettleRaises
  <2>5. QED
    BY <2>3, <2>4
<1>7. Excuses(s)' \in Nat /\ Excuses(s)' >= Excuses(s)
      /\ (Burying(s) => Excuses(s)' = Excuses(s) + 1)
  BY <1>4, <1>5, <1>6 DEF Excuses
<1>8. QED
  BY <1>1, <1>3, <1>4, <1>5, <1>7 DEF WrappedOnce, Settled

LEMMA FilingStep ==
  ASSUME ConsumerInvariant, FilingInvariant, [Next]_vars PROVE FilingInvariant'
<1>0. /\ TypeOK /\ SoleConsumer /\ \A i \in Instances : Live(i) => CallSound(i)
      /\ \A i \in Instances : cur[i].seq \in Rows
      /\ \A s \in Rows : Excuses(s) \in Nat /\ dlq[s] \in Nat
  BY ExcuseCount DEF ConsumerInvariant, TypeOK, Message
<1>1. \A s \in Rows : Settled(s) => Settled(s)'
  BY RowStep DEF Settled, OnlyRow, Kept, Sent, Returned, Delivered, Finished
<1>2. CASE Publish \/ Tick \/ UNCHANGED vars
  <2>1. UNCHANGED <<dlq, life, pc, cur, torn>>
    BY <1>2 DEF Publish, Tick, vars
  <2>2. \A s \in Rows : (FilingRow(s)' <=> FilingRow(s)) /\ (Burying(s)' <=> Burying(s))
                     /\ DiedBurying(s)' = DiedBurying(s)
    BY <2>1 DEF FilingRow, Burying, DiedBurying, Live
  <2>3. QED
    BY <1>1, <2>1, <2>2, NothingFiled DEF FilingInvariant, WrappedOnce
<1>3. ASSUME NEW i \in Instances, Start(i) \/ Crash(i) PROVE FilingInvariant'
  BY <1>3, FilingLife
<1>4. ASSUME NEW i \in Instances, Live(i), life' = life,
             \A j \in Instances \ {i} : pc'[j] = pc[j] /\ cur'[j] = cur[j],
             dlq' = dlq, torn' = torn,
             pc[i] = "bury" => row'[cur[i].seq].state \in {"done", "dead"},
             pc'[i] = "file" => 
               \/ pc[i] = "file" /\ cur'[i] = cur[i]
               \/ pc[i] = "reap" /\ ~Settled(cur'[i].seq) /\ row'[cur'[i].seq].state = "dead"
      PROVE  FilingInvariant'
  <2>1. \A j \in Instances : Live(j) => j = i
    BY <1>0, <1>4 DEF SoleConsumer
  <2>2. \A s \in Rows : Burying(s) => Settled(s)'
    BY <1>4, <2>1 DEF Burying, Settled
  <2>3. \A s \in Rows : FilingRow(s)' => (FilingRow(s) \/ (~Settled(s) /\ ~Burying(s))) /\ Settled(s)'
    <3>1. \A s \in Rows : FilingRow(s) => Settled(s)'
      BY <1>1 DEF FilingInvariant, WrappedOnce
    <3>2. ASSUME NEW s \in Rows, FilingRow(s)', ~FilingRow(s)
          PROVE  ~Settled(s) /\ ~Burying(s) /\ Settled(s)'
      <4>1. cur'[i].seq = s /\ pc'[i] = "file" /\ Live(i)
        BY <1>4, <2>1, <3>2 DEF FilingRow, Live
      <4>2. pc[i] = "reap" /\ ~Settled(s) /\ row'[s].state = "dead"
        BY <1>4, <3>2, <4>1 DEF FilingRow
      <4>3. QED
        BY <2>1, <4>2 DEF Burying, Settled
    <3>3. QED
      BY <3>1, <3>2
  <2>4. QED
    BY <1>1, <1>4, <2>2, <2>3, DeadStay, NothingFiled
<1>5. ASSUME NEW i \in Instances, Pull(i) \/ Reclaim(i) \/ Select(i)
             \/ ClaimRow(i) \/ PullReturn(i)
      PROVE  FilingInvariant'
  <2>1. /\ Live(i) /\ life' = life /\ dlq' = dlq /\ torn' = torn /\ pc[i] # "bury" /\ pc'[i] # "file"
        /\ \A j \in Instances \ {i} : pc'[j] = pc[j] /\ cur'[j] = cur[j]
    BY <1>0, <1>5 DEF Pull, Reclaim, Select, ClaimRow, PullReturn, TypeOK
  <2>2. QED
    BY <1>4, <2>1
<1>6. ASSUME NEW i \in Instances, DeadLetterRow(i) PROVE FilingInvariant'
  <2>1. PICK t \in todo[i] :
          IF row[t.seq].state = "inflight"
          THEN /\ row' = [row EXCEPT ![t.seq].state = "dead"]
               /\ pc' = [pc EXCEPT ![i] = "file"]
               /\ cur' = [cur EXCEPT ![i] = [seq |-> t.seq, ack |-> NoAck]]
          ELSE UNCHANGED <<row, pc, cur>>
    BY <1>6 DEF DeadLetterRow
  <2>2. Live(i) /\ life' = life /\ dlq' = dlq /\ torn' = torn /\ pc[i] = "reap"
    BY <1>6 DEF DeadLetterRow
  <2>3. \A j \in Instances \ {i} : pc'[j] = pc[j] /\ cur'[j] = cur[j]
    BY <1>0, <2>1 DEF TypeOK
  <2>4. pc'[i] = "file" => ~Settled(cur'[i].seq) /\ row'[cur'[i].seq].state = "dead"
    <3>1. CASE row[t.seq].state # "inflight"
      BY <1>0, <2>1, <2>2, <3>1
    <3>2. CASE row[t.seq].state = "inflight"
      <4>1. t.seq \in Rows
        BY <1>0 DEF TypeOK, Orphan
      <4>2. row' = [row EXCEPT ![t.seq] = [row[t.seq] EXCEPT !.state = "dead"]]
        BY <2>1, <3>2
      <4>3. cur'[i].seq = t.seq /\ row'[t.seq].state = "dead"
        BY <1>0, <2>1, <3>2, <4>1, <4>2, StateWritten DEF TypeOK
      <4>4. QED
        BY <3>2, <4>3 DEF Settled
    <3>3. QED
      BY <3>1, <3>2
  <2>5. QED
    BY <1>4, <2>2, <2>3, <2>4
<1>7. ASSUME NEW i \in Instances, FileDeadLetter(i) PROVE FilingInvariant'
  <2>1. \A j \in Instances : Live(j) => j = i
    BY <1>0, <1>7 DEF SoleConsumer, FileDeadLetter
  <2>3. /\ Live(i) /\ pc[i] = "file" /\ pc'[i] = "reap" /\ life' = life /\ row' = row
        /\ dlq' = [dlq EXCEPT ![cur[i].seq] = @ + 1] /\ torn' = torn
        /\ \A j \in Instances \ {i} : pc'[j] = pc[j] /\ cur'[j] = cur[j]
    BY <1>0, <1>7 DEF FileDeadLetter, TypeOK
  <2>2. \A s \in Rows : DiedBurying(s)' = DiedBurying(s)
    BY <2>3, DeadStay
  <2>4. \A s \in Rows : ~FilingRow(s)' /\ ~Burying(s)' /\ ~Burying(s)
    BY <2>1, <2>3 DEF FilingRow, Burying, Live
  <2>5. dlq[cur[i].seq] <= Excuses(cur[i].seq)
    BY <1>0, <2>3 DEF FilingRow, FilingInvariant, WrappedOnce
  <2>6. Settled(cur[i].seq)
    BY <1>0, <2>3 DEF FilingRow, FilingInvariant, WrappedOnce
  <2>7. QED
    BY <1>0, <2>2, <2>3, <2>4, <2>5, <2>6 DEF FilingInvariant, WrappedOnce, Excuses, Settled, TypeOK
<1>8. ASSUME NEW i \in Instances, SettleStep(i) PROVE FilingInvariant'
  <2>1. ASSUME NEW m \in held[i], Ack(i, m) \/ Nack(i, m) \/ ToDlq(i, m) \/ Drop(i, m)
        PROVE  FilingInvariant'
    <3>1. /\ Live(i) /\ life' = life /\ dlq' = dlq /\ torn' = torn /\ pc[i] # "bury" /\ pc'[i] # "file"
          /\ \A j \in Instances \ {i} : pc'[j] = pc[j] /\ cur'[j] = cur[j]
      BY <1>0, <2>1 DEF Ack, Nack, ToDlq, Drop, Settling, TypeOK
    <3>2. QED
      BY <1>4, <3>1
  <2>2. CASE NackUpdate(i)
    <3>1. /\ Live(i) /\ life' = life /\ dlq' = dlq /\ torn' = torn /\ pc[i] # "bury" /\ pc'[i] # "file"
          /\ \A j \in Instances \ {i} : pc'[j] = pc[j] /\ cur'[j] = cur[j]
      BY <1>0, <2>2 DEF NackUpdate, TypeOK
    <3>2. QED
      BY <1>4, <3>1
  <2>3. CASE ToDlqInsert(i)
    <3>1. \A j \in Instances : Live(j) => j = i
      BY <1>0, <2>3 DEF SoleConsumer, ToDlqInsert
    <3>3. /\ Live(i) /\ pc[i] = "wrap" /\ pc'[i] = "bury" /\ life' = life /\ row' = row
          /\ dlq' = [dlq EXCEPT ![cur[i].seq] = @ + 1] /\ cur' = cur /\ torn' = torn
          /\ \A j \in Instances \ {i} : pc'[j] = pc[j] /\ cur'[j] = cur[j]
      BY <1>0, <2>3 DEF ToDlqInsert, TypeOK
    <3>2. \A s \in Rows : DiedBurying(s)' = DiedBurying(s)
      BY <3>3, DeadStay
    <3>4. \A s \in Rows : /\ ~FilingRow(s)' /\ ~Burying(s)
                          /\ Burying(s)' <=> s = cur[i].seq
      BY <3>1, <3>3 DEF FilingRow, Burying, Live
    <3>5. ~Settled(cur[i].seq)
      BY <1>0, <3>3 DEF CallSound, Holds, Settled
    <3>6. dlq[cur[i].seq] <= Excuses(cur[i].seq)
      BY <1>0, <3>4, <3>5 DEF FilingInvariant, WrappedOnce
    <3>7. QED
      BY <1>0, <3>2, <3>3, <3>4, <3>6 DEF FilingInvariant, WrappedOnce, Excuses, Settled, TypeOK
  <2>4. CASE ToDlqUpdate(i)
    <3>1. /\ Live(i) /\ life' = life /\ dlq' = dlq /\ torn' = torn /\ pc'[i] = "idle" /\ pc[i] = "bury"
          /\ \A j \in Instances \ {i} : pc'[j] = pc[j] /\ cur'[j] = cur[j]
      BY <1>0, <2>4 DEF ToDlqUpdate, TypeOK
    <3>2. row' = [row EXCEPT ![cur[i].seq] = [row[cur[i].seq] EXCEPT !.state = "dead"]]
      BY <1>0, <2>4, <3>1 DEF ToDlqUpdate, CallSound, Holds
    <3>3. row'[cur[i].seq].state = "dead"
      BY <1>0, <3>2, StateWritten DEF TypeOK
    <3>4. QED
      BY <1>4, <3>1, <3>3
  <2>5. QED
    BY <1>8, <2>1, <2>2, <2>3, <2>4 DEF SettleStep
<1>9. ASSUME NEW i \in Instances, PullRaises(i) \/ SettleRaises(i) PROVE FilingInvariant'
  BY <1>9, FilingRaises
<1>10. QED
  BY <1>2, <1>3, <1>5, <1>6, <1>7, <1>8, <1>9 DEF Next, PullStep

\* to_dlq files before it settles, _dead_letter_row settles before it files: with one
\* live consumer a message is filed once, and once more at most for each process that
\* died, and each statement that raised, between the two of to_dlq.
THEOREM DuplicatesAccounted == ~Shared => (Spec => []DuplicateFilingAccounted)
<1> SUFFICES ASSUME ~Shared PROVE Spec => []DuplicateFilingAccounted
  OBVIOUS
<1>1. Init => FilingInvariant
  <2> SUFFICES ASSUME Init, NEW s \in Rows PROVE IsFiniteSet(DiedBurying(s)) /\ WrappedOnce(s)
    BY DEF FilingInvariant
  <2>1. DiedBurying(s) = {}
    BY DEF Init, DiedBurying
  <2>2. IsFiniteSet(DiedBurying(s)) /\ Cardinality(DiedBurying(s)) = 0
    BY <2>1, FS_EmptySet
  <2>3. QED
    BY <2>2 DEF Init, WrappedOnce, Excuses, FilingRow, Live
<1>2. TypeOK /\ FilingInvariant => DuplicateFilingAccounted
  <2> SUFFICES ASSUME TypeOK, FilingInvariant, NEW s \in Rows
               PROVE  dlq[s] <= 1 + Cardinality(DiedBurying(s)) + torn[s]
    BY DEF DuplicateFilingAccounted
  <2>1. QED
    BY ExcuseCount DEF FilingInvariant, WrappedOnce, Excuses
<1>3. QED
  BY <1>1, <1>2, FilingStep, ConsumerInvariantHolds, TypeCorrect, PTL DEF Spec

-----------------------------------------------------------------------------
\* Consumers that share the subscription.

\* Only nack's second statement writes a row whatever its state; every other write
\* that makes a row ready or in flight again names the state it must have.
LEMMA RestatedRow ==
  ASSUME TypeOK, [Next]_vars, NEW s \in Rows, Settled(s), row'[s].state \notin {"done", "dead"}
  PROVE  \E i \in Instances : pc[i] = "nack" /\ cur[i].seq = s /\ pc'[i] = "idle"
<1> USE DEF TypeOK
<1>1. row'[s].state # row[s].state /\ row[s].state \in {"done", "dead"}
  BY DEF Settled
<1>2. CASE Publish \/ Tick \/ UNCHANGED vars
  BY <1>1, <1>2 DEF Publish, Inserted, Tick, Aged, vars
<1>3. ASSUME NEW i \in Instances, Start(i) \/ Crash(i) \/ PullRaises(i) \/ SettleRaises(i)
      PROVE  FALSE
  BY <1>1, <1>3 DEF Start, Crash, PullRaises, SettleRaises
<1>4. ASSUME NEW i \in Instances, PullStep(i) PROVE FALSE
  <2>1. CASE Pull(i) \/ Select(i) \/ PullReturn(i) \/ FileDeadLetter(i)
    BY <1>1, <2>1 DEF Pull, Select, PullReturn, FileDeadLetter
  <2>2. CASE Reclaim(i)
    BY <1>1, <2>2 DEF Reclaim
  <2>3. CASE DeadLetterRow(i)
    BY <1>1, <2>3 DEF DeadLetterRow
  <2>4. CASE ClaimRow(i)
    BY <1>1, <2>4 DEF ClaimRow, StillReady
  <2>5. QED
    BY <1>4, <2>1, <2>2, <2>3, <2>4 DEF PullStep
<1>5. ASSUME NEW i \in Instances, SettleStep(i)
      PROVE  pc[i] = "nack" /\ cur[i].seq = s /\ pc'[i] = "idle"
  <2>1. ASSUME NEW m \in held[i], Ack(i, m)
        PROVE  FALSE
    <3>1. row' = [row EXCEPT ![m.seq] =
                   [row[m.seq] EXCEPT !.state = IF Matches(m) THEN "done" ELSE @]]
      BY <2>1 DEF Ack
    <3>2. m.seq \in Rows
      BY DEF Message
    <3>3. QED
      BY <1>1, <3>1, <3>2, StateWritten
  <2>2. ASSUME NEW m \in held[i], Nack(i, m) \/ ToDlq(i, m) \/ Drop(i, m)
        PROVE  FALSE
    BY <1>1, <2>2 DEF Nack, ToDlq, Drop
  <2>3. CASE NackUpdate(i)
    BY <1>1, <2>3 DEF NackUpdate
  <2>4. CASE ToDlqInsert(i)
    BY <1>1, <2>4 DEF ToDlqInsert
  <2>5. CASE ToDlqUpdate(i)
    <3>1. row' = [row EXCEPT ![cur[i].seq] =
                   [row[cur[i].seq] EXCEPT !.state = IF Matches(cur[i]) THEN "dead" ELSE @]]
      BY <2>5 DEF ToDlqUpdate
    <3>2. cur[i].seq \in Rows
      BY DEF Message
    <3>3. QED
      BY <1>1, <3>1, <3>2, StateWritten
  <2>6. QED
    BY <1>5, <2>1, <2>2, <2>3, <2>4, <2>5 DEF SettleStep
<1>6. QED
  BY <1>2, <1>3, <1>4, <1>5 DEF Next

\* However many consumers share the subscription, a settled message comes back through
\* nack's unconditional UPDATE and through no other statement.
THEOREM ResurrectionNeedsNack == Spec => ResurrectedOnlyByNack
<1>1. TypeOK /\ [Next]_vars =>
        [\A s \in Rows :
           Settled(s) /\ row'[s].state \notin {"done", "dead"} =>
             \E i \in Instances : pc[i] = "nack" /\ cur[i].seq = s /\ pc'[i] = "idle"]_vars
  BY RestatedRow
<1>2. QED
  BY <1>1, TypeCorrect, PTL DEF Spec, ResurrectedOnlyByNack

-----------------------------------------------------------------------------
\* How far consumers that share the subscription overrun max_attempts.

\* The instances that may still requeue the row s from a read made when it had a
\* delivery left.
Threats(s) ==
  {i \in Instances : \/ \E t \in todo[i] : t.seq = s /\ ~Exhausted(t.attempts)
                     \/ pc[i] = "nack" /\ cur[i].seq = s}

\* A row that was claimed has an attempt; one that waits has no claim.
RowClaims(r) ==
  /\ r.state \in {"absent", "ready"} => r.ack = NoAck
  /\ r.state = "absent" => r.attempts = 0
  /\ r.state = "inflight" \/ r.ack # NoAck => r.attempts > 0

\* What a call works on was claimed, and reclaim has each row once.
CallClaims(i) ==
  /\ pc[i] \in {"reap", "file"} \/ todo[i] = {}
  /\ \A t, u \in todo[i] : t.seq = u.seq => t = u
  /\ \A t \in todo[i] : row[t.seq].attempts > 0
  /\ \A m \in held[i] : m.ack # NoAck
  /\ pc[i] \in {"nack", "wrap", "bury"} => cur[i].ack # NoAck
  /\ pc[i] = "nack" => row[cur[i].seq].attempts > 0

ClaimsSound ==
  /\ \A s \in Rows : RowClaims(row[s])
  /\ \A i \in Instances : CallClaims(i)

Waiting(s) == IF row[s].state = "ready" THEN 1 ELSE 0

\* Deliveries made, the one a ready row is about to get, and those the threats may add.
Bounded(s) ==
  row[s].attempts + Waiting(s) + Cardinality(Threats(s)) < MaxAttempts + Cardinality(Instances)

OverrunInvariant ==
  /\ ClaimsSound
  /\ \A s \in Rows : row[s].attempts = 0 \/ Bounded(s)

\* A row no instance has claimed is no one's to requeue.
LEMMA NoThreat ==
  ASSUME TypeOK, ClaimsSound, NEW s \in Rows, row[s].attempts = 0 PROVE Threats(s) = {}
BY DEF TypeOK, Orphan, ClaimsSound, CallClaims, Threats

LEMMA ThreatCount ==
  ASSUME IsFiniteSet(Instances), NEW s \in Rows
  PROVE  /\ IsFiniteSet(Threats(s)) /\ Cardinality(Threats(s)) \in Nat
         /\ Cardinality(Instances) \in Nat /\ Cardinality(Threats(s)) <= Cardinality(Instances)
<1>1. Threats(s) \subseteq Instances
  BY DEF Threats
<1>2. QED
  BY <1>1, FS_Subset, FS_CardinalityType

\* The four ways a step treats a row: it leaves it waiting or not as it is, delivers it,
\* requeues it by an instance that is no threat from then on, or finds it again.
LEMMA BoundKept ==
  ASSUME IsFiniteSet(Instances), TypeOK, TypeOK', OverrunInvariant, NEW s \in Rows,
         \/ /\ row'[s].attempts = row[s].attempts /\ Threats(s)' \subseteq Threats(s)
            /\ row'[s].state = "ready" => row[s].state \in {"ready", "absent"}
         \/ /\ row[s].state = "ready" /\ row'[s].state = "inflight"
            /\ row'[s].attempts = row[s].attempts + 1 /\ Threats(s)' \subseteq Threats(s)
            /\ Instances # {}
         \/ /\ row'[s].attempts = row[s].attempts
            /\ \E i \in Threats(s) : Threats(s)' \subseteq Threats(s) \ {i}
         \/ /\ row'[s] = row[s] /\ row[s].state # "ready" /\ row[s].attempts < MaxAttempts
  PROVE  row'[s].attempts = 0 \/ Bounded(s)'
<1>1. row[s].attempts \in Nat /\ row'[s].attempts \in Nat /\ MaxAttempts \in Nat \ {0}
  BY QueueAssumption DEF TypeOK, Row
<1>2. /\ IsFiniteSet(Threats(s)) /\ Cardinality(Threats(s)) \in Nat
      /\ Cardinality(Instances) \in Nat
  BY ThreatCount
<1>3. Threats(s)' \subseteq Instances
  BY DEF Threats
<1>4. Cardinality(Threats(s)') \in Nat /\ Cardinality(Threats(s)') <= Cardinality(Instances)
  BY <1>3, FS_Subset, FS_CardinalityType
<1>5. Threats(s)' \subseteq Threats(s) => Cardinality(Threats(s)') <= Cardinality(Threats(s))
  BY <1>2, FS_Subset
<1>6. CASE /\ row'[s].attempts = row[s].attempts /\ Threats(s)' \subseteq Threats(s)
           /\ row'[s].state = "ready" => row[s].state \in {"ready", "absent"}
  <2>1. row[s].state = "absent" => row[s].attempts = 0
    BY DEF OverrunInvariant, ClaimsSound, RowClaims
  <2>2. QED
    BY <1>1, <1>2, <1>4, <1>5, <1>6, <2>1 DEF OverrunInvariant, Bounded, Waiting
<1>7. CASE /\ row[s].state = "ready" /\ row'[s].state = "inflight"
           /\ row'[s].attempts = row[s].attempts + 1 /\ Threats(s)' \subseteq Threats(s)
           /\ Instances # {}
  <2>1. Cardinality(Instances) > 0
    BY <1>2, <1>7, FS_EmptySet
  <2>2. row[s].attempts = 0 => Cardinality(Threats(s)) = 0
    BY NoThreat, FS_EmptySet DEF OverrunInvariant
  <2>3. QED
    BY <1>1, <1>2, <1>4, <1>5, <1>7, <2>1, <2>2 DEF OverrunInvariant, Bounded, Waiting
<1>8. CASE /\ row'[s].attempts = row[s].attempts
           /\ \E i \in Threats(s) : Threats(s)' \subseteq Threats(s) \ {i}
  <2>1. PICK i \in Threats(s) : Threats(s)' \subseteq Threats(s) \ {i}
    BY <1>8
  <2>2. /\ IsFiniteSet(Threats(s) \ {i})
        /\ Cardinality(Threats(s) \ {i}) = Cardinality(Threats(s)) - 1
    BY <1>2, <2>1, FS_RemoveElement
  <2>3. Cardinality(Threats(s)') <= Cardinality(Threats(s)) - 1
    BY <2>1, <2>2, FS_Subset
  <2>4. QED
    BY <1>1, <1>2, <1>4, <1>8, <2>3 DEF OverrunInvariant, Bounded, Waiting
<1>9. CASE /\ row'[s] = row[s] /\ row[s].state # "ready" /\ row[s].attempts < MaxAttempts
  BY <1>1, <1>2, <1>4, <1>9 DEF Bounded, Waiting
<1>10. QED
  BY <1>6, <1>7, <1>8, <1>9

\* The calls that do not move keep what they have, since no row loses an attempt.
LEMMA ClaimsKept ==
  ASSUME TypeOK, TypeOK', ClaimsSound,
         \A j \in Instances : \/ CallClaims(j)'
                              \/ /\ pc'[j] = pc[j] /\ todo'[j] = todo[j]
                                 /\ held'[j] = held[j] /\ cur'[j] = cur[j],
         \A s \in Rows : RowClaims(row'[s]) /\ row'[s].attempts >= row[s].attempts
  PROVE  ClaimsSound'
<1>1. \A s \in Rows : row[s].attempts \in Nat /\ row'[s].attempts \in Nat
  BY DEF TypeOK, Row
<1>2. ASSUME NEW j \in Instances, pc'[j] = pc[j], todo'[j] = todo[j], held'[j] = held[j],
             cur'[j] = cur[j]
      PROVE  CallClaims(j)'
  <2>1. CallClaims(j) /\ cur[j].seq \in Rows /\ \A t \in todo[j] : t.seq \in Rows
    BY DEF ClaimsSound, TypeOK, Orphan, Message
  <2>2. QED
    BY <1>1, <1>2, <2>1 DEF CallClaims
<1>3. QED
  BY <1>2 DEF ClaimsSound

LEMMA ThreatsKept ==
  ASSUME NEW s \in Rows,
         \A j \in Instances : \/ j \in Threats(s)' => j \in Threats(s)
                              \/ pc'[j] = pc[j] /\ todo'[j] = todo[j] /\ cur'[j] = cur[j]
  PROVE  Threats(s)' \subseteq Threats(s)
BY DEF Threats, Exhausted

\* A step that makes no row ready and gives none an attempt, of an instance that reads none.
LEMMA QuietStep ==
  ASSUME IsFiniteSet(Instances), TypeOK, TypeOK', OverrunInvariant,
         \A s \in Rows : /\ RowClaims(row'[s]) /\ row'[s].attempts = row[s].attempts
                         /\ row'[s].state = "ready" => row[s].state \in {"ready", "absent"},
         \A j \in Instances : \/ /\ CallClaims(j)'
                                 /\ todo'[j] \subseteq todo[j]
                                 /\ pc'[j] = "nack" => pc[j] = "nack" /\ cur'[j] = cur[j]
                              \/ /\ pc'[j] = pc[j] /\ todo'[j] = todo[j]
                                 /\ held'[j] = held[j] /\ cur'[j] = cur[j]
  PROVE  OverrunInvariant'
<1>1. \A s \in Rows : row'[s].attempts >= row[s].attempts
  BY DEF TypeOK, Row
<1>2. ClaimsSound'
  BY <1>1, ClaimsKept DEF OverrunInvariant
<1>3. ASSUME NEW s \in Rows PROVE Threats(s)' \subseteq Threats(s)
  BY ThreatsKept DEF Threats, Exhausted
<1>4. \A s \in Rows : row'[s].attempts = 0 \/ Bounded(s)'
  BY <1>3, BoundKept
<1>5. QED
  BY <1>2, <1>4 DEF OverrunInvariant

LEMMA OverrunBackground ==
  ASSUME IsFiniteSet(Instances), TypeOK, TypeOK', OverrunInvariant,
         \/ Publish \/ Tick \/ UNCHANGED vars
         \/ \E i \in Instances : Start(i) \/ Crash(i) \/ PullRaises(i) \/ SettleRaises(i)
  PROVE  OverrunInvariant'
<1> USE DEF TypeOK
<1>1. \A s \in Rows : RowClaims(row[s])
  BY DEF OverrunInvariant, ClaimsSound
<1>2. CASE Publish \/ Tick \/ UNCHANGED vars
  <2>1. \A s \in Rows : /\ RowClaims(row'[s]) /\ row'[s].attempts = row[s].attempts
                        /\ row'[s].state = "ready" => row[s].state \in {"ready", "absent"}
    BY <1>1, <1>2 DEF Publish, Inserted, Tick, Aged, vars, RowClaims
  <2>2. UNCHANGED <<pc, todo, held, cur>>
    BY <1>2 DEF Publish, Tick, vars
  <2>3. QED
    BY <2>1, <2>2, QuietStep
<1>3. ASSUME NEW i \in Instances, Start(i) \/ Crash(i) PROVE OverrunInvariant'
  <2>1. row' = row /\ cur' = cur
    BY <1>3 DEF Start, Crash
  <2>2. \A j \in Instances \ {i} : pc'[j] = pc[j] /\ todo'[j] = todo[j] /\ held'[j] = held[j]
    BY <1>3 DEF Start, Crash
  <2>3. \/ pc'[i] = pc[i] /\ todo'[i] = todo[i] /\ held'[i] = held[i]
        \/ /\ CallClaims(i)' /\ todo'[i] \subseteq todo[i]
           /\ pc'[i] = "nack" => pc[i] = "nack" /\ cur'[i] = cur[i]
    BY <1>3, <2>1 DEF Start, Crash, CallClaims, OverrunInvariant, ClaimsSound
  <2>4. QED
    BY <1>1, <2>1, <2>2, <2>3, QuietStep
<1>4. ASSUME NEW i \in Instances, PullRaises(i) \/ SettleRaises(i) PROVE OverrunInvariant'
  <2>1. /\ row' = row /\ pc'[i] = "idle" /\ todo'[i] \subseteq todo[i]
        /\ \A j \in Instances \ {i} : /\ pc'[j] = pc[j] /\ todo'[j] = todo[j]
                                      /\ held'[j] = held[j] /\ cur'[j] = cur[j]
    BY <1>4 DEF PullRaises, SettleRaises
  <2>2. CallClaims(i) /\ cur[i].seq \in Rows
    BY DEF OverrunInvariant, ClaimsSound, Message
  <2>3. CallClaims(i)'
    BY <1>4, <2>1, <2>2 DEF PullRaises, SettleRaises, CallClaims
  <2>4. QED
    BY <1>1, <2>1, <2>3, QuietStep
<1>5. QED
  BY <1>2, <1>3, <1>4

LEMMA OverrunPull ==
  ASSUME IsFiniteSet(Instances), TypeOK, TypeOK', OverrunInvariant, NEW i \in Instances, PullStep(i)
  PROVE  OverrunInvariant'
<1> USE DEF TypeOK
<1>0. /\ \A s \in Rows : RowClaims(row[s]) /\ row[s] \in Row
      /\ CallClaims(i) /\ \A t \in todo[i] : t \in Orphan /\ t.seq \in Rows
  BY DEF OverrunInvariant, ClaimsSound, Orphan
<1>1. CASE Pull(i)
  <2>1. /\ pc[i] = "idle" /\ pc' = [pc EXCEPT ![i] = "reap"] /\ row' = row /\ held[i] = {}
        /\ todo' = [todo EXCEPT ![i] = {[seq |-> s, attempts |-> row[s].attempts] :
                                          s \in {t \in Rows : Orphaned(i, t)}}]
        /\ UNCHANGED <<held, cur>>
    BY <1>1 DEF Pull
  <2>2. \A t \in todo'[i] : /\ t.seq \in Rows /\ t.attempts = row[t.seq].attempts
                            /\ row[t.seq].state = "inflight"
    BY <2>1 DEF Orphaned
  <2>3. \A t, u \in todo'[i] : t.seq = u.seq => t = u
    BY <2>1
  <2>4. CallClaims(i)'
    BY <1>0, <2>1, <2>2, <2>3 DEF CallClaims, RowClaims
  <2>5. ClaimsSound'
    <3>1. \A s \in Rows : RowClaims(row'[s]) /\ row'[s].attempts >= row[s].attempts
      BY <1>0, <2>1 DEF Row
    <3>2. \A j \in Instances \ {i} : /\ pc'[j] = pc[j] /\ todo'[j] = todo[j]
                                      /\ held'[j] = held[j] /\ cur'[j] = cur[j]
      BY <2>1
    <3>3. QED
      BY <2>4, <3>1, <3>2, ClaimsKept DEF OverrunInvariant
  <2>6. ASSUME NEW s \in Rows PROVE row'[s].attempts = 0 \/ Bounded(s)'
    <3>1. CASE \E t \in todo'[i] : t.seq = s /\ ~Exhausted(t.attempts)
      <4>1. row[s].state = "inflight" /\ row[s].attempts < MaxAttempts
        BY <2>2, <3>1, QueueAssumption DEF Exhausted, Row
      <4>2. QED
        BY <2>1, <4>1, BoundKept
    <3>2. CASE ~\E t \in todo'[i] : t.seq = s /\ ~Exhausted(t.attempts)
      <4>1. i \notin Threats(s)'
        BY <2>1, <3>2 DEF Threats, Exhausted
      <4>2. Threats(s)' \subseteq Threats(s)
        BY <2>1, <4>1, ThreatsKept
      <4>3. QED
        BY <2>1, <4>2, BoundKept
    <3>3. QED
      BY <3>1, <3>2
  <2>7. QED
    BY <2>5, <2>6 DEF OverrunInvariant
<1>2. CASE Reclaim(i)
  <2>1. PICK t \in todo[i] :
          /\ ~Exhausted(t.attempts)
          /\ row' = [row EXCEPT ![t.seq] = IF @.state = "inflight" THEN Requeued(@, 0) ELSE @]
          /\ todo' = [todo EXCEPT ![i] = @ \ {t}]
    BY <1>2 DEF Reclaim
  <2>2. pc[i] = "reap" /\ UNCHANGED <<pc, held, cur>>
    BY <1>2 DEF Reclaim
  <2>3. \A s \in Rows : RowClaims(row'[s]) /\ row'[s].attempts = row[s].attempts
    BY <1>0, <2>1 DEF Requeued, RowClaims
  <2>4. CallClaims(i)'
    BY <1>0, <2>1, <2>2, <2>3 DEF CallClaims
  <2>5. ClaimsSound'
    BY <1>0, <2>1, <2>2, <2>3, <2>4, ClaimsKept DEF OverrunInvariant, Row
  <2>6. ASSUME NEW s \in Rows PROVE row'[s].attempts = 0 \/ Bounded(s)'
    <3>1. i \in Threats(s)' => i \in Threats(s)
      BY <2>1, <2>2 DEF Threats, Exhausted
    <3>2. Threats(s)' \subseteq Threats(s)
      BY <2>1, <2>2, <3>1, ThreatsKept
    <3>3. CASE s # t.seq
      <4>1. row'[s] = row[s]
        BY <2>1, <3>3
      <4>2. QED
        BY <3>2, <4>1, BoundKept
    <3>4. CASE s = t.seq
      <4>1. i \in Threats(s)
        BY <2>1, <3>4 DEF Threats
      <4>2. i \notin Threats(s)'
        BY <1>0, <2>1, <2>2, <3>4 DEF Threats, CallClaims
      <4>3. QED
        BY <2>3, <3>2, <4>1, <4>2, BoundKept
    <3>5. QED
      BY <3>3, <3>4
  <2>7. QED
    BY <2>5, <2>6 DEF OverrunInvariant
<1>3. CASE DeadLetterRow(i)
  <2>1. PICK t \in todo[i] :
          /\ todo' = [todo EXCEPT ![i] = @ \ {t}]
          /\ IF row[t.seq].state = "inflight"
             THEN /\ row' = [row EXCEPT ![t.seq].state = "dead"]
                  /\ pc' = [pc EXCEPT ![i] = "file"]
                  /\ cur' = [cur EXCEPT ![i] = [seq |-> t.seq, ack |-> NoAck]]
             ELSE UNCHANGED <<row, pc, cur>>
    BY <1>3 DEF DeadLetterRow
  <2>2. pc[i] = "reap" /\ held' = held
    BY <1>3 DEF DeadLetterRow
  <2>3. \A s \in Rows : /\ RowClaims(row'[s]) /\ row'[s].attempts = row[s].attempts
                        /\ row'[s].state = "ready" => row[s].state \in {"ready", "absent"}
    <3>1. CASE row' = row
      BY <1>0, <3>1
    <3>2. CASE row[t.seq].state = "inflight" /\ row' = [row EXCEPT ![t.seq].state = "dead"]
      <4>1. row' = [row EXCEPT ![t.seq] = [row[t.seq] EXCEPT !.state = "dead"]]
        BY <3>2
      <4>2. /\ row'[t.seq].state = "dead" /\ row'[t.seq].ack = row[t.seq].ack
            /\ row'[t.seq].attempts = row[t.seq].attempts
        BY <1>0, <4>1, StateWritten
      <4>3. \A s \in Rows : s # t.seq => row'[s] = row[s]
        BY <4>1
      <4>4. QED
        BY <1>0, <3>2, <4>2, <4>3 DEF RowClaims
    <3>3. QED
      BY <2>1, <3>1, <3>2
  <2>4. pc'[i] \in {"reap", "file"}
    BY <2>1, <2>2
  <2>5. CallClaims(i)'
    BY <1>0, <2>1, <2>2, <2>3, <2>4 DEF CallClaims
  <2>6. /\ todo'[i] \subseteq todo[i]
        /\ \A j \in Instances \ {i} : /\ pc'[j] = pc[j] /\ todo'[j] = todo[j]
                                      /\ held'[j] = held[j] /\ cur'[j] = cur[j]
    BY <2>1, <2>2
  <2>7. QED
    BY <2>3, <2>4, <2>5, <2>6, QuietStep
<1>4. CASE FileDeadLetter(i) \/ Select(i) \/ PullReturn(i)
  <2>1. /\ row' = row /\ todo' = todo /\ held' = held /\ pc'[i] \in {"reap", "claim", "idle"}
        /\ \A j \in Instances \ {i} : pc'[j] = pc[j] /\ cur'[j] = cur[j]
        /\ pc'[i] # "reap" => todo[i] = {}
    BY <1>0, <1>4 DEF FileDeadLetter, Select, PullReturn, CallClaims
  <2>2. CallClaims(i)'
    BY <1>0, <2>1 DEF CallClaims
  <2>3. QED
    BY <1>0, <2>1, <2>2, QuietStep
<1>5. CASE ClaimRow(i)
  <2>1. PICK s \in batch[i] :
          IF StillReady(s)
          THEN /\ row' = [row EXCEPT ![s] = Claimed(@, i)]
               /\ held' = [held EXCEPT ![i] = @ \cup {[seq |-> s, ack |-> row[s].attempts + 1]}]
          ELSE UNCHANGED <<row, held>>
    BY <1>5 DEF ClaimRow
  <2>2. s \in Rows /\ pc[i] = "claim" /\ UNCHANGED <<pc, todo, cur>>
    BY <1>5, <2>1 DEF ClaimRow
  <2>3. CASE UNCHANGED <<row, held>>
    BY <1>0, <2>2, <2>3, QuietStep
  <2>4. CASE /\ StillReady(s) /\ row' = [row EXCEPT ![s] = Claimed(@, i)]
             /\ held' = [held EXCEPT ![i] = @ \cup {[seq |-> s, ack |-> row[s].attempts + 1]}]
    <3>1. /\ row'[s].state = "inflight" /\ row'[s].attempts = row[s].attempts + 1
          /\ row'[s].ack = row[s].attempts + 1 /\ row[s].state = "ready"
          /\ row[s].attempts \in Nat
      BY <1>0, <2>2, <2>4 DEF Claimed, StillReady, Row
    <3>2. \A r \in Rows \ {s} : row'[r] = row[r]
      BY <2>4
    <3>3. \A r \in Rows : RowClaims(row'[r]) /\ row'[r].attempts >= row[r].attempts
      <4>1. RowClaims(row'[s])
        BY <3>1 DEF RowClaims
      <4>2. \A r \in Rows : RowClaims(row[r]) /\ row[r].attempts \in Nat
        BY <1>0 DEF Row
      <4>3. QED
        BY <3>1, <3>2, <4>1, <4>2
    <3>4. \A m \in held'[i] : m.ack # NoAck
      <4>1. \A m \in held[i] : m.ack # NoAck
        BY <1>0 DEF CallClaims
      <4>2. row[s].attempts + 1 # NoAck
        BY <3>1 DEF NoAck
      <4>3. held'[i] = held[i] \cup {[seq |-> s, ack |-> row[s].attempts + 1]}
        BY <2>4
      <4>4. QED
        BY <4>1, <4>2, <4>3
    <3>5. CallClaims(i)'
      BY <1>0, <2>2, <3>4 DEF CallClaims
    <3>6. ClaimsSound'
      BY <2>2, <2>4, <3>3, <3>5, ClaimsKept DEF OverrunInvariant
    <3>7. ASSUME NEW r \in Rows PROVE row'[r].attempts = 0 \/ Bounded(r)'
      <4>1. Threats(r)' \subseteq Threats(r)
        BY <2>2, ThreatsKept
      <4>2. QED
        BY <3>1, <3>2, <4>1, BoundKept
    <3>8. QED
      BY <3>6, <3>7 DEF OverrunInvariant
  <2>5. QED
    BY <2>1, <2>3, <2>4
<1>6. QED
  BY <1>1, <1>2, <1>3, <1>4, <1>5 DEF PullStep

LEMMA OverrunSettle ==
  ASSUME IsFiniteSet(Instances), TypeOK, TypeOK', OverrunInvariant, NEW i \in Instances,
         SettleStep(i)
  PROVE  OverrunInvariant'
<1> USE DEF TypeOK
<1>0. /\ \A s \in Rows : RowClaims(row[s]) /\ row[s] \in Row
      /\ CallClaims(i) /\ cur[i].seq \in Rows /\ \A m \in held[i] : m \in Message /\ m.seq \in Rows
  BY DEF OverrunInvariant, ClaimsSound, Message
<1>1. ASSUME NEW m \in Message, m.ack # NoAck, Matches(m)
      PROVE  row[m.seq].attempts > 0 /\ row[m.seq].state \notin {"absent", "ready"}
  BY <1>0, <1>1 DEF Matches, RowClaims, Message
<1>2. ASSUME NEW m \in Message, m.ack # NoAck, NEW q \in {"done", "dead"},
             row' = [row EXCEPT ![m.seq].state = IF Matches(m) THEN q ELSE @]
      PROVE  \A s \in Rows : /\ RowClaims(row'[s]) /\ row'[s].attempts = row[s].attempts
                             /\ row'[s].state = "ready" => row[s].state \in {"ready", "absent"}
  <2>1. m.seq \in Rows /\ row[m.seq] \in Row
    BY <1>0 DEF Message
  <2>2. row' = [row EXCEPT ![m.seq] =
                  [row[m.seq] EXCEPT !.state = IF Matches(m) THEN q ELSE @]]
    BY <1>2
  <2>3. /\ row'[m.seq].state = (IF Matches(m) THEN q ELSE row[m.seq].state)
        /\ row'[m.seq].ack = row[m.seq].ack
        /\ row'[m.seq].attempts = row[m.seq].attempts
    BY <2>1, <2>2, StateWritten
  <2>4. \A s \in Rows : s # m.seq => row'[s] = row[s]
    BY <2>2
  <2>5. RowClaims(row'[m.seq])
    BY <1>0, <1>1, <1>2, <2>1, <2>3 DEF RowClaims
  <2>6. QED
    BY <1>0, <1>2, <2>3, <2>4, <2>5
<1>3. ASSUME NEW m \in held[i], Ack(i, m) PROVE OverrunInvariant'
  <2>1. /\ pc[i] = "idle" /\ held' = [held EXCEPT ![i] = @ \ {m}] /\ UNCHANGED <<pc, todo, cur>>
        /\ row' = [row EXCEPT ![m.seq].state = IF Matches(m) THEN "done" ELSE @]
    BY <1>3 DEF Ack, Settling
  <2>2. m.ack # NoAck
    BY <1>0 DEF CallClaims
  <2>3. \A s \in Rows : /\ RowClaims(row'[s]) /\ row'[s].attempts = row[s].attempts
                        /\ row'[s].state = "ready" => row[s].state \in {"ready", "absent"}
    BY <1>0, <1>2, <2>1, <2>2
  <2>4. CallClaims(i)'
    BY <1>0, <2>1, <2>3 DEF CallClaims
  <2>5. QED
    BY <2>1, <2>3, <2>4, QuietStep
<1>4. ASSUME NEW m \in held[i], Nack(i, m) PROVE OverrunInvariant'
  <2>1. /\ pc[i] = "idle" /\ held' = [held EXCEPT ![i] = @ \ {m}] /\ UNCHANGED <<row, todo>>
        /\ \A j \in Instances \ {i} : pc'[j] = pc[j] /\ cur'[j] = cur[j]
    BY <1>4 DEF Nack, Settling
  <2>2. m.ack # NoAck /\ todo[i] = {} /\ m \in Message
    BY <1>0, <2>1 DEF CallClaims
  <2>3. CASE Matches(m) /\ pc'[i] = "nack" /\ cur'[i] = m
             /\ ~Exhausted(row[m.seq].attempts)
    <3>1. CallClaims(i)'
      BY <1>0, <1>1, <2>1, <2>2, <2>3 DEF CallClaims
    <3>2. ClaimsSound'
      <4>1. \A s \in Rows : RowClaims(row'[s]) /\ row'[s].attempts >= row[s].attempts
        BY <1>0, <2>1 DEF Row
      <4>2. QED
        BY <2>1, <3>1, <4>1, ClaimsKept DEF OverrunInvariant
    <3>3. ASSUME NEW s \in Rows PROVE row'[s].attempts = 0 \/ Bounded(s)'
      <4>1. CASE s = m.seq
        <5>1. row[s].state # "ready" /\ row[s].attempts < MaxAttempts
          BY <1>0, <1>1, <2>2, <2>3, <4>1, QueueAssumption DEF Exhausted, Row
        <5>2. QED
          BY <2>1, <5>1, BoundKept
      <4>2. CASE s # m.seq
        <5>1. i \notin Threats(s)'
          BY <2>1, <2>2, <2>3, <4>2 DEF Threats
        <5>2. Threats(s)' \subseteq Threats(s)
          BY <2>1, <5>1, ThreatsKept
        <5>3. QED
          BY <2>1, <5>2, BoundKept
      <4>3. QED
        BY <4>1, <4>2
    <3>4. QED
      BY <3>2, <3>3 DEF OverrunInvariant
  <2>4. CASE pc'[i] # "nack"
    <3>1. (pc'[i] = "wrap" /\ cur'[i] = m) \/ pc'[i] = "idle"
      BY <1>4, <2>1, <2>4 DEF Nack
    <3>2. CallClaims(i)'
      BY <1>0, <2>1, <2>2, <2>4, <3>1 DEF CallClaims
    <3>3. QED
      BY <1>0, <2>1, <2>4, <3>2, QuietStep
  <2>5. QED
    BY <1>4, <2>1, <2>3, <2>4 DEF Nack
<1>5. ASSUME NEW m \in held[i], ToDlq(i, m) \/ Drop(i, m) PROVE OverrunInvariant'
  <2>1. /\ pc[i] = "idle" /\ held' = [held EXCEPT ![i] = @ \ {m}] /\ UNCHANGED <<row, todo>>
        /\ \A j \in Instances \ {i} : pc'[j] = pc[j] /\ cur'[j] = cur[j]
        /\ (pc'[i] = "wrap" /\ cur'[i] = m) \/ pc'[i] = "idle"
    BY <1>5 DEF ToDlq, Drop, Settling
  <2>2. CallClaims(i)'
    BY <1>0, <2>1 DEF CallClaims
  <2>3. QED
    BY <1>0, <2>1, <2>2, QuietStep
<1>6. CASE NackUpdate(i)
  <2>1. PICK b \in Backoffs : row' = [row EXCEPT ![cur[i].seq] = Requeued(@, b)]
    BY <1>6 DEF NackUpdate
  <2>2. /\ pc[i] = "nack" /\ pc'[i] = "idle" /\ UNCHANGED <<todo, held>>
        /\ \A j \in Instances \ {i} : pc'[j] = pc[j] /\ cur'[j] = cur[j]
        /\ todo[i] = {}
    BY <1>0, <1>6 DEF NackUpdate, CallClaims
  <2>3. \A s \in Rows : RowClaims(row'[s]) /\ row'[s].attempts = row[s].attempts
    <3>1. row[cur[i].seq].attempts > 0
      BY <1>0, <2>2 DEF CallClaims
    <3>2. QED
      BY <1>0, <2>1, <3>1 DEF Requeued, RowClaims
  <2>4. CallClaims(i)'
    BY <1>0, <2>2, <2>3 DEF CallClaims
  <2>5. ClaimsSound'
    <3>1. \A s \in Rows : RowClaims(row'[s]) /\ row'[s].attempts >= row[s].attempts
      BY <1>0, <2>3 DEF Row
    <3>2. QED
      BY <2>2, <2>4, <3>1, ClaimsKept DEF OverrunInvariant
  <2>6. ASSUME NEW s \in Rows PROVE row'[s].attempts = 0 \/ Bounded(s)'
    <3>1. i \notin Threats(s)'
      BY <2>2 DEF Threats
    <3>2. Threats(s)' \subseteq Threats(s)
      BY <2>2, <3>1, ThreatsKept
    <3>3. CASE s # cur[i].seq
      <4>1. row'[s] = row[s]
        BY <2>1, <3>3
      <4>2. QED
        BY <3>2, <4>1, BoundKept
    <3>4. CASE s = cur[i].seq
      <4>1. i \in Threats(s)
        BY <2>2, <3>4 DEF Threats
      <4>2. QED
        BY <2>3, <3>1, <3>2, <4>1, BoundKept
    <3>5. QED
      BY <3>3, <3>4
  <2>7. QED
    BY <2>5, <2>6 DEF OverrunInvariant
<1>7. CASE ToDlqInsert(i)
  <2>1. /\ UNCHANGED <<row, todo, held, cur>> /\ pc[i] = "wrap" /\ pc'[i] = "bury"
        /\ \A j \in Instances \ {i} : pc'[j] = pc[j]
    BY <1>7 DEF ToDlqInsert
  <2>2. CallClaims(i)'
    BY <1>0, <2>1 DEF CallClaims
  <2>3. QED
    BY <1>0, <2>1, <2>2, QuietStep
<1>8. CASE ToDlqUpdate(i)
  <2>1. /\ UNCHANGED <<todo, held>> /\ pc[i] = "bury" /\ pc'[i] = "idle"
        /\ \A j \in Instances \ {i} : pc'[j] = pc[j] /\ cur'[j] = cur[j]
        /\ row' = [row EXCEPT ![cur[i].seq].state = IF Matches(cur[i]) THEN "dead" ELSE @]
    BY <1>8 DEF ToDlqUpdate
  <2>2. cur[i].ack # NoAck
    BY <1>0, <2>1 DEF CallClaims
  <2>3. \A s \in Rows : /\ RowClaims(row'[s]) /\ row'[s].attempts = row[s].attempts
                        /\ row'[s].state = "ready" => row[s].state \in {"ready", "absent"}
    BY <1>2, <2>1, <2>2
  <2>4. CallClaims(i)'
    BY <1>0, <2>1, <2>3 DEF CallClaims
  <2>5. QED
    BY <2>1, <2>3, <2>4, QuietStep
<1>9. QED
  BY <1>3, <1>4, <1>5, <1>6, <1>7, <1>8 DEF SettleStep

LEMMA OverrunStep ==
  ASSUME IsFiniteSet(Instances), TypeOK, OverrunInvariant, [Next]_vars PROVE OverrunInvariant'
<1>1. TypeOK'
  BY TypeStep
<1>2. QED
  BY <1>1, OverrunBackground, OverrunPull, OverrunSettle DEF Next

\* reclaim and nack decide from a SELECT and write by a later UPDATE.  However many
\* consumers share the subscription, and wherever they die or fail, each adds one
\* delivery to max_attempts at most.
THEOREM OverrunIsBounded == IsFiniteSet(Instances) => (Spec => []OverrunBounded)
<1> SUFFICES ASSUME IsFiniteSet(Instances) PROVE Spec => []OverrunBounded
  OBVIOUS
<1>1. Init => OverrunInvariant
  BY DEF Init, AbsentRow, OverrunInvariant, ClaimsSound, RowClaims, CallClaims
<1>2. TypeOK /\ OverrunInvariant => OverrunBounded
  <2> SUFFICES ASSUME TypeOK, OverrunInvariant, NEW s \in Rows
               PROVE  row[s].attempts < MaxAttempts + Cardinality(Instances)
    BY DEF OverrunBounded
  <2>1. /\ Cardinality(Threats(s)) \in Nat /\ Cardinality(Instances) \in Nat
        /\ row[s].attempts \in Nat /\ MaxAttempts \in Nat \ {0}
    BY ThreatCount, QueueAssumption DEF TypeOK, Row
  <2>2. QED
    BY <2>1 DEF OverrunInvariant, Bounded, Waiting
<1>3. QED
  BY <1>1, <1>2, OverrunStep, TypeCorrect, PTL DEF Spec
=============================================================================
