---------------------------- MODULE DurableQueue ----------------------------
(***************************************************************************)
(* LocalDurableBackend (common/queue_backend.py): one SQLite table that    *)
(* every process of the deployment opens.  Each statement autocommits, so  *)
(* a step of this module is ONE statement: between the SELECT and the      *)
(* UPDATEs of reclaim, pull, nack and to_dlq any other process, a crash or *)
(* the passing of time may come in between.                                *)
(*                                                                         *)
(* A row is one message of one subscription, numbered by its AUTOINCREMENT *)
(* seq.  An instance is one LocalDurableBackend object: a restarted        *)
(* process is a new instance (its owner id is fresh), so an instance that  *)
(* died never returns.  Time is kept as what is left of a lease and of a   *)
(* backoff; Tick lets it pass.  The uuid4 ack id of a claim is represented *)
(* by the claim's number, which the same statement increments and nothing  *)
(* resets.                                                                 *)
(***************************************************************************)
EXTENDS Naturals, FiniteSets

CONSTANTS
  MaxRows,      \* how many messages are ever published (bounds the model)
  Instances,    \* the backend objects that ever pull the subscription
  Shared,       \* TRUE: two live processes may consume the subscription
  MaxAttempts,  \* max_attempts: deliveries before the dead-letter topic
  LeaseTime,    \* lease_sec
  Backoffs,     \* the backoff_sec values callers nack with
  Prefetch,     \* max_messages of a pull
  MaxFaults     \* how many statements ever raise (bounds the model)

ASSUME QueueAssumption ==
  /\ MaxRows \in Nat \ {0}
  /\ Shared \in BOOLEAN
  /\ MaxAttempts \in Nat \ {0}
  /\ LeaseTime \in Nat \ {0}
  /\ Backoffs \subseteq Nat
  /\ Prefetch \in Nat \ {0}
  /\ MaxFaults \in Nat

VARIABLES
  row,        \* the queue table: seq -> row
  dlq,        \* seq -> wrappers of that message filed on <topic>.dlq
  life,       \* instance -> "off", "live" or "dead"
  pc,         \* instance -> where its current call stands
  recovered,  \* instance -> it has pulled this subscription before (_recovered)
  todo,       \* instance -> orphans selected by reclaim and not yet handled
  batch,      \* instance -> rows selected by pull and not yet claimed
  held,       \* instance -> delivered messages the caller has not settled
  cur,        \* instance -> the message of the call in progress
  faults,     \* how many statements raised so far
  torn        \* history: seq -> how often the second statement of _dead_letter_row
              \* or to_dlq raised for it, after the first had been written

vars == <<row, dlq, life, pc, recovered, todo, batch, held, cur, faults, torn>>

-----------------------------------------------------------------------------
Rows == 1..MaxRows
NoAck == 0
NoOwner == "none"

States == {"absent", "ready", "inflight", "done", "dead"}
Row == [state : States, attempts : Nat, ack : Nat,
        owner : Instances \cup {NoOwner}, lease : 0..LeaseTime, delay : Nat]
Message == [seq : Rows, ack : Nat]
Orphan == [seq : Rows, attempts : Nat]
NoMessage == [seq |-> 1, ack |-> NoAck]
Calls == {"idle", "reap", "file", "claim", "nack", "wrap", "bury"}

AbsentRow == [state |-> "absent", attempts |-> 0, ack |-> NoAck,
              owner |-> NoOwner, lease |-> 0, delay |-> 0]

Settled(s) == row[s].state \in {"done", "dead"}
Live(i) == life[i] = "live"

-----------------------------------------------------------------------------
\* What the single statements write.

\* INSERT ... VALUES (?, ?, 'ready', 0, 0)
Inserted == [state |-> "ready", attempts |-> 0, ack |-> NoAck,
             owner |-> NoOwner, lease |-> 0, delay |-> 0]

\* UPDATE ... SET state='ready', ack_id=NULL, lease_owner=NULL, leased_until=0,
\* available_at=now + backoff: reclaim writes it with no backoff, nack with one.
Requeued_Limbo(r, backoff) ==
  [state |-> "nacked", attempts |-> r.attempts, ack |-> NoAck,
   owner |-> NoOwner, lease |-> 0, delay |-> backoff]
Requeued(r, backoff) ==
  [state |-> "ready", attempts |-> r.attempts, ack |-> NoAck,
   owner |-> NoOwner, lease |-> 0, delay |-> backoff]

\* UPDATE ... SET state='inflight', ack_id=<fresh>, attempts=attempts+1,
\* lease_owner=me, leased_until=now + lease_sec.  (Definitions whose name has an
\* underscore are the mutants listed in PROJECT.json.)
Claimed_FreeRetry(r, i) ==
  [state |-> "inflight", attempts |-> r.attempts, ack |-> r.attempts + 1,
   owner |-> i, lease |-> LeaseTime, delay |-> r.delay]
Claimed(r, i) ==
  [state |-> "inflight", attempts |-> r.attempts + 1, ack |-> r.attempts + 1,
   owner |-> i, lease |-> LeaseTime, delay |-> r.delay]

\* The WHERE clause of reclaim: an expired lease, or, on the instance's first
\* pull of the subscription, any lease that is not its own.
Orphaned_FirstPullOnly(i, s) ==
  row[s].state = "inflight" /\ ~recovered[i] /\ row[s].owner # i
Orphaned(i, s) ==
  /\ row[s].state = "inflight"
  /\ \/ row[s].lease = 0
     \/ ~recovered[i] /\ row[s].owner # i

\* The first Prefetch rows, by seq, that are ready and whose backoff is over.
Deliverable == {s \in Rows : row[s].state = "ready" /\ row[s].delay = 0}
Selected == {s \in Deliverable :
               Cardinality({t \in Deliverable : t < s}) < Prefetch}

\* AND state='ready' in the claiming UPDATE of pull.
StillReady_Unchecked(s) == TRUE
StillReady(s) == row[s].state = "ready"

\* attempts >= max_attempts, the test of reclaim and of nack.
Exhausted_OffByOne(attempts) == attempts > MaxAttempts
Exhausted(attempts) == attempts >= MaxAttempts

\* WHERE ack_id = ?: a row whose claim is still this message's.
Matches(m) == row[m.seq].ack = m.ack

-----------------------------------------------------------------------------
Init ==
  /\ row = [s \in Rows |-> AbsentRow]
  /\ dlq = [s \in Rows |-> 0]
  /\ life = [i \in Instances |-> "off"]
  /\ pc = [i \in Instances |-> "idle"]
  /\ recovered = [i \in Instances |-> FALSE]
  /\ todo = [i \in Instances |-> {}]
  /\ batch = [i \in Instances |-> {}]
  /\ held = [i \in Instances |-> {}]
  /\ cur = [i \in Instances |-> NoMessage]
  /\ faults = 0
  /\ torn = [s \in Rows |-> 0]

\* publish: rows are numbered in the order they are inserted.
Publish ==
  \E s \in Rows :
    /\ row[s].state = "absent"
    /\ \A t \in Rows : t < s => row[t].state # "absent"
    /\ row' = [row EXCEPT ![s] = Inserted]
    /\ UNCHANGED <<dlq, life, pc, recovered, todo, batch, held, cur, faults, torn>>

\* A process opens the queue.  Unless the subscription is shared it is the only
\* one that consumes it (the topology reclaim's docstring states).
Start(i) ==
  /\ life[i] = "off"
  /\ Shared \/ \A j \in Instances : ~Live(j)
  /\ life' = [life EXCEPT ![i] = "live"]
  /\ UNCHANGED <<row, dlq, pc, recovered, todo, batch, held, cur, faults, torn>>

\* The process dies between two statements.  What it held stays in flight.
\* pc and cur keep the point it died at.  The last instance does not die, so
\* that somebody is left to consume (the service manager restarts it).
Crash(i) ==
  /\ Live(i)
  /\ \E j \in Instances : life[j] = "off"
  /\ life' = [life EXCEPT ![i] = "dead"]
  /\ todo' = [todo EXCEPT ![i] = {}]
  /\ batch' = [batch EXCEPT ![i] = {}]
  /\ held' = [held EXCEPT ![i] = {}]
  /\ UNCHANGED <<row, dlq, pc, recovered, cur, faults, torn>>

Elapsed(n) == IF n = 0 THEN 0 ELSE n - 1
Aged(r) == [state |-> r.state, attempts |-> r.attempts, ack |-> r.ack,
            owner |-> r.owner, lease |-> Elapsed(r.lease), delay |-> Elapsed(r.delay)]

\* Time passes for every lease and every backoff.
Tick ==
  /\ \E s \in Rows : row[s].lease > 0 \/ row[s].delay > 0
  /\ row' = [s \in Rows |-> Aged(row[s])]
  /\ UNCHANGED <<dlq, life, pc, recovered, todo, batch, held, cur, faults, torn>>

-----------------------------------------------------------------------------
\* pull: reclaim, then select, then claim row by row.

\* pull -> reclaim: mark the subscription recovered, SELECT the orphans.  The
\* callers pull again only once every message of the last batch is settled or
\* has been dropped by an exception.
Pull(i) ==
  /\ Live(i) /\ pc[i] = "idle" /\ held[i] = {}
  /\ recovered' = [recovered EXCEPT ![i] = TRUE]
  /\ todo' = [todo EXCEPT ![i] =
                {[seq |-> s, attempts |-> row[s].attempts] :
                   s \in {t \in Rows : Orphaned(i, t)}}]
  /\ pc' = [pc EXCEPT ![i] = "reap"]
  /\ UNCHANGED <<row, dlq, life, batch, held, cur, faults, torn>>

\* reclaim, the UPDATE of an orphan that may be delivered again.
Reclaim(i) ==
  /\ Live(i) /\ pc[i] = "reap"
  /\ \E t \in todo[i] :
       /\ ~Exhausted(t.attempts)
       /\ row' = [row EXCEPT ![t.seq] =
                    IF @.state = "inflight" THEN Requeued(@, 0) ELSE @]
       /\ todo' = [todo EXCEPT ![i] = @ \ {t}]
  /\ UNCHANGED <<dlq, life, pc, recovered, batch, held, cur, faults, torn>>

\* _dead_letter_row, first statement: claim an exhausted orphan by killing it.
DeadLetterRow(i) ==
  /\ Live(i) /\ pc[i] = "reap"
  /\ \E t \in todo[i] :
       /\ Exhausted(t.attempts)
       /\ todo' = [todo EXCEPT ![i] = @ \ {t}]
       /\ IF row[t.seq].state = "inflight"
          THEN /\ row' = [row EXCEPT ![t.seq].state = "dead"]
               /\ pc' = [pc EXCEPT ![i] = "file"]
               /\ cur' = [cur EXCEPT ![i] = [seq |-> t.seq, ack |-> NoAck]]
          ELSE UNCHANGED <<row, pc, cur>>
  /\ UNCHANGED <<dlq, life, recovered, batch, held, faults, torn>>

\* _dead_letter_row, second statement: file the wrapper.
FileDeadLetter_Lost(i) ==
  /\ Live(i) /\ pc[i] = "file"
  /\ pc' = [pc EXCEPT ![i] = "reap"]
  /\ cur' = [cur EXCEPT ![i] = NoMessage]
  /\ UNCHANGED <<row, dlq, life, recovered, todo, batch, held, faults, torn>>
FileDeadLetter(i) ==
  /\ Live(i) /\ pc[i] = "file"
  /\ dlq' = [dlq EXCEPT ![cur[i].seq] = @ + 1]
  /\ pc' = [pc EXCEPT ![i] = "reap"]
  /\ cur' = [cur EXCEPT ![i] = NoMessage]
  /\ UNCHANGED <<row, life, recovered, todo, batch, held, faults, torn>>

\* pull: SELECT the ready rows once reclaim is through.
Select(i) ==
  /\ Live(i) /\ pc[i] = "reap" /\ todo[i] = {}
  /\ batch' = [batch EXCEPT ![i] = Selected]
  /\ pc' = [pc EXCEPT ![i] = "claim"]
  /\ UNCHANGED <<row, dlq, life, recovered, todo, held, cur, faults, torn>>

\* pull: UPDATE ... AND state='ready'; a row a peer took meanwhile is skipped.
ClaimRow(i) ==
  /\ Live(i) /\ pc[i] = "claim"
  /\ \E s \in batch[i] :
       /\ \A t \in batch[i] : s <= t
       /\ batch' = [batch EXCEPT ![i] = @ \ {s}]
       /\ IF StillReady(s)
          THEN /\ row' = [row EXCEPT ![s] = Claimed(@, i)]
               /\ held' = [held EXCEPT ![i] =
                             @ \cup {[seq |-> s, ack |-> row[s].attempts + 1]}]
          ELSE UNCHANGED <<row, held>>
  /\ UNCHANGED <<dlq, life, pc, recovered, todo, cur, faults, torn>>

\* pull returns what it claimed.
PullReturn(i) ==
  /\ Live(i) /\ pc[i] = "claim" /\ batch[i] = {}
  /\ pc' = [pc EXCEPT ![i] = "idle"]
  /\ UNCHANGED <<row, dlq, life, recovered, todo, batch, held, cur, faults, torn>>

\* Statement i's call was at raises between the two that dead-letter the row s.
Torn(i, from, s) == [torn EXCEPT ![s] = @ + (IF pc[i] = from THEN 1 ELSE 0)]

\* A statement of pull raises (database locked, disk full): poll_once reports an
\* empty poll (outbound_consumer.py:133-137), and rows claimed by then are held by
\* nobody until their lease ends.  If it is the wrapper's INSERT, the row is dead
\* and has none.
PullRaises(i) ==
  /\ Live(i) /\ pc[i] \in {"reap", "file", "claim"}
  /\ faults < MaxFaults
  /\ faults' = faults + 1
  /\ torn' = Torn(i, "file", cur[i].seq)
  /\ pc' = [pc EXCEPT ![i] = "idle"]
  /\ todo' = [todo EXCEPT ![i] = {}]
  /\ batch' = [batch EXCEPT ![i] = {}]
  /\ held' = [held EXCEPT ![i] = {}]
  /\ cur' = [cur EXCEPT ![i] = NoMessage]
  /\ UNCHANGED <<row, dlq, life, recovered>>

-----------------------------------------------------------------------------
\* Settling a delivered message.

Settling(i, m) == Live(i) /\ pc[i] = "idle" /\ m \in held[i]

\* ack: one UPDATE, matched by ack id only.
Ack_Resettled(i, m) ==
  /\ Settling(i, m)
  /\ row' = [row EXCEPT ![m.seq].state = IF Matches(m) THEN "done" ELSE @]
  /\ UNCHANGED <<dlq, life, pc, recovered, todo, batch, held, cur, faults, torn>>
Ack(i, m) ==
  /\ Settling(i, m)
  /\ row' = [row EXCEPT ![m.seq].state = IF Matches(m) THEN "done" ELSE @]
  /\ held' = [held EXCEPT ![i] = @ \ {m}]
  /\ UNCHANGED <<dlq, life, pc, recovered, todo, batch, cur, faults, torn>>

\* nack, SELECT by ack id: a stale claim matches nothing and nack returns; an
\* exhausted message goes to to_dlq; any other is requeued by the next statement.
Nack(i, m) ==
  /\ Settling(i, m)
  /\ held' = [held EXCEPT ![i] = @ \ {m}]
  /\ IF Matches(m)
     THEN /\ pc' = [pc EXCEPT ![i] =
                      IF Exhausted(row[m.seq].attempts) THEN "wrap" ELSE "nack"]
          /\ cur' = [cur EXCEPT ![i] = m]
     ELSE UNCHANGED <<pc, cur>>
  /\ UNCHANGED <<row, dlq, life, recovered, todo, batch, faults, torn>>

\* nack, UPDATE ... WHERE seq=?: by seq alone, whatever became of the row since.
NackUpdate(i) ==
  /\ Live(i) /\ pc[i] = "nack"
  /\ \E b \in Backoffs :
       row' = [row EXCEPT ![cur[i].seq] = Requeued(@, b)]
  /\ pc' = [pc EXCEPT ![i] = "idle"]
  /\ cur' = [cur EXCEPT ![i] = NoMessage]
  /\ UNCHANGED <<dlq, life, recovered, todo, batch, held, faults, torn>>

\* to_dlq called by the consumer on a malformed message.
ToDlq(i, m) ==
  /\ Settling(i, m)
  /\ held' = [held EXCEPT ![i] = @ \ {m}]
  /\ pc' = [pc EXCEPT ![i] = "wrap"]
  /\ cur' = [cur EXCEPT ![i] = m]
  /\ UNCHANGED <<row, dlq, life, recovered, todo, batch, faults, torn>>

\* to_dlq, first statement: INSERT the wrapper, unconditionally.
ToDlqInsert(i) ==
  /\ Live(i) /\ pc[i] = "wrap"
  /\ dlq' = [dlq EXCEPT ![cur[i].seq] = @ + 1]
  /\ pc' = [pc EXCEPT ![i] = "bury"]
  /\ UNCHANGED <<row, life, recovered, todo, batch, held, cur, faults, torn>>

\* to_dlq, second statement: UPDATE ... SET state='dead' WHERE ack_id=?
ToDlqUpdate_Skipped(i) ==
  /\ Live(i) /\ pc[i] = "bury"
  /\ pc' = [pc EXCEPT ![i] = "idle"]
  /\ cur' = [cur EXCEPT ![i] = NoMessage]
  /\ UNCHANGED <<row, dlq, life, recovered, todo, batch, held, faults, torn>>
ToDlqUpdate(i) ==
  /\ Live(i) /\ pc[i] = "bury"
  /\ row' = [row EXCEPT ![cur[i].seq].state = IF Matches(cur[i]) THEN "dead" ELSE @]
  /\ pc' = [pc EXCEPT ![i] = "idle"]
  /\ cur' = [cur EXCEPT ![i] = NoMessage]
  /\ UNCHANGED <<dlq, life, recovered, todo, batch, held, faults, torn>>

\* An UPDATE or INSERT of nack or to_dlq raises: nothing more is written, and the
\* caller has the message again.  OutboundConsumer nacks what to_dlq failed on
\* (outbound_consumer.py:213-218), and drops what nack failed on.
SettleRaises(i) ==
  /\ Live(i) /\ pc[i] \in {"nack", "wrap", "bury"}
  /\ faults < MaxFaults
  /\ faults' = faults + 1
  /\ torn' = Torn(i, "bury", cur[i].seq)
  /\ held' = [held EXCEPT ![i] = @ \cup {cur[i]}]
  /\ pc' = [pc EXCEPT ![i] = "idle"]
  /\ cur' = [cur EXCEPT ![i] = NoMessage]
  /\ UNCHANGED <<row, dlq, life, recovered, todo, batch>>

\* The caller leaves the message unsettled: an exception outside its handlers,
\* or a nack that itself fails.  Only the lease brings the row back.
Drop(i, m) ==
  /\ Settling(i, m)
  /\ held' = [held EXCEPT ![i] = @ \ {m}]
  /\ UNCHANGED <<row, dlq, life, pc, recovered, todo, batch, cur, faults, torn>>

-----------------------------------------------------------------------------
PullStep(i) == \/ Pull(i) \/ Reclaim(i) \/ DeadLetterRow(i) \/ FileDeadLetter(i)
               \/ Select(i) \/ ClaimRow(i) \/ PullReturn(i)

SettleStep(i) == \/ \E m \in held[i] : Ack(i, m) \/ Nack(i, m) \/ ToDlq(i, m) \/ Drop(i, m)
                 \/ NackUpdate(i) \/ ToDlqInsert(i) \/ ToDlqUpdate(i)

Next ==
  \/ Publish
  \/ Tick
  \/ \E i \in Instances :
       \/ Start(i) \/ Crash(i) \/ PullRaises(i) \/ SettleRaises(i)
       \/ PullStep(i) \/ SettleStep(i)

\* The service manager restarts the consumer, its loop polls forever, every
\* message of a batch is handled, and time passes.  Nothing makes anyone
\* publish, crash or fail.
Fairness ==
  /\ WF_vars(Tick)
  /\ \A i \in Instances :
       /\ WF_vars(Start(i))
       /\ WF_vars(PullStep(i) \/ SettleStep(i))

Spec == Init /\ [][Next]_vars /\ Fairness

-----------------------------------------------------------------------------
\* Every variable stays in its domain (the schema of queue_backend.py:240-251
\* and the locals of reclaim, pull, nack and to_dlq).
TypeOK ==
  /\ row \in [Rows -> Row]
  /\ dlq \in [Rows -> Nat]
  /\ life \in [Instances -> {"off", "live", "dead"}]
  /\ pc \in [Instances -> Calls]
  /\ recovered \in [Instances -> BOOLEAN]
  /\ todo \in [Instances -> SUBSET Orphan]
  /\ batch \in [Instances -> SUBSET Rows]
  /\ held \in [Instances -> SUBSET Message]
  /\ cur \in [Instances -> Message]
  /\ faults \in 0..MaxFaults
  /\ torn \in [Rows -> Nat]

\* reclaim's docstring (queue_backend.py:306-308): "attempts is never reset, so
\* a message that is leased and orphaned over and over is dead-lettered at
\* max_attempts".  No row is delivered more often than max_attempts, and a row
\* that waits for delivery always has a delivery left.
RedeliveryBounded ==
  \A s \in Rows :
    /\ row[s].attempts <= MaxAttempts
    /\ row[s].state = "ready" => row[s].attempts < MaxAttempts

\* Consumers that share a subscription overrun the bound, each by one delivery
\* at most: by requeueing from a SELECT made before a peer's last claim.
OverrunBounded ==
  \A s \in Rows : row[s].attempts < MaxAttempts + Cardinality(Instances)

\* Why the bound holds when one process at a time consumes: what a call has read
\* from the table is still so when it writes.
SoleConsumer == \A i, j \in Instances : Live(i) /\ Live(j) => i = j

NotStarted ==
  \A i \in Instances : life[i] = "off" =>
    pc[i] = "idle" /\ todo[i] = {} /\ batch[i] = {} /\ held[i] = {}

RowSound(r) ==
  /\ r.attempts <= MaxAttempts
  /\ r.state = "absent" => r.attempts = 0
  /\ r.state = "ready" => ~Exhausted(r.attempts)
  /\ r.state = "inflight" => r.attempts > 0

Holds(m) == row[m.seq].state = "inflight" /\ Matches(m)

CallSound(i) ==
  /\ pc[i] \in {"reap", "file"} \/ todo[i] = {}
  /\ pc[i] = "claim" \/ batch[i] = {}
  /\ pc[i] \notin {"reap", "file"} \/ held[i] = {}
  /\ \A t \in todo[i] : row[t.seq].state = "inflight" /\ row[t.seq].attempts = t.attempts
  /\ \A s \in batch[i] : row[s].state = "ready"
  /\ \A m \in held[i] : Holds(m)
  /\ pc[i] \in {"nack", "wrap", "bury"} =>
       Holds(cur[i]) /\ \A m \in held[i] : m.seq # cur[i].seq
  /\ pc[i] = "nack" => ~Exhausted(row[cur[i].seq].attempts)

ConsumerInvariant ==
  /\ TypeOK /\ SoleConsumer /\ NotStarted
  /\ \A s \in Rows : RowSound(row[s])
  /\ \A i \in Instances : Live(i) => CallSound(i)

\* A message that was acked is done for good and one that was dead-lettered is
\* never delivered again (ack, to_dlq and the guards of reclaim and pull).
SettledIsFinal ==
  [][\A s \in Rows :
       /\ row[s].state = "done" => row'[s].state = "done"
       /\ row[s].state = "dead" => row'[s].state \in {"dead", "done"}]_vars

\* Several consumers on one subscription can bring a settled message back, but
\* only through the second statement of nack, the one write that names the row
\* by seq without a condition on its state.
ResurrectedOnlyByNack ==
  [][\A s \in Rows :
       Settled(s) /\ row'[s].state \notin {"done", "dead"} =>
         \E i \in Instances : pc[i] = "nack" /\ cur[i].seq = s /\ pc'[i] = "idle"]_vars

\* The ways a dead message can be without its wrapper, and no other: an instance is,
\* or died, between _dead_letter_row's two statements for that row, or the second one
\* raised (the exception leaves pull and poll_once swallows it).
DeadLetterAccounted ==
  \A s \in Rows :
    row[s].state = "dead" /\ dlq[s] = 0 =>
      torn[s] > 0 \/ \E i \in Instances : pc[i] = "file" /\ cur[i].seq = s

\* The instances that died between to_dlq's two statements for the row s.
DiedBurying(s) == {i \in Instances : life[i] = "dead" /\ pc[i] = "bury" /\ cur[i].seq = s}

\* to_dlq files before it settles, so what stops it in between has the message filed
\* again.  Each duplicate on the dead-letter topic costs a death there, or a statement
\* there that raised; expired leases, nacks, retries and restarts alone cost none.
DuplicateFilingAccounted ==
  \A s \in Rows : dlq[s] <= 1 + Cardinality(DiedBurying(s)) + torn[s]

\* However processes die and statements fail, an in-flight message without a
\* holder is never stuck and no message circulates for ever: every published
\* message ends up acked or dead-lettered (the purpose of reclaim and of the
\* attempts bound, queue_backend.py:288-308).
EventuallySettled ==
  \A s \in Rows : (row[s].state # "absent") ~> []Settled(s)

\* What the queue promises its users: bounded at-least-once delivery.
Abstract == INSTANCE AtLeastOnce WITH
  Messages <- Rows,
  Deliveries <- MaxAttempts,
  phase <- [s \in Rows |-> IF row[s].state = "absent" THEN "unsent"
                           ELSE IF Settled(s) THEN "settled" ELSE "pending"],
  delivered <- [s \in Rows |-> row[s].attempts]

\* One consumer process at a time, restarted at will: the backend implements
\* the abstract queue, its bound and its liveness included.
ImplementsAtLeastOnce == Abstract!Spec
=============================================================================
