------------------------------ MODULE OrderPath ------------------------------
(***************************************************************************)
(* The money path of System 2, from an approved order on the outbound      *)
(* queue to a fill confirmation in the outbox: OutboundConsumer.poll_once  *)
(* and _handle (execution/outbound_consumer.py), ExecutionPipeline.process *)
(* (execution/pipeline.py), OandaAdapter.submit (broker/oanda_adapter.py)  *)
(* and _emit_fill (execution/lifecycle.py), one thread that may die        *)
(* between any two of its effects.                                         *)
(*                                                                         *)
(* The queue is the abstract one of AtLeastOnce, which DurableQueue        *)
(* implements.  The broker is external: what it makes of a request, and    *)
(* whether its answer comes back, is its choice.  Messages are numbered in *)
(* the order they are published; Kind, Key, Signal and Instrument give the *)
(* part of their body the path looks at.                                   *)
(***************************************************************************)
EXTENDS Naturals, Sequences, FiniteSets

CONSTANTS
  Last,         \* messages 1..Last are published (bounds the model)
  Kind,         \* message -> "order", "malformed" or "unreadable"
  Keys,         \* the idempotency keys, one per approved order
  Key,          \* message -> its idempotency_key
  Signals,      \* the signal ids
  NoSignal,     \* the order carries no signal_id
  Signal,       \* message -> its signal_id, or NoSignal
  Instrument,   \* key -> its instrument
  MaxAttempts,  \* deliveries of a message before it is dead-lettered
  Prefetch,     \* prefetch: messages per poll
  RetryMax,     \* retry_max: create_order calls per submit
  MaxOpen,      \* MAX_OPEN_POSITIONS of the backup guard
  Verdicts,     \* what validate_fn can do: subset of {"pass", "reject", "raise"}
  Shadow,       \* EXEC_SHADOW
  SlowKeys,     \* keys whose requests the broker may leave undecided for a while
  StartBurst,   \* StartLimitBurst: starts the service manager makes per interval
  MaxFaults     \* crashes and failing pulls (bounds the model)

Messages == 1..Last

ASSUME OrderAssumption ==
  /\ Last \in Nat
  /\ Kind \in [Messages -> {"order", "malformed", "unreadable"}]
  /\ Key \in [Messages -> Keys]
  /\ Keys \cap Signals = {} /\ NoSignal \notin Keys \cup Signals
  /\ Signal \in [Messages -> Signals \cup {NoSignal}]
  /\ MaxAttempts \in Nat \ {0}
  /\ Prefetch \in Nat \ {0}
  /\ RetryMax \in Nat \ {0}
  /\ MaxOpen \in Nat
  /\ Verdicts \subseteq {"pass", "reject", "raise"}
  /\ Shadow \in BOOLEAN
  /\ SlowKeys \subseteq Keys
  /\ StartBurst \in Nat \ {0}
  /\ MaxFaults \in Nat

VARIABLES
  phase, delivered,   \* the queue: see AtLeastOnce
  outcome,    \* message -> what _handle returned for it last ("none" before that)
  late,       \* messages past their TTL when the last poll read its clock
  pc,         \* where the engine's thread stands
  batch,      \* what the poll pulled and has not handled yet
  tries,      \* create_order calls made by this submit
  reply,      \* what became of the last request, before the engine knows
  result,     \* realized_status of the FillResult in hand
  processed,  \* the processed store: keys and signals marked (durable)
  book,       \* the broker: key -> requests by their fate
  open,       \* the broker: keys with an open trade
  managed,    \* position manager: keys of the trades it tracks
  outbox,     \* fill confirmations persisted to the outbox (durable)
  starts,     \* the service manager: starts in the running interval
  faults      \* crashes and failing pulls so far

queueVars == <<phase, delivered, outcome>>
brokerVars == <<book, open>>
callVars == <<tries, reply, result>>
storeVars == <<processed, managed, outbox>>
serviceVars == <<starts, faults>>
vars == <<queueVars, late, pc, batch, callVars, storeVars, brokerVars, serviceVars>>

Queue == INSTANCE AtLeastOnce WITH Deliveries <- MaxAttempts

-----------------------------------------------------------------------------
\* Where the thread stands: before the run loop ("down"), killed by an exception
\* that left poll_once ("raised"), between polls ("idle"), in queue.pull, at the
\* head of _handle, in process, in submit before a read of the broker, before and
\* after create_order, and at each of the writes that follow a result.
Handling == {"handle", "process", "reconcile", "transmit", "answer",
             "mark", "markSignal", "report", "register", "ack"}
Stopped == {"down", "raised"}
Points == Stopped \cup {"idle", "pull"} \cup Handling

Outcomes == {"none", "dead_lettered", "dlq_error", "expired", "duplicate", "parked",
             "exec_error", "rejected_invalid", "rejected_validation",
             "rejected_backup_guard", "shadow", "executed"}
Statuses == {"FILLED", "CANCELLED", "REJECTED"}
Fates == {"filled", "cancelled", "pending", "lost"}
Request == [filled : Nat, cancelled : Nat, pending : Nat]
Fill == [key : Keys, status : Statuses]

msg == Head(batch)
key == Key[msg]

\* The locals of submit and process end with the call.
EndCall == tries' = 0 /\ reply' = "lost" /\ result' = "REJECTED"

\* guard_keys: the order identity and, if there is one, the source signal.
GuardKeys_KeyOnly(m) == {Key[m]}
GuardKeys(m) == {Key[m]} \cup ({Signal[m]} \ {NoSignal})

\* pipeline.processed.seen(key) for one of the guard keys
Seen(m) == GuardKeys(m) \cap processed # {}

\* BackupCorrelationGuard.evaluate on the trades the position manager tracks
GuardRejects(k) ==
  \/ Cardinality(managed) >= MaxOpen
  \/ \E j \in managed : Instrument[j] = Instrument[k]

\* prior_submission_verdict over the transactions that carry the client id
Verdict_CancelFirst(k) ==
  IF book[k].cancelled > 0 THEN "unfilled"
  ELSE IF book[k].filled > 0 THEN "filled"
  ELSE IF book[k].pending > 0 THEN "pending" ELSE "absent"
Verdict(k) ==
  IF book[k].filled > 0 THEN "filled"
  ELSE IF book[k].cancelled > 0 THEN "unfilled"
  ELSE IF book[k].pending > 0 THEN "pending" ELSE "absent"

\* What the broker can make of a request (a FOK market order).
FatesOf(k) == Fates \ (IF k \in SlowKeys THEN {} ELSE {"pending"})

\* An order's requests after one more met its fate; a lost one left no trace.
With(requests, fate) ==
  IF fate = "lost" THEN requests ELSE [requests EXCEPT ![fate] = @ + 1]

\* ... and after an undecided one was decided.
Decided(requests, fate) == With([requests EXCEPT !.pending = @ - 1], fate)

\* _build_fill_result on the answer: a transaction without fill or cancel is
\* reported as a rejection.
StatusOf(fate) == CASE fate = "filled" -> "FILLED"
                    [] fate = "cancelled" -> "CANCELLED"
                    [] fate = "pending" -> "REJECTED"

-----------------------------------------------------------------------------
Init ==
  /\ Queue!Init
  /\ outcome = [m \in Messages |-> "none"]
  /\ late = {}
  /\ pc = "down"
  /\ batch = <<>>
  /\ tries = 0 /\ reply = "lost" /\ result = "REJECTED"
  /\ processed = {}
  /\ book = [k \in Keys |-> [filled |-> 0, cancelled |-> 0, pending |-> 0]]
  /\ open = {}
  /\ managed = {}
  /\ outbox = {}
  /\ starts = 0 /\ faults = 0

\* System 3 (through the bridge) publishes an approved order.
Publish(m) ==
  /\ \A n \in Messages : n < m => phase[n] # "unsent"
  /\ Queue!Send(m)
  /\ UNCHANGED <<outcome, late, pc, batch, callVars, storeVars, brokerVars, serviceVars>>

\* The broker decides a request it had left pending.
BrokerDecides(k) ==
  /\ book[k].pending > 0
  /\ \E fate \in {"filled", "cancelled"} :
       /\ book' = [book EXCEPT ![k] = Decided(@, fate)]
       /\ open' = IF fate = "filled" THEN open \cup {k} ELSE open
  /\ UNCHANGED <<queueVars, late, pc, batch, callVars, storeVars, serviceVars>>

\* The trade's stop-loss or take-profit executes at the broker.
BrokerCloses(k) ==
  /\ k \in open
  /\ open' = open \ {k}
  /\ UNCHANGED <<queueVars, late, pc, batch, callVars, storeVars, book, serviceVars>>

-----------------------------------------------------------------------------
\* The process and its loop.

\* run: startup_reconcile adopts the broker's open trades, but none if the broker
\* cannot be read, and not those it cannot reconcile; then the loop starts.
Up ==
  /\ managed' \in SUBSET open
  /\ pc' = "idle"
  /\ UNCHANGED <<queueVars, late, batch, callVars, processed, outbox, brokerVars, faults>>

\* Restart=on-failure: the unit is started again, StartLimitBurst times at most in
\* one StartLimitIntervalSec.
Restart ==
  /\ pc \in Stopped /\ starts < StartBurst
  /\ starts' = starts + 1
  /\ Up

\* The interval ends while the engine runs.
IntervalEnds ==
  /\ pc \notin Stopped /\ starts > 0
  /\ starts' = 0
  /\ UNCHANGED <<queueVars, late, pc, batch, callVars, storeVars, brokerVars, faults>>

\* The start that used the limit up failed too: the unit is left stopped ...
GivenUp == pc \in Stopped /\ starts = StartBurst

\* ... unless its interval ends in the RestartSec before the next start, or until
\* somebody starts it by hand.
StartAgain ==
  /\ GivenUp
  /\ starts' = 1
  /\ Up

\* The process dies.  Only the queue, the processed store, the outbox and the
\* broker remember anything.
Crash ==
  /\ pc \notin Stopped /\ faults < MaxFaults
  /\ faults' = faults + 1
  /\ pc' = "down" /\ batch' = <<>> /\ managed' = {} /\ EndCall
  /\ UNCHANGED <<queueVars, late, processed, outbox, brokerVars, starts>>

\* CloseSweeper.sweep at the end of a tick: of the trades closed at the broker, those
\* whose close it can establish and emit leave.
Sweep ==
  /\ pc = "idle" /\ ~(managed \subseteq open)
  /\ \E gone \in SUBSET (managed \ open) : managed' = managed \ gone
  /\ UNCHANGED <<queueVars, late, pc, batch, callVars, processed, outbox, brokerVars, serviceVars>>

\* poll_once reads its clock, once for the whole batch, then pulls.  Some messages
\* have meanwhile passed their TTL (expires_at, or ORDER_MAX_AGE_SEC).
StartPoll ==
  /\ pc = "idle"
  /\ pc' = "pull"
  /\ \E older \in SUBSET {m \in Messages : phase[m] = "pending"} : late' = late \cup older
  /\ UNCHANGED <<queueVars, batch, callVars, storeVars, brokerVars, serviceVars>>

\* pull -> reclaim: a message whose last delivery was never settled is dead-lettered.
BuryOrphan_OffByOne(m) ==
  /\ pc = "pull" /\ m \notin {batch[i] : i \in DOMAIN batch}
  /\ delivered[m] > MaxAttempts
  /\ Queue!Settle(m)
  /\ late' = late \ {m}
  /\ UNCHANGED <<outcome, pc, batch, callVars, storeVars, brokerVars, serviceVars>>
BuryOrphan(m) ==
  /\ pc = "pull" /\ m \notin {batch[i] : i \in DOMAIN batch}
  /\ delivered[m] = MaxAttempts
  /\ Queue!Settle(m)
  /\ late' = late \ {m}
  /\ UNCHANGED <<outcome, pc, batch, callVars, storeVars, brokerVars, serviceVars>>

\* pull claims a message: new, nacked earlier, or orphaned by a crash.
Claim(m) ==
  /\ pc = "pull" /\ Len(batch) < Prefetch
  /\ \A i \in DOMAIN batch : batch[i] < m
  /\ Queue!Deliver(m)
  /\ batch' = Append(batch, m)
  /\ UNCHANGED <<outcome, late, pc, callVars, storeVars, brokerVars, serviceVars>>

\* pull returns; the messages that are backing off were not selected.
Pulled ==
  /\ pc = "pull"
  /\ pc' = IF batch = <<>> THEN "idle" ELSE "handle"
  /\ UNCHANGED <<queueVars, late, batch, callVars, storeVars, brokerVars, serviceVars>>

\* pull raises: poll_once reports an empty poll; what was claimed is orphaned.
PullError ==
  /\ pc = "pull" /\ faults < MaxFaults
  /\ faults' = faults + 1
  /\ pc' = "idle" /\ batch' = <<>>
  /\ UNCHANGED <<queueVars, late, callVars, storeVars, brokerVars, starts>>

-----------------------------------------------------------------------------
\* Leaving the message at the head of the batch.

NextMessage ==
  /\ batch' = Tail(batch)
  /\ pc' = IF Len(batch) = 1 THEN "idle" ELSE "handle"
  /\ EndCall

\* msg.ack(), or a terminal msg.to_dlq(); how is what _handle returns
Ack(how) ==
  /\ Queue!Settle(msg)
  /\ outcome' = [outcome EXCEPT ![msg] = how]
  /\ late' = late \ {msg}
  /\ NextMessage

\* msg.nack(park_backoff_sec): back to the queue, or to its dead-letter topic
\* once the deliveries are used up.
Nack(how) ==
  IF delivered[msg] >= MaxAttempts
  THEN Ack(how)
  ELSE /\ outcome' = [outcome EXCEPT ![msg] = how]
       /\ NextMessage
       /\ UNCHANGED <<phase, delivered, late>>

-----------------------------------------------------------------------------
\* _handle, up to the hand-over to the pipeline.

\* Envelope validation failed: to_dlq, or nack if filing fails.
HandleMalformed ==
  /\ pc = "handle" /\ Kind[msg] = "malformed"
  /\ Ack("dead_lettered") \/ Nack("dlq_error")
  /\ UNCHANGED <<storeVars, brokerVars, serviceVars>>

\* TTL: judged by the clock of the poll.
DropExpired ==
  /\ pc = "handle" /\ Kind[msg] # "malformed" /\ msg \in late
  /\ Ack("expired")
  /\ UNCHANGED <<storeVars, brokerVars, serviceVars>>

ToBeHandled == pc = "handle" /\ Kind[msg] # "malformed" /\ msg \notin late

\* ApprovedOrder.from_dict raises outside every handler: the exception leaves
\* poll_once, tick and run, and the process ends.
HandleUnreadable ==
  /\ ToBeHandled /\ Kind[msg] = "unreadable"
  /\ pc' = "raised" /\ batch' = <<>> /\ managed' = {}
  /\ UNCHANGED <<queueVars, late, callVars, processed, outbox, brokerVars, serviceVars>>

AckDuplicate ==
  /\ ToBeHandled /\ Kind[msg] = "order" /\ Seen(msg)
  /\ Ack("duplicate")
  /\ UNCHANGED <<storeVars, brokerVars, serviceVars>>

\* Out of session, or the safety monitor is PAUSED.
Park ==
  /\ ToBeHandled /\ Kind[msg] = "order" /\ ~Seen(msg)
  /\ Nack("parked")
  /\ UNCHANGED <<storeVars, brokerVars, serviceVars>>

Admit ==
  /\ ToBeHandled /\ Kind[msg] = "order" /\ ~Seen(msg)
  /\ pc' = "process"
  /\ UNCHANGED <<queueVars, late, batch, callVars, storeVars, brokerVars, serviceVars>>

-----------------------------------------------------------------------------
\* ExecutionPipeline.process, up to the broker.  It opens with the consumer's own
\* check, ~Seen(msg): nothing marks a message between the two, so the branch that
\* acks a duplicate here is never taken and has no action.

\* Decisions that are acked without an order at the broker and without a mark.
ProcessRejects ==
  /\ pc = "process" /\ ~Seen(msg)
  /\ \/ Ack("rejected_invalid")      \* no usable price, or stops that cannot be built
     \/ "reject" \in Verdicts /\ Ack("rejected_validation")
     \/ "pass" \in Verdicts /\ GuardRejects(key) /\ Ack("rejected_backup_guard")
     \/ "pass" \in Verdicts /\ ~GuardRejects(key) /\ Shadow /\ Ack("shadow")
  /\ UNCHANGED <<storeVars, brokerVars, serviceVars>>

\* An exception before the broker is involved (price_fn, validate_fn, a payload
\* whose stops round to something illegal), or a session that ended meanwhile.
ProcessFails ==
  /\ pc = "process" /\ ~Seen(msg)
  /\ Nack("exec_error")
  /\ UNCHANGED <<storeVars, brokerVars, serviceVars>>

\* submit_fn(constructed)
Submit ==
  /\ pc = "process" /\ ~Seen(msg)
  /\ "pass" \in Verdicts /\ ~GuardRejects(key) /\ ~Shadow
  /\ pc' = "reconcile" /\ tries' = 0
  /\ UNCHANGED <<queueVars, late, batch, reply, result, storeVars, brokerVars, serviceVars>>

-----------------------------------------------------------------------------
\* OandaAdapter.submit: read the broker, send, read again after a transient
\* error, and only then send again.

\* The id is at the broker with a fill: that is the result.
ReconcileFilled_Dropped ==
  /\ pc = "reconcile" /\ Verdict(key) = "filled"
  /\ Ack("duplicate")
  /\ UNCHANGED <<storeVars, brokerVars, serviceVars>>
ReconcileFilled ==
  /\ pc = "reconcile" /\ Verdict(key) = "filled"
  /\ pc' = "mark" /\ result' = "FILLED" /\ tries' = 0
  /\ UNCHANGED <<queueVars, late, batch, reply, storeVars, brokerVars, serviceVars>>

\* The read fails, the id is there without an outcome, the confirmation of the
\* stops of a reconciled fill raises, or the last create_order failed too.
ReconcileRaises ==
  /\ pc = "reconcile"
  /\ Nack("exec_error")
  /\ UNCHANGED <<storeVars, brokerVars, serviceVars>>

\* Nothing of this order is at the broker: create_order may be called.
ReconcileAbsent_Blind ==
  /\ pc = "reconcile" /\ tries < RetryMax
  /\ pc' = "transmit"
  /\ UNCHANGED <<queueVars, late, batch, callVars, storeVars, brokerVars, serviceVars>>
ReconcileAbsent_OffByOne ==
  /\ pc = "reconcile" /\ Verdict(key) \in {"absent", "unfilled"} /\ tries <= RetryMax
  /\ pc' = "transmit"
  /\ UNCHANGED <<queueVars, late, batch, callVars, storeVars, brokerVars, serviceVars>>
ReconcileAbsent ==
  /\ pc = "reconcile" /\ Verdict(key) \in {"absent", "unfilled"} /\ tries < RetryMax
  /\ pc' = "transmit"
  /\ UNCHANGED <<queueVars, late, batch, callVars, storeVars, brokerVars, serviceVars>>

\* create_order reaches the broker, or does not.
Transmit ==
  /\ pc = "transmit"
  /\ \E fate \in FatesOf(key) :
       /\ reply' = fate
       /\ book' = [book EXCEPT ![key] = With(@, fate)]
       /\ open' = IF fate = "filled" THEN open \cup {key} ELSE open
  /\ tries' = tries + 1
  /\ pc' = "answer"
  /\ UNCHANGED <<queueVars, late, batch, result, storeVars, serviceVars>>

\* The answer comes back (a closed market included): the result is known.
Answered ==
  /\ pc = "answer" /\ reply # "lost"
  /\ result' = StatusOf(reply)
  /\ tries' = 0 /\ reply' = "lost"
  /\ pc' = "mark"
  /\ UNCHANGED <<queueVars, late, batch, storeVars, brokerVars, serviceVars>>

\* 429 or 5xx, whatever the broker did: reconcile before anything else.
AnswerTransient_Resend ==
  /\ pc = "answer"
  /\ pc' = IF tries < RetryMax THEN "transmit" ELSE "reconcile"
  /\ reply' = "lost"
  /\ UNCHANGED <<queueVars, late, batch, tries, result, storeVars, brokerVars, serviceVars>>
AnswerTransient_Rejected ==
  /\ pc = "answer"
  /\ pc' = IF tries < RetryMax THEN "reconcile" ELSE "mark"
  /\ reply' = "lost"
  /\ UNCHANGED <<queueVars, late, batch, tries, result, storeVars, brokerVars, serviceVars>>
AnswerTransient ==
  /\ pc = "answer"
  /\ pc' = "reconcile"
  /\ reply' = "lost"
  /\ UNCHANGED <<queueVars, late, batch, tries, result, storeVars, brokerVars, serviceVars>>

\* Any other exception of the transport, or of the confirmation of the stops:
\* it leaves submit, and the consumer nacks.
AnswerRaises ==
  /\ pc = "answer"
  /\ Nack("exec_error")
  /\ UNCHANGED <<storeVars, brokerVars, serviceVars>>

-----------------------------------------------------------------------------
\* process, once the broker has answered: mark every guard key, then the hooks.

MarkKey ==
  /\ pc = "mark"
  /\ processed' = processed \cup {key}
  /\ pc' = IF Signal[msg] = NoSignal THEN "report" ELSE "markSignal"
  /\ UNCHANGED <<queueVars, late, batch, callVars, managed, outbox, brokerVars, serviceVars>>

MarkSignal ==
  /\ pc = "markSignal"
  /\ processed' = processed \cup {Signal[msg]}
  /\ pc' = "report"
  /\ UNCHANGED <<queueVars, late, batch, callVars, managed, outbox, brokerVars, serviceVars>>

\* persist_fn, then publish_fill's first write: the confirmation is in the outbox.
Report ==
  /\ pc = "report"
  /\ outbox' = outbox \cup {[key |-> key, status |-> result]}
  /\ pc' = "register"
  /\ UNCHANGED <<queueVars, late, batch, callVars, processed, managed, brokerVars, serviceVars>>

\* flush returned: a fill is registered with the position manager.
Register ==
  /\ pc = "register"
  /\ managed' = IF result = "FILLED" THEN managed \cup {key} ELSE managed
  /\ pc' = "ack"
  /\ UNCHANGED <<queueVars, late, batch, callVars, processed, outbox, brokerVars, serviceVars>>

\* The processed store or a post-fill hook raises (a store is locked, the outbox is
\* not writable, flush cannot pull): nack.
WriteRaises ==
  /\ pc \in {"mark", "markSignal", "report", "register"}
  /\ Nack("exec_error")
  /\ UNCHANGED <<storeVars, brokerVars, serviceVars>>

AckExecuted ==
  /\ pc = "ack"
  /\ Ack("executed")
  /\ UNCHANGED <<storeVars, brokerVars, serviceVars>>

-----------------------------------------------------------------------------
Handle == HandleMalformed \/ DropExpired \/ HandleUnreadable \/ AckDuplicate \/ Park \/ Admit

Process == ProcessRejects \/ ProcessFails \/ Submit

SubmitStep == \/ ReconcileFilled \/ ReconcileRaises \/ ReconcileAbsent
              \/ Transmit \/ Answered \/ AnswerTransient \/ AnswerRaises

PostFill == MarkKey \/ MarkSignal \/ Report \/ Register \/ WriteRaises \/ AckExecuted

EngineStep == Restart \/ StartPoll \/ Pulled \/ Handle \/ Process \/ SubmitStep \/ PostFill

Environment ==
  \/ \E m \in Messages : Publish(m)
  \/ \E k \in Keys : BrokerDecides(k) \/ BrokerCloses(k)

Next ==
  \/ EngineStep
  \/ \E m \in Messages : Claim(m) \/ BuryOrphan(m)
  \/ Sweep \/ Crash \/ PullError \/ IntervalEnds \/ StartAgain
  \/ Environment

\* The service manager restarts the engine within its limit, the loop never stops,
\* and polls that find a ready message again and again do not all come back without
\* one.  The broker, the operator and the rest of the world owe nothing.
Fairness ==
  /\ WF_vars(EngineStep)
  /\ SF_vars(\E m \in Messages : Claim(m) \/ BuryOrphan(m))

Spec == Init /\ [][Next]_vars /\ Fairness

-----------------------------------------------------------------------------
TypeOK ==
  /\ phase \in [Messages -> {"unsent", "pending", "settled"}]
  /\ delivered \in [Messages -> 0..MaxAttempts]
  /\ outcome \in [Messages -> Outcomes]
  /\ late \subseteq Messages
  /\ pc \in Points
  /\ batch \in Seq(Messages)
  /\ pc \in Handling => batch # <<>>
  /\ tries \in 0..RetryMax
  /\ pc = "transmit" => tries < RetryMax
  /\ pc = "markSignal" => Signal[msg] # NoSignal
  /\ reply \in Fates
  /\ result \in Statuses
  /\ processed \subseteq Keys \cup Signals
  /\ book \in [Keys -> Request]
  /\ open \subseteq Keys
  /\ managed \subseteq Keys
  /\ outbox \subseteq Fill
  /\ starts \in 0..StartBurst
  /\ faults \in 0..MaxFaults

Prompt == Keys \ SlowKeys
Reported(k) == \E r \in outbox : r.key = k

\* "The same approved order produces exactly one broker order", "replaying the
\* same outbound message never produces a second" (docs/README.md:37,46): whatever
\* is redelivered, replayed, retried or crashes, an order whose requests the broker
\* decides at once is filled once at most.
AtMostOneFill == \A k \in Prompt : book[k].filled <= 1

\* What the outbox says of an order is what happened at the broker, also after
\* every later retry and redelivery.
TruthfulReport ==
  \A r \in outbox : r.key \in Prompt =>
    (r.status = "FILLED" <=> book[r.key].filled > 0)

\* Once an order or its signal is marked, nothing sends a request for it.
NeverSentOnceMarked ==
  [][pc = "transmit" /\ pc' = "answer" => {key, Signal[msg]} \cap processed = {}]_vars

\* An undecided request is never followed by another one, unless the broker had
\* cancelled an earlier one (submit, PRIOR_PENDING).
NoSecondWhilePending ==
  [][pc = "transmit" /\ pc' = "answer" =>
       book[key].pending = 0 \/ book[key].cancelled > 0]_vars

\* The windows in which a fill goes unreported, and no other: a delivery of the order
\* is still to come, the last one found it marked (by a call that stopped or failed
\* before the outbox), or it expired, was rejected or ran out of attempts although
\* an earlier one had filled.  A delivery that ended "executed" has reported it.
FillAccounted ==
  \A k \in Prompt :
    book[k].filled > 0 /\ ~Reported(k) =>
      \E m \in Messages :
        /\ Key[m] = k
        /\ \/ phase[m] = "pending"
           \/ outcome[m] = "duplicate" /\ Seen(m)
           \/ outcome[m] \notin {"executed", "duplicate", "shadow"}

\* guard_keys' docstring (pipeline.py:363-367): "if it ever re-mints one, the order
\* id stops deduping while the signal still does [...] One approved signal => at
\* most one broker order, by construction".
OneOrderPerSignal ==
  \A m, n \in Messages :
    Signal[m] = Signal[n] /\ Signal[m] # NoSignal /\ Key[m] # Key[n] =>
      book[Key[m]].filled = 0 \/ book[Key[n]].filled = 0

\* "After every execution attempt [...] System 2 tells System 3 what actually
\* happened at the broker" (fill_producer.py:3-4), "at-least-once delivery, never
\* lost on crash" (README.md:34-35).
FillReported ==
  \A k \in Keys :
    book[k].filled > 0 /\ (\A m \in Messages : Key[m] = k => phase[m] = "settled") =>
      Reported(k)

\* "It stops submitting new orders (they park on the queue, not lost)"
\* (RUNBOOK.md:57-58): an order does not leave the queue because it was parked.
ParkedNotLost == \A m \in Messages : outcome[m] = "parked" => phase[m] # "settled"

\* What System 3 was told of an order, to date.
Told(k) == IF [key |-> k, status |-> "FILLED"] \in outbox THEN "filled"
           ELSE IF Reported(k) THEN "refused" ELSE "nothing"

\* The money path gives System 3 what AtMostOnce promises.
Promise == INSTANCE AtMostOnce WITH
  Orders <- Prompt,
  fills <- [k \in Prompt |-> book[k].filled],
  told <- [k \in Prompt |-> Told(k)]

ImplementsAtMostOnce == Promise!Spec

\* Nothing circulates for ever: every message is settled, however the engine dies
\* over it (a message no handler survives ends on the dead-letter topic), unless the
\* service manager gives the engine up and nobody starts it again.
OrdersSettle == ([]<>~GivenUp) => Queue!Settlement
=============================================================================
