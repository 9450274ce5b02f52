# System 2 execution engine: TLA+ specifications

System 2 executes orders that System 3 (the risk manager, "AMS", "Guardian") has approved. It takes
them from a durable queue, submits them to OANDA, reports the fills back, manages the open trades,
and keeps a regime model up to date. This directory holds TLA+ models of that engine, the TLC
configurations that check them and TLAPS proofs about them. Paths in this file are relative to the
repository; Python modules are under `src/system2/`.

## 1. The system: inventory

One Python process, `ExecutionRuntime.run`, drives everything in one thread, tick by tick:
`SafetyMonitor.evaluate`, `OutboundConsumer.poll_once`, `PositionManager.evaluate_all`,
`CloseSweeper.sweep`. Beside it run the regime scheduler (a thread), the telemetry server (a
thread), the artifact downloader (a process of its own), and whatever operator tooling calls the
safety monitor. They share an SQLite queue file, a processed store, an outbox, a ledger of emitted
closes, a directory of model sets, and the broker.

| Component | State | Operations | Hard behaviour | What makes it correct |
|---|---|---|---|---|
| Durable queue (`common/queue_backend.py`) | rows: state, attempts, ack id, lease, backoff; dead-letter topic | publish, reclaim, pull, ack, nack, to_dlq | several processes, autocommit between statements, crash with messages in hand, leases | delivered at least once and `max_attempts` times at most; settled for good; a dead message is filed |
| Outbound consumer (`execution/outbound_consumer.py`) | lag marks, processed store | poll_once, _handle, heartbeats | redelivery, TTL, one clock reading per batch, exceptions | no decision lost, nothing circulates for ever |
| Execution pipeline (`execution/pipeline.py`) | none of its own | process, guard_keys, build_order | mark between submit and hooks; crash anywhere | one fill per approved order; report equals reality |
| Broker adapter (`broker/oanda_adapter.py`, `oanda_transport.py`) | none (the broker's transactions) | submit, reconcile, quantise, confirm and repair stops, modify, close | answers lost, undecided orders, retries, three ways to round a price | a request is repeated only when nothing came of the last; the resting stop is the approved one |
| Fill producer, recorder (`execution/fill_producer.py`, `trade_recorder.py`) | outbox | publish_fill, flush, emit_control, record | crash between outbox and publish | every confirmation reaches System 3 |
| Safety mode (`execution/safety_mode.py`) | RUNNING, PAUSED, BYPASS; marks | record_heartbeat, evaluate, can_submit, request/exit_bypass | replayed, late, misdated evidence; operator's thread; slow ticks | no new risk without a recent sign of System 3; no flapping; BYPASS bounded |
| Runtime (`execution/lifecycle.py`) | stop flag | tick, startup_reconcile, run, shutdown, flatten | crash, stop in the middle | open trades are adopted, fills flushed |
| Position manager (`broker/position_manager.py`) | tracked trades | register, on_tick, close | failing broker calls, lost answers, restarts that know only the broker's stop | stops only tighten; a trade is given up only when it is closed and announced |
| Close tracking (`execution/close_tracker.py`) | ledger, close outbox | sweep, emit, resolve from transactions, flatten | effects on outbox, ledger and broker that a death can part; a backfill tool beside the engine; details that lag the list; a bounded scan | one truthful close event per closed trade, and it arrives |
| Artifact downloader (`artifact_sync/downloader.py`) | sets, `active` and `last_good` links, state.json | poll_once, promote, rollback, withdrawal | crash between flips and state write | the recorded set is whole on disk; what is published is taken up |
| Regime detector, scheduler (`artifact_sync/live_regime.py`, `regime_scheduler.py`) | cached bundle, debouncer | load_bundle, detect | links that move under a load; stale cache against a swap or a withdrawal | an observation is stamped with the set it was made with; no withdrawn set is loaded |
| Features, candles, mapping; telemetry; db, storage, secrets, logging; tools | - | pure computation, read-only views, I/O | - | - |

The hazards in this code, each at its line, with the properties that would catch them, are listed
in `PROJECT.json`.

## 2. What is modelled, and how

```
AtMostOnce   (what System 3 relies on)        AtLeastOnce   (what the queue promises)
     ^ implemented by                            ^ used by         ^ implemented by
     +------------------- OrderPath -------------+           DurableQueue
                             |                                     |
                       OrderPathProofs                     DurableQueueProofs

CloseJournal   (what System 3 may conclude from close events)
     ^ implemented by
CloseTracking ------------- CloseTrackingProofs

SafetyMode      ----------- SafetyModeProofs
ModelSets       ----------- ModelSetsProofs
ProtectiveStop  ----------- ProtectiveStopProofs
```

The modules meet at named points. OrderPath ends where a fill has been answered; CloseTracking
begins there (`Filled`, `Redelivered`) and goes on to the close event. Both leave through an outbox
that is a topic of the queue DurableQueue models; CloseTracking keeps of it that a row not yet done
may be sent, by whoever flushes. ProtectiveStop follows the prices of one position along the same
path, and takes "sent once" from OrderPath and "closed" from CloseTracking.

**`DurableQueue`** is `LocalDurableBackend`. Every SQLite statement autocommits, so a step is one
statement: `Pull` (the SELECT of `reclaim`), `Reclaim`, `DeadLetterRow` and `FileDeadLetter` (its
two statements), `Select`, `ClaimRow`, `Ack`, `Nack` and `NackUpdate`, `ToDlqInsert` and
`ToDlqUpdate`. Between any two of them another process may act, time may pass, or the process may
die (`Crash`); any statement of `pull` (the wrapper INSERT of `_dead_letter_row` too), `nack` and
`to_dlq` may raise, and the consumer lives on (`PullRaises`, `SettleRaises`); a caller may leave a
message unsettled (`Drop`). `row` is the table, `todo`, `batch`, `cur` are the locals of the calls,
and `held` what the caller has been given; `torn` is history: how often the second statement of
`_dead_letter_row` or of `to_dlq` raised for a message. The `uuid4` ack id is represented by the
number of the claim. Several topics of one file do not interact except through `dlq`.

**`AtLeastOnce`** is the queue as its users see it: sent, delivered at most `Deliveries` times,
settled in the end.

**`OrderPath`** is the money path: `poll_once`, `_handle`, `process`, `submit`, `_emit_fill`, one
thread, over the abstract queue. `pc` is where the thread stands; each write to something durable
(queue, processed store, outbox) and each exchange with the broker is a step of its own, so that a
crash can come before or after it. The broker decides the fate of a request (`Transmit`: filled,
cancelled, left pending, or lost on the way) and, separately, whether the answer comes back
(`Answered`, `AnswerTransient`, `AnswerRaises`). `prior_submission_verdict` is `Verdict`, on counts
of transactions per client order id. What an order contains is reduced to its key, its signal, its
instrument and whether it can be read at all (`Kind`); what the validations say is the constant
`Verdicts`. The service manager restarts a stopped engine at most `StartBurst` times per interval
and then leaves it (`GivenUp`) until somebody starts it by hand (`StartAgain`); that an operator
stops the engine on purpose is not modelled. `fate = "pending"` with an answer is a response that
holds a create transaction only. A partial fill counts as a fill, and a closed market as a cancelled
request.

**`AtMostOnce`** is the contract of that path: an order is filled once at most, it is reported
once, truthfully, and for good.

**`SafetyMode`** is `SafetyMonitor` under the tick of the runtime. Points in time are kept as ages
that saturate where no comparison of the code can tell them apart. `freshAge` is `_fresh_at`'s mark:
the later of the two marks decides every verdict, and a message can only move it forward (`Credit`),
so one variable and the flag `marked` stand for `last_message_at`, `_last_heartbeat_at` and
`_started_at`. Heartbeats and orders stay in their sets after handling when the queue delivers them
again; stamps may be ahead of our clock by `Skew`. An order is what is left of its life, which is
all that `is_expired` looks at: the TTL from its timestamp, or an expires_at up to `MaxLife` ahead,
which wins over the TTL, or no end at all if it carries no timestamp (`Forever`; `Undated` says
whether such orders occur). Orders are judged by the clock reading of the poll (`tickAge` old),
heartbeats by the clock. `undatedAge` is history: how long ago an order that never expires was
credited. BYPASS may be requested or left at any moment, also in the middle of a batch.

**`CloseTracking`** is the way from a fill to the close event: `_emit_fill` with `publish_fill` and
`register`, `CloseSweeper.sweep` with its transaction fallback, `CloseEmitter.emit`, `flush`,
`close_trade` from a time exit or from shutdown's flatten, `startup_reconcile`, and
`tools/backfill_closes.py`. `stream` is the account's list of transactions, and a trade's id is its
opening transaction. `managed` is `PositionManager.trades` (lost in a crash, adopted again from the
open trades and the fill confirmations in the outbox); `outbox`, `ledger` and `processed` survive.
Each of the two actors, engine and backfill, has a place (`at`), a place to go on from after an
emission or a flush (`back`), the close it is busy with (`job`) and the row it has published but not
acked (`sent`). A step is one effect on something that outlives the process, or one answer of the
broker. The list of open trades lags both ways: it may miss a trade that is open and hold one that
is closed (`OpenLists`). The details of a trade may lag it too, or be of no use, and then the
transactions are scanned (`Located`, with the page size and the bound of `iter_transactions`), or
the trade is left for later: the throttle of `_fallback_due` is a free choice between the two. The
check of the ledger (`FindUnmarked`), the outbox write (`PersistClose`) and the mark (`MarkLedger`)
are three steps, since they are three transactions on two files. `Startup` may fail to read the fill
confirmations. Four histories name what the properties except: `dropped` (trades whose forced close
this run gave up without an event), `torn` (a close persisted and not marked at once, or two
emitters of it between check and mark), `hasty` (trades whose transactions were asked for while they
were still open) and `unread` (trades adopted while their confirmation could not be read). Any
topic's rows can be sent by any flush of that topic, whoever wrote them.

**`CloseJournal`** is System 3's view of a trade: unopened; open, reduced (in part closed) or closed
at the broker; told (closed, as System 3 knows) or misled (told while part of it is still open). It
never hears of a close of a trade of which the broker closed nothing, and never unlearns what it
heard.

**`ModelSets`** is the artifact root under two processes. The downloader's poll is
`RecordWithdrawal`, `WriteBack` (a fetch that fails, or nothing new) or `FetchManifest`, and then
`_promote` one file system operation at a time: `ClearOld` (an old copy is removed), `MoveIn`,
`KeepPrevious` (`last_good`), `FlipActive`, `RecordActive` (state.json). It may die between any two
(`Die`); `Rollback` and `RecordRollback` are the two writes of `rollback_to_last_good`. Every step
of either process that reads state.json takes what it read as a parameter: the record, or `Unread`,
the empty state that `_read_state` returns when the read fails. The downloader goes on from that
state and writes it back; the detector takes it for no withdrawal. The detector's `detect` is
`ServeCached` or a load: `StartLoad`, `CheckWithdrawal`, `LoadActive`, `LoadLastGood`,
`StampBundle`, each one read of the disk, then `Observe`. `seen` is the set id read at the start,
`stamp` the one read at the end, and `bundle` the set the files really came from, which the program
cannot see. A set in `Unloadable` passes its checksums and fails the detector's contract, which is
what `last_good` is for. History: `barred` (a withdrawal is recorded, no set was activated since and
no state lost), `held` (the load in progress began while barred and read the flag), `moved` and
`mixed` (the root moved under the last load, under the load of the bundle), `blind` (the poll in
progress could not read which set is active) and `torn` (a blind poll removed the recorded set, or a
rollback took a half removed one).

**`ProtectiveStop`** is the life of the protective prices of one position: constructed and gated
(`Submit`), quantised to the instrument's grid towards the entry (`quantize_price`), filled
somewhere else, confirmed, repaired or left unread (`Confirm`), adopted after a restart from what
the broker has, moved to breakeven and trailed (`Breakeven`, `Trailing`). Prices are integers, the
instrument's grid the multiples of `Tick`, and `defaultTick` the step that `format_price` assumes
for the instrument when it is given no precision, as it is for a repair and for a move. `mem` is the
engine's record, `stop` the broker's, and `report` what the result of the submit says: a stop, or
that the trade is unsafe. A trade that could not be read is reported like one whose stop was
confirmed, as the code has it; `unread` is the history that tells the two apart. `behind` is history
too: the answer to a move was lost, or a redelivery registered an unread trade with its order's
stop.

`MCOrderPath` holds the message sets of OrderPath's runs. Definitions whose name has an underscore
are the mutated forms listed in `PROJECT.json`; each one makes TLC report the property it is listed
for.

## 3. Runs

| Run | Instance | Shows |
|---|---|---|
| `queue_one_consumer` | 2 messages, 2 instances one after the other, 3 deliveries, batches of 2, lease 1, backoff 0 or 1, 1 failing statement | `RedeliveryBounded`, `SettledIsFinal`, `DeadLetterAccounted`, `DuplicateFilingAccounted`, `ImplementsAtLeastOnce` |
| `queue_shared` | 1 message, 3 instances at once, 2 deliveries, backoff 1, no failing statement | `OverrunBounded`, `ResurrectedOnlyByNack`, `EventuallySettled` |
| `order_path` | 2 orders of one signal and instrument, 2 deliveries, batches of 2, 2 sends per submit, one order whose requests may stay pending, 1 crash or failed pull, 1 restart per interval | `AtMostOneFill`, `TruthfulReport`, `FillAccounted`, `NeverSentOnceMarked`, `NoSecondWhilePending`, `ImplementsAtMostOnce` |
| `order_poison` | an order between an unreadable and a malformed message, validation may reject, 2 deliveries and 1 restart per interval | `OrdersSettle` |
| `order_remint`, `order_unreported`, `order_parked` | 2 orders, no crash | violations, see section 6 |
| `safety_mode` | limit 4, hysteresis 1, TTL 2, an expires_at up to 5 ahead, undated orders, window 3, skew 1, ticks up to 2 long, a heartbeat and an order in the queue at a time | `RunningOnEvidence`, `BypassBounded`, `NoFlapping`, `DarkPauses`, `FreshResumes` |
| `closes` | 4 transactions, pages of 1 and a scan of 3, flatten and time exits on, an open list and details that lag, 1 crash, failing write or read, or backfill | `TruthfulClose`, `OneEventPerClose`, `SilenceAccounted`, `DurableFirst`, `IdentityKept`, `ImplementsCloseJournal`, `ClosesReachSystem3` |
| `model_sets` | 3 sets, one of them not loadable, 3 changes of the pointer, 2 deaths, rollbacks, restarts or failing reads of state.json | `RecordedIsWhole`, `StampHonest`, `WithdrawnNeverReloaded`, `PublishedIsServed` |
| `protective_stop` | prices up to 12, a grid of 4 with defaults of 2 or 4, a buffer of 1, a trail of 3, slippage of 2 | `ProtectedAsApproved`, `StopOnlyTightens` |
| `safety_silence` | the same as `safety_mode`, BYPASS off, clocks in step, no expires_at in the future and no undated order | violation, see section 6 |

**Bounds.** `MaxRows` and `Last` bound what is ever published; two messages already give a batch in
which the second is handled on a clock reading and after effects of the first, and rows interact
only through the batch. `Instances` bounds how many lives the consumer has: three instances let a
row be claimed, lost and claimed again by a third. Two or three deliveries separate the first, a
middle and the last one. `MaxFaults` bounds crashes and failing pulls in `OrderPath` and failing
statements in `DurableQueue`, whose crashes are bounded by `Instances`. `StartBurst` is below
`MaxAttempts` where the service manager matters (`order_path`, `order_poison`), as 3 starts are
below 5 deliveries in deployment. The ages of `SafetyMode` are chosen so that limit, limit minus
hysteresis, TTL and window all differ and a tick can straddle each of them, and so that an
expires_at can outlast the limit. Four transactions and `MaxActivity` = 5 (an opening weighs twice)
give two trades at once, or one that is closed in parts, with one part inside the scan and the close
past it (`Horizon`); one upset is enough for a torn close, a lost identity or two emitters of one
close. Production passes no price source and a `max_duration` of 0, so that `on_tick` closes nothing
there; the run switches time exits on, because the code has them. Three sets are an active one, a
previous one and a new one, and three changes of the pointer let a set come back or be withdrawn in
between; two upsets are a death and the rollback, restart or failing read behind it. The grid of
`protective_stop` has prices on, halfway between and off the steps, on both sides of the entry;
buffer, trail and slippage are none of them multiples of it. What the bounds leave open for safety
is closed by the proofs, which have none of them.

**Fairness.** DurableQueue: the service manager starts an instance that is off, the loop of a live
one goes on polling and handling, and time passes. Nobody is obliged to publish, crash or fail. Its
crashes are those of the machine, not a message's doing; the start limit of the service manager is
modelled where a message can kill the process again and again, in OrderPath. OrderPath: the engine's
own steps, its restart within the service manager's start limit, and strong fairness of the claim: a
ready message is found again and again, so polls that all come back without it would mean the
backoff never ends. The start limit (3 in 120 s, `deploy/system2.service:24-28`) is below
`max_attempts`, so an engine that dies over one message is given up before its deliveries are spent,
and nobody is obliged to start it again: `OrdersSettle` promises settlement only if the engine is
not given up for good. SafetyMode: ticks start and end, and time passes. Operators, the broker and
System 3 owe nothing. `DarkPauses` therefore assumes in its premise that nobody keeps the engine in
BYPASS and that no order without a timestamp is left in the queue, and `FreshResumes` that evidence
does keep coming. CloseTracking: the loop of a live engine goes on (weak), and three answers asked
for again and again come some time (strong): a list of open trades that leaves out the closed ones,
one publish, and, for a vanished trade whose fallback is due, the transactions. `get_trade` owes
nothing: it may answer 404 for ever, as it did in the incident of `close_tracker.py:23-32`. What the
assumption does exclude is a broker that lists a closed trade as open for ever, or whose
transactions can never be read; a close past the bound of the scan is found by `get_trade` or by
nobody, and `Owed` leaves it out. Nobody restarts the engine, which is why `ClosesReachSystem3` is
satisfied while it is down. ModelSets: both loops go on (weak), with a downloader whose read of
state.json and whose download come to succeed; an observation tried again and again succeeds
(strong). A set whose checksums never match and an instrument without candles are never served by
any code. The publisher, deaths, rollbacks and restarts owe nothing.

## 4. Proofs

All theorems hold for every value of the constants that meets the named assumption of the module.

**`DurableQueueProofs`**. Four theorems assume `~Shared`, one live consumer at a time, the deployed
topology of `reclaim`'s docstring: `BoundedRedelivery`, `SettledForGood` (an action property),
`RefinesAtLeastOnce` (every step is one of `AtLeastOnce`'s or a stutter) and `DuplicatesAccounted`.
The others hold for shared subscriptions too. `RedeliveryBounded` is not inductive: a stale `todo`
or `cur` would break it. `ConsumerInvariant` adds what makes a sole consumer's reads stay true until
it writes (`CallSound`: every orphan in `todo` is still in flight with the attempts that were read,
every row in `batch` is ready, every held message still owns its row). For the wrappers of a
message, `FilingInvariant` counts its excuses: the instances that died between the two statements of
`to_dlq` and the second statements that raised. No more wrappers than excuses are there as long as
the message may still be delivered, one more once it is settled or its consumer stands between the
two statements.

With several consumers those reads do not stay true, and a message can be delivered more often than
`max_attempts`. `OverrunIsBounded` (for a finite set of instances, which gives the bound its
meaning) says how much more. Its invariant is a potential: the deliveries made, the one a ready row
is about to get, and one for each of `Threats`, the instances that may still requeue the row from a
read made when it had a delivery left, stay below `max_attempts` plus the number of instances. A
claim of the row turns the second summand into the first, a stale requeue the third into the second,
and a new threat needs a read of a row that still has a delivery left, where the sum is below the
limit whatever the others hold. `ResurrectionNeedsNack` is an action property of any sharing.
`DeadLettersFiled`: only two writes make a row dead, `to_dlq`'s comes after its wrapper is filed
(`Filed`: at `bury` there is one), and the other leaves its instance at `file`. What is left is an
instance that stands or died there, or whose INSERT raised there.

**`OrderPathProofs`**. `MoneyInvariant` is the strengthening for the money: `Standing` (a marked key
has its final result at the broker), `InHand` (what the thread is about to do is still justified by
what it read), `AtBroker`, `InOutbox`. The heart is that the verdict read at `reconcile` still holds
at `transmit`, because only this thread sends requests for the key and the broker decides prompt
requests at once. `AccountInvariant` says who vouches for each unreported fill. Proved from them:
`FilledOnce`, `Truthful`, `NotSentOnceMarked`, `NoSecondRequest`, `UnreportedAccounted`, and
`RefinesAtMostOnce` in full. Two theorems close the gap to the queue below: `InHandIsOwed`
(`BatchOwed`: a message in the batch is pending at the queue, was delivered, and is there once, so
none is settled that was settled meanwhile) and `QueueUsedByContract` (every step is one of
`AtLeastOnce` or a stutter). With `RefinesAtLeastOnce`, what is proved of the path rests on nothing
of the queue but what is proved of `DurableQueue`.

**`SafetyModeProofs`**. `SafetyInvariant` relates what the monitor counts as fresh to System 3's
last sign (`Witnessed`: never younger by more than the longest life of an order, unless an undated
order gave it; no stamp still in the queue is younger than that sign by more than the skew, and no
order has more left than a life less the silence), the age of a BYPASS to the running tick
(`BypassTimed`), and the margin left since the last resumption to the time passed (`Resumed`). From
it: `EvidenceRequired`, `BypassEnds`, `NoFlap`.

**`CloseTrackingProofs`**. The six safety theorems and the refinement rest on one observation: the
broker's closes, the messages of the outbox, the ledger and what System 3 heard only grow
(`Growth`), so what an actor has established before a call still holds after it, whatever the other
actor, the broker or a crash did meanwhile. `HonestInv` is that in inductive form: `CallHonest` (a
close being emitted happened at the broker; past the outbox write its row exists; the row being
acked was heard) and `StoresHonest` (every flag, row, mark and message vouches for a close of all or
part of the trade behind it, `CutTrades`; nothing is asked of the open list, which may say
anything). `DurableNeverAhead` and `SilenceIsAccounted` are parts of it. `ClosesAnnouncedOnce` needs
`OnceInv` besides: a trade that is not torn and has a close row is in the ledger or its emitter is
about to mark it, and an emitter that found it unmarked is alone with it (`Alone`), so nobody passes
the ledger check a second time. `CloseJournalImplemented` shows that a step books one transaction or
sends one message, never both, and that either moves one trade by one phase of `Journal!After`. That
`LastClosing` and `Located` are transactions at all (`Largest`) is derived from the well-foundedness
of strict inclusion on finite sets.

`ClosesTruthful` carries the truth of a close from the scan to the outbox (`TruthInv`: what an actor
is about to emit, and every row, names the last closing transaction of a trade the broker closed, or
an earlier one where the last is past the bound or the trade is `hasty`). What the scan returns is
defined page by page, by a recursive function. That such a function exists is shown outright
(`PageExists`: the scan ends at the first page boundary past its bound or at the end of the list),
and that the scan reaches every transaction within its bound (`ScanReaches`) by the last page on
which it would not. `IdentityNotLost` needs to know how a trade can be without its identity:
`IdentityInv` says that a fill is persisted or on its way unless there was an upset
(`FillsReported`), that a nameless trade has cost an upset, and, if its fill is persisted and not
just being registered, a second one or a failed read at its adoption, `unread` (`NamelessTrades`),
and the same for a nameless close about to be emitted (`NamelessEmissions`), for which the trades
left in a loop must still be tracked ones (`LoopTracked`). The run has one upset and can only show
that one is not enough; the theorem has any number.

**`ModelSetsProofs`**. `SwapInvariant` (a set being swapped in is not the recorded one, or the poll
is blind and the recorded set may be torn by it; from `MoveIn` to `RecordActive` it is whole) gives
`RecordedSetWhole`. `LoadInvariant` (a bundle not stamped yet is the set its link points at, unless
the root moved; a load that is `held` is barred, what is barred is recorded as withdrawn, and a held
load gets no further than the check) gives `StampsHonest` and `WithdrawnStaysOut`.

**`ProtectiveStopProofs`**. The first half is about the grid: rounding to the nearest step is
monotone and idempotent, quantising towards the entry never moves a stop away from it. On these
rests `StopInvariant`: the broker's stop is on the grid its last writer used (`Anchored`), no wider
than approved but for half a default step after a repair, and the engine's record, rendered, is
abreast of it unless it was left behind; a result that reports a stop has one behind it unless its
trade was unread. From it: `Protected` and `NeverLoosened`, for every grid, buffer, trail and
slippage.

**Only model-checked**: every liveness property (`EventuallySettled`, `OrdersSettle`, `DarkPauses`,
`FreshResumes`, `ClosesReachSystem3`, `PublishedIsServed`, the liveness half of
`ImplementsAtLeastOnce`), since fairness and ENABLED are beyond the prover. Every safety property
and every action property of a passing run is a theorem.

## 5. Assumptions worth knowing

- The guarantees of the money path are stated for orders whose requests the broker decides at once
  (`Prompt`). For a request left pending the code reports REJECTED and the broker may still fill it;
  `SlowKeys` lets TLC reach that, and only `NoSecondWhilePending` speaks about it.
- The broker's transactions of an order are all visible to the reconcile. The code reads the last
  200 (`RECONCILE_TRANSACTION_WINDOW`).
- `validate_fn`, as `build_from_secrets` wires it (`execution/lifecycle.py:366-368`), passes
  `acct_ccy_per_base` to `OrderValidator.validate`, and `_acct_ccy_per_base` reads
  `validator.account_currency`; the `OrderValidator` of `execution/validation.py` has neither. In
  that wiring the verdict is always "raise". The runs use the verdicts the code is written for.
- A trade's default precision is no finer than the instrument's grid allows: `Tick` is a multiple of
  every step in `DefaultTicks`. `test_oanda_adapter.py:154` pins the defaults to the broker's own
  precision; with a coarser default, a buffer smaller than its step would loosen a stop.
- A close event that is emitted under an unknown identity, because the trade was adopted before its
  fill confirmation was there or could be read, blocks a later one with the identity through the
  ledger: System 3 cannot match it, and `Owed` leaves it out.
- A rollback runs between two polls, not in the middle of one: it is a method of the same object,
  and nothing else calls it.
- Order sizes play no part in any model. `int(units)` truncates a fraction, and nothing compares
  the sign of the units with the side.
- Alerts, audit records and a price source are not wired in production and not modelled.

## 6. Where the code and its documents differ

| Run | The document says | The model shows |
|---|---|---|
| `order_remint` | one signal, at most one broker order (`pipeline.py:363-367`) | the signal is marked only after submit returns; a fill whose answer raises leaves it unmarked, and a second id for the signal fills too |
| `order_unreported` | every fill is reported, never lost (`fill_producer.py:3-4`, `README.md:34-35`) | a fill whose answer was lost is dropped as expired on redelivery, before the reconcile that would find it |
| `order_parked` | parked orders are not lost (`RUNBOOK.md:56-58`) | each parking costs a delivery; at `max_attempts` the order goes to the dead-letter topic |
| `safety_silence` | System 3 silent for the limit means PAUSED (`safety_mode.py:38-39`) | an order is credited with its receipt time, so up to one TTL more passes |

The models of this directory also record places where the code does less than its documents say. The
properties that hold name them as their exceptions, and hold everywhere else:

- *"A stop never loosens"* (`position_manager.py:8-9`). When the answer to a stop move is lost,
  `current_stop` stays behind the broker's, and the next trail is compared with the old one
  (`position_manager.py:183-187`); a redelivery that cannot read its trade registers it with the
  order's first stop. `StopOnlyTightens` excepts both through `behind`.
- *"Never wider"* (`quantize_price`, `oanda_adapter.py:150-153`). The repair of a missing stop
  rounds to the nearest step (`oanda_adapter.py:805`), so it may be half a step wider.
  `ProtectedAsApproved` allows that much and no more.
- *"Confirm-or-alert, never silently proceed"* (`docs/tasks/06-broker-adapter-hardening.md:39` and
  `:96`, `:102`). When the trade of a fill cannot be read, `submit` returns the order's stop and
  `unsafe` false (`oanda_adapter.py:785-789`), the result of a confirmed stop, and nothing looks
  again. `ProtectedAsApproved` excepts it through `unread`.
- *"Never raises on a single bad message"* (`outbound_consumer.py:127-128`). A message whose parse
  raises outside the handled errors takes the process down (`HandleUnreadable`); the service manager
  gives up before its deliveries are spent, see `OrdersSettle`.
- A dead message is filed once. `_dead_letter_row` marks the row before it inserts the wrapper
  (`queue_backend.py:356-359`), so an INSERT that raises, which `poll_once` swallows, leaves a dead
  row without a wrapper; `to_dlq` inserts first (`queue_backend.py:422`), so an UPDATE that raises
  is followed by a nack and a second wrapper. `DeadLetterAccounted` and `DuplicateFilingAccounted`
  name both through `torn`.
- *Retried until reachable* (`fill_producer.py:8-12`). A failed flush of a fill is repeated by the
  next fill, control message or shutdown; neither the tick nor the start flushes fills.
- A trade that `close_trade` was asked to close is marked closed whatever the answer says
  (`position_manager.py:194`, `lifecycle.py:207`): a response without a fill leaves it open at the
  broker and watched by nobody. `SilenceAccounted` excepts such trades through `dropped`.
- A trade that closes while the engine is down is adopted by no restart; only the backfill tool
  reports it.
- *"Both close-facts sources yield the SAME close transaction id"* (`close_tracker.py:37-38`). Past
  `TXN_MAX_SCAN` transactions the fallback may name a partial close as the close (`TruthfulClose`,
  `Horizon`); and where the open list misses a trade that is open and in part closed, and
  `get_trade` is of no use, it names the partial close of an open trade (`hasty`; `misled` in
  `CloseJournal`).
- *"One broker close = one close event"* (`close_tracker.py:539-540`). A death or a failing write
  between outbox and ledger, or the backfill tool at the same trade at the same moment, gives two
  (`OneEventPerClose`, through `torn`).
- The identity of an adopted trade is read from the outbox once, at the start; if that read fails,
  `iter_fill_envelopes` yields nothing (`close_tracker.py:190-201`) and the trade stays nameless
  (`IdentityKept`, through `unread`).
- A set that was withdrawn and is published again under its own id stays withdrawn
  (`downloader.py:303`), and a death inside a rollback, between the link and state.json, leaves the
  two apart for ever: the next polls find nothing to do (`downloader.py:339-351`). A rollback that
  completes is undone by the next poll. `NotTakenUp` names the first two.
- A state.json that cannot be read is taken for an empty one. The downloader takes the recorded set
  for new, removes it and downloads it again (`downloader.py:151-157`, `:208-209`): if it dies
  there, the recorded set is torn and stays so (`RecordedIsWhole` and `NotTakenUp`, through `torn`).
  A poll that writes the empty state back forgets a withdrawal (`barred`), and a detector that
  cannot read the flag loads the withdrawn set (`live_regime.py:152-159`; `WithdrawnNeverReloaded`,
  through `held`).
- The detector serves its cached bundle before it looks at the withdrawal flag
  (`live_regime.py:199`); after a reload that failed it serves the old bundle as fresh
  (`live_regime.py:260`); and a load under which the links moved and moved back leaves a bundle of
  one set under the stamp of another (`mixed`).

## 7. Not modelled, and the plan

Not modelled because there is nothing for a model checker: feature computation, candles, mapping,
telemetry, configuration, logging, database and storage access, the Pub/Sub wrapper, migrations.

Left out although it has state: `OnlineDebouncer` and the candle freshness of the detector (what
they hold is per-instrument data derived from a bundle, and nothing of another component depends on
it); the snapshot grid, which shows the last fresh observation of each instrument and never a stale
one, since the scheduler drops what `detect` returns; the sizes of orders; the legacy execution
mode, which submits nothing.

What a later extension would take up, in this order:

1. The window of 200 transactions of the reconcile, as a bound on what `Verdict` counts.
2. `OrderPath` composed with the safety gate: an order is submitted only on evidence that is fresh
   when it is sent.
3. `OnlineDebouncer` as a function on sequences of observations, against a reference definition.
