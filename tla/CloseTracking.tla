--------------------------- MODULE CloseTracking ---------------------------
(***************************************************************************)
(* From the fill of an order to the close event System 3 books:            *)
(* register-on-fill, the close sweep with its transaction fallback, forced *)
(* closes (time exit, flatten on stop), the emitter with its ledger, and   *)
(* the outbox both kinds of message leave through (execution/              *)
(* close_tracker.py, fill_producer.py, lifecycle.py, broker/               *)
(* position_manager.py), beside the operator's tools/backfill_closes.py.   *)
(*                                                                         *)
(* A step is one effect on something that outlives the process (outbox,    *)
(* ledger, processed store, broker) or one answer of the broker, so the    *)
(* process can die, and the backfill act, between any two.  The account's  *)
(* transactions are numbered; a trade's id is its opening transaction.  A  *)
(* row of the outbox that is not done may be sent by whoever flushes: the  *)
(* claims that keep two flushes apart are DurableQueue's.                  *)
(***************************************************************************)
EXTENDS Naturals, Sequences, FiniteSets, FiniteSetsExt

CONSTANTS
  MaxTxns,       \* transactions of the account (bounds the model)
  PageSize,      \* TXN_PAGE_SIZE
  MaxScan,       \* TXN_MAX_SCAN
  FlattenOnStop, \* EXEC_STOP_FLATTEN
  TimeExits,     \* TRUE: trades have a max_duration and prices are fed
  MaxActivity,   \* transactions plus trades opened (bounds the model)
  MaxUpsets      \* crashes, failing writes and reads, backfills (bounds the model)

ASSUME CloseAssumption ==
  /\ MaxTxns \in Nat \ {0}
  /\ PageSize \in Nat \ {0}
  /\ MaxScan \in Nat \ {0}
  /\ FlattenOnStop \in BOOLEAN
  /\ TimeExits \in BOOLEAN
  /\ MaxActivity \in Nat
  /\ MaxUpsets \in Nat

VARIABLES
  stream,     \* the broker: its transactions, in order
  processed,  \* orders marked processed (durable), by the trade they opened
  managed,    \* PositionManager.trades: trade -> what is known of it
  dropped,    \* trades whose forced close this run gave up without an event (history)
  torn,       \* trades with a close persisted and not marked at once (history)
  hasty,      \* trades a fallback was asked for while they were open (history)
  unread,     \* trades adopted while their confirmation could not be read (history)
  outbox,     \* the outbox's rows, in order (durable, never pruned)
  ledger,     \* trades whose close is recorded as emitted (durable)
  heard,      \* System 3: messages published to it
  at,         \* actor -> where it stands
  back,       \* actor -> where it goes on after an emission or a flush
  job,        \* actor -> the trade and the close it is busy with
  sent,       \* actor -> the row it has published and not acked, or 0
  todo,       \* engine: trades left in the loop of a sweep or a flatten
  upsets      \* crashes, failing writes and reads, and backfills so far

brokerVars == stream
storeVars == <<processed, outbox, ledger, heard>>
memoryVars == <<managed, todo>>
callVars == <<at, back, job, sent>>
histVars == <<dropped, torn, hasty, unread>>
vars == <<brokerVars, storeVars, memoryVars, callVars, histVars, upsets>>

-----------------------------------------------------------------------------
Trades == 1..MaxTxns
NoTxn == 0
Actors == {"engine", "backfill"}
Topics == {"fill", "close"}
Txn == [kind : {"open", "part", "close"}, trade : Trades]
Record == [tracked : BOOLEAN, closed : BOOLEAN, known : BOOLEAN]
Message == [topic : Topics, trade : Trades, txn : 0..MaxTxns, known : BOOLEAN]
Row == [msg : Message, done : BOOLEAN]
Job == [trade : Trades, txn : 0..MaxTxns, known : BOOLEAN]
Points == {"down", "idle", "answered", "persist", "register", "list", "each",
           "emit", "unseen", "mark", "flush", "acking", "emitted", "stop", "flatten", "exit"}

Untracked == [tracked |-> FALSE, closed |-> FALSE, known |-> FALSE]
NoJob == [trade |-> 1, txn |-> NoTxn, known |-> FALSE]

\* build_managed_trade and register: the record of a trade, its identity known or not.
Tracked(known) == [tracked |-> TRUE, closed |-> FALSE, known |-> known]
Watched == {t \in Trades : managed[t].tracked /\ ~managed[t].closed}

\* What the broker's transactions say of a trade.
Opened(t) == t \in DOMAIN stream /\ stream[t].kind = "open"
Closings(t) == {n \in DOMAIN stream : stream[n].trade = t /\ stream[n].kind # "open"}
ClosedAtBroker(t) == \E n \in Closings(t) : stream[n].kind = "close"
OpenAtBroker(t) == Opened(t) /\ ~ClosedAtBroker(t)
\* The broker books a transaction; a trade's opening weighs twice.
Books(kind, t) ==
  /\ Len(stream) < MaxTxns
  /\ Len(stream) + Cardinality({n \in DOMAIN stream : Opened(n)})
       + (IF kind = "open" THEN 2 ELSE 1) <= MaxActivity
  /\ stream' = Append(stream, [kind |-> kind, trade |-> t])

\* facts_from_trade_details: closingTransactionIDs[-1].  (Definitions whose name has
\* an underscore are the mutants listed in PROJECT.json.)
LastClosing_Next(t) == Max(Closings(t)) + 1
LastClosing(t) == Max(Closings(t))

\* iter_transactions: the last transaction read of the pages from..to.  The loop goes
\* on while it is below both the end and the bound on what it scanned, lo - from.
LastRead_FirstPage(from, to) == Min({from + PageSize - 1, to})
LastRead(from, to) ==
  LET page[lo \in from..(to + 1)] ==
        IF lo <= to /\ lo - from < MaxScan
        THEN page[Min({lo + PageSize - 1, to}) + 1]
        ELSE lo - 1
  IN page[from]

\* find_close_transaction: the LAST closing transaction in the range that was read,
\* whether or not it closed all of the trade.
Located_Opening(t) ==
  LET found == {n \in Closings(t) \cup {t} : n <= LastRead(t, Len(stream))}
  IN IF found = {} THEN NoTxn ELSE Max(found)
Located_First(t) ==
  LET found == {n \in Closings(t) : n <= LastRead(t, Len(stream))}
  IN IF found = {} THEN NoTxn ELSE Min(found)
Located(t) ==
  LET found == {n \in Closings(t) : n <= LastRead(t, Len(stream))}
  IN IF found = {} THEN NoTxn ELSE Max(found)

\* The messages: a fill confirmation and a close event (build_close_event).
FillOf(t) == [topic |-> "fill", trade |-> t, txn |-> NoTxn, known |-> TRUE]
CloseOf(j) == [topic |-> "close", trade |-> j.trade, txn |-> j.txn, known |-> j.known]
RowsOf(tp, t) == {i \in DOMAIN outbox : outbox[i].msg.topic = tp /\ outbox[i].msg.trade = t}

\* find_fill_envelope: the confirmation of the trade's order is in the outbox.
FillPersisted_Pending(t) == \E i \in RowsOf("fill", t) : ~outbox[i].done
FillPersisted(t) == RowsOf("fill", t) # {}

-----------------------------------------------------------------------------
Init ==
  /\ stream = <<>>
  /\ processed = {} /\ outbox = <<>> /\ ledger = {} /\ heard = {}
  /\ managed = [t \in Trades |-> Untracked]
  /\ todo = {}
  /\ dropped = {} /\ torn = {} /\ hasty = {} /\ unread = {}
  /\ at = [a \in Actors |-> IF a = "engine" THEN "down" ELSE "idle"]
  /\ back = [a \in Actors |-> "idle"]
  /\ job = [a \in Actors |-> NoJob]
  /\ sent = [a \in Actors |-> 0]
  /\ upsets = 0

Go(a, where) == at' = [at EXCEPT ![a] = where]
GoFlush(a, then) ==
  /\ at' = [at EXCEPT ![a] = "flush"]
  /\ back' = [back EXCEPT ![a] = then]
GoEmit(a, j, then) ==
  /\ at' = [at EXCEPT ![a] = "emit"]
  /\ job' = [job EXCEPT ![a] = j]
  /\ back' = [back EXCEPT ![a] = then]
\* A call returns: back to where it was made, which may still need the job.
Resume(a, where) ==
  /\ at' = [at EXCEPT ![a] = where]
  /\ back' = [back EXCEPT ![a] = "idle"]
  /\ job' = [job EXCEPT ![a] = IF where \in {"register", "emitted"} THEN @ ELSE NoJob]
\* The row of a close is in the outbox and its mark does not follow at once.
Torn(a) == torn' = torn \cup (IF at[a] = "mark" THEN {job[a].trade} ELSE {})
\* The transactions are asked for the close of a trade, still open or not.
Asked(t) == hasty' = hasty \cup (IF ClosedAtBroker(t) THEN {} ELSE {t})
Upset == upsets < MaxUpsets /\ upsets' = upsets + 1

\* emit returned False: the sweep leaves the trade as it is, a forced close goes on.
Unemitted_Closed(a) == back[a]
Unemitted(a) == IF back[a] = "emitted" THEN "each" ELSE back[a]

-----------------------------------------------------------------------------
\* The broker on its own: part of a trade, or the rest of it, is closed.
BrokerActs ==
  \E t \in Trades, kind \in {"part", "close"} :
    /\ OpenAtBroker(t) /\ Books(kind, t)
    /\ UNCHANGED <<storeVars, memoryVars, callVars, histVars, upsets>>

\* get_open_trades: the list lags what the broker does, so that it may miss a trade
\* that is open and still hold one that is closed.
OpenLists == SUBSET {t \in Trades : Opened(t)}

\* startup_reconcile: adopt the open trades, or none if they cannot be read.  The
\* identity of each comes from the fill confirmation in the outbox, if there is one
\* and it can be read.
Startup ==
  /\ at["engine"] = "down"
  /\ \E listed \in OpenLists :
       \E lost \in SUBSET {t \in listed : FillPersisted(t)} :
         /\ managed' = [t \in Trades |->
                          IF t \in listed THEN Tracked(FillPersisted(t) /\ t \notin lost)
                          ELSE Untracked]
         /\ IF lost = {} THEN UNCHANGED upsets ELSE Upset
         /\ unread' = unread \cup lost
  /\ Go("engine", "idle")
  /\ UNCHANGED <<brokerVars, storeVars, todo, back, job, sent, dropped, torn, hasty>>

\* The process is gone, and with it what it kept in memory.
Forget ==
  /\ managed' = [t \in Trades |-> Untracked]
  /\ todo' = {} /\ dropped' = {}
  /\ at' = [at EXCEPT !["engine"] = "down"]
  /\ back' = [back EXCEPT !["engine"] = "idle"]
  /\ job' = [job EXCEPT !["engine"] = NoJob]
  /\ sent' = [sent EXCEPT !["engine"] = 0]

Crash ==
  /\ at["engine"] # "down"
  /\ Upset /\ Forget /\ Torn("engine")
  /\ UNCHANGED <<brokerVars, storeVars, hasty, unread>>

-----------------------------------------------------------------------------
\* The fill of an order: OrderPath up to the result of submit, then mark, persist,
\* flush, register.

Filled ==
  /\ at["engine"] = "idle"
  /\ LET t == Len(stream) + 1 IN
       /\ Books("open", t)
       /\ job' = [job EXCEPT !["engine"] = [NoJob EXCEPT !.trade = t]]
  /\ Go("engine", "answered")
  /\ UNCHANGED <<storeVars, memoryVars, back, sent, histVars, upsets>>

\* The order of a trade nobody marked is delivered again, and the reconcile of
\* submit finds its fill.
Redelivered ==
  /\ at["engine"] = "idle"
  /\ \E t \in Trades \ processed :
       /\ Opened(t)
       /\ job' = [job EXCEPT !["engine"] = [NoJob EXCEPT !.trade = t]]
  /\ Go("engine", "answered")
  /\ UNCHANGED <<brokerVars, storeVars, memoryVars, back, sent, histVars, upsets>>

MarkProcessed ==
  /\ at["engine"] = "answered"
  /\ processed' = processed \cup {job["engine"].trade}
  /\ Go("engine", "persist")
  /\ UNCHANGED <<brokerVars, outbox, ledger, heard, memoryVars, back, job, sent,
                 histVars, upsets>>

\* publish_fill: the confirmation into the outbox, then flush.
PersistFill ==
  /\ at["engine"] = "persist"
  /\ outbox' = Append(outbox, [msg |-> FillOf(job["engine"].trade), done |-> FALSE])
  /\ GoFlush("engine", "register")
  /\ UNCHANGED <<brokerVars, processed, ledger, heard, memoryVars, job, sent, histVars, upsets>>

\* The outbox cannot be written or, in flush, not be pulled: the exception leaves
\* _emit_fill before the trade is registered.
FillRaises ==
  /\ \/ at["engine"] = "persist"
     \/ at["engine"] = "flush" /\ back["engine"] = "register"
  /\ Upset /\ Resume("engine", "idle")
  /\ UNCHANGED <<brokerVars, storeVars, memoryVars, sent, histVars>>

\* register: overwrites whatever was known of the trade.
Register ==
  /\ at["engine"] = "register"
  /\ managed' = [managed EXCEPT ![job["engine"].trade] = Tracked(TRUE)]
  /\ Resume("engine", "idle")
  /\ UNCHANGED <<brokerVars, storeVars, todo, sent, histVars, upsets>>

-----------------------------------------------------------------------------
\* CloseSweeper.sweep: flush, list the open trades, look up the ones that vanished.

StartSweep ==
  /\ at["engine"] = "idle"
  /\ GoFlush("engine", "list")
  /\ UNCHANGED <<brokerVars, storeVars, memoryVars, job, sent, histVars, upsets>>

\* What is watched and missing from the list goes through the loop.
ListOpenTrades ==
  /\ at["engine"] = "list"
  /\ \E listed \in OpenLists : todo' = Watched \ listed
  /\ Go("engine", "each")
  /\ UNCHANGED <<brokerVars, storeVars, managed, back, job, sent, histVars, upsets>>

ListFails ==
  /\ at["engine"] = "list" /\ Go("engine", "idle")
  /\ UNCHANGED <<brokerVars, storeVars, memoryVars, back, job, sent, histVars, upsets>>

Vanished(t) == at["engine"] = "each" /\ t \in todo

\* get_trade answers CLOSED and names the closing transactions.
DetailsClosed(t) ==
  /\ Vanished(t) /\ ClosedAtBroker(t)
  /\ todo' = todo \ {t}
  /\ GoEmit("engine", [trade |-> t, txn |-> LastClosing(t), known |-> managed[t].known], "emitted")
  /\ UNCHANGED <<brokerVars, storeVars, managed, sent, histVars, upsets>>

\* get_trade answers OPEN (the list or the details lag), or it is of no use (404, no
\* trade, no closing ids) and no fallback helps: the close is out of its reach, the
\* transactions cannot be read, or it last ran not yet txn_fallback_interval_sec ago
\* (_fallback_due: how long ago is left open, so it is due or not).
LeftForLater(t) ==
  /\ Vanished(t)
  /\ todo' = todo \ {t}
  /\ UNCHANGED <<brokerVars, storeVars, managed, callVars, histVars, upsets>>

\* get_trade is of no use and the transactions tell: nothing but they says that the
\* trade is closed.
FallbackFinds(t) ==
  /\ Vanished(t) /\ Located(t) # NoTxn
  /\ todo' = todo \ {t}
  /\ GoEmit("engine", [trade |-> t, txn |-> Located(t), known |-> managed[t].known], "emitted")
  /\ Asked(t)
  /\ UNCHANGED <<brokerVars, storeVars, managed, sent, dropped, torn, unread, upsets>>

SweepEnds ==
  /\ at["engine"] = "each" /\ todo = {}
  /\ Go("engine", "idle")
  /\ UNCHANGED <<brokerVars, storeVars, memoryVars, back, job, sent, histVars, upsets>>

\* emit returned True: the close is recorded, the trade need not be watched.
MarkClosed ==
  /\ at["engine"] = "emitted"
  /\ managed' = [managed EXCEPT ![job["engine"].trade].closed = TRUE]
  /\ Resume("engine", "each")
  /\ UNCHANGED <<brokerVars, storeVars, todo, sent, histVars, upsets>>

-----------------------------------------------------------------------------
\* CloseEmitter.emit, by the engine or by the backfill.

\* not ledger.seen(broker_trade_id)
Unmarked_Unchecked(a) == TRUE
Unmarked(a) == job[a].trade \notin ledger

AlreadyEmitted(a) ==
  /\ at[a] = "emit" /\ ~Unmarked(a)
  /\ Resume(a, back[a])
  /\ UNCHANGED <<brokerVars, storeVars, memoryVars, sent, histVars, upsets>>

\* Two emitters that are both between this check and their mark emit the close twice.
FindUnmarked(a) ==
  /\ at[a] = "emit" /\ Unmarked(a)
  /\ torn' = torn \cup {t \in {job[a].trade} :
                \E b \in Actors : at[b] \in {"unseen", "mark"} /\ job[b].trade = t}
  /\ Go(a, "unseen")
  /\ UNCHANGED <<brokerVars, storeVars, memoryVars, back, job, sent, dropped, hasty, unread,
                 upsets>>

\* The outbox is another file than the ledger, and each statement its own transaction.
PersistClose(a) ==
  /\ at[a] = "unseen"
  /\ outbox' = Append(outbox, [msg |-> CloseOf(job[a]), done |-> FALSE])
  /\ Go(a, "mark")
  /\ UNCHANGED <<brokerVars, processed, ledger, heard, memoryVars, back, job, sent, histVars,
                 upsets>>

MarkLedger(a) ==
  /\ at[a] = "mark"
  /\ ledger' = ledger \cup {job[a].trade}
  /\ GoFlush(a, back[a])
  /\ UNCHANGED <<brokerVars, processed, outbox, heard, memoryVars, job, sent, histVars, upsets>>

\* The ledger or the outbox cannot be used: emit returns False.  A sweep tries again,
\* a forced close is over, with its event in the outbox or without.
Lost(a) == IF at[a] # "mark" /\ back[a] # "emitted" THEN {job[a].trade} ELSE {}
EmitFails(a) ==
  /\ at[a] \in {"emit", "unseen", "mark"}
  /\ Upset /\ Resume(a, Unemitted(a)) /\ Torn(a)
  /\ dropped' = dropped \cup Lost(a)
  /\ UNCHANGED <<brokerVars, storeVars, memoryVars, sent, hasty, unread>>

-----------------------------------------------------------------------------
\* FillProducer.flush, one row at a time.

\* The producer flushes the fills, the emitter the closes.
FlushedTopic(a) == IF back[a] \in {"register", "stop", "exit"} THEN "fill" ELSE "close"
Pending(a, i) == outbox[i].msg.topic = FlushedTopic(a) /\ ~outbox[i].done

Send_Swallowed(a) ==
  /\ at[a] = "flush"
  /\ \E i \in DOMAIN outbox : Pending(a, i) /\ sent' = [sent EXCEPT ![a] = i]
  /\ Go(a, "acking")
  /\ UNCHANGED <<brokerVars, storeVars, memoryVars, back, job, histVars, upsets>>
Send(a) ==
  /\ at[a] = "flush"
  /\ \E i \in DOMAIN outbox :
       /\ Pending(a, i)
       /\ heard' = heard \cup {outbox[i].msg}
       /\ sent' = [sent EXCEPT ![a] = i]
  /\ Go(a, "acking")
  /\ UNCHANGED <<brokerVars, processed, outbox, ledger, memoryVars, back, job, histVars, upsets>>

AckRow(a) ==
  /\ at[a] = "acking"
  /\ outbox' = [outbox EXCEPT ![sent[a]].done = TRUE]
  /\ sent' = [sent EXCEPT ![a] = 0]
  /\ Go(a, "flush")
  /\ UNCHANGED <<brokerVars, processed, ledger, heard, memoryVars, back, job, histVars, upsets>>

\* Nothing is left, or every publish of the last batch failed and was nacked.
EndFlush(a) ==
  /\ at[a] = "flush"
  /\ Resume(a, back[a])
  /\ UNCHANGED <<brokerVars, storeVars, memoryVars, sent, histVars, upsets>>

-----------------------------------------------------------------------------
\* Forced closes: on_tick past max_duration, from "idle"; shutdown's flatten, from
\* "stop" on.  Both set closed as soon as close_trade returns.

Stopping == at["engine"] \in {"stop", "flatten"}
Forcing(t) ==
  \/ at["engine"] = "idle" /\ TimeExits /\ t \in Watched
  \/ Stopping /\ t \in todo

\* The broker closed it and the response carries the fill transaction.
CloseFilled(t) ==
  /\ Forcing(t) /\ OpenAtBroker(t) /\ Books("close", t)
  /\ managed' = [managed EXCEPT ![t].closed = TRUE]
  /\ todo' = todo \ {t}
  /\ GoEmit("engine", [trade |-> t, txn |-> Len(stream) + 1, known |-> managed[t].known],
            IF Stopping THEN "flatten" ELSE "idle")
  /\ UNCHANGED <<storeVars, sent, histVars, upsets>>

\* The broker accepted the request and cancelled the order: no fill transaction in
\* the response, nothing emitted, the trade still open.
CloseUnfilled(t) ==
  /\ Forcing(t) /\ OpenAtBroker(t)
  /\ managed' = [managed EXCEPT ![t].closed = TRUE]
  /\ dropped' = dropped \cup {t} /\ todo' = todo \ {t}
  /\ UNCHANGED <<brokerVars, storeVars, callVars, torn, hasty, unread, upsets>>

\* close_trade raises, whether or not the broker closed the trade: the flatten goes
\* on, a time exit takes the run loop down with it.
CloseRaises(t) ==
  /\ Forcing(t)
  /\ \/ UNCHANGED stream
     \/ OpenAtBroker(t) /\ Books("close", t)
  /\ IF Stopping THEN todo' = todo \ {t} /\ UNCHANGED <<managed, callVars, dropped>>
     ELSE Forget
  /\ UNCHANGED <<storeVars, torn, hasty, unread, upsets>>

\* shutdown: flush the fills, flatten if so configured, report STOPPED (which
\* flushes the fills again), exit.
Stop ==
  /\ at["engine"] = "idle"
  /\ todo' = IF FlattenOnStop THEN Watched ELSE {}
  /\ GoFlush("engine", "stop")
  /\ UNCHANGED <<brokerVars, storeVars, managed, job, sent, histVars, upsets>>

EmitStopped ==
  /\ Stopping /\ todo = {}
  /\ GoFlush("engine", "exit")
  /\ UNCHANGED <<brokerVars, storeVars, memoryVars, job, sent, histVars, upsets>>

Exit ==
  /\ at["engine"] = "exit" /\ Forget
  /\ UNCHANGED <<brokerVars, storeVars, torn, hasty, unread, upsets>>

-----------------------------------------------------------------------------
\* tools/backfill_closes.py: a trade with a fill confirmation that is not in the ledger
\* when it is looked up and whose close get_trade or, if that is of no use, the
\* transactions tell is emitted like any other.
Backfill ==
  /\ at["backfill"] = "idle" /\ Upset
  /\ \E t \in Trades \ ledger :
       /\ FillPersisted(t)
       /\ \/ /\ ClosedAtBroker(t) /\ UNCHANGED hasty
             /\ GoEmit("backfill", [trade |-> t, txn |-> LastClosing(t), known |-> TRUE], "idle")
          \/ /\ Located(t) # NoTxn /\ Asked(t)
             /\ GoEmit("backfill", [trade |-> t, txn |-> Located(t), known |-> TRUE], "idle")
  /\ UNCHANGED <<brokerVars, storeVars, memoryVars, sent, dropped, torn, unread>>

-----------------------------------------------------------------------------
Emission(a) == AlreadyEmitted(a) \/ FindUnmarked(a) \/ PersistClose(a) \/ MarkLedger(a)
Flushing(a) == Send(a) \/ AckRow(a) \/ EndFlush(a)
LookUp(t) == DetailsClosed(t) \/ LeftForLater(t) \/ FallbackFinds(t)
FillSteps == MarkProcessed \/ PersistFill \/ Register
SweepSteps ==
  \/ StartSweep \/ ListOpenTrades \/ ListFails \/ SweepEnds \/ MarkClosed
  \/ \E t \in Trades : LookUp(t)
ForcedClose == \E t \in Trades : CloseFilled(t) \/ CloseUnfilled(t) \/ CloseRaises(t)
StopSteps == EmitStopped \/ Exit

Next ==
  \/ BrokerActs \/ Startup \/ Crash
  \/ Filled \/ Redelivered \/ FillRaises \/ FillSteps
  \/ SweepSteps
  \/ \E a \in Actors : Emission(a) \/ EmitFails(a) \/ Flushing(a)
  \/ ForcedClose \/ Stop \/ StopSteps
  \/ Backfill

\* The engine's loop goes on, and what is asked for again and again is answered in the
\* end: a list without closed trades, a publish and, once get_trade does not say OPEN and
\* a fallback is due, the transactions.  get_trade may be of no use for ever.
Fairness ==
  /\ WF_vars(SweepSteps \/ FillSteps \/ Emission("engine") \/ Flushing("engine")
               \/ ForcedClose \/ StopSteps)
  /\ SF_vars(ListOpenTrades /\ {t \in Watched : ClosedAtBroker(t)} \subseteq todo')
  /\ SF_vars(Send("engine"))
  /\ SF_vars(\E t \in Trades : FallbackFinds(t))

Spec == Init /\ [][Next]_vars /\ Fairness

-----------------------------------------------------------------------------
\* Every variable stays in its domain.
TypeOK ==
  /\ stream \in Seq(Txn)
  /\ processed \subseteq Trades /\ ledger \subseteq Trades
  /\ dropped \subseteq Trades /\ torn \subseteq Trades
  /\ hasty \subseteq Trades /\ unread \subseteq Trades
  /\ todo \subseteq Trades
  /\ managed \in [Trades -> Record]
  /\ outbox \in Seq(Row)
  /\ heard \subseteq Message
  /\ at \in [Actors -> Points]
  /\ back \in [Actors -> Points]
  /\ job \in [Actors -> Job]
  /\ sent \in [Actors -> Nat]
  /\ upsets \in 0..MaxUpsets

\* The first transaction id the bounded scan of a trade does not read.
Horizon(t) == t + PageSize * ((MaxScan + PageSize - 1) \div PageSize)

\* A close event names a transaction that closed the trade or part of it, and it is the
\* one that closed the last of it, whichever source answered and whatever the open list
\* missed.  An earlier partial close is named only where the last is past the bound of
\* the scan, or where the transactions were asked while the trade was still open.
TruthfulClose ==
  \A i \in DOMAIN outbox :
    LET m == outbox[i].msg IN
      m.topic = "close" =>
        /\ m.txn \in Closings(m.trade)
        /\ \/ ClosedAtBroker(m.trade) /\ m.txn = LastClosing(m.trade)
           \/ ClosedAtBroker(m.trade) /\ LastClosing(m.trade) >= Horizon(m.trade)
           \/ m.trade \in hasty

\* "One broker close = one close event across restarts" (close_tracker.py:539-540): a
\* second one takes a death or a failing write between the outbox and the ledger, or the
\* backfill and the engine between the check of the ledger and its mark at once.
OneEventPerClose ==
  \A t \in Trades : Cardinality(RowsOf("close", t)) > 1 => t \in torn

\* A trade is given up as closed only with its close event in the outbox or on its way
\* there; the exception are forced closes: where the response carries no fill, or the
\* event cannot be stored, the flag stays and nothing tries again.
SilenceAccounted ==
  \A t \in Trades :
    managed[t].closed =>
      \/ RowsOf("close", t) # {}
      \/ at["engine"] \in {"emit", "unseen"} /\ job["engine"].trade = t
      \/ t \in dropped

\* Nothing durable runs ahead of what it vouches for: a row is done only when
\* System 3 has the message, and the ledger has only closes that are in the outbox.
DurableFirst ==
  /\ \A i \in DOMAIN outbox : outbox[i].done => outbox[i].msg \in heard
  /\ \A t \in ledger : RowsOf("close", t) # {}

\* A restart does not cost a close its identity: an event that System 3 cannot match is
\* about a trade whose fill confirmation had not been persisted before it, or could not
\* be read when the trade was adopted, or whose registration failed on top of a crash.
IdentityKept ==
  \A t \in Trades : \A i \in RowsOf("close", t), k \in RowsOf("fill", t) :
    k < i => outbox[i].msg.known \/ t \in unread \/ upsets > 1

\* The broker's trades and System 3's view of their closes, as CloseJournal has it.
Heard(t) == \E m \in heard : m.topic = "close" /\ m.trade = t /\ m.known
TradePhase(t) ==
  IF ~Opened(t) THEN "unopened"
  ELSE IF ClosedAtBroker(t) THEN (IF Heard(t) THEN "told" ELSE "closed")
  ELSE IF Closings(t) = {} THEN (IF Heard(t) THEN "invented" ELSE "open")
  ELSE (IF Heard(t) THEN "misled" ELSE "reduced")
Phases == [t \in Trades |-> TradePhase(t)]
Journal == INSTANCE CloseJournal WITH phase <- Phases

\* System 3 is never told of the close of a trade of which the broker closed nothing,
\* and what it was told is never undone.
ImplementsCloseJournal == Journal!Spec

\* A trade the engine tracks by its identity, closed at the broker with a closing
\* transaction the scan reaches, whose forced close was not given up, not yet emitted
\* under an unknown identity, and System 3 does not know.
Owed(t) ==
  /\ managed[t].tracked /\ managed[t].known
  /\ t \notin dropped /\ TradePhase(t) = "closed"
  /\ \E n \in Closings(t) : n < Horizon(t)
  /\ \A i \in RowsOf("close", t) : outbox[i].msg.known

\* "Authoritative when /trades/{id} cannot answer" (close_tracker.py:311): the engine
\* never stays behind the broker for good.  As long as it is up, a get_trade that never
\* helps, and lookups, lists, publishes, outbox or ledger writes that fail, only delay
\* the close event.
ClosesReachSystem3 == []<>(at["engine"] = "down" \/ \A t \in Trades : ~Owed(t))
=============================================================================
