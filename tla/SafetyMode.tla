------------------------------ MODULE SafetyMode ------------------------------
(***************************************************************************)
(* SafetyMonitor (execution/safety_mode.py) as ExecutionRuntime.tick and   *)
(* OutboundConsumer._handle drive it: System 3's heartbeats and orders are *)
(* the evidence that risk approval is alive, the loop judges it once per   *)
(* tick, and an operator may override the verdict from another thread.     *)
(*                                                                         *)
(* Time is kept as ages: how long ago something was stamped, credited or   *)
(* started, up to the age beyond which no comparison of the code tells two *)
(* apart.  System 3's clock may run ahead of ours by Skew, so a stamp can  *)
(* be of a negative age.  A heartbeat is its age, an order what is left of *)
(* its life: all that is_expired looks at.  Both may be delivered late, in *)
(* any order and again and again.                                          *)
(***************************************************************************)
EXTENDS Integers, FiniteSets

CONSTANTS
  Limit,          \* staleness_limit_sec
  Hysteresis,     \* hysteresis_sec
  MaxAge,         \* ORDER_MAX_AGE_SEC, the TTL of an order without expires_at
  MaxLife,        \* the farthest ahead System 3 sets an expires_at
  Undated,        \* TRUE: orders without any timestamp occur
  BypassEnabled,  \* EXEC_BYPASS_ENABLE, with a confirm token the operator knows
  Duration,       \* bypass_max_duration_sec
  Skew,           \* how far System 3's clock may be ahead of ours
  MaxLag,         \* the longest a tick takes (bounds the model)
  MaxQueued       \* messages of a kind in the queue (bounds the model)

ASSUME SafetyAssumption ==
  /\ {Limit, Hysteresis, MaxAge, MaxLife, Duration, Skew, MaxLag, MaxQueued} \subseteq Nat
  /\ Undated \in BOOLEAN /\ BypassEnabled \in BOOLEAN
  /\ Hysteresis < Limit

VARIABLES
  state,         \* SafetyMonitor.state
  marked,        \* lag.last_message_at or _last_heartbeat_at is set
  freshAge,      \* age of the later of the two, of _started_at while neither is set
  bypassAge,     \* age of _bypass_started_at, or Never
  pc,            \* "tick" between two ticks, "handle" while a batch is handled
  tickAge,       \* age of the clock reading of the tick, and of its poll
  session,       \* is_in_session of the present moment
  beats,         \* heartbeats in the queue: the ages of their stamps
  orders,        \* orders in the queue: what is left of their lives, or Forever
  silence,       \* how long System 3 has sent nothing, or since the engine started
  resumeAge,     \* history: how long ago the monitor last resumed on fresh evidence
  undatedAge     \* history: how long ago an order that never expires was credited

monitorVars == <<state, marked, freshAge, bypassAge>>
loopVars == <<pc, tickAge>>
worldVars == <<session, beats, orders, silence>>
historyVars == <<resumeAge, undatedAge>>
vars == <<monitorVars, loopVars, worldVars, historyVars>>

Never == -1
Older(age, cap) == IF age < cap THEN age + 1 ELSE cap

\* An order lives until MaxAge after its created_at, which may lie in the future, or,
\* whatever that says, until just before its expires_at; one with neither, for ever.
Longest == IF MaxAge + Skew < MaxLife THEN MaxLife ELSE MaxAge + Skew
Forever == Longest + 1
Lives == (MaxAge..(MaxAge + Skew)) \cup (-1..(MaxLife - 1))
           \cup (IF Undated THEN {Forever} ELSE {})

\* The ages and the lives that say: too old for any comparison.
Stale == Limit + MaxLag + 1
Gone == -(MaxLag + 1)
Dark == Limit + Longest + 1
Settled == Hysteresis + 1

Shorter(life) == CASE life = Forever -> Forever
                   [] life # Forever /\ life > Gone -> life - 1
                   [] OTHER -> Gone
Earlier(age, other) == IF age < other THEN age ELSE other

-----------------------------------------------------------------------------
CanSubmit == state \in {"running", "bypass"}

BypassOver_InSession == state = "bypass" /\ session /\ bypassAge >= Duration
BypassOver == state = "bypass" /\ bypassAge >= Duration

\* evaluate, without a BYPASS in force: what becomes of a monitor that is in state s.
Judged_NoHysteresis(s) ==
  CASE ~session -> "running"
    [] session /\ freshAge > Limit -> "paused"
    [] session /\ freshAge <= Limit -> "running"
Judged_Sticky(s) ==
  CASE ~session -> "running"
    [] session /\ s = "running" /\ freshAge > Limit -> "paused"
    [] session /\ s = "paused" /\ freshAge < Limit - Hysteresis - 1 -> "running"
    [] OTHER -> s
Judged(s) ==
  CASE ~session -> "running"
    [] session /\ s = "running" /\ freshAge > Limit -> "paused"
    [] session /\ s = "paused" /\ freshAge < Limit - Hysteresis -> "running"
    [] OTHER -> s

-----------------------------------------------------------------------------
Init ==
  /\ state = "running"
  /\ marked = FALSE /\ freshAge = 0 /\ bypassAge = Never
  /\ pc = "tick" /\ tickAge = 0
  /\ session \in BOOLEAN
  /\ beats = {} /\ orders = {}
  /\ silence = 0
  /\ resumeAge = Settled /\ undatedAge = Stale

\* tick: evaluate, then poll_once reads its clock and pulls.  The two clock readings
\* fall into the same moment.
StartTick ==
  /\ pc = "tick"
  /\ state' = IF state = "bypass" /\ ~BypassOver THEN "bypass"
              ELSE Judged(IF BypassOver THEN "running" ELSE state)
  /\ bypassAge' = IF BypassOver THEN Never ELSE bypassAge
  /\ resumeAge' = IF state = "paused" /\ state' = "running" /\ session THEN 0 ELSE resumeAge
  /\ pc' = "handle" /\ tickAge' = 0
  /\ UNCHANGED <<marked, freshAge, worldVars, undatedAge>>

\* Evidence of age a moves the mark, forward only once there is one.
Credit(a) ==
  /\ marked' = TRUE
  /\ freshAge' = IF marked THEN Earlier(freshAge, a) ELSE a

\* _handle_heartbeat and record_heartbeat: a stamp from the future counts as now, one
\* that is too old is ignored.  The message is acked, whatever is credited; the
\* producer's side may still send it again.
HandleHeartbeat_OnReceipt(stamp) ==
  /\ pc = "handle"
  /\ beats' \in {beats, beats \ {stamp}}
  /\ Credit(0)
  /\ UNCHANGED <<state, bypassAge, loopVars, session, orders, silence, historyVars>>
HandleHeartbeat(stamp) ==
  /\ pc = "handle"
  /\ beats' \in {beats, beats \ {stamp}}
  /\ IF stamp <= Limit THEN Credit(IF stamp < 0 THEN 0 ELSE stamp)
                       ELSE UNCHANGED <<marked, freshAge>>
  /\ UNCHANGED <<state, bypassAge, loopVars, session, orders, silence, historyVars>>

\* is_expired and the handling of an order run on the clock reading of the poll.
Expired(life) == life # Forever /\ life + tickAge < 0

\* An expired order is dropped before any freshness is credited.
DropExpired_Credited(life) ==
  /\ pc = "handle" /\ Expired(life)
  /\ Credit(tickAge)
  /\ orders' \in {orders, orders \ {life}}
  /\ UNCHANGED <<state, bypassAge, loopVars, session, beats, silence, historyVars>>
DropExpired(life) ==
  /\ pc = "handle" /\ Expired(life)
  /\ orders' \in {orders, orders \ {life}}
  /\ UNCHANGED <<monitorVars, loopVars, session, beats, silence, historyVars>>

\* Any other order is fresh evidence as of the poll (_credit_freshness), before it is
\* known whether it is executed, acked as seen, parked or dead-lettered.
HandleOrder(life) ==
  /\ pc = "handle" /\ ~Expired(life)
  /\ Credit(tickAge)
  /\ undatedAge' = IF life = Forever THEN Earlier(undatedAge, tickAge) ELSE undatedAge
  /\ orders' \in {orders, orders \ {life}}
  /\ UNCHANGED <<state, bypassAge, loopVars, session, beats, silence, resumeAge>>

EndTick ==
  /\ pc = "handle"
  /\ pc' = "tick"
  /\ UNCHANGED <<monitorVars, tickAge, worldVars, historyVars>>

-----------------------------------------------------------------------------
\* The operator: request_bypass with the right token, at any time and again while it
\* lasts, and exit_bypass.  A refused request changes nothing.
RequestBypass ==
  /\ BypassEnabled
  /\ state' = "bypass" /\ bypassAge' = 0
  /\ UNCHANGED <<marked, freshAge, loopVars, worldVars, historyVars>>

ExitBypass_KeepsStart ==
  /\ state = "bypass"
  /\ state' = "running"
  /\ UNCHANGED <<marked, freshAge, bypassAge, loopVars, worldVars, historyVars>>
ExitBypass ==
  /\ state = "bypass"
  /\ state' = "running" /\ bypassAge' = Never
  /\ UNCHANGED <<marked, freshAge, loopVars, worldVars, historyVars>>

-----------------------------------------------------------------------------
\* System 3, the queue, the trading week and the process.

SendHeartbeat ==
  /\ Cardinality(beats) < MaxQueued
  /\ \E stamp \in (-Skew)..0 : beats' = beats \cup {stamp}
  /\ silence' = 0
  /\ UNCHANGED <<monitorVars, loopVars, session, orders, historyVars>>

SendOrder ==
  /\ Cardinality(orders) < MaxQueued
  /\ \E life \in Lives : orders' = orders \cup {life}
  /\ silence' = 0
  /\ UNCHANGED <<monitorVars, loopVars, session, beats, historyVars>>

SessionChanges ==
  /\ session' = ~session
  /\ UNCHANGED <<monitorVars, loopVars, beats, orders, silence, historyVars>>

\* The process dies and is started again: a new monitor, with the grace of a start.
Restart ==
  /\ state' = "running"
  /\ marked' = FALSE /\ freshAge' = 0 /\ bypassAge' = Never
  /\ pc' = "tick" /\ tickAge' = 0
  /\ silence' = 0 /\ resumeAge' = Settled /\ undatedAge' = Stale
  /\ UNCHANGED <<session, beats, orders>>

\* Time passes; no tick takes longer than MaxLag.
Time ==
  /\ tickAge < MaxLag
  /\ tickAge' = tickAge + 1
  /\ freshAge' = Older(freshAge, Stale)
  /\ bypassAge' = IF bypassAge = Never THEN Never ELSE bypassAge + 1
  /\ beats' = {Older(b, Stale) : b \in beats} /\ orders' = {Shorter(o) : o \in orders}
  /\ silence' = Older(silence, Dark)
  /\ resumeAge' = Older(resumeAge, Settled) /\ undatedAge' = Older(undatedAge, Stale)
  /\ UNCHANGED <<state, marked, pc, session>>

-----------------------------------------------------------------------------
Handling ==
  \/ \E stamp \in beats : HandleHeartbeat(stamp)
  \/ \E life \in orders : DropExpired(life) \/ HandleOrder(life)

Next ==
  \/ StartTick \/ Handling \/ EndTick
  \/ RequestBypass \/ ExitBypass
  \/ SendHeartbeat \/ SendOrder \/ SessionChanges \/ Restart \/ Time

\* The loop ticks on (a batch ends) and time passes.
Fairness == WF_vars(StartTick) /\ WF_vars(EndTick) /\ WF_vars(Time)

Spec == Init /\ [][Next]_vars /\ Fairness

-----------------------------------------------------------------------------
TypeOK ==
  /\ state \in {"running", "paused", "bypass"}
  /\ marked \in BOOLEAN
  /\ freshAge \in 0..Stale
  /\ bypassAge \in Nat \cup {Never}
  /\ state = "bypass" <=> bypassAge # Never
  /\ pc \in {"tick", "handle"}
  /\ tickAge \in 0..MaxLag
  /\ session \in BOOLEAN
  /\ beats \subseteq (-Skew)..Stale /\ orders \subseteq Gone..Forever
  /\ silence \in 0..Dark
  /\ resumeAge \in 0..Settled
  /\ undatedAge \in 0..Stale

\* "A redelivered or replayed keepalive from a dead System 3 is therefore worthless and
\* cannot un-PAUSE the engine" (safety_mode.py:141-142), nor can an expired order
\* (outbound_consumer.py:224-226): however messages are delayed, repeated or misdated,
\* a tick that leaves the engine RUNNING in session had a sign of System 3 within the
\* staleness limit and the longest life an order is given (its TTL and the clock skew,
\* or an expires_at, which wins), unless it counted within the limit on an order that
\* carries no timestamp, which never expires (validation.py:128-140).
RunningOnEvidence ==
  [][pc = "tick" /\ pc' = "handle" /\ session /\ state' = "running" =>
       silence <= Limit + Longest \/ undatedAge <= Limit]_vars

\* "Time-bounded" (safety_mode.py:13-14): no BYPASS outlives its window by more than
\* the tick that ends it, in session or out of it.
BypassBounded == state = "bypass" => bypassAge <= Duration + MaxLag

\* "Hysteresis prevents flapping on borderline lag" (safety_mode.py:18): after it
\* resumed on fresh evidence the monitor does not pause again within the hysteresis.
NoFlapping == [][state = "running" /\ state' = "paused" => resumeAge > Hysteresis]_vars

\* When System 3 stays dark in session and nobody overrides, new orders end, whatever
\* is redelivered, short of an order without a timestamp that comes again and again.
DarkPauses ==
  <>[](silence = Dark /\ session /\ state # "bypass" /\ Forever \notin orders) =>
    <>[]~CanSubmit

\* "Auto-resumes to RUNNING when fresh orders/heartbeats return" (safety_mode.py:11).
FreshResumes == <>[](freshAge < Limit - Hysteresis) => <>[]CanSubmit

\* "System 3 silent for more than 5 minutes while in-session => PAUSE"
\* (safety_mode.py:38-39): a tick that leaves the engine RUNNING in session had a sign of
\* System 3 within the staleness limit.
SilenceMeansPaused ==
  [][pc = "tick" /\ pc' = "handle" /\ session /\ state' = "running" =>
       silence <= Limit]_vars
=============================================================================
