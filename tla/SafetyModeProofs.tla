-------------------------- MODULE SafetyModeProofs --------------------------
(***************************************************************************)
(* Proofs about SafetyMode, for every limit, TTL, expires_at, hysteresis,  *)
(* clock skew and length of a tick.  One inductive invariant carries them: *)
(* what the monitor counts as fresh is vouched for by a sign of System 3   *)
(* that is at most the longest life of an order older, or by an order that *)
(* never expires; a BYPASS is no older than its window and the running     *)
(* tick; and a fresh resumption still has its margin.                      *)
(***************************************************************************)
EXTENDS SafetyMode, TLAPS

\* Freshness is never more than the longest life younger than System 3's last sign,
\* unless an undated order gave it; a stamp still in the queue is never younger than
\* that sign, up to the skew, and no order has more left than a life less the silence.
Witnessed ==
  /\ freshAge <= Limit => silence <= freshAge + Longest \/ undatedAge <= freshAge
  /\ \A b \in beats : b <= Limit => silence <= b + Skew
  /\ \A o \in orders : o # Forever /\ o > Gone => silence + o <= Longest

BypassTimed == bypassAge <= Duration + tickAge

\* Since it resumed the monitor has lost no more margin than time has passed; and one
\* that is PAUSED without ever having heard of System 3 is out of its startup grace.
Resumed ==
  /\ resumeAge <= Hysteresis => marked /\ freshAge < Limit - Hysteresis + resumeAge
  /\ state = "paused" /\ ~marked => freshAge > Limit

SafetyInvariant == TypeOK /\ Witnessed /\ BypassTimed /\ Resumed

-----------------------------------------------------------------------------
LEMMA Constants ==
  /\ Limit \in Nat /\ Hysteresis \in Nat /\ MaxAge \in Nat /\ Duration \in Nat
  /\ Skew \in Nat /\ MaxLag \in Nat /\ Hysteresis < Limit
  /\ Longest \in Nat /\ Skew <= Longest /\ Forever = Longest + 1 /\ Gone = -(MaxLag + 1)
  /\ \A life \in Lives : life \in Gone..Forever /\ (life # Forever => life <= Longest)
<1>1. /\ Limit \in Nat /\ Hysteresis \in Nat /\ MaxAge \in Nat /\ Duration \in Nat
      /\ Skew \in Nat /\ MaxLag \in Nat /\ Hysteresis < Limit /\ MaxLife \in Nat
  BY SafetyAssumption DEF SafetyAssumption
<1>2. /\ Longest \in Nat /\ Skew <= Longest /\ MaxAge + Skew <= Longest /\ MaxLife <= Longest
      /\ Forever = Longest + 1 /\ Gone = -(MaxLag + 1)
  BY <1>1 DEF Longest, Forever, Gone
<1>3. ASSUME NEW life \in Lives
      PROVE  life \in Gone..Forever /\ (life # Forever => life <= Longest)
  <2>1. life = Forever \/ life \in MaxAge..(MaxAge + Skew) \/ life \in -1..(MaxLife - 1)
    BY <1>3 DEF Lives
  <2>2. QED
    BY <1>1, <1>2, <2>1
<1>4. QED
  BY <1>1, <1>2, <1>3

\* What becomes of an age: it grows by one up to its cap.
LEMMA OlderAge ==
  ASSUME NEW cap \in Nat, NEW age \in Int, age <= cap
  PROVE  Older(age, cap) \in Int /\ age <= Older(age, cap) /\ Older(age, cap) <= cap
         /\ Older(age, cap) <= age + 1 /\ (age < cap => Older(age, cap) = age + 1)
BY DEF Older

\* What becomes of a life: it shrinks by one down to its floor, or lasts for ever.
LEMMA ShorterLife ==
  ASSUME NEW life \in Gone..Forever
  PROVE  /\ Shorter(life) \in Gone..Forever
         /\ Shorter(life) # Forever /\ Shorter(life) > Gone =>
              life # Forever /\ life > Gone /\ Shorter(life) = life - 1
<1> USE Constants
<1>1. CASE life = Forever
  BY <1>1 DEF Shorter
<1>2. CASE life # Forever /\ life > Gone
  BY <1>2 DEF Shorter
<1>3. CASE life # Forever /\ ~(life > Gone)
  BY <1>3 DEF Shorter
<1>4. QED
  BY <1>1, <1>2, <1>3

\* Silence grows by no more than a life shrinks.
LEMMA LifeLeft ==
  ASSUME NEW s \in Int, NEW n \in Int, NEW c \in Int, NEW longest \in Int,
         n <= s + 1, s + c <= longest
  PROVE  n + (c - 1) <= longest
OBVIOUS

LEMMA NextCases ==
  ASSUME Next
  PROVE  \/ StartTick \/ EndTick \/ RequestBypass \/ ExitBypass \/ SendHeartbeat
         \/ SendOrder \/ SessionChanges \/ Restart \/ Time
         \/ \E stamp \in beats : HandleHeartbeat(stamp)
         \/ \E life \in orders : DropExpired(life) \/ HandleOrder(life)
BY DEF Next, Handling

-----------------------------------------------------------------------------
LEMMA TypeStep == TypeOK /\ [Next]_vars => TypeOK'
<1> SUFFICES ASSUME TypeOK, [Next]_vars PROVE TypeOK'
  OBVIOUS
<1> USE Constants
<1>1. CASE StartTick
  BY <1>1 DEF StartTick, TypeOK, BypassOver, Judged, worldVars, historyVars, Stale, Dark, Settled, Never
<1>2. CASE EndTick
  BY <1>2 DEF EndTick, TypeOK, worldVars, monitorVars, historyVars, Stale, Dark, Settled
<1>3. CASE RequestBypass
  BY <1>3 DEF RequestBypass, TypeOK, worldVars, loopVars, historyVars, Stale, Dark, Settled, Never
<1>4. CASE ExitBypass
  BY <1>4 DEF ExitBypass, TypeOK, worldVars, loopVars, historyVars, Stale, Dark, Settled, Never
<1>5. CASE SendHeartbeat
  <2>1. PICK stamp \in (-Skew)..0 : beats' = beats \cup {stamp}
    BY <1>5 DEF SendHeartbeat
  <2>2. stamp \in (-Skew)..Stale
    BY DEF Stale
  <2>3. beats' \subseteq (-Skew)..Stale
    BY <2>1, <2>2 DEF TypeOK
  <2> QED
    BY <1>5, <2>3 DEF SendHeartbeat, TypeOK, monitorVars, historyVars, loopVars, Dark
<1>6. CASE SendOrder
  <2>1. PICK life \in Lives : orders' = orders \cup {life}
    BY <1>6 DEF SendOrder
  <2>3. orders' \subseteq Gone..Forever
    BY <2>1 DEF TypeOK
  <2> QED
    BY <1>6, <2>3 DEF SendOrder, TypeOK, monitorVars, historyVars, loopVars, Dark
<1>7. CASE SessionChanges
  BY <1>7 DEF SessionChanges, TypeOK, monitorVars, historyVars, loopVars
<1>8. CASE Restart
  <2>1. marked' \in BOOLEAN /\ session' \in BOOLEAN
    BY <1>8, Zenon DEF Restart, TypeOK
  <2> QED
    BY <1>8, <2>1 DEF Restart, TypeOK, historyVars, Stale, Dark, Settled, Never
<1>9. CASE Time
  <2>1. /\ Stale \in Nat /\ Dark \in Nat /\ Settled \in Nat
    BY DEF Stale, Dark, Settled
  <2>2. /\ freshAge' = Older(freshAge, Stale)
        /\ silence' = Older(silence, Dark)
        /\ resumeAge' = Older(resumeAge, Settled)
        /\ undatedAge' = Older(undatedAge, Stale)
    BY <1>9 DEF Time
  <2>6. /\ freshAge \in 0..Stale /\ silence \in 0..Dark /\ resumeAge \in 0..Settled
        /\ undatedAge \in 0..Stale
    BY DEF TypeOK
  <2>7. /\ freshAge' \in 0..Stale /\ silence' \in 0..Dark /\ resumeAge' \in 0..Settled
        /\ undatedAge' \in 0..Stale
    BY <2>1, <2>2, <2>6 DEF Older
  <2>3. beats' \subseteq (-Skew)..Stale
    <3>1. ASSUME NEW b \in beats PROVE Older(b, Stale) \in (-Skew)..Stale
      BY <2>1, OlderAge DEF TypeOK
    <3> QED
      BY <1>9, <3>1 DEF Time
  <2>4. orders' \subseteq Gone..Forever
    <3>1. ASSUME NEW o \in orders PROVE Shorter(o) \in Gone..Forever
      BY ShorterLife DEF TypeOK
    <3> QED
      BY <1>9, <3>1 DEF Time
  <2>5. /\ bypassAge' \in Nat \cup {Never}
        /\ state' = "bypass" <=> bypassAge' # Never
        /\ tickAge' \in 0..MaxLag
    BY <1>9 DEF Time, TypeOK, Never
  <2> QED
    BY <1>9, <2>7, <2>3, <2>4, <2>5 DEF Time, TypeOK, Stale, Dark, Settled, Never
<1>10. ASSUME NEW stamp \in beats, HandleHeartbeat(stamp) PROVE TypeOK'
  <2>1. stamp \in (-Skew)..Stale /\ beats' \subseteq (-Skew)..Stale
    BY <1>10 DEF HandleHeartbeat, TypeOK
  <2>2. marked' \in BOOLEAN
    BY <1>10, Zenon DEF HandleHeartbeat, TypeOK, Credit
  <2>3. freshAge' \in 0..Stale
    BY <1>10, <2>1 DEF HandleHeartbeat, TypeOK, Credit, Earlier, Stale
  <2> QED
    BY <1>10, <2>1, <2>2, <2>3 DEF HandleHeartbeat, TypeOK, loopVars, historyVars, Stale, Dark,
         Settled, Never
<1>11. ASSUME NEW life \in orders, DropExpired(life) PROVE TypeOK'
  BY <1>11 DEF DropExpired, TypeOK, monitorVars, historyVars, loopVars
<1>12. ASSUME NEW life \in orders, HandleOrder(life) PROVE TypeOK'
  <2>1. orders' \subseteq Gone..Forever /\ undatedAge' \in 0..Stale
    BY <1>12 DEF HandleOrder, TypeOK, Earlier, Stale
  <2>2. marked' \in BOOLEAN
    BY <1>12, Zenon DEF HandleOrder, Credit
  <2>3. freshAge' \in 0..Stale
    BY <1>12 DEF HandleOrder, TypeOK, Credit, Earlier, Stale
  <2> QED
    BY <1>12, <2>1, <2>2, <2>3 DEF HandleOrder, TypeOK, loopVars, Stale, Dark, Settled,
         Never
<1>13. CASE UNCHANGED vars
  BY <1>13 DEF TypeOK, vars, monitorVars, historyVars, loopVars, worldVars
<1> QED
  BY <1>1, <1>2, <1>3, <1>4, <1>5, <1>6, <1>7, <1>8, <1>9, <1>10, <1>11, <1>12, <1>13,
     NextCases

LEMMA TypeInit == Init => TypeOK
<1> SUFFICES ASSUME Init PROVE TypeOK
  OBVIOUS
<1>1. marked \in BOOLEAN /\ session \in BOOLEAN
  BY Zenon DEF Init
<1> QED
  BY <1>1, Constants DEF Init, TypeOK, Never, Stale, Dark, Settled

\* Every variable of the monitor, the loop and the world stays in its domain, and there
\* is a start of the BYPASS exactly while one is in force, as evaluate asserts
\* (safety_mode.py:183).
THEOREM TypeCorrect == Spec => []TypeOK
<1> QED
  BY TypeInit, TypeStep, PTL DEF Spec

-----------------------------------------------------------------------------
\* The margin of evidence, action by action.

LEMMA WitnessedStep == TypeOK /\ Witnessed /\ [Next]_vars => Witnessed'
<1> SUFFICES ASSUME TypeOK, Witnessed, [Next]_vars PROVE Witnessed'
  OBVIOUS
<1> USE Constants
<1>1. CASE StartTick \/ EndTick \/ RequestBypass \/ ExitBypass \/ SessionChanges
           \/ UNCHANGED vars
  BY <1>1 DEF StartTick, EndTick, RequestBypass, ExitBypass, SessionChanges, Witnessed,
              vars, monitorVars, historyVars, loopVars, worldVars
<1>2. CASE SendHeartbeat
  <2>1. PICK stamp \in (-Skew)..0 : beats' = beats \cup {stamp}
    BY <1>2 DEF SendHeartbeat
  <2>2. silence' = 0 /\ freshAge' = freshAge /\ orders' = orders
    BY <1>2 DEF SendHeartbeat, monitorVars, historyVars
  <2>3. \A o \in orders : o # Forever => silence' + o <= Longest
    BY <2>2 DEF TypeOK
  <2> QED
    BY <2>1, <2>2, <2>3 DEF Witnessed, TypeOK, Stale
<1>3. CASE SendOrder
  <2>1. PICK life \in Lives : orders' = orders \cup {life}
    BY <1>3 DEF SendOrder
  <2>2. silence' = 0 /\ freshAge' = freshAge /\ beats' = beats
    BY <1>3 DEF SendOrder, monitorVars, historyVars
  <2>3. \A o \in orders' : o # Forever => silence' + o <= Longest
    BY <2>1, <2>2 DEF TypeOK
  <2> QED
    BY <2>2, <2>3 DEF Witnessed, TypeOK, Stale
<1>4. CASE Restart
  BY <1>4 DEF Restart, Witnessed, TypeOK, Stale
<1>5. CASE Time
  <2>1. Stale \in Nat /\ Dark \in Nat /\ Stale > Limit
    BY DEF Stale, Dark
  <2>2. /\ freshAge' = Older(freshAge, Stale)
        /\ silence' = Older(silence, Dark)
        /\ beats' = {Older(b, Stale) : b \in beats}
        /\ orders' = {Shorter(o) : o \in orders}
        /\ undatedAge' = Older(undatedAge, Stale)
    BY <1>5 DEF Time
  <2>3. /\ silence \in Int /\ freshAge \in Int /\ freshAge' \in Int
        /\ silence' \in Int /\ silence' <= silence + 1
        /\ undatedAge \in Int /\ undatedAge' \in Int /\ undatedAge' <= undatedAge + 1
    BY <2>1, <2>2 DEF Older, TypeOK
  <2>4. freshAge' <= Limit => silence' <= freshAge' + Longest \/ undatedAge' <= freshAge'
    <3>1. freshAge' <= Limit => freshAge' = freshAge + 1 /\ freshAge <= Limit
      BY <2>1, <2>2 DEF Older, TypeOK
    <3> QED
      BY <2>3, <3>1 DEF Witnessed
  <2>5. ASSUME NEW b \in beats', b <= Limit PROVE silence' <= b + Skew
    <3>1. PICK c \in beats : b = Older(c, Stale)
      BY <2>2
    <3>2. c \in Int /\ c <= Limit /\ b = c + 1
      BY <3>1, <2>1, <2>5 DEF Older, TypeOK
    <3>3. silence <= c + Skew
      BY <3>1, <3>2 DEF Witnessed
    <3> QED
      BY <2>3, <3>2, <3>3
  <2>6. ASSUME NEW o \in orders', o # Forever, o > Gone PROVE silence' + o <= Longest
    <3>1. PICK c \in orders : o = Shorter(c)
      BY <2>2
    <3>2. c \in Int /\ c # Forever /\ c > Gone /\ o = c - 1
      BY <3>1, <2>6, ShorterLife DEF TypeOK
    <3>3. silence + c <= Longest /\ Longest \in Int
      BY <3>1, <3>2 DEF Witnessed
    <3>4. silence' + (c - 1) <= Longest
      BY <2>3, <3>2, <3>3, LifeLeft
    <3> QED
      BY <3>2, <3>4
  <2> QED
    BY <2>4, <2>5, <2>6 DEF Witnessed
<1>6. ASSUME NEW stamp \in beats, HandleHeartbeat(stamp) PROVE Witnessed'
  <2>1. stamp \in Int /\ (stamp <= Limit => silence <= stamp + Skew)
    BY DEF Witnessed, TypeOK
  <2>2. freshAge' <= Limit => silence <= freshAge' + Longest \/ undatedAge <= freshAge'
    BY <1>6, <2>1 DEF HandleHeartbeat, Credit, Earlier, Witnessed, TypeOK
  <2>3. /\ beats' \subseteq beats /\ orders' = orders /\ silence' = silence
        /\ undatedAge' = undatedAge
    BY <1>6 DEF HandleHeartbeat, historyVars
  <2> QED
    BY <2>2, <2>3 DEF Witnessed
<1>7. ASSUME NEW life \in orders, DropExpired(life) PROVE Witnessed'
  BY <1>7 DEF DropExpired, Witnessed, monitorVars, historyVars
<1>8. ASSUME NEW life \in orders, HandleOrder(life) PROVE Witnessed'
  <2>1. /\ tickAge \in 0..MaxLag /\ life \in Int /\ silence \in Int /\ freshAge \in Int
        /\ undatedAge \in Int
    BY DEF TypeOK
  <2>2. life # Forever => silence <= tickAge + Longest
    <3>1. life # Forever => life + tickAge >= 0 /\ life > Gone
      BY <1>8, <2>1 DEF HandleOrder, Expired
    <3>2. life # Forever => silence + life <= Longest
      BY <3>1 DEF Witnessed
    <3>3. QED
      BY <2>1, <3>1, <3>2
  <2>3. /\ undatedAge' \in Int /\ undatedAge' <= undatedAge
        /\ life = Forever => undatedAge' <= tickAge
    BY <1>8, <2>1 DEF HandleOrder, Earlier
  <2>4. freshAge' <= Limit => silence <= freshAge' + Longest \/ undatedAge' <= freshAge'
    <3>1. freshAge' = freshAge \/ freshAge' = tickAge
      BY <1>8 DEF HandleOrder, Credit, Earlier
    <3>2. CASE freshAge' = freshAge
      BY <2>1, <2>3, <3>2 DEF Witnessed
    <3>3. CASE freshAge' = tickAge
      BY <2>1, <2>2, <2>3, <3>3
    <3> QED
      BY <3>1, <3>2, <3>3
  <2>5. orders' \subseteq orders /\ beats' = beats /\ silence' = silence
    BY <1>8 DEF HandleOrder
  <2> QED
    BY <2>4, <2>5 DEF Witnessed
<1> QED
  BY <1>1, <1>2, <1>3, <1>4, <1>5, <1>6, <1>7, <1>8, NextCases

LEMMA BypassStep == TypeOK /\ BypassTimed /\ [Next]_vars => BypassTimed'
<1> SUFFICES ASSUME TypeOK, BypassTimed, [Next]_vars PROVE BypassTimed'
  OBVIOUS
<1> USE Constants DEF TypeOK, BypassTimed, Never
<1>1. CASE StartTick
  BY <1>1 DEF StartTick, BypassOver
<1>2. CASE EndTick \/ SendHeartbeat \/ SendOrder \/ SessionChanges \/ UNCHANGED vars
  BY <1>2 DEF EndTick, SendHeartbeat, SendOrder, SessionChanges, vars, monitorVars, historyVars, loopVars
<1>3. CASE RequestBypass \/ ExitBypass \/ Restart
  BY <1>3 DEF RequestBypass, ExitBypass, Restart, loopVars
<1>4. CASE Time
  BY <1>4 DEF Time
<1>5. ASSUME NEW stamp \in beats, HandleHeartbeat(stamp) PROVE BypassTimed'
  BY <1>5 DEF HandleHeartbeat, loopVars
<1>6. ASSUME NEW life \in orders, DropExpired(life) \/ HandleOrder(life) PROVE BypassTimed'
  BY <1>6 DEF DropExpired, HandleOrder, monitorVars, historyVars, loopVars
<1> QED
  BY <1>1, <1>2, <1>3, <1>4, <1>5, <1>6, NextCases

LEMMA ResumedStep == TypeOK /\ Resumed /\ [Next]_vars => Resumed'
<1> SUFFICES ASSUME TypeOK, Resumed, [Next]_vars PROVE Resumed'
  OBVIOUS
<1> USE Constants DEF TypeOK, Resumed, Settled
<1>1. CASE StartTick
  BY <1>1 DEF StartTick, BypassOver, Judged
<1>2. CASE EndTick \/ SendHeartbeat \/ SendOrder \/ SessionChanges \/ UNCHANGED vars
  BY <1>2 DEF EndTick, SendHeartbeat, SendOrder, SessionChanges, vars, monitorVars, historyVars
<1>3. CASE RequestBypass \/ ExitBypass \/ Restart
  BY <1>3 DEF RequestBypass, ExitBypass, Restart, historyVars
<1>4. CASE Time
  BY <1>4 DEF Time, Older, Stale
<1>5. ASSUME NEW stamp \in beats, HandleHeartbeat(stamp) PROVE Resumed'
  <2>1. stamp \in Int
    OBVIOUS
  <2> QED
    BY <1>5, <2>1 DEF HandleHeartbeat, Credit, Earlier, historyVars
<1>6. ASSUME NEW life \in orders, DropExpired(life) PROVE Resumed'
  BY <1>6 DEF DropExpired, monitorVars, historyVars
<1>7. ASSUME NEW life \in orders, HandleOrder(life) PROVE Resumed'
  BY <1>7 DEF HandleOrder, Credit, Earlier
<1> QED
  BY <1>1, <1>2, <1>3, <1>4, <1>5, <1>6, <1>7, NextCases

LEMMA InvariantInit == Init => SafetyInvariant
<1> SUFFICES ASSUME Init PROVE SafetyInvariant
  OBVIOUS
<1>1. TypeOK
  BY TypeInit
<1>2. Witnessed /\ BypassTimed
  BY Constants DEF Init, Witnessed, BypassTimed, Never
<1>3. Resumed
  BY Constants DEF Init, Resumed, Settled
<1> QED
  BY <1>1, <1>2, <1>3 DEF SafetyInvariant

LEMMA InvariantAlways == Spec => []SafetyInvariant
<1>1. SafetyInvariant /\ [Next]_vars => SafetyInvariant'
  BY TypeStep, WitnessedStep, BypassStep, ResumedStep DEF SafetyInvariant
<1> QED
  BY InvariantInit, <1>1, PTL DEF Spec

-----------------------------------------------------------------------------
\* A BYPASS is over at the latest one tick after its window (safety_mode.py:182-185),
\* however often it is requested again and whether or not the market is open.
THEOREM BypassEnds == Spec => []BypassBounded
<1>1. SafetyInvariant => BypassBounded
  BY Constants DEF SafetyInvariant, TypeOK, BypassTimed, BypassBounded, Never
<1> QED
  BY <1>1, InvariantAlways, PTL

\* A tick leaves the engine RUNNING in session only on a sign of System 3 that is at
\* most the staleness limit and the longest life of an order old, or on an order within
\* the limit that can never expire (is_expired, record_heartbeat, _credit_freshness,
\* evaluate).
THEOREM EvidenceRequired == Spec => RunningOnEvidence
<1>1. SafetyInvariant /\ [Next]_vars =>
        (pc = "tick" /\ pc' = "handle" /\ session /\ state' = "running" =>
           silence <= Limit + Longest \/ undatedAge <= Limit)
  <2> SUFFICES ASSUME SafetyInvariant, [Next]_vars,
                      pc = "tick", pc' = "handle", session, state' = "running"
               PROVE  silence <= Limit + Longest \/ undatedAge <= Limit
    OBVIOUS
  <2>1. StartTick
    BY NextCases DEF EndTick, RequestBypass, ExitBypass, SendHeartbeat, SendOrder,
       SessionChanges, Restart, Time, HandleHeartbeat, DropExpired, HandleOrder,
       vars, loopVars
  <2>2. freshAge <= Limit
    BY <2>1, Constants DEF StartTick, Judged, SafetyInvariant, TypeOK
  <2> QED
    BY <2>2, Constants DEF SafetyInvariant, Witnessed, TypeOK
<1> QED
  BY <1>1, InvariantAlways, PTL DEF Spec, RunningOnEvidence

\* After resuming on fresh evidence the monitor stays RUNNING through the hysteresis
\* (safety_mode.py:194-200).
THEOREM NoFlap == Spec => NoFlapping
<1>1. SafetyInvariant /\ [Next]_vars =>
        (state = "running" /\ state' = "paused" => resumeAge > Hysteresis)
  <2> SUFFICES ASSUME SafetyInvariant, [Next]_vars, state = "running", state' = "paused"
               PROVE  resumeAge > Hysteresis
    OBVIOUS
  <2>1. StartTick
    BY NextCases DEF EndTick, RequestBypass, ExitBypass, SendHeartbeat, SendOrder,
       SessionChanges, Restart, Time, HandleHeartbeat, DropExpired, HandleOrder,
       vars, monitorVars, historyVars
  <2>2. freshAge > Limit
    BY <2>1, Constants DEF StartTick, Judged, BypassOver
  <2> QED
    BY <2>2, Constants DEF SafetyInvariant, Resumed, TypeOK, Settled
<1> QED
  BY <1>1, InvariantAlways, PTL DEF Spec, NoFlapping
=============================================================================
