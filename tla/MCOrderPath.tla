---------------------------- MODULE MCOrderPath ----------------------------
(***************************************************************************)
(* Small instances of OrderPath: the orders each run publishes.            *)
(***************************************************************************)
EXTENDS OrderPath

CONSTANTS k1, k2, s1

MCKeys == {k1, k2}
MCSignals == {s1}
OneInstrument == [k \in MCKeys |-> "EUR_USD"]

\* Two orders of one instrument under one signal.
TwoOrders == <<"order", "order">>
TwoKeys == <<k1, k2>>
OneSignal == <<s1, s1>>

\* An order between two messages that can never become one.
PoisonKind == <<"unreadable", "order", "malformed">>
PoisonKey == <<k2, k1, k2>>
PoisonSignal == <<NoSignal, s1, NoSignal>>
=============================================================================
