---------------------------- MODULE AtLeastOnce ----------------------------
(***************************************************************************)
(* What the durable queue promises the code that uses it, without rows,    *)
(* leases, ack ids or processes: a message that is sent is delivered at    *)
(* least once and at most Deliveries times, until it is settled (acked or  *)
(* dead-lettered), which it is in the end, once and for all.               *)
(***************************************************************************)
EXTENDS Naturals

CONSTANTS Messages, Deliveries

VARIABLES phase,      \* message -> "unsent", "pending" or "settled"
          delivered   \* message -> how often it was handed to a consumer

vars == <<phase, delivered>>

Init ==
  /\ phase = [m \in Messages |-> "unsent"]
  /\ delivered = [m \in Messages |-> 0]

Send(m) ==
  /\ phase[m] = "unsent"
  /\ phase' = [phase EXCEPT ![m] = "pending"]
  /\ UNCHANGED delivered

Deliver(m) ==
  /\ phase[m] = "pending" /\ delivered[m] < Deliveries
  /\ delivered' = [delivered EXCEPT ![m] = @ + 1]
  /\ UNCHANGED phase

Settle(m) ==
  /\ phase[m] = "pending" /\ delivered[m] > 0
  /\ phase' = [phase EXCEPT ![m] = "settled"]
  /\ UNCHANGED delivered

Next == \E m \in Messages : Send(m) \/ Deliver(m) \/ Settle(m)

\* The outcome the users rely on, whatever fairness the implementation needs.
Settlement == \A m \in Messages : (phase[m] = "pending") ~> (phase[m] = "settled")

Spec == Init /\ [][Next]_vars /\ Settlement
=============================================================================
