----------------------------- MODULE AtMostOnce -----------------------------
(***************************************************************************)
(* What System 3 relies on when it sends an approved order, whatever is    *)
(* replayed, retried or crashes on the way: the order is filled once at    *)
(* most, and what System 2 reports of it is what happened at the broker,   *)
(* then and for good.                                                      *)
(***************************************************************************)
EXTENDS Naturals

CONSTANT Orders

VARIABLES fills,   \* order -> how often the broker filled it
          told     \* order -> what was reported of it: "nothing", "filled" or "refused"

vars == <<fills, told>>

Init ==
  /\ fills = [k \in Orders |-> 0]
  /\ told = [k \in Orders |-> "nothing"]

Fill(k) ==
  /\ fills[k] = 0 /\ told[k] = "nothing"
  /\ fills' = [fills EXCEPT ![k] = 1]
  /\ UNCHANGED told

Tell(k) ==
  /\ told[k] = "nothing"
  /\ told' = [told EXCEPT ![k] = IF fills[k] = 1 THEN "filled" ELSE "refused"]
  /\ UNCHANGED fills

Next == \E k \in Orders : Fill(k) \/ Tell(k)

Spec == Init /\ [][Next]_vars
=============================================================================
