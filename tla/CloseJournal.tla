---------------------------- MODULE CloseJournal ----------------------------
(***************************************************************************)
(* What System 3 may conclude from the close events of System 2, without   *)
(* sweeps, outboxes, ledgers or restarts: it hears of the close of a trade *)
(* only after the broker closed all of it or part of it, and never hears   *)
(* otherwise again.  That part of a trade is taken for all of it is what   *)
(* the broker's answers allow and the code does not prevent.               *)
(***************************************************************************)
CONSTANT Trades

VARIABLE phase   \* trade -> "unopened"; "open", "reduced" (in part closed) or "closed"
                 \* at the broker; "told" (closed, as System 3 knows), "misled"
                 \* (reduced, and closed as System 3 has it)

Init == phase = [t \in Trades |-> "unopened"]

\* What may become of a trade: the broker opens it, closes part of it or the rest, and
\* System 3 hears of a close, of all of it or while some of it is still open.
After ==
  [unopened |-> {"open"},
   open     |-> {"reduced", "closed"},
   reduced  |-> {"closed", "misled"},
   closed   |-> {"told"},
   misled   |-> {"told"},
   told     |-> {}]

Next ==
  \E t \in Trades :
    /\ phase'[t] \in After[phase[t]]
    /\ phase' = [phase EXCEPT ![t] = phase'[t]]

Spec == Init /\ [][Next]_phase
=============================================================================
