--------------------------- MODULE SessionLedger ----------------------------
(***************************************************************************)
(* What one agent's budget promises: a single running total that every     *)
(* payment, by whatever channel, is added to in one step and that never    *)
(* passes the cap.  Once a disk fault has hit the record of it the promise *)
(* is off.                                                                 *)
(***************************************************************************)
EXTENDS Integers

CONSTANTS Cap, Amounts

VARIABLES spent, faulted

Init == spent = 0 /\ faulted = FALSE

Spend(amount) ==
  /\ faulted \/ spent + amount <= Cap
  /\ spent' = spent + amount
  /\ faulted' \in {faulted, TRUE}

Fault == faulted' = TRUE /\ UNCHANGED spent

Next == Fault \/ \E amount \in Amounts : Spend(amount)

Spec == Init /\ [][Next]_<<spent, faulted>>
=============================================================================
