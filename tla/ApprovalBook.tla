---------------------------- MODULE ApprovalBook ----------------------------
(***************************************************************************)
(* What the gate, the session and its replays promise together: a book     *)
(* with a column for each action, where a reviewer's approval or a token   *)
(* that was claimed without one is entered and later used, at most once.   *)
(* Guarded actions need one for each run, barred ones never run, whatever  *)
(* is entered.  The book does not promise that a reviewer was asked.       *)
(***************************************************************************)
EXTENDS Integers

CONSTANTS Actions, Guarded, Barred

VARIABLES given, claimed, used

Init ==
  /\ given = [a \in Guarded |-> 0] /\ claimed = [a \in Guarded |-> 0]
  /\ used = [a \in Actions |-> 0]

Approve(a) ==
  /\ given' = [given EXCEPT ![a] = @ + 1]
  /\ UNCHANGED <<claimed, used>>

\* One plan may claim several.
Claim ==
  /\ claimed' \in [Guarded -> Nat]
  /\ \A a \in Guarded : claimed'[a] >= claimed[a]
  /\ UNCHANGED <<given, used>>

\* A gate that claims a token for what it is shown does so in the step that runs it.
Run(a) ==
  /\ a \notin Barred
  /\ claimed' \in {claimed, [claimed EXCEPT ![a] = @ + 1]}
  /\ a \in Guarded => used[a] < given[a] + claimed'[a]
  /\ used' = [used EXCEPT ![a] = @ + 1]
  /\ UNCHANGED given

Next ==
  \/ Claim
  \/ \E a \in Guarded : Approve(a)
  \/ \E a \in Actions : Run(a)

Spec == Init /\ [][Next]_<<given, claimed, used>>
=============================================================================
