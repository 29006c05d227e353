----------------------------- MODULE PolicyGate -----------------------------
(***************************************************************************)
(* NativePolicyGate.evaluate_action as a function of the rules a capability *)
(* and its payload match.  The code tries the rules in one fixed order and *)
(* every match overwrites the disposition of the ones before it, so the    *)
(* last match decides.                                                     *)
(***************************************************************************)
EXTENDS Integers, Sequences

\* The reason ids, in the order evaluate_action tries their rules.
RuleOrder ==
  << "environment-not-allowed",
     "credential-handle",
     "exposure-limit",
     "stale-market-data",
     "approval-required",
     "approval-required-by-policy-bundle",
     "wallet-chain-not-allowed",
     "wallet-transfer-limit",
     "approval-required-by-wallet-policy",
     "effect-semantics-missing",
     "memory-sensitivity-exceeds-environment",
     "memory-promotion-requires-approval" >>

Rules == {RuleOrder[i] : i \in 1 .. Len(RuleOrder)}

DenyRules == { "environment-not-allowed", "credential-handle", "wallet-chain-not-allowed",
               "effect-semantics-missing", "memory-sensitivity-exceeds-environment" }

\* The rules an approval token in the payload switches off.
TokenRules == { "approval-required", "approval-required-by-policy-bundle",
                "approval-required-by-wallet-policy" }

\* Mutant: a token switches every rule off.
ReasonIdsLiftedByToken(matched, token) == IF token THEN {} ELSE matched

\* reason_ids for an action that matches these rules.
ReasonIds(matched, token) == IF token THEN matched \ TokenRules ELSE matched

\* final_disposition.
Disposition(reasons) ==
  IF reasons = {} THEN "allow"
  ELSE LET last == CHOOSE i \in 1 .. Len(RuleOrder) :
                     /\ RuleOrder[i] \in reasons
                     /\ \A j \in i + 1 .. Len(RuleOrder) : RuleOrder[j] \notin reasons
       IN  IF RuleOrder[last] \in DenyRules THEN "deny" ELSE "hold"
=============================================================================
