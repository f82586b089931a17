------------------------------ MODULE Decision ------------------------------
(***************************************************************************)
(* What a support grant promises, without requests and transactions: once  *)
(* it is asked for, it is approved or denied, and that is final            *)
(* (services/support_grant_service.py, decide_grant).                      *)
(***************************************************************************)
CONSTANT Grants
VARIABLE decision

Init == decision = [g \in Grants |-> "none"]

Ask(g) ==
  /\ decision[g] = "none"
  /\ decision' = [decision EXCEPT ![g] = "requested"]

Decide(g) ==
  /\ decision[g] = "requested"
  /\ \E verdict \in {"approved", "denied"} :
       decision' = [decision EXCEPT ![g] = verdict]

Next == \E g \in Grants : Ask(g) \/ Decide(g)

Spec == Init /\ [][Next]_decision
=============================================================================
