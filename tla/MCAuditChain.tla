---------------------------- MODULE MCAuditChain ----------------------------
(* Instances of AuditChain for TLC. *)
EXTENDS AuditChain, TLC

CONSTANTS w1, w2, h1, h2, o1, o2

\* Both organizations hash to one advisory lock key.
CollidingKeys == [o \in Orgs |-> 0]
DistinctKeys == [o \in Orgs |-> IF o = o1 THEN 0 ELSE 1]

Symmetry == Permutations(Writers) \cup Permutations(Hosts)
=============================================================================
