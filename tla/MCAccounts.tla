----------------------------- MODULE MCAccounts -----------------------------
\* Instances of Accounts for TLC.
EXTENDS Accounts, TLC

CONSTANTS w1, w2, u1, u2

\* Each user has one request open at a time.
OnePerUser == [w \in Workers |-> IF w = w1 THEN u1 ELSE u2]

\* One user has two requests open at a time.
SameUser == [w \in Workers |-> u1]

Symmetry == Permutations(Orgs) \cup Permutations(Invites)
=============================================================================
