--------------------------- MODULE MCOffboarding ---------------------------
(* Instances of Offboarding for TLC. *)
EXTENDS Offboarding, TLC

CONSTANTS w1, w2, d1, d2

\* One worker sweeps and offboards, next to one that does everything else.
Roles == [w \in Workers |-> IF w = w1 THEN {"sweep", "offboard"}
                                     ELSE {"upload", "hold", "sweep", "status"}]
=============================================================================
