--------------------------- MODULE MCThreadRecord ---------------------------
(***************************************************************************)
(* ThreadRecord for TLC: requests and tokens are interchangeable, and what *)
(* follows a run astray and a share crossed is not explored.               *)
(***************************************************************************)
EXTENDS ThreadRecord, TLC

Symmetry == Permutations(Req) \cup Permutations(Token)

\* Both say that the properties have nothing left to say of what follows.
Unsettled == ~(crossed /\ strayed)
=============================================================================
