------------------------ MODULE MCMemoryAdmission ------------------------
(* MemoryAdmission with three concurrent requests.                       *)
EXTENDS MemoryAdmission, TLC

CONSTANTS r1, r2, r3

MCReqs == {r1, r2, r3}

\* The request slots are interchangeable.
MCSymmetry == Permutations(MCReqs)
=============================================================================
