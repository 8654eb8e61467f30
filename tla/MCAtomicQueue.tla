--------------------------- MODULE MCAtomicQueue ----------------------------
(***************************************************************************)
(* Model values for AtomicQueue: two values, a queue that holds three, and *)
(* an index of 8 bits.                                                     *)
(***************************************************************************)
EXTENDS AtomicQueue

CONSTANTS v1, v2

MCValues == {v1, v2}
=============================================================================
