-------------------------- MODULE MCMemoryLimiter --------------------------
(***************************************************************************)
(* Small instances of MemoryLimiter.                                       *)
(***************************************************************************)
EXTENDS MemoryLimiter, TLC

Symmetry == Permutations(Keys)
=============================================================================
