---------------------------- MODULE MCSafeTimer ----------------------------
(* SafeTimer with three small levels. *)
EXTENDS SafeTimer, TLC

ThreeLevels == <<4, 2, 2>>

Symmetry == Permutations(Timer)
=============================================================================
