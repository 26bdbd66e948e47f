---------------------------- MODULE MCAsyncMutex ----------------------------
(* AsyncMutex with a few coroutines, interchangeable but for timeouts. *)
EXTENDS AsyncMutex, TLC

Symmetry == Permutations(Timed) \union Permutations(Coroutine \ Timed)
=============================================================================
