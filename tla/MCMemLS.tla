------------------------------ MODULE MCMemLS ------------------------------
(***************************************************************************)
(* A small tree of names and lock durations for model-checking MemLS and   *)
(* its refinement.                                                         *)
(***************************************************************************)
EXTENDS MemLSRefinement, TLC

\* "/", "/a" and "/a/b": a name, one above it and one below it.
MCChain == { << >>, << "a" >>, << "a", "b" >> }

\* A lock without timeout, and one that expires after one tick.
MCTimeouts == {-1, 1}

\* Callers are only compared with each other.
MCCallers == Permutations(Caller)
=============================================================================
