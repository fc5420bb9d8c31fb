----------------------------- MODULE MCRuntime -----------------------------
(* Runtime for TLC: the calls are interchangeable.                      *)
EXTENDS Runtime, TLC

CallSymmetry == Permutations(Calls)
=============================================================================
