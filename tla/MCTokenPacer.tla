----------------------------- MODULE MCTokenPacer ----------------------------
(* Small data for the TokenPacer runs: key a has its own limit, b has its         *)
(* provider's, u is set to unlimited although its provider has one.               *)
EXTENDS TokenPacer, TLC
CONSTANTS a, b, u, p

MCProviderOf == [k \in Keys |-> p]
MCLimits == (a :> 3) @@ (u :> 0) @@ (p :> 3)
MCBlocks == {-1, 2}
CallerSymmetry == Permutations(Callers)
==============================================================================
