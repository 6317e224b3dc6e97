----------------------------- MODULE MCLLMRouter -----------------------------
(* Small data for the LLMRouter runs: three models of one account.  o has no      *)
(* limit, g fits one of the two calls per window, f is too small for any prompt.  *)
(* The calls share g as their last client.                                        *)
EXTENDS LLMRouter, TLC
CONSTANTS g, o, f, openrouter, c1, c2

MCProviderOf == [k \in Clients |-> openrouter]
MCLimits     == (g :> 5) @@ (f :> 3)
MCNoLimits   == [x \in {} |-> 0]
MCChain      == [c \in Calls |-> IF c = c1 THEN <<o, g>> ELSE <<f, g>>]
MCChainFree  == [c \in Calls |-> <<f>>]
MCPrompt     == [c \in Calls |-> IF c = c1 THEN 3 ELSE 2]
MCDeadline   == [c \in Calls |-> MaxNow]
==============================================================================
