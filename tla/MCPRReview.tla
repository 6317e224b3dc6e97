------------------------------ MODULE MCPRReview -----------------------------
(* Small data for the PRReview runs: candidates a and b make the same claim and *)
(* b is the more severe of the two; c, d and e are claims of their own, c the    *)
(* most severe of all and d one that a rule excludes.                            *)
EXTENDS PRReview, TLC
CONSTANTS a, b, c, d, e

MCKeyOf      == [x \in Cands |-> IF x \in {a, b} THEN a ELSE x]
MCSeverity   == [x \in Cands |-> IF x = a THEN 2 ELSE IF x = c THEN 0 ELSE IF x = e THEN 3 ELSE 1]
MCAuditConf  == [x \in Cands |-> IF x = a THEN 9 ELSE IF x = c THEN 6 ELSE 0]
MCExcluded   == Cands \cap {d, a}
FileSymmetry == Permutations(Files)
==============================================================================
