------------------------------ MODULE MCEngine ------------------------------
EXTENDS Answers

(* A built-in rule and a rule pack's rule that file under one category,      *)
(* beside a category in which nothing is found.  The pack's rule may answer  *)
(* under the built-in's id.                                                  *)
MCPair == {"b1", "p1"}
MCPairDiscovered == <<"b1", "p1">>
MCPairCategory == [r \in MCPair |-> "core"]
MCPairWeight == [r \in MCPair |-> IF r = "b1" THEN 3 ELSE 2]
MCPairClaims == [r \in MCPair |-> IF r = "p1" THEN {"b1", "p1"} ELSE {r}]
MCCategoryWeight == [core |-> 12, pack |-> 4]
=============================================================================
