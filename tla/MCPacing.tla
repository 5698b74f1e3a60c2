------------------------------ MODULE MCPacing ------------------------------
EXTENDS Pacing, TLC

CONSTANTS r1, r2

(* One request of each handler, one of them from China. *)
mcCountry == [r \in Requests |-> IF r = r1 THEN "CN" ELSE "US"]
mcNone == -1
mcSymmetry == Permutations(Ctrls)
=============================================================================
