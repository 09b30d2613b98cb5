------------------------------- MODULE MCTill -------------------------------
(* The register and its reports on an instance TLC can explore. *)
EXTENDS Reports

CONSTANTS tea, nuts, new, c1

UnitCost == [p \in Products |-> IF p = nuts THEN 3 ELSE 1]
=============================================================================
