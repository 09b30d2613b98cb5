---------------------------- MODULE MCPurchases ----------------------------
(* Purchases on an instance TLC can explore. *)
EXTENDS Purchases, TLC

CONSTANTS s1, s2

\* The suppliers differ only by name.
Symmetry == Permutations({s1, s2})
=============================================================================
