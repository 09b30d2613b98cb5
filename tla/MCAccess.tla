------------------------------ MODULE MCAccess ------------------------------
(* Access with a few users. *)
EXTENDS Access

CONSTANTS p1, p2, w1
=============================================================================
