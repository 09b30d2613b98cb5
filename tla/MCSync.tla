------------------------------- MODULE MCSync -------------------------------
(* MahaliSync on a small shop; the constants are model values and numbers,  *)
(* which the TLC configurations give.                                       *)
EXTENDS MahaliSync
=============================================================================
