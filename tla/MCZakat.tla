------------------------------ MODULE MCZakat ------------------------------
(* Zakat over a few short years.                                             *)
EXTENDS Zakat

\* Nisabs below, at and above what the base comes to.
SomePrices == {20, 30}
SomeBases == {40, 80}
=============================================================================
