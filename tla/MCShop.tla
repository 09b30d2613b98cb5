------------------------------- MODULE MCShop -------------------------------
(* ShopLedger on small books: the values its TLC configurations choose from. *)
EXTENDS ShopLedger, TLC

\* Customers are interchangeable: no property names one.
CustomerSymmetry == Permutations(Customers)

\* A credit sale of one, and one whose adjustment takes it below zero.
OneEachSign == {-1, 1}
=============================================================================
