------------------------------ MODULE MCSchema ------------------------------
(* SchemaUpgrade on the files of five releases and an empty file. *)
EXTENDS SchemaUpgrade

Sale(v, year) == [Row(year, 1, FALSE) EXCEPT !.pieces = IF v < 13 THEN 0 ELSE 6]
Mirror(v, year, again) == [Row(year, -1, again) EXCEPT !.pieces = IF v < 13 THEN 0 ELSE -6]

SalesOf(v) == {<<Sale(v, 2025), Sale(v, 2026)>>, <<Sale(v, 2025), Mirror(v, 2025, FALSE)>>}
CreditsOf(v) == {<<>>, <<Sale(v, 2025)>>,
                 <<Sale(v, 2025), Mirror(v, 2025, FALSE), Mirror(v, 2026, TRUE)>>}

Since(v) == UNION {Listed(ColumnsOf(w)) : w \in 2..v} \cup (IF v < 11 THEN {} ELSE {Marker})
Payment(purchase, noted, agrees, initial) ==
    [purchase |-> purchase, noted |-> noted, agrees |-> agrees, initial |-> initial]
Payments(v) ==
    <<Payment(1, TRUE, TRUE, v >= 11), Payment(1, TRUE, TRUE, FALSE), Payment(2, FALSE, FALSE, FALSE)>>
Product(size, per, weighed) == [packageSize |-> size, perPackage |-> per, weighed |-> weighed]

\* The numbers of the rows, from 15 on.
Issued(v, papers, before) ==
    [i \in DOMAIN papers |-> [papers[i] EXCEPT !.number = IF v < 15 THEN 0 ELSE before + i]]

\* A file that version v wrote.
Release(v, sales, credits, open, own) ==
    [version |-> v, tables |-> IF v < 15 THEN Tables \ {"receipt_sequences"} ELSE Tables,
     columns |-> Since(v) \cup (IF v = 1 THEN {} ELSE Listed(EveryOpening) \cup {Weight}),
     indexes |-> IF v < 4 THEN {}
                 ELSE {ReversalIndex("sales")}
                      \cup (IF \E i \in DOMAIN credits : credits[i].doubled THEN {}
                            ELSE {ReversalIndex("customer_transactions")}),
     stockTrigger |-> TRUE, blankRefused |-> v = 1,
     ledger |-> [l \in Ledgers |-> IF l = "sales" THEN Issued(v, sales, 0) ELSE Issued(v, credits, 2)],
     counters |-> [y \in Years |-> IF v < 15 THEN 0 ELSE 5], payments |-> Payments(v),
     products |-> <<Product(12, IF v = 13 THEN 6 ELSE IF v >= 14 THEN 12 ELSE 1, FALSE),
                    Product(12, 1, FALSE), Product(5, IF v = 14 THEN 5 ELSE 1, v # 1)>>,
     settings |-> [k \in Keys |-> IF own THEN "own" ELSE None],
     zakat |-> [k \in Keys |-> IF k = "enabled" /\ v < 12 THEN "old" ELSE None],
     sessions |-> open]

Empty ==
    [version |-> 0, tables |-> {}, columns |-> {}, indexes |-> {}, stockTrigger |-> FALSE,
     blankRefused |-> FALSE, ledger |-> [l \in Ledgers |-> <<>>], counters |-> [y \in Years |-> 0],
     payments |-> <<>>, products |-> <<>>, settings |-> [k \in Keys |-> None],
     zakat |-> [k \in Keys |-> None], sessions |-> 0]

SomeReleases ==
    {Empty} \cup UNION {{Release(v, s, c, IF own THEN 2 ELSE 0, own) :
                            s \in SalesOf(v), c \in CreditsOf(v), own \in BOOLEAN}
                        : v \in {1, 10, 13, 14, 16}}
=============================================================================
