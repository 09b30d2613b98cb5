------------------------- MODULE SchemaUpgradeProofs -------------------------
(***************************************************************************)
(* Proofs about SchemaUpgrade, for every set of files that DatabasesAssumption *)
(* admits, every number of power cuts and every bound on the rows.  The       *)
(* first part says what programs of statements are made of; the second what  *)
(* is left of one in the midst of an opening (Program); then each part of the *)
(* invariant is shown to be kept: the types, the settings, the shape of the   *)
(* tables, the numbers, the counts, and what the old rows have come to have.  *)
(***************************************************************************)
EXTENDS SchemaUpgrade, FiniteSetTheorems, SequenceTheorems, TLAPS

----------------------------------------------------------------------------
(* Programs. *)

\* A statement gives way to those that are pushed in its place.
LEMMA AfterStep ==
    ASSUME NEW S, NEW t \in Seq(S), t # <<>>, NEW more \in Seq(S)
    PROVE  /\ more \o Tail(t) \in Seq(S)
           /\ Len(more \o Tail(t)) = Len(more) + Len(t) - 1
           /\ Len(t) >= 1 /\ DOMAIN t = 1..Len(t) /\ DOMAIN more = 1..Len(more)
           /\ DOMAIN (more \o Tail(t)) = 1..Len(more) + Len(t) - 1
           /\ \A n \in 1..Len(more) : (more \o Tail(t))[n] = more[n]
           /\ \A n \in 2..Len(t) : (more \o Tail(t))[n - 1 + Len(more)] = t[n]
<1>1. /\ Tail(t) \in Seq(S) /\ Len(Tail(t)) = Len(t) - 1
      /\ \A n \in 1..Len(Tail(t)) : Tail(t)[n] = t[n + 1]
  BY HeadTailProperties
<1>2. Len(t) \in Nat /\ Len(t) >= 1 /\ DOMAIN t = 1..Len(t)
  BY EmptySeq, LenProperties
<1>3. Len(more) \in Nat /\ DOMAIN more = 1..Len(more)
  BY LenProperties
<1>4. /\ more \o Tail(t) \in Seq(S)
      /\ Len(more \o Tail(t)) = Len(more) + Len(Tail(t))
      /\ \A i \in 1 .. Len(more) + Len(Tail(t)) :
            (more \o Tail(t))[i] = IF i <= Len(more) THEN more[i] ELSE Tail(t)[i - Len(more)]
  BY <1>1, ConcatProperties
<1>5. DOMAIN (more \o Tail(t)) = 1..Len(more) + Len(t) - 1
  BY <1>1, <1>4, LenProperties
<1>6. ASSUME NEW n \in 1..Len(more) PROVE (more \o Tail(t))[n] = more[n]
  BY <1>1, <1>2, <1>3, <1>4
<1>7. ASSUME NEW n \in 2..Len(t) PROVE (more \o Tail(t))[n - 1 + Len(more)] = t[n]
  <2>1. n - 1 \in 1..Len(Tail(t)) /\ Tail(t)[n - 1] = t[n]
    BY <1>1, <1>2
  <2>2. n - 1 + Len(more) \in 1 .. Len(more) + Len(Tail(t)) /\ n - 1 + Len(more) > Len(more)
        /\ n - 1 + Len(more) - Len(more) = n - 1
    BY <1>1, <1>2, <1>3
  <2>3. QED
    BY <1>4, <2>1, <2>2
<1>8. QED
  BY <1>1, <1>2, <1>3, <1>4, <1>5, <1>6, <1>7

\* The parts of a concatenation.
LEMMA ConcatParts ==
    ASSUME NEW S, NEW s \in Seq(S), NEW t \in Seq(S)
    PROVE  /\ Len(s) \in Nat /\ DOMAIN s = 1..Len(s) /\ Len(t) \in Nat /\ DOMAIN t = 1..Len(t)
           /\ s \o t \in Seq(S) /\ Len(s \o t) = Len(s) + Len(t)
           /\ DOMAIN (s \o t) = 1..Len(s) + Len(t)
           /\ \A n \in 1..Len(s) : (s \o t)[n] = s[n]
           /\ \A n \in 1..Len(t) : (s \o t)[Len(s) + n] = t[n]
<1>1. Len(s) \in Nat /\ DOMAIN s = 1..Len(s) /\ Len(t) \in Nat /\ DOMAIN t = 1..Len(t)
  BY LenProperties
<1>2. /\ s \o t \in Seq(S) /\ Len(s \o t) = Len(s) + Len(t)
      /\ \A i \in 1 .. Len(s) + Len(t) : (s \o t)[i] = IF i <= Len(s) THEN s[i] ELSE t[i - Len(s)]
  BY ConcatProperties
<1>3. DOMAIN (s \o t) = 1..Len(s) + Len(t)
  BY <1>2, LenProperties
<1>4. ASSUME NEW n \in 1..Len(t) PROVE (s \o t)[Len(s) + n] = t[n]
  <2>1. Len(s) + n \in 1..Len(s) + Len(t) /\ ~(Len(s) + n <= Len(s)) /\ Len(s) + n - Len(s) = n
    BY <1>1
  <2>2. QED
    BY <1>2, <2>1
<1>5. \A n \in 1..Len(s) : (s \o t)[n] = s[n]
  BY <1>1, <1>2
<1>6. QED
  BY <1>1, <1>2, <1>3, <1>4, <1>5

\* What is listed in a concatenation.
LEMMA ListedConcat ==
    ASSUME NEW S, NEW s \in Seq(S), NEW t \in Seq(S)
    PROVE  s \o t \in Seq(S) /\ Listed(s \o t) = Listed(s) \cup Listed(t)
<1>1. Len(s) \in Nat /\ DOMAIN s = 1..Len(s) /\ Len(t) \in Nat /\ DOMAIN t = 1..Len(t)
  BY LenProperties
<1>2. /\ s \o t \in Seq(S)
      /\ Len(s \o t) = Len(s) + Len(t)
      /\ \A i \in 1 .. Len(s) + Len(t) : (s \o t)[i] = IF i <= Len(s) THEN s[i] ELSE t[i - Len(s)]
  BY ConcatProperties
<1>3. DOMAIN (s \o t) = 1..Len(s) + Len(t)
  BY <1>2, LenProperties
<1>4. ASSUME NEW n \in DOMAIN (s \o t) PROVE (s \o t)[n] \in Listed(s) \cup Listed(t)
  <2>1. CASE n <= Len(s)
    BY <1>1, <1>2, <1>3, <2>1 DEF Listed
  <2>2. CASE n > Len(s)
    <3>1. n - Len(s) \in DOMAIN t
      BY <1>1, <1>3, <2>2
    <3>2. QED
      BY <1>1, <1>2, <1>3, <2>2, <3>1 DEF Listed
  <2>3. QED
    BY <1>1, <1>3, <2>1, <2>2
<1>5. ASSUME NEW n \in DOMAIN s PROVE s[n] \in Listed(s \o t)
  <2>1. n \in DOMAIN (s \o t) /\ (s \o t)[n] = s[n]
    BY <1>1, <1>2, <1>3
  <2>2. QED
    BY <2>1 DEF Listed
<1>6. ASSUME NEW n \in DOMAIN t PROVE t[n] \in Listed(s \o t)
  <2>1. n + Len(s) \in DOMAIN (s \o t) /\ (s \o t)[n + Len(s)] = t[n]
    BY <1>1, <1>2, <1>3
  <2>2. QED
    BY <2>1 DEF Listed
<1>7. Listed(s \o t) \subseteq Listed(s) \cup Listed(t)
  BY <1>4 DEF Listed
<1>8. Listed(s) \cup Listed(t) \subseteq Listed(s \o t)
  BY <1>5, <1>6 DEF Listed
<1>9. QED
  BY <1>2, <1>7, <1>8

\* One statement per element.
LEMMA EachProperties ==
    ASSUME NEW S, NEW s \in Seq(S), NEW k, NEW T, \A x \in S : <<k, x>> \in T
    PROVE  /\ Each(k, s) \in Seq(T) /\ Len(Each(k, s)) = Len(s)
           /\ DOMAIN Each(k, s) = 1..Len(s)
           /\ \A n \in 1..Len(s) : Each(k, s)[n] = <<k, s[n]>>
           /\ Listed(Each(k, s)) = {<<k, x>> : x \in Listed(s)}
<1>1. Len(s) \in Nat /\ DOMAIN s = 1..Len(s) /\ \A n \in 1..Len(s) : s[n] \in S
  BY LenProperties, ElementOfSeq
<1>2. DOMAIN Each(k, s) = 1..Len(s) /\ \A n \in 1..Len(s) : Each(k, s)[n] = <<k, s[n]>>
  BY <1>1 DEF Each
<1>3. Each(k, s) \in [1..Len(s) -> T]
  BY <1>1 DEF Each
<1>4. Each(k, s) \in Seq(T)
  BY <1>1, <1>3, SeqDef
<1>5. Len(Each(k, s)) = Len(s)
  BY <1>1, <1>2, <1>4, LenProperties
<1>6. Listed(Each(k, s)) = {<<k, x>> : x \in Listed(s)}
  BY <1>1, <1>2 DEF Listed
<1>7. QED
  BY <1>2, <1>4, <1>5, <1>6

\* Sequences of one, two and three.
LEMMA One ==
    ASSUME NEW S, NEW a \in S
    PROVE  <<a>> \in Seq(S) /\ Listed(<<a>>) = {a}
BY DEF Listed

\* Two statements and what they list.
LEMMA Two ==
    ASSUME NEW S, NEW a \in S, NEW b \in S
    PROVE  <<a, b>> \in Seq(S) /\ Listed(<<a, b>>) = {a, b}
BY DEF Listed

\* Three statements and what they list.
LEMMA Three ==
    ASSUME NEW S, NEW a \in S, NEW b \in S, NEW c \in S
    PROVE  <<a, b, c>> \in Seq(S) /\ Listed(<<a, b, c>>) = {a, b, c}
BY DEF Listed

\* One statement after two.
LEMMA TwoAndOne ==
    ASSUME NEW S, NEW a \in S, NEW b \in S, NEW c \in S
    PROVE  <<a, b>> \o <<c>> = <<a, b, c>>
<1> DEFINE s == <<a, b>>
           t == <<c>>
           u == <<a, b, c>>
<1>1. /\ s \in Seq(S) /\ Len(s) = 2 /\ s[1] = a /\ s[2] = b
      /\ t \in Seq(S) /\ Len(t) = 1 /\ t[1] = c
      /\ u \in Seq(S) /\ Len(u) = 3 /\ u[1] = a /\ u[2] = b /\ u[3] = c
  OBVIOUS
<1> HIDE DEF s, t, u
<1>2. /\ s \o t \in Seq(S) /\ Len(s \o t) = 3
      /\ (s \o t)[1] = a /\ (s \o t)[2] = b /\ (s \o t)[3] = c
  <2>1. /\ s \o t \in Seq(S) /\ Len(s \o t) = Len(s) + Len(t)
        /\ \A n \in 1..Len(s) : (s \o t)[n] = s[n]
        /\ \A n \in 1..Len(t) : (s \o t)[Len(s) + n] = t[n]
    <3>1. s \in Seq(S) /\ t \in Seq(S)
      BY <1>1
    <3>2. QED
      BY <3>1, ConcatParts
  <2>2. 1 \in 1..Len(s) /\ 2 \in 1..Len(s) /\ 1 \in 1..Len(t) /\ Len(s) + 1 = 3
    BY <1>1
  <2>3. QED
    BY <1>1, <2>1, <2>2
<1>3. \A i \in 1..3 : (s \o t)[i] = u[i]
  BY <1>1, <1>2
<1>4. QED
  BY <1>1, <1>2, <1>3, SeqEqual DEF s, t, u

----------------------------------------------------------------------------
(* Tables and columns. *)

\* The tables in their order.
LEMMA TablesListed == TableOrder \in Seq(Tables) /\ Listed(TableOrder) = Tables
<1>1. TableOrder \in Seq(Tables)
  BY DEF TableOrder, Tables
<1>2. QED
  BY <1>1 DEF Listed, Tables

\* The columns every opening looks for: none of them a product's, nor the marker.
LEMMA EveryOpeningColumns ==
    /\ EveryOpening \in Seq(Columns \ {Marker})
    /\ Listed(EveryOpening) \subseteq Columns
    /\ \A c \in Listed(EveryOpening) : c[1] # "products" /\ c # Marker
<1> DEFINE X == {<<"users", "pin">>, <<"users", "active">>, <<"users", "created_at">>,
                 <<"customers", "opening_balance_cents">>, <<"customers", "active">>,
                 <<"suppliers", "phone">>, <<"suppliers", "opening_balance_cents">>,
                 <<"stock_movements", "reference">>, <<"sales", "occasion_id">>}
<1>1. /\ UserColumns \in Seq(X) /\ CustomerColumns \in Seq(X) /\ SupplierColumns \in Seq(X)
      /\ MovementColumns \in Seq(X) /\ OccasionColumns \in Seq(X)
  BY One, Two, Three
     DEF UserColumns, CustomerColumns, SupplierColumns, MovementColumns, OccasionColumns
<1> HIDE DEF X
<1>2. EveryOpening \in Seq(X)
  <2>1. UserColumns \o CustomerColumns \in Seq(X)
    BY <1>1, ConcatProperties
  <2>2. UserColumns \o CustomerColumns \o SupplierColumns \in Seq(X)
    BY <1>1, <2>1, ConcatProperties
  <2>3. UserColumns \o CustomerColumns \o SupplierColumns \o MovementColumns \in Seq(X)
    BY <1>1, <2>2, ConcatProperties
  <2>4. QED
    BY <1>1, <2>3, ConcatProperties DEF EveryOpening
<1>3. \A c \in X : c[1] # "products" /\ c # Marker
  BY DEF X, Marker
<1>4. Listed(EveryOpening) \subseteq X
  BY <1>2, LenProperties, ElementOfSeq DEF Listed
<1>5. Listed(EveryOpening) \subseteq Columns
  BY DEF Columns
<1>6. EveryOpening \in Seq(Columns \ {Marker})
  <2>1. EveryOpening \in Seq(Listed(EveryOpening))
    <3>1. Len(EveryOpening) \in Nat /\ EveryOpening \in [1..Len(EveryOpening) -> X]
      BY <1>2, LenProperties
    <3>2. EveryOpening \in [1..Len(EveryOpening) -> Listed(EveryOpening)]
      BY <3>1 DEF Listed
    <3>3. QED
      BY <3>1, <3>2, SeqDef
  <2>2. Listed(EveryOpening) \subseteq Columns \ {Marker}
    BY <1>3, <1>4, <1>5
  <2>3. QED
    BY <2>1, <2>2, SeqMonotonic
<1>7. QED
  BY <1>3, <1>4, <1>5, <1>6

\* The columns a version adds, from its list.
Adding == {2, 3, 5, 6, 7, 9, 12, 13, 15}

\* The list of a version's columns, which never holds the marker.
LEMMA AddedColumns ==
    ASSUME NEW v \in Int
    PROVE  /\ ColumnsOf(v) \in Seq(Listed(ColumnsOf(v))) /\ Marker \notin Listed(ColumnsOf(v))
           /\ v # 13 => \A c \in Listed(ColumnsOf(v)) : c[1] # "products"
           /\ v \notin Adding => ColumnsOf(v) = <<>> /\ Listed(ColumnsOf(v)) = {}
<1>1. CASE v = 2
  <2> DEFINE X == {<<"supplier_payments", "method">>}
  <2>1. ColumnsOf(v) = PaymentMethod
    BY <1>1 DEF ColumnsOf
  <2>2. PaymentMethod \in Seq(X) /\ Listed(PaymentMethod) = X
    BY One DEF PaymentMethod
  <2>3. \A c \in X : c # Marker /\ (v # 13 => c[1] # "products")
    BY <1>1 DEF Marker
  <2> HIDE DEF X
  <2>4. QED
    BY <1>1, <2>1, <2>2, <2>3 DEF Adding
<1>2. CASE v = 3
  <2> DEFINE X == {<<"supplier_payments", "reversed_id">>}
  <2>1. ColumnsOf(v) = PaymentReversal
    BY <1>2 DEF ColumnsOf
  <2>2. PaymentReversal \in Seq(X) /\ Listed(PaymentReversal) = X
    BY One DEF PaymentReversal
  <2>3. \A c \in X : c # Marker /\ (v # 13 => c[1] # "products")
    BY <1>2 DEF Marker
  <2> HIDE DEF X
  <2>4. QED
    BY <1>2, <2>1, <2>2, <2>3 DEF Adding
<1>3. CASE v = 5
  <2> DEFINE X == {<<"purchases", "method">>}
  <2>1. ColumnsOf(v) = PurchaseMethod
    BY <1>3 DEF ColumnsOf
  <2>2. PurchaseMethod \in Seq(X) /\ Listed(PurchaseMethod) = X
    BY One DEF PurchaseMethod
  <2>3. \A c \in X : c # Marker /\ (v # 13 => c[1] # "products")
    BY <1>3 DEF Marker
  <2> HIDE DEF X
  <2>4. QED
    BY <1>3, <2>1, <2>2, <2>3 DEF Adding
<1>4. CASE v = 6
  <2> DEFINE X == {<<"purchases", "reversed_id">>}
  <2>1. ColumnsOf(v) = PurchaseReversal
    BY <1>4 DEF ColumnsOf
  <2>2. PurchaseReversal \in Seq(X) /\ Listed(PurchaseReversal) = X
    BY One DEF PurchaseReversal
  <2>3. \A c \in X : c # Marker /\ (v # 13 => c[1] # "products")
    BY <1>4 DEF Marker
  <2> HIDE DEF X
  <2>4. QED
    BY <1>4, <2>1, <2>2, <2>3 DEF Adding
<1>5. CASE v = 7
  <2> DEFINE X == {<<"purchase_items", "reversed_id">>}
  <2>1. ColumnsOf(v) = PurchaseItemReversal
    BY <1>5 DEF ColumnsOf
  <2>2. PurchaseItemReversal \in Seq(X) /\ Listed(PurchaseItemReversal) = X
    BY One DEF PurchaseItemReversal
  <2>3. \A c \in X : c # Marker /\ (v # 13 => c[1] # "products")
    BY <1>5 DEF Marker
  <2> HIDE DEF X
  <2>4. QED
    BY <1>5, <2>1, <2>2, <2>3 DEF Adding
<1>6. CASE v = 9
  <2> DEFINE X == {<<"cash_movements", "ref_type">>, <<"cash_movements", "ref_id">>}
  <2>1. ColumnsOf(v) = CashReference
    BY <1>6 DEF ColumnsOf
  <2>2. CashReference \in Seq(X) /\ Listed(CashReference) = X
    <3> DEFINE a == <<"cash_movements", "ref_type">>
               b == <<"cash_movements", "ref_id">>
    <3>1. CashReference = <<a, b>> /\ X = {a, b}
      BY DEF CashReference
    <3> HIDE DEF a, b, X
    <3>2. a \in X /\ b \in X
      BY <3>1
    <3>3. <<a, b>> \in Seq(X) /\ Listed(<<a, b>>) = {a, b}
      BY <3>2, Two
    <3>4. QED
      BY <3>1, <3>3
  <2>3. \A c \in X : c # Marker /\ (v # 13 => c[1] # "products")
    BY <1>6 DEF Marker
  <2> HIDE DEF X
  <2>4. QED
    BY <1>6, <2>1, <2>2, <2>3 DEF Adding
<1>7. CASE v = 12
  <2> DEFINE X == {<<"sales", "adjustment_cents">>, <<"customer_transactions", "adjustment_cents">>}
  <2>1. ColumnsOf(v) = Adjustments
    BY <1>7 DEF ColumnsOf
  <2>2. Adjustments \in Seq(X) /\ Listed(Adjustments) = X
    <3> DEFINE a == <<"sales", "adjustment_cents">>
               b == <<"customer_transactions", "adjustment_cents">>
    <3>1. Adjustments = <<a, b>> /\ X = {a, b}
      BY DEF Adjustments
    <3> HIDE DEF a, b, X
    <3>2. a \in X /\ b \in X
      BY <3>1
    <3>3. <<a, b>> \in Seq(X) /\ Listed(<<a, b>>) = {a, b}
      BY <3>2, Two
    <3>4. QED
      BY <3>1, <3>3
  <2>3. \A c \in X : c # Marker /\ (v # 13 => c[1] # "products")
    BY <1>7 DEF Marker
  <2> HIDE DEF X
  <2>4. QED
    BY <1>7, <2>1, <2>2, <2>3 DEF Adding
<1>8. CASE v = 13
  <2> DEFINE X == {<<"products", "pieces_per_package">>, <<"sales", "pieces_consumed">>,
                  <<"customer_transactions", "pieces_consumed">>}
  <2>1. ColumnsOf(v) = Packages
    BY <1>8 DEF ColumnsOf
  <2>2. Packages \in Seq(X) /\ Listed(Packages) = X
    <3> DEFINE a == <<"products", "pieces_per_package">>
               b == <<"sales", "pieces_consumed">>
               c == <<"customer_transactions", "pieces_consumed">>
    <3>1. Packages = <<a, b, c>> /\ X = {a, b, c}
      BY DEF Packages
    <3> HIDE DEF a, b, c, X
    <3>2. a \in X /\ b \in X /\ c \in X
      BY <3>1
    <3>3. <<a, b, c>> \in Seq(X) /\ Listed(<<a, b, c>>) = {a, b, c}
      BY <3>2, Three
    <3>4. QED
      BY <3>1, <3>3
  <2>3. \A c \in X : c # Marker /\ (v # 13 => c[1] # "products")
    BY <1>8 DEF Marker
  <2> HIDE DEF X
  <2>4. QED
    BY <1>8, <2>1, <2>2, <2>3 DEF Adding
<1>9. CASE v = 15
  <2> DEFINE X == {<<"sales", "receipt_number">>, <<"customer_transactions", "receipt_number">>}
  <2>1. ColumnsOf(v) = Receipts
    BY <1>9 DEF ColumnsOf
  <2>2. Receipts \in Seq(X) /\ Listed(Receipts) = X
    <3> DEFINE a == <<"sales", "receipt_number">>
               b == <<"customer_transactions", "receipt_number">>
    <3>1. Receipts = <<a, b>> /\ X = {a, b}
      BY DEF Receipts
    <3> HIDE DEF a, b, X
    <3>2. a \in X /\ b \in X
      BY <3>1
    <3>3. <<a, b>> \in Seq(X) /\ Listed(<<a, b>>) = {a, b}
      BY <3>2, Two
    <3>4. QED
      BY <3>1, <3>3
  <2>3. \A c \in X : c # Marker /\ (v # 13 => c[1] # "products")
    BY <1>9 DEF Marker
  <2> HIDE DEF X
  <2>4. QED
    BY <1>9, <2>1, <2>2, <2>3 DEF Adding
<1>10. CASE v \notin Adding
  <2>1. ColumnsOf(v) = <<>>
    BY <1>10 DEF ColumnsOf, Adding
  <2>2. QED
    BY <2>1 DEF Listed, Adding
<1>11. QED
  BY <1>1, <1>2, <1>3, <1>4, <1>5, <1>6, <1>7, <1>8, <1>9, <1>10 DEF Adding

\* The columns of a version: the marker is not one of them.
LEMMA VersionColumns ==
    ASSUME NEW v \in Int
    PROVE  /\ ColumnsOf(v) \in Seq(Columns \ {Marker})
           /\ Listed(ColumnsOf(v)) \subseteq Columns \ {Marker}
           /\ v \notin 2..kSchemaVersion => Listed(ColumnsOf(v)) = {}
<1>1. v \notin 2..kSchemaVersion => Listed(ColumnsOf(v)) = {}
  BY AddedColumns DEF Adding, kSchemaVersion
<1>2. Listed(ColumnsOf(v)) \subseteq Columns \ {Marker}
  BY <1>1, AddedColumns DEF Columns
<1>3. QED
  BY <1>1, <1>2, AddedColumns, SeqMonotonic

\* The columns of products are the weight and those of version 13.
LEMMA ProductColumns ==
    ASSUME NEW c \in Columns, c[1] = "products"
    PROVE  c = Weight \/ c \in Listed(ColumnsOf(13))
<1>1. c # Marker
  BY DEF Marker
<1>2. c \notin Listed(EveryOpening)
  BY EveryOpeningColumns
<1>3. ASSUME NEW v \in 2..kSchemaVersion, c \in Listed(ColumnsOf(v)) PROVE v = 13
  BY <1>3, AddedColumns DEF kSchemaVersion
<1>4. QED
  BY <1>1, <1>2, <1>3 DEF Columns
\* A statement of the program is one of these.
Stmts ==
    {<<"table", t>> : t \in Tables} \cup {<<"column", c>> : c \in Columns \ {Marker}}
        \cup {<<"version", v>> : v \in 1..kSchemaVersion}
        \cup {<<k, l>> : k \in {"reversalIndex", "pieces", "assign"}, l \in Ledgers}
        \cup {<<k>> : k \in {"trigger", "sessionIndex", "copyZakat", "dropZakat", "products",
                             "migrate", "marker", "mark", "trays", "prefix", "number", "seed",
                             "weighed", "stamp"}}

\* It is still to be executed.
Left(s) == \E n \in DOMAIN todo : todo[n] = s

\* What belongs to a version is in the program only of a file that is older.
Newer(s) ==
    /\ s[1] = "version" => version < s[2]
    /\ s[1] \in {"marker", "mark"} => version < 11
    /\ s[1] = "pieces" => version < 13
    /\ s[1] = "trays" => version < 14
    /\ s[1] \in {"number", "assign", "seed"} => version < 15
    /\ s[1] = "weighed" => version < kSchemaVersion

\* The versioned migrations come last, and the stamp after them.
Ends ==
    /\ \A n \in DOMAIN todo : todo[n] \in {<<"migrate">>, <<"stamp">>} <=> n = Len(todo)
    /\ Left(<<"products">>) => todo[Len(todo)] = <<"migrate">>

\* What the numbering begins as and ends with.
Numbering == {<<"migrate">>, <<"version", 15>>, <<"number">>, <<"seed">>}

\* Of these there is one at most, and the two ledgers are numbered before the counters
\* are seeded, sales first.
NumberingOnce ==
    /\ \A m, n \in DOMAIN todo : todo[m] \in Numbering /\ todo[n] \in Numbering => m = n
    /\ \A m \in DOMAIN todo : todo[m][1] = "assign" =>
          \E n \in DOMAIN todo : m < n /\ todo[n] = <<"seed">>
    /\ \A m, n \in DOMAIN todo :
          todo[m] = <<"assign", "customer_transactions">> /\ todo[n] = <<"assign", "sales">>
          => n < m

\* Cartons are given back before those of weighed products are taken away.
TraysFirst ==
    \A m \in DOMAIN todo : todo[m] \in {<<"version", 14>>, <<"trays">>} =>
        \E n \in DOMAIN todo : m < n /\ todo[n] = <<"version", 16>>

\* The rows are marked at once when the column was added.
MarkFirst == \A n \in DOMAIN todo : todo[n] = <<"mark">> => n = 1

\* What is left of the program, in whatever statement the opening is.
Program ==
    /\ phase # "opening" => todo = <<>>
    /\ todo \in Seq(Stmts)
    /\ Ends /\ NumberingOnce /\ TraysFirst /\ MarkFirst
    /\ \A n \in DOMAIN todo : Newer(todo[n])

----------------------------------------------------------------------------
(* What the other variables hold. *)

\* The tables and the settings; the file has the version it was found with, or the last.
FileTypes ==
    /\ found \in OldDatabases /\ version \in {found.version, kSchemaVersion}
    /\ tables \subseteq Tables /\ columns \subseteq Columns /\ indexes \subseteq Indexes
    /\ stockTrigger \in BOOLEAN /\ blankRefused \in BOOLEAN
    /\ DOMAIN settings = Keys /\ DOMAIN zakat = Keys
    /\ sessions \in Nat /\ phase \in {"closed", "opening", "running"}
    /\ cuts \in 0..MaxCuts /\ torn \subseteq {"numbers", "marks"}

\* The books.
BookTypes ==
    /\ ledger \in [Ledgers -> Seq(LedgerRows)]
    /\ counters \in [Years -> Nat] /\ perYear \in [Years -> Nat]
    /\ payments \in Seq(PaymentRows) /\ products \in Seq(ProductRows)

\* All of them.
Types == FileTypes /\ BookTypes

----------------------------------------------------------------------------
(* The shape of the tables. *)

\* The version the file is stamped with stands for work that is done.
FileKeeps ==
    /\ \A v \in 2..version : Listed(ColumnsOf(v)) \subseteq columns
    /\ version >= 11 => Marker \in columns
    /\ blankRefused => version < 13 /\ found.blankRefused

\* A statement that is left brings the column.
ColumnComes(c) ==
    \/ Left(<<"column", c>>)
    \/ (c = Weight /\ Left(<<"products">>))
    \/ (c = Marker /\ Left(<<"marker">>))
    \/ \E v \in version + 1..kSchemaVersion :
          /\ c \in Listed(ColumnsOf(v)) \/ (c = Marker /\ v = 11)
          /\ Left(<<"migrate">>) \/ Left(<<"version", v>>)

\* What the shape lacks is still in the program.
ShapeComes ==
    phase = "opening" =>
        /\ \A t \in Tables : t \in tables \/ Left(<<"table", t>>)
        /\ \A c \in Columns : c \in columns \/ ColumnComes(c)
        /\ stockTrigger \/ Left(<<"trigger">>)
        /\ blankRefused => Left(<<"products">>)
        /\ version = kSchemaVersion \/ Left(<<"migrate">>) \/ Left(<<"stamp">>)

\* What the file has, what the program brings, and that a running program has all of it.
Shape == FileKeeps /\ ShapeComes /\ SchemaComplete

----------------------------------------------------------------------------
(* The settings. *)

\* No setting is in the old table only.
Folded == \A k \in Keys : settings[k] = None => zakat[k] = None

\* As long as a key may be missing from settings, the copy is the next statement that
\* has to do with it.
FoldFirst ==
    phase = "opening" /\ ~Folded =>
        \E m \in DOMAIN todo :
            /\ todo[m] = <<"copyZakat">>
            /\ \A n \in 1..m : todo[n][1] \in {"table", "trigger", "sessionIndex", "copyZakat"}

----------------------------------------------------------------------------
(* The numbers. *)

\* Numbering is for a file without counters, and keeps its counts until they are seeded.
CountsAhead ==
    /\ \A y \in Years : perYear[y] > 0 => counters[y] = 0 /\ Left(<<"seed">>)
    /\ \A l \in Ledgers : Left(<<"assign", l>>) => \A y \in Years : counters[y] = 0

\* A number that was issued is known to a counter, or to a count.
NumbersKnown ==
    \A l \in Ledgers : \A i \in DOMAIN ledger[l] :
        \/ ledger[l][i].number <= perYear[ledger[l][i].year]
        \/ ledger[l][i].number <= counters[ledger[l][i].year]

\* Numbers are one paper's each and known to a counter, but for what a power cut tore.
Numbers == CountsAhead /\ ("numbers" \notin torn => NumbersUnique /\ NumbersKnown)

\* The rows, and those of them without a number.
Total == Len(ledger["sales"]) + Len(ledger["customer_transactions"])
NotYet == Cardinality(Unnumbered("sales")) + Cardinality(Unnumbered("customer_transactions"))

\* No count is above the number of rows.
CountsFit ==
    /\ \A l \in Ledgers : Len(ledger[l]) <= MaxRows
    /\ \A y \in Years : perYear[y] + NotYet <= Total /\ counters[y] <= found.counters[y] + Total
    /\ \A l \in Ledgers : \A i \in DOMAIN ledger[l] :
          ledger[l][i].number <= found.counters[ledger[l][i].year] + Total

----------------------------------------------------------------------------
(* The old rows. *)

\* The old rows stay, with what no upgrade writes, and nothing is sold before the stamp.
OldRows ==
    /\ \A l \in Ledgers :
          /\ Len(found.ledger[l]) <= Len(ledger[l])
          /\ version < kSchemaVersion => Len(ledger[l]) = Len(found.ledger[l])
          /\ \A i \in DOMAIN found.ledger[l] :
                /\ ledger[l][i].year = found.ledger[l][i].year
                /\ ledger[l][i].quantity = found.ledger[l][i].quantity
    /\ Len(payments) = Len(found.payments) /\ Len(products) = Len(found.products)
    /\ "supplier_payments" \notin tables => payments = <<>>

\* Work of version v that the file still needs, by the statement s.
Ahead(v, s) ==
    /\ version < v
    /\ phase = "opening" => Left(<<"migrate">>) \/ Left(<<"version", v>>) \/ Left(s)

\* The pieces of an old row are filled in, or still to be.
PiecesDone ==
    \A l \in Ledgers : \A i \in DOMAIN found.ledger[l] :
        \/ ledger[l][i].pieces = PiecesOf(found.ledger[l][i])
        \/ /\ ledger[l][i].pieces = 0 /\ found.ledger[l][i].pieces = 0
           /\ Ahead(13, <<"pieces", l>>)

\* A payment has its mark, or the rows are still to be marked.
MarksDone ==
    "marks" \notin torn =>
        \A i \in DOMAIN payments :
            \/ payments[i].initial = MarkOf(i)
            \/ /\ ~payments[i].initial /\ found.version < 11
               /\ Marker \notin columns \/ Left(<<"mark">>)

\* A product has the carton an upgrade gives it, or a version that is ahead gives it.
CartonsDone ==
    \A p \in DOMAIN products :
        LET was == found.products[p]
            now == products[p]
        IN /\ now.packageSize = was.packageSize /\ now.weighed = was.weighed
           /\ \/ now.perPackage = CartonOf(was)
              \/ /\ ~was.weighed /\ now.perPackage = was.perPackage /\ Ahead(14, <<"trays">>)
              \/ /\ was.weighed /\ Ahead(16, <<"weighed">>)

\* The rows of a year that have a number.
NumberedOf(l, y) == {i \in DOMAIN ledger[l] : ledger[l][i].number # 0 /\ ledger[l][i].year = y}

\* The rows with a number are the first of a ledger.
NumberedFirst ==
    \A l \in Ledgers : \A i, j \in DOMAIN ledger[l] :
        i < j /\ ledger[l][j].number # 0 => ledger[l][i].number # 0

\* An old row has its number, or none yet while no counter stands in the way.
PapersDone ==
    \A l \in Ledgers : \A i \in DOMAIN found.ledger[l] :
        \/ ledger[l][i].number = NumberOf(l, i)
        \/ /\ ledger[l][i].number = 0
           /\ Ahead(15, <<"number">>) \/ (version < 15 /\ Left(<<"assign", l>>))
           /\ \A y \in Years : counters[y] = 0

\* The counts are those of the rows numbered so far.
CountsDone ==
    /\ NumberedFirst
    /\ Left(<<"assign", "sales">>) =>
          Unnumbered("customer_transactions") = DOMAIN ledger["customer_transactions"]
    /\ \A l \in Ledgers : Left(<<"assign", l>>) => \A y \in Years :
          perYear[y] = Cardinality(NumberedOf("sales", y))
                       + Cardinality(NumberedOf("customer_transactions", y))

\* The numbering, whatever statement of it is at hand.
Papers == "numbers" \notin torn => PapersDone /\ (version < 15 => CountsDone)

----------------------------------------------------------------------------
(* The programs that are pushed. *)

\* One statement for either ledger.
LEMMA PerLedgerProperties ==
    ASSUME NEW k, NEW T, \A l \in Ledgers : <<k, l>> \in T
    PROVE  PerLedger(k) \in Seq(T) /\ Listed(PerLedger(k)) = {<<k, l>> : l \in Ledgers}
<1> DEFINE a == <<k, "sales">>
           b == <<k, "customer_transactions">>
<1>1. PerLedger(k) = <<a, b>>
  BY DEF PerLedger
<1>2. a \in T /\ b \in T /\ {<<k, l>> : l \in Ledgers} = {a, b}
  BY DEF Ledgers
<1> HIDE DEF a, b
<1>3. <<a, b>> \in Seq(T) /\ Listed(<<a, b>>) = {a, b}
  BY <1>2, Two
<1>4. QED
  BY <1>1, <1>2, <1>3

\* The columns of a version are statements of its migration.
LEMMA EachColumn ==
    ASSUME NEW v \in Int
    PROVE  /\ Each("column", ColumnsOf(v)) \in Seq(Stmts)
           /\ Listed(Each("column", ColumnsOf(v))) = {<<"column", c>> : c \in Listed(ColumnsOf(v))}
<1>1. \A c \in Columns \ {Marker} : <<"column", c>> \in Stmts
  BY DEF Stmts
<1>2. QED
  BY <1>1, VersionColumns, EachProperties

\* What a version's statements are; only the last of version 15 begins the numbering.
OfVersion(v) ==
    {<<"column", c>> : c \in Listed(ColumnsOf(v))}
        \cup (IF v = 4 THEN {<<"reversalIndex", l>> : l \in Ledgers} ELSE {})
        \cup (IF v = 11 THEN {<<"marker">>} ELSE {})
        \cup (IF v = 13 THEN {<<"pieces", l>> : l \in Ledgers} ELSE {})
        \cup (IF v = 14 THEN {<<"trays">>} ELSE {})
        \cup (IF v = 15 THEN {<<"table", "receipt_sequences">>, <<"prefix">>, <<"number">>} ELSE {})
        \cup (IF v = 16 THEN {<<"weighed">>} ELSE {})

\* What a version pushes: statements of that version, of which few have a part in
\* the order of the program.
LEMMA MigrationProperties ==
    ASSUME NEW v \in 1..kSchemaVersion
    PROVE  /\ MigrationOf(v) \in Seq(Stmts) /\ Listed(MigrationOf(v)) = OfVersion(v)
           /\ \A n \in DOMAIN MigrationOf(v) :
                 MigrationOf(v)[n] = <<"number">> => n = Len(MigrationOf(v))
<1> DEFINE C == Each("column", ColumnsOf(v))
<1>0. /\ v \in Int /\ C \in Seq(Stmts)
      /\ Listed(C) = {<<"column", c>> : c \in Listed(ColumnsOf(v))}
      /\ <<"number">> \notin Listed(C)
  BY EachColumn
<1>1. ColumnsOf(v) = <<>> => Listed(ColumnsOf(v)) = {}
  BY DEF Listed
<1>2. CASE v \notin {4, 11, 13, 14, 15, 16}
  <2>1. MigrationOf(v) = C
    BY <1>2 DEF MigrationOf
  <2>2. Listed(C) = OfVersion(v)
    BY <1>0, <1>2 DEF OfVersion
  <2> HIDE DEF C
  <2>3. QED
    BY <1>0, <2>1, <2>2 DEF Listed
<1>3. CASE v = 4
  <2>1. MigrationOf(v) = PerLedger("reversalIndex")
    BY <1>3 DEF MigrationOf
  <2>2. \A l \in Ledgers : <<"reversalIndex", l>> \in Stmts
    BY DEF Stmts
  <2>3. /\ PerLedger("reversalIndex") \in Seq(Stmts)
        /\ Listed(PerLedger("reversalIndex")) = {<<"reversalIndex", l>> : l \in Ledgers}
    BY <2>2, PerLedgerProperties
  <2>4. Listed(ColumnsOf(v)) = {}
    BY <1>3, AddedColumns DEF Adding
  <2>5. Listed(MigrationOf(v)) = OfVersion(v)
    BY <1>3, <2>1, <2>3, <2>4 DEF OfVersion
  <2>6. <<"number">> \notin Listed(MigrationOf(v))
    BY <2>1, <2>3
  <2>7. QED
    BY <2>1, <2>3, <2>5, <2>6 DEF Listed
<1>4. ASSUME NEW k \in {"marker", "trays", "weighed"}, MigrationOf(v) = << <<k>> >>,
             OfVersion(v) = {<<k>>}
      PROVE  /\ MigrationOf(v) \in Seq(Stmts) /\ Listed(MigrationOf(v)) = OfVersion(v)
             /\ \A n \in DOMAIN MigrationOf(v) :
                   MigrationOf(v)[n] = <<"number">> => n = Len(MigrationOf(v))
  <2>1. PICK s : s = <<k>>
    OBVIOUS
  <2>2. s \in Stmts
    BY <2>1 DEF Stmts
  <2>3. <<s>> \in Seq(Stmts) /\ Listed(<<s>>) = {s}
    BY <2>2, One
  <2>4. s # <<"number">>
    BY <2>1
  <2>5. <<"number">> \notin Listed(MigrationOf(v))
    BY <1>4, <2>1, <2>3, <2>4
  <2>6. QED
    BY <1>4, <2>1, <2>3, <2>5 DEF Listed
<1>5. CASE v = 11
  <2>1. MigrationOf(v) = << <<"marker">> >>
    BY <1>5 DEF MigrationOf
  <2>2. Listed(ColumnsOf(v)) = {}
    BY <1>5, AddedColumns DEF Adding
  <2>3. OfVersion(v) = {<<"marker">>}
    BY <1>5, <2>2 DEF OfVersion
  <2>4. QED
    BY <1>4, <2>1, <2>3
<1>6. CASE v = 14
  <2>1. MigrationOf(v) = << <<"trays">> >>
    BY <1>6 DEF MigrationOf
  <2>2. Listed(ColumnsOf(v)) = {}
    BY <1>6, AddedColumns DEF Adding
  <2>3. OfVersion(v) = {<<"trays">>}
    BY <1>6, <2>2 DEF OfVersion
  <2>4. QED
    BY <1>4, <2>1, <2>3
<1>7. CASE v = 16
  <2>1. MigrationOf(v) = << <<"weighed">> >>
    BY <1>7 DEF MigrationOf
  <2>2. Listed(ColumnsOf(v)) = {}
    BY <1>7, AddedColumns DEF Adding
  <2>3. OfVersion(v) = {<<"weighed">>}
    BY <1>7, <2>2 DEF OfVersion
  <2>4. QED
    BY <1>4, <2>1, <2>3
<1>8. CASE v = 13
  <2>1. MigrationOf(v) = C \o PerLedger("pieces")
    BY <1>8 DEF MigrationOf
  <2>2. \A l \in Ledgers : <<"pieces", l>> \in Stmts
    BY DEF Stmts
  <2>3. /\ PerLedger("pieces") \in Seq(Stmts)
        /\ Listed(PerLedger("pieces")) = {<<"pieces", l>> : l \in Ledgers}
    BY <2>2, PerLedgerProperties
  <2> HIDE DEF C
  <2>4. /\ MigrationOf(v) \in Seq(Stmts)
        /\ Listed(MigrationOf(v)) = Listed(C) \cup {<<"pieces", l>> : l \in Ledgers}
    BY <1>0, <2>1, <2>3, ListedConcat
  <2>5. Listed(MigrationOf(v)) = OfVersion(v)
    BY <1>0, <1>8, <2>4 DEF OfVersion
  <2>6. <<"number">> \notin Listed(MigrationOf(v))
    BY <1>0, <2>4
  <2>7. QED
    BY <2>4, <2>5, <2>6 DEF Listed
<1>9. CASE v = 15
  <2> DEFINE a == <<"table", "receipt_sequences">>
             b == <<"prefix">>
             c == <<"number">>
  <2>1. MigrationOf(v) = (<<a>> \o C) \o <<b, c>>
    BY <1>9 DEF MigrationOf
  <2>2. a \in Stmts /\ b \in Stmts /\ c \in Stmts /\ a # c /\ b # c
    BY DEF Stmts, Tables, TableOrder
  <2>3. OfVersion(v) = {a} \cup Listed(C) \cup {b, c}
    BY <1>0, <1>9 DEF OfVersion
  <2>4. c \notin Listed(C)
    BY <1>0
  <2> HIDE DEF a, b, c, C
  <2>5. <<a>> \in Seq(Stmts) /\ Listed(<<a>>) = {a} /\ <<b, c>> \in Seq(Stmts) /\ Listed(<<b, c>>) = {b, c}
    BY <2>2, One, Two
  <2> DEFINE first == <<a>>
             last == <<b, c>>
  <2>51. /\ first \in Seq(Stmts) /\ Listed(first) = {a}
         /\ last \in Seq(Stmts) /\ Listed(last) = {b, c}
         /\ MigrationOf(v) = (first \o C) \o last
    BY <2>1, <2>5
  <2> HIDE DEF first, last
  <2>6. first \o C \in Seq(Stmts) /\ Listed(first \o C) = {a} \cup Listed(C)
    BY <1>0, <2>51, ListedConcat
  <2>7. MigrationOf(v) \in Seq(Stmts) /\ Listed(MigrationOf(v)) = ({a} \cup Listed(C)) \cup {b, c}
    <3> DEFINE s == first \o C
    <3>1. s \in Seq(Stmts) /\ Listed(s) = {a} \cup Listed(C) /\ MigrationOf(v) = s \o last
      BY <2>51, <2>6
    <3> HIDE DEF s
    <3>2. QED
      BY <2>51, <3>1, ListedConcat
  <2>8. ASSUME NEW n \in DOMAIN MigrationOf(v), MigrationOf(v)[n] = c
        PROVE  n = Len(MigrationOf(v))
    <3> DEFINE s == first \o C
    <3>1. s \in Seq(Stmts) /\ c \notin Listed(s) /\ MigrationOf(v) = s \o <<b, c>>
      BY <2>2, <2>4, <2>51, <2>6 DEF last
    <3> HIDE DEF s
    <3>2. /\ Len(s) \in Nat /\ DOMAIN s = 1..Len(s)
          /\ DOMAIN MigrationOf(v) = 1..Len(MigrationOf(v))
      BY <2>7, <3>1, LenProperties
    <3>3. /\ Len(MigrationOf(v)) = Len(s) + 2
          /\ \A i \in 1..Len(s) + 2 :
                MigrationOf(v)[i] = IF i <= Len(s) THEN s[i] ELSE <<b, c>>[i - Len(s)]
      <4>1. Len(<<b, c>>) = 2
        OBVIOUS
      <4>2. QED
        BY <2>5, <3>1, <4>1, ConcatProperties
    <3>4. n > Len(s)
      BY <2>8, <3>1, <3>2, <3>3 DEF Listed
    <3>5. n = Len(s) + 1 \/ n = Len(s) + 2
      BY <2>8, <3>2, <3>3, <3>4
    <3>6. n # Len(s) + 1
      <4>1. <<b, c>>[1] = b
        OBVIOUS
      <4>2. QED
        BY <2>2, <2>8, <3>2, <3>3, <4>1
    <3>7. QED
      BY <3>3, <3>5, <3>6
  <2>9. QED
    BY <2>3, <2>7, <2>8 DEF c
<1>10. QED
  BY <1>2, <1>3, <1>5, <1>6, <1>7, <1>8, <1>9

\* The versions that are left, and the stamp.
LEMMA WorkProperties ==
    ASSUME NEW from \in 0..kSchemaVersion - 1
    PROVE  /\ WorkAfter(from) \in Seq(Stmts) /\ Len(WorkAfter(from)) = kSchemaVersion - from + 1
           /\ DOMAIN WorkAfter(from) = 1..kSchemaVersion - from + 1
           /\ \A n \in 1..kSchemaVersion - from : WorkAfter(from)[n] = <<"version", from + n>>
           /\ WorkAfter(from)[kSchemaVersion - from + 1] = <<"stamp">>
<1> DEFINE V == VersionsAfter(from)
           z == <<"stamp">>
<1>1. \A n \in 1..kSchemaVersion - from : <<"version", from + n>> \in Stmts
  BY DEF Stmts, kSchemaVersion
<1>2. kSchemaVersion - from \in Nat
  BY DEF kSchemaVersion
<1>3. V \in [1..kSchemaVersion - from -> Stmts]
  BY <1>1 DEF VersionsAfter
<1>4. V \in Seq(Stmts)
  BY <1>2, <1>3, SeqDef
<1>5. Len(V) = kSchemaVersion - from
  BY <1>2, <1>3, <1>4, LenProperties
<1>6. \A n \in 1..kSchemaVersion - from : V[n] = <<"version", from + n>>
  BY DEF VersionsAfter
<1>7. z \in Stmts /\ WorkAfter(from) = V \o <<z>>
  BY DEF Stmts, WorkAfter
<1> HIDE DEF V, z
<1>8. <<z>> \in Seq(Stmts) /\ Len(<<z>>) = 1 /\ <<z>>[1] = z
  BY <1>7, One
<1>9. /\ WorkAfter(from) \in Seq(Stmts) /\ Len(WorkAfter(from)) = kSchemaVersion - from + 1
      /\ \A i \in 1 .. kSchemaVersion - from + 1 : WorkAfter(from)[i] =
            IF i <= kSchemaVersion - from THEN V[i] ELSE <<z>>[i - (kSchemaVersion - from)]
  BY <1>4, <1>5, <1>7, <1>8, ConcatProperties
<1>10. WorkAfter(from)[kSchemaVersion - from + 1] = z
  BY <1>2, <1>8, <1>9
<1>11. \A n \in 1..kSchemaVersion - from : WorkAfter(from)[n] = V[n]
  BY <1>2, <1>9
<1>12. DOMAIN WorkAfter(from) = 1..kSchemaVersion - from + 1
  BY <1>9, LenProperties
<1>13. QED
  BY <1>6, <1>9, <1>10, <1>11, <1>12 DEF z

\* The statements of the constructor: the migrations last, and the old settings are
\* copied before anything is dropped.
EntryStmts ==
    {<<"table", t>> : t \in Tables} \cup {<<"column", c>> : c \in Listed(EveryOpening)}
        \cup {<<"trigger">>, <<"sessionIndex">>, <<"copyZakat">>, <<"dropZakat">>, <<"products">>}

\* The constructor's program has these statements, and the copy is before any of the rest.
LEMMA OpeningProperties ==
    /\ Opening \in Seq(Stmts) /\ Listed(Opening) = EntryStmts \cup {<<"migrate">>}
    /\ \A n \in DOMAIN Opening : Opening[n] = <<"migrate">> <=> n = Len(Opening)
    /\ \E m \in DOMAIN Opening :
          /\ Opening[m] = <<"copyZakat">>
          /\ \A n \in 1..m : Opening[n][1] \in {"table", "trigger", "sessionIndex", "copyZakat"}
<1> DEFINE T == Each("table", TableOrder)
           C == Each("column", EveryOpening)
           TS == << <<"trigger">>, <<"sessionIndex">> >>
           FZ == << <<"copyZakat">>, <<"dropZakat">> >>
           PM == << <<"products">>, <<"migrate">> >>
<1>1. T \in Seq(Stmts) /\ Listed(T) = {<<"table", t>> : t \in Tables}
  <2>1. \A t \in Tables : <<"table", t>> \in Stmts
    BY DEF Stmts
  <2>2. QED
    BY <2>1, TablesListed, EachProperties
<1>2. C \in Seq(Stmts) /\ Listed(C) = {<<"column", c>> : c \in Listed(EveryOpening)}
  <2>1. \A c \in Columns \ {Marker} : <<"column", c>> \in Stmts
    BY DEF Stmts
  <2>2. QED
    BY <2>1, EveryOpeningColumns, EachProperties
<1>3. /\ TS \in Seq(Stmts) /\ Listed(TS) = {<<"trigger">>, <<"sessionIndex">>}
      /\ FZ \in Seq(Stmts) /\ Listed(FZ) = {<<"copyZakat">>, <<"dropZakat">>}
      /\ PM \in Seq(Stmts) /\ Listed(PM) = {<<"products">>, <<"migrate">>}
  <2> DEFINE a == <<"trigger">>
             b == <<"sessionIndex">>
             c == <<"copyZakat">>
             d == <<"dropZakat">>
             e == <<"products">>
             f == <<"migrate">>
  <2>1. a \in Stmts /\ b \in Stmts /\ c \in Stmts /\ d \in Stmts /\ e \in Stmts /\ f \in Stmts
    BY DEF Stmts
  <2> HIDE DEF a, b, c, d, e, f
  <2>2. <<a, b>> \in Seq(Stmts) /\ Listed(<<a, b>>) = {a, b}
    BY <2>1, Two
  <2>3. <<c, d>> \in Seq(Stmts) /\ Listed(<<c, d>>) = {c, d}
    BY <2>1, Two
  <2>4. <<e, f>> \in Seq(Stmts) /\ Listed(<<e, f>>) = {e, f}
    BY <2>1, Two
  <2>5. QED
    BY <2>2, <2>3, <2>4 DEF a, b, c, d, e, f
<1>4. /\ Len(FZ) = 2 /\ FZ[1] = <<"copyZakat">>
      /\ Len(PM) = 2 /\ PM[1] = <<"products">> /\ PM[2] = <<"migrate">>
  OBVIOUS
<1>5. Opening = (((T \o TS) \o FZ) \o C) \o PM
  BY DEF Opening, FoldZakat
<1>6. ~ \E s \in Listed(T) \cup Listed(C) \cup Listed(TS) \cup Listed(FZ) : s = <<"migrate">>
  BY <1>1, <1>2, <1>3
<1>7. \A s \in Listed(T) \cup Listed(TS) : s[1] \in {"table", "trigger", "sessionIndex"}
  BY <1>1, <1>3
<1> HIDE DEF T, C, TS, FZ, PM
<1>71. FZ \in Seq(Stmts) /\ PM \in Seq(Stmts)
  BY <1>3
<1> DEFINE A == T \o TS
<1>8. A \in Seq(Stmts) /\ Listed(A) = Listed(T) \cup Listed(TS)
  BY <1>1, <1>3, ListedConcat
<1>9. Opening = ((A \o FZ) \o C) \o PM
  BY <1>5
<1> HIDE DEF A
<1> DEFINE B == A \o FZ
<1>10. B \in Seq(Stmts) /\ Listed(B) = Listed(A) \cup Listed(FZ)
  BY <1>71, <1>8, ListedConcat
<1>11. Opening = (B \o C) \o PM /\ B = A \o FZ
  BY <1>9
<1> HIDE DEF B
<1>12. /\ Len(A) \in Nat /\ DOMAIN A = 1..Len(A) /\ Len(B) = Len(A) + 2
       /\ \A n \in 1..Len(A) : B[n] = A[n]
       /\ B[Len(A) + 1] = <<"copyZakat">>
  <2>1. /\ Len(A) \in Nat /\ DOMAIN A = 1..Len(A) /\ Len(B) = Len(A) + Len(FZ)
        /\ \A n \in 1..Len(A) : B[n] = A[n]
        /\ \A n \in 1..Len(FZ) : B[Len(A) + n] = FZ[n]
    BY <1>71, <1>8, <1>11, ConcatParts
  <2>2. 1 \in 1..Len(FZ)
    BY <1>4
  <2>3. QED
    BY <1>4, <2>1, <2>2
<1> DEFINE D == B \o C
<1>13. D \in Seq(Stmts) /\ Listed(D) = Listed(B) \cup Listed(C)
  BY <1>2, <1>10, ListedConcat
<1>14. Opening = D \o PM /\ D = B \o C
  BY <1>11
<1> HIDE DEF D
<1>15. /\ Len(D) \in Nat /\ DOMAIN D = 1..Len(D) /\ Len(B) <= Len(D)
       /\ \A n \in 1..Len(B) : D[n] = B[n]
  BY <1>2, <1>10, <1>14, ConcatParts
<1>16. Opening \in Seq(Stmts) /\ Listed(Opening) = Listed(D) \cup Listed(PM)
  <2>1. D \in Seq(Stmts) /\ PM \in Seq(Stmts) /\ Opening = D \o PM
    BY <1>71, <1>13, <1>14
  <2>2. D \o PM \in Seq(Stmts) /\ Listed(D \o PM) = Listed(D) \cup Listed(PM)
    BY <2>1, ListedConcat
  <2>3. QED
    BY <2>1, <2>2
<1>17. /\ Len(Opening) = Len(D) + 2 /\ DOMAIN Opening = 1..Len(D) + 2
       /\ \A n \in 1..Len(D) : Opening[n] = D[n]
       /\ Opening[Len(D) + 1] = <<"products">> /\ Opening[Len(D) + 2] = <<"migrate">>
  <2>1. /\ Len(D) \in Nat /\ Len(Opening) = Len(D) + Len(PM)
        /\ DOMAIN Opening = 1..Len(D) + Len(PM)
        /\ \A n \in 1..Len(D) : Opening[n] = D[n]
        /\ \A n \in 1..Len(PM) : Opening[Len(D) + n] = PM[n]
    BY <1>71, <1>13, <1>14, ConcatParts
  <2>2. 1 \in 1..Len(PM) /\ 2 \in 1..Len(PM)
    BY <1>4
  <2>3. QED
    BY <1>4, <2>1, <2>2
<1>18. Listed(Opening) = EntryStmts \cup {<<"migrate">>}
  BY <1>1, <1>2, <1>3, <1>8, <1>10, <1>13, <1>16 DEF EntryStmts
<1>19. ASSUME NEW n \in DOMAIN Opening
       PROVE  Opening[n] = <<"migrate">> <=> n = Len(Opening)
  <2>1. CASE n \in 1..Len(D)
    <3>1. Opening[n] = D[n] /\ n \in DOMAIN D /\ n # Len(Opening)
      BY <1>15, <1>17, <2>1
    <3>2. D[n] \in Listed(D)
      BY <3>1 DEF Listed
    <3>3. QED
      BY <1>6, <1>8, <1>10, <1>13, <3>1, <3>2
  <2>2. CASE n = Len(D) + 1
    <3>1. Opening[n] = <<"products">> /\ n # Len(Opening)
      BY <1>15, <1>17, <2>2
    <3>2. QED
      BY <3>1
  <2>3. CASE n = Len(D) + 2
    BY <1>17, <2>3
  <2>4. QED
    BY <1>15, <1>17, <2>1, <2>2, <2>3
<1>20. \E m \in DOMAIN Opening :
          /\ Opening[m] = <<"copyZakat">>
          /\ \A n \in 1..m : Opening[n][1] \in {"table", "trigger", "sessionIndex", "copyZakat"}
  <2>1. PICK m : m = Len(A) + 1
    OBVIOUS
  <2>2. m \in DOMAIN Opening /\ m <= Len(B) /\ m <= Len(D)
    BY <1>12, <1>15, <1>17, <2>1
  <2>3. \A n \in 1..m : Opening[n] = B[n]
    BY <1>12, <1>15, <1>17, <2>1, <2>2
  <2>4. Opening[m] = <<"copyZakat">>
    BY <1>12, <2>1, <2>3
  <2>5. ASSUME NEW n \in 1..Len(A) PROVE Opening[n][1] \in {"table", "trigger", "sessionIndex"}
    <3>1. Opening[n] = A[n] /\ n \in DOMAIN A
      BY <1>12, <2>1, <2>3
    <3>2. A[n] \in Listed(A)
      BY <3>1 DEF Listed
    <3>3. QED
      BY <1>7, <1>8, <3>1, <3>2
  <2>6. ASSUME NEW n \in 1..m
        PROVE  Opening[n][1] \in {"table", "trigger", "sessionIndex", "copyZakat"}
    <3>1. CASE n = m
      <4>1. <<"copyZakat">>[1] = "copyZakat"
        OBVIOUS
      <4>2. QED
        BY <2>4, <3>1, <4>1
    <3>2. CASE n # m
      BY <1>12, <2>1, <2>5, <3>2
    <3>3. QED
      BY <3>1, <3>2
  <2>7. QED
    BY <2>2, <2>4, <2>6
<1>21. QED
  BY <1>16, <1>18, <1>19, <1>20

----------------------------------------------------------------------------
(* The program, step by step. *)

\* What may be pushed in place of the statement at the front.
Pushed(more) ==
    /\ more \in Seq(Stmts)
    /\ more = <<>> \/ todo[1] \notin {<<"migrate">>, <<"stamp">>}
    /\ \A n \in DOMAIN more :
          /\ more[n] \notin {<<"migrate">>, <<"stamp">>, <<"products">>, <<"version", 14>>}
          /\ Newer(more[n])
          /\ more[n] \in Numbering => todo[1] \in Numbering
          /\ more[n][1] = "assign" =>
                /\ todo[1] = <<"number">>
                /\ \E m \in DOMAIN more : n < m /\ more[m] = <<"seed">>
          /\ more[n] = <<"trays">> => todo[1] = <<"version", 14>>
          /\ more[n] = <<"mark">> => n = 1
    /\ \A m, n \in DOMAIN more :
          /\ more[m] \in Numbering /\ more[n] \in Numbering => m = n
          /\ more[m] = <<"assign", "customer_transactions">> /\ more[n] = <<"assign", "sales">>
             => n < m

\* A statement is pushed, or was in the program behind the one that was executed.
LEMMA Positions ==
    ASSUME NEW t \in Seq(Stmts), t # <<>>, NEW more \in Seq(Stmts), NEW u, u = more \o Tail(t)
    PROVE  /\ u \in Seq(Stmts) /\ DOMAIN u = 1..Len(more) + Len(t) - 1
           /\ Len(u) = Len(more) + Len(t) - 1
           /\ Len(more) \in Nat /\ Len(t) \in Nat /\ Len(t) >= 1
           /\ DOMAIN t = 1..Len(t) /\ DOMAIN more = 1..Len(more)
           /\ \A n \in DOMAIN u :
                 \/ n \in DOMAIN more /\ u[n] = more[n]
                 \/ /\ n > Len(more) /\ n - Len(more) + 1 \in 2..Len(t)
                    /\ u[n] = t[n - Len(more) + 1]
           /\ \A n \in DOMAIN more : n \in DOMAIN u /\ u[n] = more[n]
           /\ \A n \in 2..Len(t) : /\ n - 1 + Len(more) \in DOMAIN u
                                   /\ u[n - 1 + Len(more)] = t[n]
<1>1. /\ u \in Seq(Stmts) /\ Len(u) = Len(more) + Len(t) - 1
      /\ Len(t) >= 1 /\ DOMAIN t = 1..Len(t) /\ DOMAIN more = 1..Len(more)
      /\ DOMAIN u = 1..Len(more) + Len(t) - 1
      /\ \A n \in 1..Len(more) : u[n] = more[n]
      /\ \A n \in 2..Len(t) : u[n - 1 + Len(more)] = t[n]
  BY AfterStep
<1>2. Len(more) \in Nat /\ Len(t) \in Nat
  BY LenProperties
<1>3. ASSUME NEW n \in DOMAIN u, n > Len(more)
      PROVE  n - Len(more) + 1 \in 2..Len(t) /\ u[n] = t[n - Len(more) + 1]
  <2>1. n - Len(more) + 1 \in 2..Len(t) /\ (n - Len(more) + 1) - 1 + Len(more) = n
    BY <1>1, <1>2, <1>3
  <2>2. QED
    BY <1>1, <2>1
<1>4. \A n \in DOMAIN more : n \in DOMAIN u
  BY <1>1, <1>2
<1>5. \A n \in 2..Len(t) : n - 1 + Len(more) \in DOMAIN u
  BY <1>1, <1>2
<1>6. \A n \in DOMAIN u : n \in DOMAIN more \/ n > Len(more)
  BY <1>1, <1>2
<1>7. QED
  BY <1>1, <1>2, <1>3, <1>4, <1>5, <1>6

\* The invariant of the program outlives such a step.
LEMMA PushProgram ==
    ASSUME Program, phase = "opening", phase' = "opening", version' = version, todo # <<>>,
           NEW more, Pushed(more), todo' = more \o Tail(todo)
    PROVE  Program'
<1> DEFINE L == Len(more)
           K == Len(todo)
           u == todo'
<1>1. /\ u \in Seq(Stmts) /\ DOMAIN u = 1..L + K - 1 /\ Len(u) = L + K - 1
      /\ L \in Nat /\ K \in Nat /\ K >= 1 /\ DOMAIN todo = 1..K /\ DOMAIN more = 1..L
      /\ \A n \in DOMAIN u :
            \/ n \in DOMAIN more /\ u[n] = more[n]
            \/ n > L /\ n - L + 1 \in 2..K /\ u[n] = todo[n - L + 1]
      /\ \A n \in DOMAIN more : n \in DOMAIN u /\ u[n] = more[n]
      /\ \A n \in 2..K : n - 1 + L \in DOMAIN u /\ u[n - 1 + L] = todo[n]
  BY Positions DEF Program, Pushed
<1> HIDE DEF u
<1>2. \A n \in DOMAIN todo : todo[n] \in {<<"migrate">>, <<"stamp">>} <=> n = K
  BY DEF Program, Ends
<1>3. L > 0 => K >= 2
  <2> SUFFICES ASSUME L > 0 PROVE K >= 2
    OBVIOUS
  <2>1. more # <<>>
    OBVIOUS
  <2>2. todo[1] \notin {<<"migrate">>, <<"stamp">>}
    BY <2>1 DEF Pushed
  <2>3. QED
    BY <1>1, <1>2, <2>2
<1>4. ASSUME NEW n \in DOMAIN u PROVE u[n] \in {<<"migrate">>, <<"stamp">>} <=> n = Len(u)
  <2>1. CASE n \in DOMAIN more /\ u[n] = more[n]
    <3>1. u[n] \notin {<<"migrate">>, <<"stamp">>}
      BY <2>1 DEF Pushed
    <3>2. n # Len(u)
      BY <1>1, <1>3, <2>1
    <3>3. QED
      BY <3>1, <3>2
  <2>2. CASE n > L /\ n - L + 1 \in 2..K /\ u[n] = todo[n - L + 1]
    BY <1>1, <1>2, <2>2
  <2>3. QED
    BY <1>1, <2>1, <2>2
<1>5. ASSUME NEW n \in DOMAIN u, u[n] = <<"products">> PROVE u[Len(u)] = <<"migrate">>
  <2>1. n \notin DOMAIN more \/ u[n] # more[n]
    BY <1>5 DEF Pushed
  <2>2. n > L /\ n - L + 1 \in 2..K /\ todo[n - L + 1] = <<"products">>
    BY <1>1, <1>5, <2>1
  <2>3. todo[K] = <<"migrate">>
    <3>1. PICK a \in DOMAIN todo : todo[a] = <<"products">>
      BY <1>1, <2>2
    <3>2. Left(<<"products">>)
      BY <3>1 DEF Left
    <3>3. QED
      BY <3>2 DEF Program, Ends
  <2>4. K >= 2 /\ Len(u) = K - 1 + L
    BY <1>1, <2>2
  <2>5. QED
    BY <1>1, <2>3, <2>4
<1>6. Ends'
  BY <1>1, <1>4, <1>5 DEF Ends, Left, u
<1>7. ASSUME NEW m \in DOMAIN u, NEW n \in DOMAIN u, u[m] \in Numbering, u[n] \in Numbering
      PROVE  m = n
  <2>1. ASSUME NEW a \in 2..K, todo[a] \in Numbering, NEW b \in DOMAIN more, more[b] \in Numbering
        PROVE  FALSE
    <3>1. todo[1] \in Numbering
      BY <2>1 DEF Pushed
    <3>2. 1 \in DOMAIN todo /\ a \in DOMAIN todo /\ a # 1
      BY <1>1
    <3>3. QED
      BY <2>1, <3>1, <3>2 DEF Program, NumberingOnce
  <2>2. CASE m \in DOMAIN more /\ u[m] = more[m] /\ n \in DOMAIN more /\ u[n] = more[n]
    BY <1>7, <2>2 DEF Pushed
  <2>3. CASE /\ m > L /\ m - L + 1 \in 2..K /\ u[m] = todo[m - L + 1]
             /\ n > L /\ n - L + 1 \in 2..K /\ u[n] = todo[n - L + 1]
    <3>1. m - L + 1 \in DOMAIN todo /\ n - L + 1 \in DOMAIN todo
      BY <1>1, <2>3
    <3>2. m - L + 1 = n - L + 1
      BY <1>7, <2>3, <3>1 DEF Program, NumberingOnce
    <3>3. QED
      BY <1>1, <3>2
  <2>4. QED
    BY <1>1, <1>7, <2>1, <2>2, <2>3
<1>8. ASSUME NEW m \in DOMAIN u, u[m][1] = "assign"
      PROVE  \E n \in DOMAIN u : m < n /\ u[n] = <<"seed">>
  <2>1. CASE m \in DOMAIN more /\ u[m] = more[m]
    <3>1. PICK n \in DOMAIN more : m < n /\ more[n] = <<"seed">>
      BY <1>8, <2>1 DEF Pushed
    <3>2. QED
      BY <1>1, <3>1
  <2>2. CASE m > L /\ m - L + 1 \in 2..K /\ u[m] = todo[m - L + 1]
    <3>1. PICK a \in 2..K : a = m - L + 1 /\ u[m] = todo[a]
      BY <2>2
    <3>2. a \in DOMAIN todo /\ todo[a][1] = "assign"
      BY <1>1, <1>8, <3>1
    <3>3. PICK n \in DOMAIN todo : a < n /\ todo[n] = <<"seed">>
      BY <3>2 DEF Program, NumberingOnce
    <3>4. n \in 2..K /\ n - 1 + L > m
      BY <1>1, <2>2, <3>1, <3>3
    <3>5. QED
      BY <1>1, <3>3, <3>4
  <2>3. QED
    BY <1>1, <2>1, <2>2
<1>9. ASSUME NEW m \in DOMAIN u, NEW n \in DOMAIN u,
             u[m] = <<"assign", "customer_transactions">>, u[n] = <<"assign", "sales">>
      PROVE  n < m
  <2>1. ASSUME NEW a \in 2..K, todo[a][1] = "assign", NEW b \in DOMAIN more, more[b][1] = "assign"
        PROVE  FALSE
    <3>1. todo[1] = <<"number">>
      BY <2>1 DEF Pushed
    <3>2. 1 \in DOMAIN todo /\ a \in DOMAIN todo
      BY <1>1
    <3>3. PICK c \in DOMAIN todo : a < c /\ todo[c] = <<"seed">>
      BY <2>1, <3>2 DEF Program, NumberingOnce
    <3>4. c = 1
      BY <3>1, <3>2, <3>3 DEF Program, NumberingOnce, Numbering
    <3>5. QED
      BY <1>1, <3>3, <3>4
  <2>2. CASE m \in DOMAIN more /\ u[m] = more[m] /\ n \in DOMAIN more /\ u[n] = more[n]
    BY <1>9, <2>2 DEF Pushed
  <2>3. CASE /\ m > L /\ m - L + 1 \in 2..K /\ u[m] = todo[m - L + 1]
             /\ n > L /\ n - L + 1 \in 2..K /\ u[n] = todo[n - L + 1]
    <3>1. m - L + 1 \in DOMAIN todo /\ n - L + 1 \in DOMAIN todo
      BY <1>1, <2>3
    <3>2. n - L + 1 < m - L + 1
      BY <1>9, <2>3, <3>1 DEF Program, NumberingOnce
    <3>3. QED
      BY <1>1, <3>2
  <2>4. u[m][1] = "assign" /\ u[n][1] = "assign"
    BY <1>9
  <2>5. QED
    BY <1>1, <2>1, <2>2, <2>3, <2>4
<1>10. NumberingOnce'
  BY <1>7, <1>8, <1>9 DEF NumberingOnce, u
<1>11. ASSUME NEW m \in DOMAIN u, u[m] \in {<<"version", 14>>, <<"trays">>}
       PROVE  \E n \in DOMAIN u : m < n /\ u[n] = <<"version", 16>>
  <2>1. CASE m \in DOMAIN more /\ u[m] = more[m]
    <3>1. todo[1] = <<"version", 14>> /\ 1 \in DOMAIN todo
      BY <1>1, <1>11, <2>1 DEF Pushed
    <3>2. PICK n \in DOMAIN todo : 1 < n /\ todo[n] = <<"version", 16>>
      BY <3>1 DEF Program, TraysFirst
    <3>3. n \in 2..K /\ n - 1 + L > m
      BY <1>1, <2>1, <3>2
    <3>4. QED
      BY <1>1, <3>2, <3>3
  <2>2. CASE m > L /\ m - L + 1 \in 2..K /\ u[m] = todo[m - L + 1]
    <3>1. PICK a \in 2..K : a = m - L + 1 /\ u[m] = todo[a]
      BY <2>2
    <3>2. a \in DOMAIN todo /\ todo[a] \in {<<"version", 14>>, <<"trays">>}
      BY <1>1, <1>11, <3>1
    <3>3. PICK n \in DOMAIN todo : a < n /\ todo[n] = <<"version", 16>>
      BY <3>2 DEF Program, TraysFirst
    <3>4. n \in 2..K /\ n - 1 + L > m
      BY <1>1, <2>2, <3>1, <3>3
    <3>5. QED
      BY <1>1, <3>3, <3>4
  <2>3. QED
    BY <1>1, <2>1, <2>2
<1>12. TraysFirst'
  BY <1>11 DEF TraysFirst, u
<1>13. ASSUME NEW n \in DOMAIN u, u[n] = <<"mark">> PROVE n = 1
  <2>1. CASE n \in DOMAIN more /\ u[n] = more[n]
    BY <1>13, <2>1 DEF Pushed
  <2>2. CASE n > L /\ n - L + 1 \in 2..K /\ u[n] = todo[n - L + 1]
    <3>1. n - L + 1 = 1
      BY <1>1, <1>13, <2>2 DEF Program, MarkFirst
    <3>2. QED
      BY <2>2, <3>1
  <2>3. QED
    BY <1>1, <2>1, <2>2
<1>14. ASSUME NEW n \in DOMAIN u PROVE Newer(u[n])
  <2>1. CASE n \in DOMAIN more /\ u[n] = more[n]
    BY <2>1 DEF Pushed
  <2>2. CASE n > L /\ n - L + 1 \in 2..K /\ u[n] = todo[n - L + 1]
    BY <1>1, <2>2 DEF Program
  <2>3. QED
    BY <1>1, <2>1, <2>2
<1>15. (\A n \in DOMAIN todo : Newer(todo[n]))'
  BY <1>14 DEF Newer, u
<1>16. MarkFirst'
  BY <1>13 DEF MarkFirst, u
<1>17. todo' \in Seq(Stmts)
  BY <1>1 DEF u
<1>18. QED
  BY <1>6, <1>10, <1>12, <1>15, <1>16, <1>17 DEF Program

\* The statement at hand.
LEMMA AtHand ==
    ASSUME Program, NEW k, At(k)
    PROVE  /\ phase = "opening" /\ todo # <<>> /\ todo \in Seq(Stmts)
           /\ 1 \in DOMAIN todo /\ todo[1] \in Stmts /\ todo[1][1] = k
           /\ Left(todo[1]) /\ Newer(todo[1])
<1>1. phase = "opening" /\ todo # <<>> /\ todo[1][1] = k /\ todo \in Seq(Stmts)
  BY DEF At, Program
<1>2. Len(todo) \in Nat /\ DOMAIN todo = 1..Len(todo) /\ Len(todo) # 0
  BY <1>1, LenProperties, EmptySeq
<1>3. 1 \in DOMAIN todo
  BY <1>2
<1>4. todo[1] \in Stmts
  BY <1>1, <1>2, <1>3, ElementOfSeq
<1>5. QED
  BY <1>1, <1>3, <1>4 DEF Left, Program

\* The statement at hand, when its kind has no argument, or a ledger, or a version.
LEMMA Kinds ==
    ASSUME NEW s \in Stmts
    PROVE  /\ \A k \in {"trigger", "sessionIndex", "copyZakat", "dropZakat", "products", "migrate",
                        "marker", "mark", "trays", "prefix", "number", "seed", "weighed", "stamp"} :
                 s[1] = k => s = <<k>>
           /\ \A k \in {"reversalIndex", "pieces", "assign"} :
                 s[1] = k => s[2] \in Ledgers /\ s = <<k, s[2]>>
           /\ s[1] = "table" => s[2] \in Tables /\ s = <<"table", s[2]>>
           /\ s[1] = "column" => s[2] \in Columns \ {Marker} /\ s = <<"column", s[2]>>
           /\ s[1] = "version" => s[2] \in 1..kSchemaVersion /\ s = <<"version", s[2]>>
           /\ s[1] \in Statements
<1>1. CASE s \in {<<"table", t>> : t \in Tables}
  BY <1>1 DEF Statements
<1>2. CASE s \in {<<"column", c>> : c \in Columns \ {Marker}}
  BY <1>2 DEF Statements
<1>3. CASE s \in {<<"version", v>> : v \in 1..kSchemaVersion}
  BY <1>3 DEF Statements
<1>4. CASE s \in {<<k, l>> : k \in {"reversalIndex", "pieces", "assign"}, l \in Ledgers}
  BY <1>4 DEF Statements
<1>5. CASE s \in {<<k>> : k \in {"trigger", "sessionIndex", "copyZakat", "dropZakat", "products",
                             "migrate", "marker", "mark", "trays", "prefix", "number", "seed",
                             "weighed", "stamp"}}
  BY <1>5 DEF Statements
<1>6. QED
  BY <1>1, <1>2, <1>3, <1>4, <1>5 DEF Stmts

\* Nothing needs to be pushed.
LEMMA NothingPushed == Pushed(<<>>)
BY EmptySeq DEF Pushed

\* The migrations and the stamp are last.
LEMMA LastStatement ==
    ASSUME Program, todo # <<>>, todo[1] \in {<<"migrate">>, <<"stamp">>}, NEW more \in Seq(Stmts)
    PROVE  more \o Tail(todo) = more /\ Len(todo) = 1
<1>1. todo \in Seq(Stmts)
  BY DEF Program
<1>2. Len(todo) \in Nat /\ DOMAIN todo = 1..Len(todo) /\ Len(todo) # 0
  BY <1>1, LenProperties, EmptySeq
<1>3. Len(todo) = 1
  BY <1>2 DEF Program, Ends
<1>4. Tail(todo) \in Seq(Stmts) /\ Len(Tail(todo)) = 0
  BY <1>1, <1>3, HeadTailProperties
<1>5. Tail(todo) = <<>>
  BY <1>4, EmptySeq
<1>6. QED
  BY <1>3, <1>5, ConcatEmptySeq

\* A program may begin with the constructor's.
LEMMA OpeningProgram ==
    ASSUME todo' = Opening, phase' = "opening"
    PROVE  Program'
<1> DEFINE u == Opening
<1>1. /\ u \in Seq(Stmts) /\ Listed(u) = EntryStmts \cup {<<"migrate">>}
      /\ \A n \in DOMAIN u : u[n] = <<"migrate">> <=> n = Len(u)
      /\ \E m \in DOMAIN u : u[m] = <<"copyZakat">>
  BY OpeningProperties
<1>2. Len(u) \in Nat /\ DOMAIN u = 1..Len(u) /\ Len(u) # 0
  BY <1>1, LenProperties
<1> HIDE DEF u
<1>3. u[Len(u)] = <<"migrate">>
  BY <1>1, <1>2
<1>4. \A n \in DOMAIN u : u[n] \in EntryStmts \cup {<<"migrate">>}
  BY <1>1 DEF Listed
<1>5. \A s \in EntryStmts : /\ s \notin {<<"stamp">>, <<"mark">>, <<"trays">>} \cup Numbering
                            /\ s[1] \notin {"version", "marker", "mark", "pieces", "trays", "number",
                                            "assign", "seed", "weighed"}
  BY DEF EntryStmts, Numbering
<1>6. \A n \in DOMAIN u :
         /\ u[n] \notin {<<"stamp">>, <<"mark">>, <<"trays">>, <<"version", 14>>}
         /\ u[n] \in Numbering => u[n] = <<"migrate">>
         /\ u[n][1] \notin {"version", "marker", "mark", "pieces", "trays", "number",
                            "assign", "seed", "weighed"}
  BY <1>4, <1>5
<1>7. todo' = u
  BY DEF u
<1>8. Ends'
  BY <1>1, <1>3, <1>6, <1>7 DEF Ends, Left
<1>9. NumberingOnce'
  <2>1. \A n \in DOMAIN u : u[n] # <<"assign", "sales">>
    BY <1>6
  <2>2. QED
    BY <1>1, <1>6, <1>7, <2>1 DEF NumberingOnce
<1>10. TraysFirst' /\ MarkFirst'
  BY <1>6, <1>7 DEF TraysFirst, MarkFirst
<1>11. (\A n \in DOMAIN todo : Newer(todo[n]))'
  BY <1>6, <1>7 DEF Newer
<1>12. QED
  BY <1>1, <1>7, <1>8, <1>9, <1>10, <1>11 DEF Program

\* The versions that are left are a program too.
LEMMA WorkProgram ==
    ASSUME version \in 0..kSchemaVersion - 1, version' = version, phase' = "opening",
           todo' = WorkAfter(version)
    PROVE  Program'
<1> DEFINE u == WorkAfter(version)
           K == kSchemaVersion - version + 1
<1>1. /\ u \in Seq(Stmts) /\ Len(u) = K /\ DOMAIN u = 1..K
      /\ \A n \in 1..K - 1 : u[n] = <<"version", version + n>>
      /\ u[K] = <<"stamp">>
  <2>1. /\ u \in Seq(Stmts) /\ Len(u) = K /\ DOMAIN u = 1..K
        /\ \A n \in 1..kSchemaVersion - version : u[n] = <<"version", version + n>>
        /\ u[K] = <<"stamp">>
    BY WorkProperties
  <2>2. K - 1 = kSchemaVersion - version
    BY DEF kSchemaVersion
  <2>3. QED
    BY <2>1, <2>2
<1>2. K \in Nat /\ K = 17 - version /\ version \in 0..15
  BY DEF kSchemaVersion
<1> HIDE DEF u, K
<1>3. todo' = u
  BY DEF u
<1>4. \A n \in DOMAIN u : (n = K /\ u[n] = <<"stamp">>) \/ (n < K /\ u[n] = <<"version", version + n>>)
  BY <1>1, <1>2
<1>5. \A s : s[1] = "version" => s \notin {<<"stamp">>, <<"products">>, <<"migrate">>, <<"number">>,
                                           <<"seed">>, <<"trays">>, <<"mark">>}
  OBVIOUS
<1>6. \A n \in DOMAIN u : n < K => /\ u[n][1] = "version" /\ u[n][2] = version + n
  BY <1>4, <1>2
<1>7. Ends'
  <2>1. \A n \in DOMAIN u : u[n] \in {<<"migrate">>, <<"stamp">>} <=> n = Len(u)
    BY <1>1, <1>2, <1>4, <1>5, <1>6
  <2>2. \A n \in DOMAIN u : u[n] # <<"products">>
    BY <1>4, <1>5, <1>6
  <2>3. QED
    BY <1>3, <2>1, <2>2 DEF Ends, Left
<1>8. NumberingOnce'
  <2>1. \A n \in DOMAIN u : u[n] \in Numbering => n < K /\ version + n = 15
    BY <1>4, <1>5, <1>6 DEF Numbering
  <2>2. \A m, n \in DOMAIN u : u[m] \in Numbering /\ u[n] \in Numbering => m = n
    BY <1>1, <1>2, <2>1
  <2>3. \A n \in DOMAIN u : u[n][1] # "assign"
    BY <1>4, <1>6
  <2>4. QED
    BY <1>3, <2>2, <2>3 DEF NumberingOnce
<1>9. TraysFirst'
  <2>1. ASSUME NEW m \in DOMAIN u, u[m] \in {<<"version", 14>>, <<"trays">>}
        PROVE  \E n \in DOMAIN u : m < n /\ u[n] = <<"version", 16>>
    <3>1. m < K /\ version + m = 14
      BY <1>4, <1>5, <1>6, <2>1
    <3>2. PICK n : n = m + 2
      OBVIOUS
    <3>3. n \in DOMAIN u /\ n < K /\ m < n /\ version + n = 16
      BY <1>1, <1>2, <3>1, <3>2
    <3>4. u[n] = <<"version", version + n>>
      BY <1>2, <1>4, <3>3
    <3>5. u[n] = <<"version", 16>>
      BY <3>3, <3>4
    <3>6. QED
      BY <3>3, <3>5
  <2>2. QED
    BY <1>3, <2>1 DEF TraysFirst
<1>10. MarkFirst'
  BY <1>3, <1>4, <1>5, <1>6 DEF MarkFirst
<1>11. (\A n \in DOMAIN todo : Newer(todo[n]))'
  <2>1. ASSUME NEW n \in DOMAIN u PROVE Newer(u[n])
    <3>1. CASE n < K
      BY <1>1, <1>2, <1>6, <3>1 DEF Newer
    <3>2. CASE u[n] = <<"stamp">>
      BY <3>2 DEF Newer
    <3>3. QED
      BY <1>4, <3>1, <3>2
  <2>2. QED
    BY <1>3, <2>1 DEF Newer
<1>12. QED
  BY <1>1, <1>3, <1>7, <1>8, <1>9, <1>10, <1>11 DEF Program

\* At the end of a program nothing is left.
LEMMA NoProgram ==
    ASSUME todo' = <<>>
    PROVE  Program'
<1>1. DOMAIN todo' = {} /\ todo' \in Seq(Stmts)
  OBVIOUS
<1>2. Ends' /\ NumberingOnce' /\ TraysFirst' /\ MarkFirst'
  BY <1>1 DEF Ends, Left, NumberingOnce, TraysFirst, MarkFirst
<1>3. QED
  BY <1>1, <1>2 DEF Program

\* What a version pushes.
LEMMA MigrationPushed ==
    ASSUME Program, At("version")
    PROVE  /\ todo[1] = <<"version", Arg>> /\ Arg \in 1..kSchemaVersion /\ version < Arg
           /\ Pushed(MigrationOf(Arg)) /\ Listed(MigrationOf(Arg)) = OfVersion(Arg)
<1> DEFINE v == Arg
           more == MigrationOf(v)
<1>1. todo[1] = <<"version", v>> /\ v \in 1..kSchemaVersion
  BY AtHand, Kinds DEF Arg
<1>2. version < v
  BY <1>1, AtHand DEF Newer
<1> HIDE DEF v
<1>3. /\ more \in Seq(Stmts) /\ Listed(more) = OfVersion(v)
      /\ \A n \in DOMAIN more : more[n] = <<"number">> => n = Len(more)
  BY <1>1, MigrationProperties
<1>4. \A s \in OfVersion(v) :
         /\ s \notin {<<"migrate">>, <<"stamp">>, <<"products">>, <<"version", 14>>, <<"seed">>,
                      <<"version", 15>>, <<"mark">>}
         /\ s[1] \notin {"version", "assign", "mark", "seed"}
         /\ s[1] = "marker" => v = 11
         /\ s[1] = "pieces" => v = 13
         /\ s[1] = "trays" => v = 14
         /\ s[1] = "number" => v = 15
         /\ s[1] = "weighed" => v = 16
  BY DEF OfVersion
<1> HIDE DEF more
<1>5. \A n \in DOMAIN more : more[n] \in OfVersion(v)
  BY <1>3 DEF Listed
<1>6. \A s \in OfVersion(v) : Newer(s)
  BY <1>2, <1>4 DEF Newer, kSchemaVersion
<1>7. \A n \in DOMAIN more : more[n] \in Numbering => more[n] = <<"number">> /\ todo[1] \in Numbering
  BY <1>1, <1>4, <1>5 DEF Numbering
<1>8. \A m, n \in DOMAIN more : more[m] \in Numbering /\ more[n] \in Numbering => m = n
  BY <1>3, <1>7
<1>9. \A n \in DOMAIN more : more[n] = <<"trays">> => todo[1] = <<"version", 14>>
  <2>1. <<"trays">>[1] = "trays"
    OBVIOUS
  <2>2. QED
    BY <1>1, <1>4, <1>5, <2>1
<1>10. \A n \in DOMAIN more :
          /\ more[n] \notin {<<"migrate">>, <<"stamp">>, <<"products">>, <<"version", 14>>, <<"mark">>}
          /\ more[n][1] # "assign"
  BY <1>4, <1>5
<1>11. todo[1] \notin {<<"migrate">>, <<"stamp">>}
  BY <1>1
<1>12. \A n \in DOMAIN more : more[n] # <<"assign", "sales">>
  BY <1>10
<1>13. Pushed(more)
  BY <1>3, <1>5, <1>6, <1>7, <1>8, <1>9, <1>10, <1>11, <1>12 DEF Pushed
<1>14. QED
  BY <1>1, <1>2, <1>3, <1>13 DEF v, more

\* The numbering: either ledger, then the counters.
LEMMA NumberingPushed ==
    ASSUME Program, At("number")
    PROVE  /\ todo[1] = <<"number">> /\ Pushed(PerLedger("assign") \o << <<"seed">> >>)
           /\ PerLedger("assign") \o << <<"seed">> >>
                = << <<"assign", "sales">>, <<"assign", "customer_transactions">>, <<"seed">> >>
<1> DEFINE a == <<"assign", "sales">>
           b == <<"assign", "customer_transactions">>
           c == <<"seed">>
           more == <<a, b, c>>
<1>1. todo[1] = <<"number">> /\ Newer(<<"number">>)
  BY AtHand, Kinds
<1>2. PerLedger("assign") \o <<c>> = more
  <2>1. PerLedger("assign") = <<a, b>> /\ a \in Stmts /\ b \in Stmts /\ c \in Stmts
    BY DEF PerLedger, Stmts, Ledgers
  <2> HIDE DEF a, b, c
  <2>2. QED
    BY <2>1, TwoAndOne DEF more
<1>3. more \in Seq(Stmts)
  <2>1. a \in Stmts /\ b \in Stmts /\ c \in Stmts
    BY DEF Stmts, Ledgers
  <2> HIDE DEF a, b, c
  <2>2. QED
    BY <2>1, Three
<1>4. DOMAIN more = {1, 2, 3} /\ more[1] = a /\ more[2] = b /\ more[3] = c
  OBVIOUS
<1>5. Newer(a) /\ Newer(b) /\ Newer(c)
  BY <1>1 DEF Newer
<1>6. todo[1] \in Numbering /\ todo[1] \notin {<<"migrate">>, <<"stamp">>}
  BY <1>1 DEF Numbering
<1>7. /\ a \notin Numbering /\ b \notin Numbering /\ a # b /\ c # a /\ c # b
      /\ c[1] # "assign"
      /\ \A s \in {a, b, c} : s \notin {<<"migrate">>, <<"stamp">>, <<"products">>, <<"version", 14>>,
                                        <<"trays">>, <<"mark">>}
  BY DEF Numbering
<1> HIDE DEF more
<1>8. ASSUME NEW n \in DOMAIN more
      PROVE  /\ more[n] \notin {<<"migrate">>, <<"stamp">>, <<"products">>, <<"version", 14>>,
                                <<"trays">>, <<"mark">>}
             /\ Newer(more[n])
             /\ more[n][1] = "assign" => \E m \in DOMAIN more : n < m /\ more[m] = <<"seed">>
  <2>1. more[n] \in {a, b, c} /\ (n = 3 \/ n < 3) /\ (n = 3 => more[n] = c) /\ 3 \in DOMAIN more
    BY <1>4
  <2>2. n < 3 => \E m \in DOMAIN more : n < m /\ more[m] = <<"seed">>
    BY <1>4, <2>1
  <2> HIDE DEF a, b, c
  <2>3. QED
    BY <1>5, <1>7, <2>1, <2>2
<1> HIDE DEF a, b
<1>9. \A n \in DOMAIN more : more[n] \in Numbering => n = 3
  BY <1>4, <1>7
<1>10. \A n \in DOMAIN more : (more[n] = a => n = 1) /\ (more[n] = b => n = 2)
  BY <1>4, <1>7
<1>11. \A m, n \in DOMAIN more :
          more[m] = <<"assign", "customer_transactions">> /\ more[n] = <<"assign", "sales">>
                                    => n < m
  BY <1>10 DEF a, b
<1>12. Pushed(more)
  BY <1>1, <1>3, <1>6, <1>8, <1>9, <1>11 DEF Pushed
<1>13. QED
  BY <1>1, <1>2, <1>12 DEF more, a, b, c

\* The rows are marked after the column was added, and the triggers are replayed.
LEMMA OnePushed ==
    ASSUME Program, NEW k, NEW s, <<k, s>> \in {<<"marker", <<"mark">> >>, <<"products", <<"trigger">> >>},
           At(k)
    PROVE  Pushed(<<s>>) /\ todo[1] = <<k>> /\ Listed(<<s>>) = {s}
<1>1. todo[1] = <<k>> /\ Newer(todo[1])
  BY AtHand, Kinds
<1>2. /\ s \in Stmts /\ Newer(s)
      /\ s \notin {<<"migrate">>, <<"stamp">>, <<"products">>, <<"version", 14>>, <<"trays">>} \cup Numbering
      /\ s[1] # "assign" /\ todo[1] \notin {<<"migrate">>, <<"stamp">>}
  BY <1>1 DEF Stmts, Newer, Numbering
<1>3. <<s>> \in Seq(Stmts) /\ Listed(<<s>>) = {s} /\ DOMAIN <<s>> = {1} /\ <<s>>[1] = s
  BY <1>2, One
<1>4. \A n \in DOMAIN <<s>> : n = 1 /\ <<s>>[n] = s
  BY <1>3
<1>5. s # <<"assign", "sales">>
  BY <1>2
<1> DEFINE more == <<s>>
<1> HIDE DEF more
<1>6. Pushed(more)
  BY <1>2, <1>3, <1>4, <1>5 DEF Pushed, more
<1>7. QED
  BY <1>1, <1>3, <1>6 DEF more

\* A file's version is one of the program's.
LEMMA VersionRange == Types => version \in 0..kSchemaVersion /\ found.version \in 0..kSchemaVersion
BY DatabasesAssumption DEF Types, FileTypes, Readable, kSchemaVersion

\* A program may stay as it is.
LEMMA SameProgram ==
    ASSUME Program, UNCHANGED <<phase, todo, version>>
    PROVE  Program'
BY DEF Program, Ends, Left, NumberingOnce, TraysFirst, MarkFirst, Newer

\* A statement that pushes nothing.
LEMMA DoneProgram ==
    ASSUME Program, NEW k, At(k), Done, version' = version
    PROVE  Program'
<1>1. todo' = <<>> \o Tail(todo) /\ phase' = phase
  BY DEF Done, Then
<1>2. QED
  BY <1>1, AtHand, NothingPushed, PushProgram

\* Every step keeps what is said of the program.
LEMMA NextProgram ==
    ASSUME Types, Program, [Next]_vars
    PROVE  Program'
<1>1. CASE Open
  BY <1>1, OpeningProgram DEF Open
<1>2. CASE CreateTable
  BY <1>2, DoneProgram DEF CreateTable
<1>3. CASE CreateTrigger
  BY <1>3, DoneProgram DEF CreateTrigger
<1>4. CASE CreateSessionIndex
  BY <1>4, DoneProgram DEF CreateSessionIndex
<1>5. CASE CopyZakat
  BY <1>5, DoneProgram DEF CopyZakat
<1>6. CASE DropZakat
  BY <1>6, DoneProgram DEF DropZakat
<1>7. CASE AddColumn
  BY <1>7, DoneProgram DEF AddColumn
<1>8. CASE SwapProducts
  <2>1. At("products") /\ version' = version
    BY <1>8 DEF SwapProducts
  <2>2. CASE ~blankRefused
    BY <1>8, <2>1, <2>2, DoneProgram DEF SwapProducts
  <2>3. CASE blankRefused
    <3>1. todo' = Replayed \o Tail(todo) /\ phase' = phase
      BY <1>8, <2>3 DEF SwapProducts, Then
    <3>2. Pushed(Replayed)
      BY <2>1, OnePushed, NothingPushed DEF Replayed
    <3>3. QED
      BY <2>1, <3>1, <3>2, AtHand, PushProgram
  <2>4. QED
    BY <2>2, <2>3
<1>9. CASE StartMigrations
  <2>1. /\ At("migrate") /\ version' = version /\ phase' = phase
        /\ todo' = (IF version >= kSchemaVersion THEN <<>> ELSE WorkAfter(version)) \o Tail(todo)
    BY <1>9 DEF StartMigrations, Then
  <2>2. todo[1] = <<"migrate">> /\ todo # <<>> /\ phase = "opening"
    BY <2>1, AtHand, Kinds
  <2>3. CASE version >= kSchemaVersion
    <3>1. todo' = <<>> \o Tail(todo)
      BY <2>1, <2>3
    <3>2. QED
      BY <2>1, <2>2, <3>1, NothingPushed, PushProgram
  <2>4. CASE ~(version >= kSchemaVersion)
    <3>1. version \in 0..kSchemaVersion - 1
      BY <2>4, VersionRange DEF kSchemaVersion
    <3>2. WorkAfter(version) \in Seq(Stmts)
      BY <3>1, WorkProperties
    <3>3. todo' = WorkAfter(version)
      BY <2>1, <2>2, <2>4, <3>2, LastStatement
    <3>4. QED
      BY <2>1, <2>2, <3>1, <3>3, WorkProgram
  <2>5. QED
    BY <2>3, <2>4
<1>10. CASE ApplyMigration
  <2>1. /\ At("version") /\ version' = version /\ phase' = phase
        /\ todo' = MigrationOf(Arg) \o Tail(todo)
    BY <1>10 DEF ApplyMigration, Then
  <2>2. QED
    BY <2>1, AtHand, MigrationPushed, PushProgram
<1>11. CASE CreateReversalIndex
  BY <1>11, DoneProgram DEF CreateReversalIndex
<1>12. CASE AddMarker
  <2>1. /\ At("marker") /\ version' = version /\ phase' = phase
        /\ todo' = (IF Marker \in columns THEN <<>> ELSE << <<"mark">> >>) \o Tail(todo)
    BY <1>12 DEF AddMarker, Then
  <2>2. Pushed(IF Marker \in columns THEN <<>> ELSE << <<"mark">> >>)
    <3>1. Pushed(<< <<"mark">> >>)
      BY <2>1, OnePushed
    <3>2. QED
      BY <3>1, NothingPushed
  <2>3. QED
    BY <2>1, <2>2, AtHand, PushProgram
<1>13. CASE MarkPayments
  BY <1>13, DoneProgram DEF MarkPayments
<1>14. CASE BackfillPieces
  BY <1>14, DoneProgram DEF BackfillPieces
<1>15. CASE BackfillTrays
  BY <1>15, DoneProgram DEF BackfillTrays
<1>16. CASE SeedPrefix
  BY <1>16, DoneProgram DEF SeedPrefix
<1>17. CASE StartNumbering
  <2>1. /\ At("number") /\ version' = version /\ phase' = phase
        /\ todo' = (IF \E y \in Years : counters[y] > 0 THEN <<>>
                    ELSE PerLedger("assign") \o << <<"seed">> >>) \o Tail(todo)
    BY <1>17 DEF StartNumbering, Then
  <2>2. Pushed(IF \E y \in Years : counters[y] > 0 THEN <<>>
               ELSE PerLedger("assign") \o << <<"seed">> >>)
    BY <2>1, NumberingPushed, NothingPushed
  <2>3. QED
    BY <2>1, <2>2, AtHand, PushProgram
<1>18. CASE AssignNumber
  <2>1. At("assign") /\ version' = version
    BY <1>18 DEF AssignNumber
  <2>2. CASE Done
    BY <2>1, <2>2, DoneProgram
  <2>3. CASE UNCHANGED <<found, phase, todo, cuts, torn>>
    BY <2>1, <2>3, SameProgram
  <2>4. QED
    BY <1>18, <2>2, <2>3 DEF AssignNumber
<1>19. CASE SeedCounter
  <2>1. At("seed") /\ version' = version
    BY <1>19 DEF SeedCounter
  <2>2. CASE Done
    BY <2>1, <2>2, DoneProgram
  <2>3. CASE UNCHANGED <<found, phase, todo, cuts, torn>>
    BY <2>1, <2>3, SameProgram
  <2>4. QED
    BY <1>19, <2>2, <2>3 DEF SeedCounter
<1>20. CASE ClearWeighed
  BY <1>20, DoneProgram DEF ClearWeighed
<1>21. CASE Stamp
  <2>1. At("stamp") /\ todo' = <<>> \o Tail(todo)
    BY <1>21 DEF Stamp, Done, Then
  <2>2. todo[1] = <<"stamp">> /\ todo # <<>>
    BY <2>1, AtHand, Kinds
  <2>3. todo' = <<>>
    BY <2>1, <2>2, EmptySeq, LastStatement
  <2>4. QED
    BY <2>3, NoProgram
<1>22. CASE FinishOpening
  BY <1>22, NoProgram DEF FinishOpening
<1>23. CASE \E l \in Ledgers, y \in Years : Sell(l, y)
  BY <1>23, SameProgram DEF Sell, program
<1>24. CASE CloseSession
  BY <1>24, SameProgram DEF CloseSession, program
<1>25. CASE OpenSession
  BY <1>25, SameProgram DEF OpenSession, program
<1>26. CASE Quit
  <2>1. todo = <<>> /\ todo' = todo
    BY <1>26 DEF Quit, Program
  <2>2. QED
    BY <2>1, NoProgram
<1>27. CASE PowerCut
  BY <1>27, NoProgram DEF PowerCut
<1>28. CASE UNCHANGED vars
  BY <1>28, SameProgram DEF vars, program
<1>29. QED
  BY <1>1, <1>2, <1>3, <1>4, <1>5, <1>6, <1>7, <1>8, <1>9, <1>10, <1>11, <1>12, <1>13, <1>14,
     <1>15, <1>16, <1>17, <1>18, <1>19, <1>20, <1>21, <1>22, <1>23, <1>24, <1>25, <1>26, <1>27,
     <1>28 DEF Next

\* What is left but not at hand stays left, and what is pushed is left.
LEMMA LeftAfter ==
    ASSUME Program, NEW k, At(k), NEW more \in Seq(Stmts), todo' = more \o Tail(todo)
    PROVE  /\ \A s : Left(s) /\ s # todo[1] => Left(s)'
           /\ \A s \in Listed(more) : Left(s)'
<1> DEFINE u == todo'
<1>1. /\ DOMAIN todo = 1..Len(todo) /\ Len(todo) \in Nat
      /\ \A n \in DOMAIN more : n \in DOMAIN u /\ u[n] = more[n]
      /\ \A n \in 2..Len(todo) : /\ n - 1 + Len(more) \in DOMAIN u
                                 /\ u[n - 1 + Len(more)] = todo[n]
  BY AtHand, Positions
<1> HIDE DEF u
<1>2. ASSUME NEW s, Left(s), s # todo[1] PROVE \E n \in DOMAIN u : u[n] = s
  <2>1. PICK n \in DOMAIN todo : todo[n] = s
    BY <1>2 DEF Left
  <2>2. n \in 2..Len(todo)
    BY <1>1, <1>2, <2>1
  <2>3. QED
    BY <1>1, <2>1, <2>2
<1>3. \A s \in Listed(more) : \E n \in DOMAIN u : u[n] = s
  BY <1>1 DEF Listed
<1>4. QED
  BY <1>2, <1>3 DEF Left, u

\* Nothing else is left.
LEMMA LeftBefore ==
    ASSUME Program, NEW k, At(k), NEW more \in Seq(Stmts), todo' = more \o Tail(todo)
    PROVE  \A s : Left(s)' => Left(s) \/ s \in Listed(more)
<1> DEFINE u == todo'
<1>1. /\ DOMAIN todo = 1..Len(todo) /\ Len(todo) \in Nat
      /\ \A n \in DOMAIN u :
            \/ n \in DOMAIN more /\ u[n] = more[n]
            \/ n - Len(more) + 1 \in 2..Len(todo) /\ u[n] = todo[n - Len(more) + 1]
  BY AtHand, Positions
<1> HIDE DEF u
<1>2. ASSUME NEW s, NEW n \in DOMAIN u, u[n] = s PROVE Left(s) \/ s \in Listed(more)
  <2>1. CASE n \in DOMAIN more /\ u[n] = more[n]
    BY <1>2, <2>1 DEF Listed
  <2>2. CASE n - Len(more) + 1 \in 2..Len(todo) /\ u[n] = todo[n - Len(more) + 1]
    <3>1. n - Len(more) + 1 \in DOMAIN todo
      BY <1>1, <2>2
    <3>2. QED
      BY <1>2, <2>2, <3>1 DEF Left
  <2>3. QED
    BY <1>1, <2>1, <2>2
<1>3. QED
  BY <1>2 DEF Left, u

----------------------------------------------------------------------------
(* The settings. *)

\* As long as a key is missing from settings, no other statement is at hand.
LEMMA FoldAtHand ==
    ASSUME Program, FoldFirst, NEW k, At(k), ~Folded
    PROVE  k \in {"table", "trigger", "sessionIndex", "copyZakat"}
<1>1. PICK m \in DOMAIN todo :
         \A n \in 1..m : todo[n][1] \in {"table", "trigger", "sessionIndex", "copyZakat"}
  BY AtHand DEF FoldFirst
<1>2. 1 \in 1..m
  BY <1>1, LenProperties DEF Program
<1>3. QED
  BY <1>1, <1>2, AtHand

\* Other statements leave both tables alone.
LEMMA FoldStays ==
    ASSUME Program, FoldFirst, UNCHANGED options, NEW k, At(k), k # "copyZakat",
           NEW more \in Seq(Stmts), todo' = more \o Tail(todo),
           k \in {"table", "trigger", "sessionIndex"} => more = <<>>
    PROVE  FoldFirst'
<1>0. Folded' <=> Folded
  BY DEF Folded, options
<1> SUFFICES ASSUME ~Folded PROVE FoldFirst'
  BY <1>0 DEF FoldFirst
<1>1. k \in {"table", "trigger", "sessionIndex"} /\ more = <<>>
  BY FoldAtHand
<1> DEFINE u == todo'
<1>2. /\ DOMAIN todo = 1..Len(todo) /\ Len(todo) \in Nat /\ Len(more) = 0 /\ DOMAIN more = {}
      /\ \A n \in DOMAIN u : n - Len(more) + 1 \in 2..Len(todo) /\ u[n] = todo[n - Len(more) + 1]
      /\ \A n \in 2..Len(todo) : /\ n - 1 + Len(more) \in DOMAIN u
                                 /\ u[n - 1 + Len(more)] = todo[n]
      /\ DOMAIN u = 1..Len(more) + Len(todo) - 1
  <2>1. Len(more) = 0 /\ DOMAIN more = {}
    BY <1>1
  <2>2. QED
    BY <2>1, AtHand, Positions
<1> HIDE DEF u
<1>3. PICK m \in DOMAIN todo :
         /\ todo[m] = <<"copyZakat">>
         /\ \A n \in 1..m : todo[n][1] \in {"table", "trigger", "sessionIndex", "copyZakat"}
  BY AtHand DEF FoldFirst
<1>4. m # 1
  <2>1. <<"copyZakat">>[1] = "copyZakat"
    OBVIOUS
  <2>2. QED
    BY <1>3, <2>1, AtHand
<1>5. PICK a : a = m - 1
  OBVIOUS
<1>6. a \in DOMAIN u /\ u[a] = todo[m]
  BY <1>2, <1>3, <1>4, <1>5
<1>7. ASSUME NEW n \in 1..a
      PROVE  u[n][1] \in {"table", "trigger", "sessionIndex", "copyZakat"}
  <2>1. n \in DOMAIN u /\ u[n] = todo[n + 1] /\ n + 1 \in 1..m
    BY <1>2, <1>3, <1>5
  <2>2. QED
    BY <1>3, <2>1
<1>8. QED
  BY <1>3, <1>6, <1>7 DEF FoldFirst, u

\* Every step keeps the copy in front, and the value of every setting.
LEMMA NextFoldFirst ==
    ASSUME Types, Program, FoldFirst, [Next]_vars
    PROVE  /\ FoldFirst'
           /\ \A k \in Keys : ValueOf(k) # None => ValueOf(k)' = ValueOf(k)
<1>0. DOMAIN settings = Keys /\ DOMAIN zakat = Keys
  BY DEF Types, FileTypes
<1>1. ASSUME UNCHANGED options
      PROVE  \A k \in Keys : ValueOf(k) # None => ValueOf(k)' = ValueOf(k)
  BY <1>1 DEF options, ValueOf
<1>2. CASE CopyZakat
  <2>1. /\ settings' = [k \in Keys |-> IF settings[k] = None THEN zakat[k] ELSE settings[k]]
        /\ zakat' = zakat
    BY <1>2 DEF CopyZakat
  <2>2. \A k \in Keys : settings'[k] = IF settings[k] = None THEN zakat[k] ELSE settings[k]
    BY <2>1
  <2>3. QED
    BY <2>1, <2>2 DEF FoldFirst, Folded, ValueOf
<1>3. CASE DropZakat
  <2>1. At("dropZakat") /\ zakat' = [k \in Keys |-> None] /\ settings' = settings
    BY <1>3 DEF DropZakat
  <2>2. Folded
    BY <2>1, FoldAtHand
  <2>3. QED
    BY <2>1, <2>2 DEF FoldFirst, Folded, ValueOf
<1>4. CASE SeedPrefix
  <2>1. /\ At("prefix") /\ zakat' = zakat
        /\ settings' = [settings EXCEPT !["device_prefix"] =
                           IF settings["device_prefix"] = None THEN "A" ELSE settings["device_prefix"]]
    BY <1>4 DEF SeedPrefix
  <2>2. Folded
    BY <2>1, FoldAtHand
  <2>3. \A k \in Keys : settings[k] # None => settings'[k] = settings[k]
    BY <1>0, <2>1
  <2>4. \A k \in Keys : settings'[k] = None => settings[k] = None
    BY <1>0, <2>3
  <2>5. QED
    BY <2>1, <2>2, <2>3, <2>4 DEF FoldFirst, Folded, ValueOf
<1>5. CASE Open
  <2>1. todo' = Opening /\ UNCHANGED options
    BY <1>5 DEF Open
  <2>2. FoldFirst'
    <3>1. PICK m \in DOMAIN Opening :
             /\ Opening[m] = <<"copyZakat">>
             /\ \A n \in 1..m : Opening[n][1] \in {"table", "trigger", "sessionIndex", "copyZakat"}
      BY OpeningProperties
    <3>2. QED
      BY <2>1, <3>1 DEF FoldFirst
  <2>3. QED
    BY <1>1, <2>1, <2>2
<1>6. ASSUME NEW k, At(k), Done, k # "copyZakat", UNCHANGED options
      PROVE  FoldFirst'
  <2>1. todo' = <<>> \o Tail(todo) /\ <<>> \in Seq(Stmts)
    BY <1>6 DEF Done, Then
  <2>2. QED
    BY <1>6, <2>1, FoldStays
<1>7. ASSUME NEW k, At(k), NEW more, Pushed(more), Then(more), UNCHANGED options,
             k \notin {"table", "trigger", "sessionIndex", "copyZakat"}
      PROVE  FoldFirst'
  <2>1. todo' = more \o Tail(todo) /\ more \in Seq(Stmts)
    BY <1>7 DEF Then, Pushed
  <2>2. QED
    BY <1>7, <2>1, FoldStays
<1>8. ASSUME UNCHANGED <<todo, phase, options>> PROVE FoldFirst'
  BY <1>8 DEF FoldFirst, Folded, options
<1>9. ASSUME phase' # "opening" PROVE FoldFirst'
  BY <1>9 DEF FoldFirst
<1>10. CASE CreateTable
  BY <1>1, <1>6, <1>10 DEF CreateTable
<1>11. CASE CreateTrigger
  BY <1>1, <1>6, <1>11 DEF CreateTrigger
<1>12. CASE CreateSessionIndex
  BY <1>1, <1>6, <1>12 DEF CreateSessionIndex
<1>13. CASE AddColumn
  BY <1>1, <1>6, <1>13 DEF AddColumn
<1>14. CASE SwapProducts
  <2>1. At("products") /\ UNCHANGED options
    BY <1>14 DEF SwapProducts
  <2>2. CASE ~blankRefused
    BY <1>1, <1>6, <1>14, <2>1, <2>2 DEF SwapProducts
  <2>3. CASE blankRefused
    <3>1. Then(Replayed)
      BY <1>14, <2>3 DEF SwapProducts
    <3>2. Pushed(Replayed)
      BY <2>1, OnePushed, NothingPushed DEF Replayed
    <3>3. QED
      BY <1>1, <1>7, <2>1, <3>1, <3>2
  <2>4. QED
    BY <2>2, <2>3
<1>15. CASE StartMigrations
  <2>1. At("migrate") /\ UNCHANGED options /\ phase' = "opening"
    BY <1>15 DEF StartMigrations, Then, At
  <2>2. Folded
    BY <2>1, FoldAtHand
  <2>3. Folded'
    BY <2>1, <2>2 DEF Folded, options
  <2>4. QED
    BY <1>1, <2>1, <2>3 DEF FoldFirst
<1>16. CASE ApplyMigration
  <2>1. At("version") /\ Then(MigrationOf(Arg)) /\ UNCHANGED options
    BY <1>16 DEF ApplyMigration
  <2>2. Pushed(MigrationOf(Arg))
    BY <2>1, MigrationPushed
  <2>3. QED
    BY <1>1, <1>7, <2>1, <2>2
<1>17. CASE CreateReversalIndex
  BY <1>1, <1>6, <1>17 DEF CreateReversalIndex
<1>18. CASE AddMarker
  <2>1. At("marker") /\ UNCHANGED options /\ phase' = "opening"
    BY <1>18 DEF AddMarker, Then, At
  <2>2. Folded
    BY <2>1, FoldAtHand
  <2>3. Folded'
    BY <2>1, <2>2 DEF Folded, options
  <2>4. QED
    BY <1>1, <2>1, <2>3 DEF FoldFirst
<1>19. CASE MarkPayments
  BY <1>1, <1>6, <1>19 DEF MarkPayments
<1>20. CASE BackfillPieces
  BY <1>1, <1>6, <1>20 DEF BackfillPieces
<1>21. CASE BackfillTrays
  BY <1>1, <1>6, <1>21 DEF BackfillTrays
<1>22. CASE StartNumbering
  <2>1. At("number") /\ UNCHANGED options /\ phase' = "opening"
    BY <1>22 DEF StartNumbering, Then, At
  <2>2. Folded
    BY <2>1, FoldAtHand
  <2>3. Folded'
    BY <2>1, <2>2 DEF Folded, options
  <2>4. QED
    BY <1>1, <2>1, <2>3 DEF FoldFirst
<1>23. CASE AssignNumber
  <2>1. At("assign") /\ UNCHANGED options /\ (Done \/ UNCHANGED <<phase, todo>>)
    BY <1>23 DEF AssignNumber
  <2>2. QED
    BY <1>1, <1>6, <1>8, <2>1
<1>24. CASE SeedCounter
  <2>1. At("seed") /\ UNCHANGED options /\ (Done \/ UNCHANGED <<phase, todo>>)
    BY <1>24 DEF SeedCounter
  <2>2. QED
    BY <1>1, <1>6, <1>8, <2>1
<1>25. CASE ClearWeighed
  BY <1>1, <1>6, <1>25 DEF ClearWeighed
<1>26. CASE Stamp
  BY <1>1, <1>6, <1>26 DEF Stamp
<1>27. CASE FinishOpening \/ Quit \/ PowerCut
  BY <1>1, <1>9, <1>27 DEF FinishOpening, Quit, PowerCut
<1>28. CASE (\E l \in Ledgers, y \in Years : Sell(l, y)) \/ CloseSession \/ OpenSession \/ UNCHANGED vars
  BY <1>1, <1>8, <1>28 DEF Sell, CloseSession, OpenSession, vars, program
<1>29. QED
  BY <1>2, <1>3, <1>4, <1>5, <1>10, <1>11, <1>12, <1>13, <1>14, <1>15, <1>16, <1>17, <1>18, <1>19,
     <1>20, <1>21, <1>22, <1>23, <1>24, <1>25, <1>26, <1>27, <1>28 DEF Next

----------------------------------------------------------------------------
(* What the variables hold. *)

\* The columns a table is created with are columns.
LEMMA CreatedColumns == \A t : CreatedWith(t) \subseteq Columns
BY DEF CreatedWith

\* The two columns that are added by statements of their own.
LEMMA WeightAndMarker == Weight \in Columns /\ Marker \in Columns
BY DEF Columns

\* The types hold of every file that may be found.
LEMMA InitTypes ==
    ASSUME Init
    PROVE  Types
<1>1. found \in OldDatabases /\ Readable(found)
  BY DatabasesAssumption DEF Init
<1>2. FileTypes
  BY <1>1, BoundsAssumption DEF Init, FileTypes, Readable
<1>3. BookTypes
  BY <1>1 DEF Init, BookTypes, Readable
<1>4. QED
  BY <1>2, <1>3 DEF Types

\* Every step keeps the types of the file.
LEMMA NextFileTypes ==
    ASSUME Types, Program, [Next]_vars
    PROVE  FileTypes'
<1> USE DEF Types, FileTypes, shape, books, options, Done, Then
<1>1. CASE Open
  BY <1>1 DEF Open
<1>2. CASE CreateTable
  <2>1. Arg \in Tables
    BY <1>2, AtHand, Kinds DEF CreateTable, Arg
  <2>2. QED
    BY <1>2, <2>1, CreatedColumns DEF CreateTable
<1>3. CASE CreateTrigger
  BY <1>3 DEF CreateTrigger
<1>4. CASE CreateSessionIndex
  BY <1>4 DEF CreateSessionIndex, Indexes
<1>5. CASE CopyZakat
  BY <1>5 DEF CopyZakat
<1>6. CASE DropZakat
  BY <1>6 DEF DropZakat
<1>7. CASE AddColumn
  <2>1. Arg \in Columns
    BY <1>7, AtHand, Kinds DEF AddColumn, Arg
  <2>2. QED
    BY <1>7, <2>1 DEF AddColumn
<1>8. CASE SwapProducts
  BY <1>8, WeightAndMarker DEF SwapProducts
<1>9. CASE StartMigrations
  BY <1>9 DEF StartMigrations
<1>10. CASE ApplyMigration
  BY <1>10 DEF ApplyMigration
<1>11. CASE CreateReversalIndex
  <2>1. Arg \in Ledgers
    BY <1>11, AtHand, Kinds DEF CreateReversalIndex, Arg
  <2>2. ReversalIndex(Arg) \in Indexes
    BY <2>1 DEF Indexes
  <2>3. QED
    BY <1>11, <2>2 DEF CreateReversalIndex
<1>12. CASE AddMarker
  BY <1>12, WeightAndMarker DEF AddMarker
<1>13. CASE MarkPayments
  BY <1>13 DEF MarkPayments
<1>14. CASE BackfillPieces
  BY <1>14 DEF BackfillPieces
<1>15. CASE BackfillTrays
  BY <1>15 DEF BackfillTrays
<1>16. CASE SeedPrefix
  BY <1>16 DEF SeedPrefix
<1>17. CASE StartNumbering
  BY <1>17 DEF StartNumbering
<1>18. CASE AssignNumber
  BY <1>18 DEF AssignNumber
<1>19. CASE SeedCounter
  BY <1>19 DEF SeedCounter
<1>20. CASE ClearWeighed
  BY <1>20 DEF ClearWeighed
<1>21. CASE Stamp
  BY <1>21 DEF Stamp
<1>22. CASE FinishOpening
  BY <1>22 DEF FinishOpening
<1>23. CASE \E l \in Ledgers, y \in Years : Sell(l, y)
  BY <1>23 DEF Sell, program
<1>24. CASE CloseSession
  BY <1>24 DEF CloseSession, program
<1>25. CASE OpenSession
  BY <1>25 DEF OpenSession, program
<1>26. CASE Quit
  BY <1>26 DEF Quit
<1>27. CASE PowerCut
  BY <1>27, BoundsAssumption DEF PowerCut
<1>28. CASE UNCHANGED vars
  BY <1>28 DEF vars, program
<1>29. QED
  BY <1>1, <1>2, <1>3, <1>4, <1>5, <1>6, <1>7, <1>8, <1>9, <1>10, <1>11, <1>12, <1>13, <1>14,
     <1>15, <1>16, <1>17, <1>18, <1>19, <1>20, <1>21, <1>22, <1>23, <1>24, <1>25, <1>26, <1>27,
     <1>28 DEF Next

\* A table is rewritten row by row.
LEMMA Rewritten ==
    ASSUME NEW S, NEW s \in Seq(S), NEW t, t = [i \in DOMAIN s |-> t[i]],
           \A i \in DOMAIN s : t[i] \in S
    PROVE  t \in Seq(S) /\ Len(t) = Len(s) /\ DOMAIN t = DOMAIN s
<1>1. Len(s) \in Nat /\ DOMAIN s = 1..Len(s)
  BY LenProperties
<1>2. t \in [1..Len(s) -> S] /\ DOMAIN t = DOMAIN s
  BY <1>1
<1>3. t \in Seq(S)
  BY <1>1, <1>2, SeqDef
<1>4. Len(t) = Len(s)
  BY <1>1, <1>2, <1>3, LenProperties
<1>5. QED
  BY <1>2, <1>3, <1>4

\* The rows of the ledgers.
LEMMA RowsOf ==
    ASSUME BookTypes, NEW l \in Ledgers
    PROVE  /\ ledger[l] \in Seq(LedgerRows) /\ Len(ledger[l]) \in Nat
           /\ DOMAIN ledger[l] = 1..Len(ledger[l])
           /\ \A i \in DOMAIN ledger[l] :
                 /\ ledger[l][i] \in LedgerRows
                 /\ ledger[l][i].year \in Years /\ ledger[l][i].number \in Nat
                 /\ ledger[l][i].pieces \in Int /\ ledger[l][i].quantity \in Int
                 /\ perYear[ledger[l][i].year] \in Nat /\ counters[ledger[l][i].year] \in Nat
<1>1. ledger[l] \in Seq(LedgerRows)
  BY DEF BookTypes
<1>2. Len(ledger[l]) \in Nat /\ DOMAIN ledger[l] = 1..Len(ledger[l])
  BY <1>1, LenProperties
<1>3. \A i \in DOMAIN ledger[l] : ledger[l][i] \in LedgerRows
  BY <1>1, <1>2, ElementOfSeq
<1>4. QED
  BY <1>1, <1>2, <1>3 DEF LedgerRows, BookTypes

\* What a backfill of pieces does to the ledgers.
LEMMA BackfillRows ==
    ASSUME Types, Program, BackfillPieces
    PROVE  /\ Arg \in Ledgers /\ todo[1] = <<"pieces", Arg>>
           /\ ledger' \in [Ledgers -> Seq(LedgerRows)]
           /\ \A l \in Ledgers : Len(ledger'[l]) = Len(ledger[l]) /\ DOMAIN ledger'[l] = DOMAIN ledger[l]
           /\ \A l \in Ledgers : l # Arg => ledger'[l] = ledger[l]
           /\ \A i \in DOMAIN ledger[Arg] :
                 ledger'[Arg][i] = [ledger[Arg][i] EXCEPT !.pieces = BackfilledPieces(ledger[Arg][i])]
<1>1. Arg \in Ledgers /\ todo[1] = <<"pieces", Arg>>
  BY AtHand, Kinds DEF BackfillPieces, Arg
<1>2. PICK l : l = Arg
  OBVIOUS
<1>3. PICK t : t = [i \in DOMAIN ledger[l] |->
                       [ledger[l][i] EXCEPT !.pieces = BackfilledPieces(ledger[l][i])]]
  OBVIOUS
<1>4. l \in Ledgers /\ ledger \in [Ledgers -> Seq(LedgerRows)] /\ ledger' = [ledger EXCEPT ![l] = t]
  BY <1>1, <1>2, <1>3 DEF BackfillPieces, Types, BookTypes
<1>5. \A i \in DOMAIN ledger[l] : t[i] \in LedgerRows
  BY <1>3, <1>4, RowsOf DEF Types, BackfilledPieces, LedgerRows
<1>6. /\ \A i \in DOMAIN ledger[l] :
            t[i] = [ledger[l][i] EXCEPT !.pieces = BackfilledPieces(ledger[l][i])]
      /\ t = [i \in DOMAIN ledger[l] |-> t[i]]
  BY <1>3
<1> HIDE <1>3
<1>7. t \in Seq(LedgerRows) /\ Len(t) = Len(ledger[l]) /\ DOMAIN t = DOMAIN ledger[l]
  <2>1. ledger[l] \in Seq(LedgerRows)
    BY <1>4
  <2>2. QED
    BY <1>5, <1>6, <2>1, Rewritten
<1>8. ledger' \in [Ledgers -> Seq(LedgerRows)] /\ ledger'[l] = t
      /\ \A m \in Ledgers : m # l => ledger'[m] = ledger[m]
  BY <1>4, <1>7
<1>9. QED
  BY <1>1, <1>2, <1>4, <1>6, <1>7, <1>8

\* What the numbering of a row does to the ledgers.
LEMMA NumberRow ==
    ASSUME Types, Program, AssignNumber, Unnumbered(Arg) # {}
    PROVE  /\ Arg \in Ledgers /\ todo[1] = <<"assign", Arg>> /\ UNCHANGED <<phase, todo>>
           /\ \E i \in Unnumbered(Arg) :
                 LET y == ledger[Arg][i].year
                 IN /\ y \in Years
                    /\ \A j \in Unnumbered(Arg) : i <= j
                    /\ perYear' = [perYear EXCEPT ![y] = perYear[y] + 1]
                    /\ ledger' \in [Ledgers -> Seq(LedgerRows)]
                    /\ \A l \in Ledgers : Len(ledger'[l]) = Len(ledger[l])
                                          /\ DOMAIN ledger'[l] = DOMAIN ledger[l]
                    /\ \A l \in Ledgers : l # Arg => ledger'[l] = ledger[l]
                    /\ \A j \in DOMAIN ledger[Arg] : j # i => ledger'[Arg][j] = ledger[Arg][j]
                    /\ ledger'[Arg][i] = [ledger[Arg][i] EXCEPT !.number = perYear[y] + 1]
<1>1. Arg \in Ledgers /\ todo[1] = <<"assign", Arg>>
  BY AtHand, Kinds DEF AssignNumber, Arg
<1>2. PICK l : l = Arg
  OBVIOUS
<1>3. PICK i \in Unnumbered(l) :
         /\ \A j \in Unnumbered(l) : i <= j
         /\ perYear' = [perYear EXCEPT ![ledger[l][i].year] = perYear[ledger[l][i].year] + 1]
         /\ ledger' = [ledger EXCEPT ![l][i].number = perYear[ledger[l][i].year] + 1]
         /\ UNCHANGED <<phase, todo>>
  BY <1>2 DEF AssignNumber, NextNumber
<1>4. PICK y : y = ledger[l][i].year
  OBVIOUS
<1>5. i \in DOMAIN ledger[l] /\ y \in Years /\ perYear[y] + 1 \in Nat
  BY <1>1, <1>2, <1>4, RowsOf DEF Unnumbered, Types, BookTypes
<1>6. PICK row : row = [ledger[l][i] EXCEPT !.number = perYear[y] + 1]
  OBVIOUS
<1>7. row \in LedgerRows
  <2>1. ledger[l][i] \in LedgerRows
    BY <1>1, <1>2, <1>5, RowsOf DEF Types
  <2>2. QED
    BY <1>5, <1>6, <2>1 DEF LedgerRows
<1>8. PICK t : t = [ledger[l] EXCEPT ![i] = row]
  OBVIOUS
<1>9. /\ ledger[l] \in Seq(LedgerRows) /\ ledger \in [Ledgers -> Seq(LedgerRows)] /\ l \in Ledgers
      /\ ledger' = [ledger EXCEPT ![l] = t]
  BY <1>1, <1>2, <1>3, <1>4, <1>6, <1>8 DEF Types, BookTypes
<1>10. /\ t = [j \in DOMAIN ledger[l] |-> t[j]]
       /\ \A j \in DOMAIN ledger[l] : t[j] \in LedgerRows
       /\ t[i] = row /\ \A j \in DOMAIN ledger[l] : j # i => t[j] = ledger[l][j]
  BY <1>1, <1>2, <1>5, <1>7, <1>8, RowsOf DEF Types
<1> HIDE <1>8
<1>11. t \in Seq(LedgerRows) /\ Len(t) = Len(ledger[l]) /\ DOMAIN t = DOMAIN ledger[l]
  BY <1>9, <1>10, Rewritten
<1>12. ledger' \in [Ledgers -> Seq(LedgerRows)] /\ ledger'[l] = t
       /\ \A m \in Ledgers : m # l => ledger'[m] = ledger[m]
  BY <1>9, <1>11
<1>13. /\ \A m \in Ledgers : Len(ledger'[m]) = Len(ledger[m]) /\ DOMAIN ledger'[m] = DOMAIN ledger[m]
       /\ \A j \in DOMAIN ledger[l] : j # i => ledger'[l][j] = ledger[l][j]
       /\ ledger'[l][i] = row
  BY <1>10, <1>11, <1>12
<1>14. QED
  BY <1>1, <1>2, <1>3, <1>4, <1>5, <1>6, <1>12, <1>13

\* What a sale does to the ledgers.
LEMMA SellRow ==
    ASSUME Types, NEW l \in Ledgers, NEW y \in Years, Sell(l, y)
    PROVE  /\ ledger' \in [Ledgers -> Seq(LedgerRows)]
           /\ \A m \in Ledgers : m # l => ledger'[m] = ledger[m]
           /\ Len(ledger'[l]) = Len(ledger[l]) + 1
           /\ \A i \in DOMAIN ledger[l] : i \in DOMAIN ledger'[l] /\ ledger'[l][i] = ledger[l][i]
           /\ DOMAIN ledger'[l] = DOMAIN ledger[l] \cup {Len(ledger[l]) + 1}
           /\ ledger'[l][Len(ledger[l]) + 1].year = y
           /\ ledger'[l][Len(ledger[l]) + 1].number = counters[y] + 1
<1>1. PICK row : row = [Row(y, 1, FALSE) EXCEPT !.number = counters[y] + 1, !.pieces = 1]
  OBVIOUS
<1>2. counters[y] \in Nat /\ ledger[l] \in Seq(LedgerRows)
  BY DEF Types, BookTypes
<1>3. row \in LedgerRows /\ row.year = y /\ row.number = counters[y] + 1
  <2>1. row = [year |-> y, quantity |-> 1, doubled |-> FALSE, number |-> counters[y] + 1, pieces |-> 1]
    BY <1>1 DEF Row
  <2>2. counters[y] + 1 \in Nat /\ y \in Years
    BY <1>2
  <2>3. QED
    BY <2>1, <2>2 DEF LedgerRows
<1>4. PICK t : t = Append(ledger[l], row)
  OBVIOUS
<1>5. /\ Len(ledger[l]) \in Nat /\ DOMAIN ledger[l] = 1..Len(ledger[l])
      /\ t \in Seq(LedgerRows) /\ Len(t) = Len(ledger[l]) + 1
      /\ \A i \in 1..Len(ledger[l]) : t[i] = ledger[l][i]
      /\ t[Len(ledger[l]) + 1] = row
  BY <1>2, <1>3, <1>4, AppendProperties, LenProperties
<1>6. ledger \in [Ledgers -> Seq(LedgerRows)] /\ ledger' = [ledger EXCEPT ![l] = t]
  BY <1>1, <1>4 DEF Sell, Types, BookTypes
<1> HIDE <1>1, <1>4
<1>7. /\ ledger' \in [Ledgers -> Seq(LedgerRows)] /\ ledger'[l] = t
      /\ \A m \in Ledgers : m # l => ledger'[m] = ledger[m]
  BY <1>5, <1>6
<1>8. DOMAIN t = 1..Len(ledger[l]) + 1
  BY <1>5, LenProperties
<1>9. DOMAIN t = DOMAIN ledger[l] \cup {Len(ledger[l]) + 1}
  BY <1>5, <1>8
<1>10. QED
  BY <1>3, <1>5, <1>7, <1>9

\* A product with another carton.
LEMMA ProductRow ==
    ASSUME NEW r \in ProductRows
    PROVE  /\ [r EXCEPT !.perPackage = 1] \in ProductRows
           /\ [r EXCEPT !.perPackage = 1, !.weighed = FALSE] \in ProductRows
           /\ [r EXCEPT !.perPackage = r.packageSize] \in ProductRows
<1>1. ASSUME NEW n \in Int
      PROVE  /\ [r EXCEPT !.perPackage = n] \in ProductRows
             /\ [r EXCEPT !.perPackage = n, !.weighed = FALSE] \in ProductRows
  BY DEF ProductRows
<1>2. 1 \in Int /\ r.packageSize \in Int
  BY DEF ProductRows
<1>3. QED
  BY <1>1, <1>2

\* Products are rewritten with another number of pieces in their carton.
LEMMA ProductsRewritten ==
    ASSUME Types, NEW t, t = [p \in DOMAIN products |-> t[p]],
           \A p \in DOMAIN products :
              \/ t[p] = products[p]
              \/ t[p] = [products[p] EXCEPT !.perPackage = 1]
              \/ t[p] = [products[p] EXCEPT !.perPackage = 1, !.weighed = FALSE]
              \/ t[p] = [products[p] EXCEPT !.perPackage = products[p].packageSize]
    PROVE  t \in Seq(ProductRows) /\ Len(t) = Len(products) /\ DOMAIN t = DOMAIN products
<1>1. products \in Seq(ProductRows)
  BY DEF Types, BookTypes
<1>2. \A p \in DOMAIN products : products[p] \in ProductRows
  BY <1>1, LenProperties, ElementOfSeq
<1>3. ASSUME NEW p \in DOMAIN products PROVE t[p] \in ProductRows
  <2>1. PICK r \in ProductRows : r = products[p]
    BY <1>2
  <2>2. /\ [r EXCEPT !.perPackage = 1] \in ProductRows
        /\ [r EXCEPT !.perPackage = 1, !.weighed = FALSE] \in ProductRows
        /\ [r EXCEPT !.perPackage = r.packageSize] \in ProductRows
    BY ProductRow
  <2>3. QED
    BY <2>1, <2>2
<1>4. QED
  BY <1>1, <1>3, Rewritten

\* Marking leaves as many payments as there were.
LEMMA PaymentsRewritten ==
    ASSUME Types, MarkPayments
    PROVE  /\ payments' \in Seq(PaymentRows) /\ DOMAIN payments' = DOMAIN payments
           /\ Len(payments') = Len(payments)
<1>1. payments \in Seq(PaymentRows)
  BY DEF Types, BookTypes
<1>2. \A p \in DOMAIN payments : payments[p] \in PaymentRows
  BY <1>1, LenProperties, ElementOfSeq
<1>3. payments' = [i \in DOMAIN payments |->
                      IF PaidOnInvoice(i) THEN [payments[i] EXCEPT !.initial = TRUE] ELSE payments[i]]
  BY DEF MarkPayments
<1>4. \A p \in DOMAIN payments : payments'[p] \in PaymentRows
  BY <1>2, <1>3 DEF PaymentRows
<1>5. payments' = [i \in DOMAIN payments |-> payments'[i]]
  BY <1>3
<1>6. QED
  BY <1>1, <1>4, <1>5, Rewritten

\* Every step keeps the types of the books.
LEMMA NextBookTypes ==
    ASSUME Types, Program, [Next]_vars
    PROVE  BookTypes'
<1>0. BookTypes
  BY DEF Types
<1>1. ASSUME UNCHANGED books, perYear' = perYear PROVE BookTypes'
  BY <1>0, <1>1 DEF BookTypes, books
<1>2. ASSUME UNCHANGED books, perYear' = [y \in Years |-> 0] PROVE BookTypes'
  BY <1>0, <1>2 DEF BookTypes, books
<1>3. ASSUME UNCHANGED <<ledger, counters, payments, perYear>>, products' \in Seq(ProductRows)
      PROVE  BookTypes'
  BY <1>0, <1>3 DEF BookTypes
<1>4. CASE Open \/ PowerCut
  BY <1>2, <1>4 DEF Open, PowerCut
<1>5. CASE CreateTable \/ CreateTrigger \/ CreateSessionIndex \/ CopyZakat \/ DropZakat \/ AddColumn
  BY <1>1, <1>5 DEF CreateTable, CreateTrigger, CreateSessionIndex, CopyZakat, DropZakat, AddColumn,
                  Done
<1>6. CASE StartMigrations \/ ApplyMigration \/ CreateReversalIndex \/ AddMarker \/ SeedPrefix
  BY <1>1, <1>6 DEF StartMigrations, ApplyMigration, CreateReversalIndex, AddMarker, SeedPrefix, Done
<1>7. CASE StartNumbering \/ Stamp \/ FinishOpening \/ Quit
  BY <1>1, <1>7 DEF StartNumbering, Stamp, FinishOpening, Quit, Done
<1>8. CASE CloseSession \/ OpenSession \/ UNCHANGED vars
  BY <1>1, <1>8 DEF CloseSession, OpenSession, vars, program
<1>9. CASE SwapProducts
  <2>1. UNCHANGED <<ledger, counters, payments>> /\ perYear' = perYear
    BY <1>9 DEF SwapProducts, Done
  <2>2. CASE ~blankRefused
    BY <1>1, <1>9, <2>1, <2>2 DEF SwapProducts, books
  <2>3. CASE blankRefused
    <3>1. products' = [p \in DOMAIN products |->
                          [products[p] EXCEPT !.perPackage = 1, !.weighed = FALSE]]
      BY <1>9, <2>3 DEF SwapProducts
    <3>2. /\ products' = [p \in DOMAIN products |-> products'[p]]
          /\ \A p \in DOMAIN products :
                products'[p] = [products[p] EXCEPT !.perPackage = 1, !.weighed = FALSE]
      BY <3>1
    <3>3. products' \in Seq(ProductRows)
      BY <3>2, ProductsRewritten
    <3>4. QED
      BY <1>3, <2>1, <3>3
  <2>4. QED
    BY <2>2, <2>3
<1>10. CASE MarkPayments
  <2>1. payments' \in Seq(PaymentRows)
    BY <1>10, PaymentsRewritten
  <2>2. QED
    BY <1>0, <1>10, <2>1 DEF BookTypes, MarkPayments, Done
<1>11. CASE BackfillPieces
  BY <1>0, <1>11, BackfillRows DEF BookTypes, BackfillPieces, Done
<1>12. CASE BackfillTrays
  <2>1. products' = [p \in DOMAIN products |->
                       IF products[p].packageSize > 1 /\ products[p].perPackage = 1
                       THEN [products[p] EXCEPT !.perPackage = products[p].packageSize]
                       ELSE products[p]]
    BY <1>12 DEF BackfillTrays
  <2>2. /\ products' = [p \in DOMAIN products |-> products'[p]]
        /\ \A p \in DOMAIN products :
              \/ products'[p] = products[p]
              \/ products'[p] = [products[p] EXCEPT !.perPackage = products[p].packageSize]
    BY <2>1
  <2>3. products' \in Seq(ProductRows)
    BY <2>2, ProductsRewritten
  <2>4. QED
    BY <1>3, <1>12, <2>3 DEF BackfillTrays, Done
<1>13. CASE ClearWeighed
  <2>1. products' = [p \in DOMAIN products |->
                       IF products[p].weighed THEN [products[p] EXCEPT !.perPackage = 1]
                       ELSE products[p]]
    BY <1>13 DEF ClearWeighed
  <2>2. /\ products' = [p \in DOMAIN products |-> products'[p]]
        /\ \A p \in DOMAIN products :
              products'[p] = products[p] \/ products'[p] = [products[p] EXCEPT !.perPackage = 1]
    BY <2>1
  <2>3. products' \in Seq(ProductRows)
    BY <2>2, ProductsRewritten
  <2>4. QED
    BY <1>3, <1>13, <2>3 DEF ClearWeighed, Done
<1>14. CASE AssignNumber
  <2>1. UNCHANGED <<counters, payments, products>>
    BY <1>14 DEF AssignNumber
  <2>2. CASE Unnumbered(Arg) # {}
    <3>1. PICK y \in Years : perYear' = [perYear EXCEPT ![y] = perYear[y] + 1]
      BY <1>14, <2>2, NumberRow
    <3>2. perYear' \in [Years -> Nat]
      BY <1>0, <3>1 DEF BookTypes
    <3>3. ledger' \in [Ledgers -> Seq(LedgerRows)]
      BY <1>14, <2>2, NumberRow
    <3>4. QED
      BY <1>0, <2>1, <3>2, <3>3 DEF BookTypes
  <2>3. CASE Unnumbered(Arg) = {}
    <3>1. UNCHANGED <<ledger, perYear>>
      BY <1>14, <2>3 DEF AssignNumber, Done
    <3>2. QED
      BY <1>1, <2>1, <3>1 DEF books
  <2>4. QED
    BY <2>2, <2>3
<1>15. CASE SeedCounter
  <2>1. UNCHANGED <<ledger, payments, products>>
    BY <1>15 DEF SeedCounter
  <2>2. CASE UNCHANGED <<counters, perYear>>
    BY <1>1, <2>1, <2>2 DEF books
  <2>3. CASE \E y \in Years : /\ counters' = [counters EXCEPT ![y] = perYear[y]]
                              /\ perYear' = [perYear EXCEPT ![y] = 0]
    BY <1>0, <2>1, <2>3 DEF BookTypes
  <2>4. QED
    BY <1>15, <2>2, <2>3 DEF SeedCounter, Done
<1>16. CASE \E l \in Ledgers, y \in Years : Sell(l, y)
  <2>1. PICK l \in Ledgers, y \in Years : Sell(l, y)
    BY <1>16
  <2>2. ledger' \in [Ledgers -> Seq(LedgerRows)]
    BY <2>1, SellRow
  <2>3. counters' = [counters EXCEPT ![y] = counters[y] + 1] /\ UNCHANGED <<payments, products, perYear>>
    BY <2>1 DEF Sell, program
  <2>4. counters' \in [Years -> Nat]
    BY <1>0, <2>3 DEF BookTypes
  <2>5. QED
    BY <1>0, <2>2, <2>3, <2>4 DEF BookTypes
<1>17. QED
  BY <1>4, <1>5, <1>6, <1>7, <1>8, <1>9, <1>10, <1>11, <1>12, <1>13, <1>14, <1>15, <1>16 DEF Next

----------------------------------------------------------------------------
(* The shape. *)

\* The file: a stamp stands for the columns of its version.
LEMMA InitShape ==
    ASSUME Init
    PROVE  Shape
<1>1. found \in OldDatabases /\ Readable(found) /\ StampedAfterwards(found)
  BY DatabasesAssumption DEF Init
<1>2. FileKeeps
  BY <1>1 DEF Init, FileKeeps, StampedAfterwards, Readable, kSchemaVersion
<1>3. ShapeComes /\ SchemaComplete
  BY DEF Init, ShapeComes, SchemaComplete
<1>4. QED
  BY <1>2, <1>3 DEF Shape

\* Columns are not lost, and what the statement at hand is for is there after it.
LEMMA ShapeStays ==
    ASSUME Program, ShapeComes, NEW k, At(k), k \notin {"migrate", "stamp"},
           NEW more \in Seq(Stmts), todo' = more \o Tail(todo), version' = version,
           tables \subseteq tables', columns \subseteq columns', stockTrigger => stockTrigger',
           blankRefused' => blankRefused,
           k = "table" => Arg \in tables',
           k = "column" => Arg \in columns',
           k = "trigger" => stockTrigger',
           k = "products" => ~blankRefused' /\ Weight \in columns',
           k = "marker" => Marker \in columns',
           k = "version" => OfVersion(Arg) \subseteq Listed(more)
    PROVE  ShapeComes'
<1>1. /\ \A s : Left(s) /\ s # todo[1] => Left(s)'
      /\ \A s \in Listed(more) : Left(s)'
      /\ todo[1][1] = k /\ phase = "opening"
  BY LeftAfter, AtHand
<1>2. Arg = todo[1][2]
  BY DEF Arg
<1>3. ASSUME NEW t \in Tables, t \notin tables' PROVE Left(<<"table", t>>)'
  <2>1. Left(<<"table", t>>)
    BY <1>1, <1>3 DEF ShapeComes
  <2>2. <<"table", t>> # todo[1]
    BY <1>1, <1>2, <1>3
  <2>3. QED
    BY <1>1, <2>1, <2>2
<1>4. ASSUME NEW c \in Columns, c \notin columns' PROVE ColumnComes(c)'
  <2>1. ColumnComes(c)
    BY <1>1, <1>4 DEF ShapeComes
  <2>2. CASE Left(<<"column", c>>)
    <3>1. <<"column", c>> # todo[1]
      BY <1>1, <1>2, <1>4
    <3>2. Left(<<"column", c>>)'
      BY <1>1, <2>2, <3>1
    <3>3. QED
      BY <3>2 DEF ColumnComes
  <2>3. CASE c = Weight /\ Left(<<"products">>)
    <3>1. <<"products">> # todo[1]
      <4>1. <<"products">>[1] = "products"
        OBVIOUS
      <4>2. QED
        BY <1>1, <1>4, <2>3, <4>1
    <3>2. Left(<<"products">>)'
      BY <1>1, <2>3, <3>1
    <3>3. QED
      BY <2>3, <3>2 DEF ColumnComes
  <2>4. CASE c = Marker /\ Left(<<"marker">>)
    <3>1. <<"marker">> # todo[1]
      <4>1. <<"marker">>[1] = "marker"
        OBVIOUS
      <4>2. QED
        BY <1>1, <1>4, <2>4, <4>1
    <3>2. Left(<<"marker">>)'
      BY <1>1, <2>4, <3>1
    <3>3. QED
      BY <2>4, <3>2 DEF ColumnComes
  <2>5. CASE \E v \in version + 1..kSchemaVersion :
                /\ c \in Listed(ColumnsOf(v)) \/ (c = Marker /\ v = 11)
                /\ Left(<<"migrate">>) \/ Left(<<"version", v>>)
    <3>1. PICK v \in version + 1..kSchemaVersion :
             /\ c \in Listed(ColumnsOf(v)) \/ (c = Marker /\ v = 11)
             /\ Left(<<"migrate">>) \/ Left(<<"version", v>>)
      BY <2>5
    <3>2. CASE Left(<<"migrate">>)
      <4>1. <<"migrate">> # todo[1]
        <5>1. <<"migrate">>[1] = "migrate"
          OBVIOUS
        <5>2. QED
          BY <1>1, <5>1
      <4>2. Left(<<"migrate">>)'
        BY <1>1, <3>2, <4>1
      <4>3. QED
        BY <3>1, <4>2 DEF ColumnComes
    <3>3. CASE Left(<<"version", v>>) /\ <<"version", v>> # todo[1]
      <4>1. Left(<<"version", v>>)'
        BY <1>1, <3>3
      <4>2. QED
        BY <3>1, <4>1 DEF ColumnComes
    <3>4. CASE <<"version", v>> = todo[1]
      <4>1. k = "version" /\ Arg = v
        BY <1>1, <1>2, <3>4
      <4>2. CASE c \in Listed(ColumnsOf(v))
        <5>1. <<"column", c>> \in OfVersion(v)
          BY <4>2 DEF OfVersion
        <5>2. Left(<<"column", c>>)'
          BY <1>1, <4>1, <5>1
        <5>3. QED
          BY <5>2 DEF ColumnComes
      <4>3. CASE c = Marker /\ v = 11
        <5>1. <<"marker">> \in OfVersion(v)
          BY <4>3 DEF OfVersion
        <5>2. Left(<<"marker">>)'
          BY <1>1, <4>1, <5>1
        <5>3. QED
          BY <4>3, <5>2 DEF ColumnComes
      <4>4. QED
        BY <3>1, <4>2, <4>3
    <3>5. QED
      BY <3>1, <3>2, <3>3, <3>4
  <2>6. QED
    BY <2>1, <2>2, <2>3, <2>4, <2>5 DEF ColumnComes
<1>5. stockTrigger' \/ Left(<<"trigger">>)'
  <2>1. <<"trigger">>[1] = "trigger"
    OBVIOUS
  <2>2. QED
    BY <1>1, <2>1 DEF ShapeComes
<1>6. blankRefused' => Left(<<"products">>)'
  <2>1. <<"products">>[1] = "products"
    OBVIOUS
  <2>2. QED
    BY <1>1, <2>1 DEF ShapeComes
<1>7. version' = kSchemaVersion \/ Left(<<"migrate">>)' \/ Left(<<"stamp">>)'
  <2>1. <<"migrate">>[1] = "migrate" /\ <<"stamp">>[1] = "stamp"
    OBVIOUS
  <2>2. QED
    BY <1>1, <2>1 DEF ShapeComes
<1>8. QED
  BY <1>3, <1>4, <1>5, <1>6, <1>7 DEF ShapeComes

\* At the end of a program nothing else is left.
LEMMA NothingElse ==
    ASSUME Program, NEW k \in {"migrate", "stamp"}, At(k)
    PROVE  /\ todo[1] = <<k>> /\ \A s : Left(s) => s = <<k>>
           /\ \A more \in Seq(Stmts) : more \o Tail(todo) = more
<1>1. todo[1] = <<k>> /\ todo # <<>> /\ todo[1] \in {<<"migrate">>, <<"stamp">>}
  BY AtHand, Kinds
<1>2. \A more \in Seq(Stmts) : more \o Tail(todo) = more
  BY <1>1, LastStatement
<1>3. Len(todo) = 1
  <2>1. <<>> \in Seq(Stmts)
    OBVIOUS
  <2>2. QED
    BY <1>1, <2>1, LastStatement
<1>4. DOMAIN todo = {1}
  BY <1>3, LenProperties DEF Program
<1>5. QED
  BY <1>1, <1>2, <1>4 DEF Left

\* The shape when nothing but the versions or the stamp is left.
LEMMA OnlyVersions ==
    ASSUME Program, ShapeComes, NEW k \in {"migrate", "stamp"}, At(k)
    PROVE  /\ Tables \subseteq tables /\ stockTrigger /\ ~blankRefused
           /\ \A c \in Columns : c \in columns \/
                 (k = "migrate" /\ \E v \in version + 1..kSchemaVersion :
                    c \in Listed(ColumnsOf(v)) \/ (c = Marker /\ v = 11))
           /\ k = "stamp" => Columns \subseteq columns
<1>1. phase = "opening" /\ \A s : Left(s) => s = <<k>>
  BY NothingElse, AtHand
<1>2. \A t \in Tables : t \in tables
  <2>1. \A t : <<"table", t>> # <<k>>
    OBVIOUS
  <2>2. QED
    BY <1>1, <2>1 DEF ShapeComes
<1>3. stockTrigger /\ ~blankRefused
  <2>1. <<"trigger">> # <<k>> /\ <<"products">> # <<k>>
    OBVIOUS
  <2>2. QED
    BY <1>1, <2>1 DEF ShapeComes
<1>4. ASSUME NEW c \in Columns, c \notin columns
      PROVE  k = "migrate" /\ \E v \in version + 1..kSchemaVersion :
                c \in Listed(ColumnsOf(v)) \/ (c = Marker /\ v = 11)
  <2>1. ColumnComes(c)
    BY <1>1, <1>4 DEF ShapeComes
  <2>2. /\ <<"column", c>> # <<k>> /\ <<"products">> # <<k>> /\ <<"marker">> # <<k>>
        /\ \A v : <<"version", v>> # <<k>>
        /\ <<"migrate">> = <<k>> => k = "migrate"
    OBVIOUS
  <2>3. QED
    BY <1>1, <2>1, <2>2 DEF ColumnComes
<1>5. QED
  BY <1>2, <1>3, <1>4

\* The versions that are pushed bring what the file lacks.
LEMMA StartShape ==
    ASSUME Types, Program, ShapeComes, StartMigrations
    PROVE  ShapeComes'
<1>1. /\ At("migrate") /\ UNCHANGED <<version, shape>>
      /\ todo' = (IF version >= kSchemaVersion THEN <<>> ELSE WorkAfter(version)) \o Tail(todo)
  BY DEF StartMigrations, Then
<1>2. /\ stockTrigger /\ ~blankRefused /\ Tables \subseteq tables
      /\ \A c \in Columns : c \in columns \/ \E v \in version + 1..kSchemaVersion :
            c \in Listed(ColumnsOf(v)) \/ (c = Marker /\ v = 11)
  BY <1>1, OnlyVersions
<1>3. version \in 0..kSchemaVersion
  BY VersionRange
<1>4. CASE version >= kSchemaVersion
  <2>1. version = kSchemaVersion /\ version + 1..kSchemaVersion = {}
    BY <1>3, <1>4 DEF kSchemaVersion
  <2>2. QED
    BY <1>1, <1>2, <2>1 DEF ShapeComes, shape
<1>5. CASE ~(version >= kSchemaVersion)
  <2>1. version \in 0..kSchemaVersion - 1
    BY <1>3, <1>5 DEF kSchemaVersion
  <2> DEFINE u == WorkAfter(version)
  <2>2. /\ u \in Seq(Stmts) /\ DOMAIN u = 1..kSchemaVersion - version + 1
        /\ \A n \in 1..kSchemaVersion - version : u[n] = <<"version", version + n>>
        /\ u[kSchemaVersion - version + 1] = <<"stamp">>
    BY <2>1, WorkProperties
  <2> HIDE DEF u
  <2>3. todo' = u
    BY <1>1, <1>5, <2>2, NothingElse DEF u
  <2>4. Left(<<"stamp">>)'
    <3>1. kSchemaVersion - version + 1 \in DOMAIN u
      BY <2>1, <2>2 DEF kSchemaVersion
    <3>2. QED
      BY <2>2, <2>3, <3>1 DEF Left
  <2>5. ASSUME NEW v \in version + 1..kSchemaVersion PROVE Left(<<"version", v>>)'
    <3>1. PICK n : n = v - version
      OBVIOUS
    <3>2. n \in 1..kSchemaVersion - version /\ n \in DOMAIN u /\ version + n = v
      BY <2>1, <2>2, <3>1 DEF kSchemaVersion
    <3>3. u[n] = <<"version", v>>
      BY <2>2, <3>2
    <3>4. QED
      BY <2>3, <3>2, <3>3 DEF Left
  <2>6. version' = version /\ tables' = tables /\ columns' = columns
        /\ stockTrigger' = stockTrigger /\ blankRefused' = blankRefused
    BY <1>1 DEF shape
  <2>7. ASSUME NEW c \in Columns, c \notin columns' PROVE ColumnComes(c)'
    <3>1. PICK v \in version + 1..kSchemaVersion :
             c \in Listed(ColumnsOf(v)) \/ (c = Marker /\ v = 11)
      BY <1>2, <2>6, <2>7
    <3>2. Left(<<"version", v>>)'
      BY <2>5
    <3>3. QED
      BY <2>6, <3>1, <3>2 DEF ColumnComes
  <2>8. QED
    BY <1>2, <2>4, <2>6, <2>7 DEF ShapeComes
<1>6. QED
  BY <1>4, <1>5

\* When the version is stamped nothing is lacking.
LEMMA StampShape ==
    ASSUME Types, Program, ShapeComes, Stamp
    PROVE  FileKeeps' /\ ShapeComes'
<1>1. At("stamp") /\ version' = kSchemaVersion /\ UNCHANGED <<shape, found>>
  BY DEF Stamp, Done, Then
<1>2. stockTrigger /\ ~blankRefused /\ Tables \subseteq tables /\ Columns \subseteq columns
  BY <1>1, OnlyVersions
<1>3. stockTrigger' /\ ~blankRefused' /\ Tables \subseteq tables' /\ Columns \subseteq columns'
  BY <1>1, <1>2 DEF shape
<1>4. \A v \in 2..kSchemaVersion : Listed(ColumnsOf(v)) \subseteq Columns
  BY DEF Columns
<1>5. QED
  BY <1>1, <1>3, <1>4, WeightAndMarker DEF FileKeeps, ShapeComes

\* An opening brings whatever the file lacks.
LEMMA OpenShape ==
    ASSUME Types, FileKeeps, Open
    PROVE  ShapeComes'
<1>1. todo' = Opening /\ UNCHANGED <<version, shape>>
  BY DEF Open
<1>2. \A s \in EntryStmts \cup {<<"migrate">>} : Left(s)'
  BY <1>1, OpeningProperties DEF Left, Listed
<1>3. /\ version' = version /\ tables' = tables /\ columns' = columns
      /\ stockTrigger' = stockTrigger /\ blankRefused' = blankRefused
  BY <1>1 DEF shape
<1>4. \A t \in Tables : Left(<<"table", t>>)'
  BY <1>2 DEF EntryStmts
<1>5. Left(<<"trigger">>)' /\ Left(<<"products">>)' /\ Left(<<"migrate">>)'
  BY <1>2 DEF EntryStmts
<1>6. ASSUME NEW c \in Columns, c \notin columns PROVE ColumnComes(c)'
  <2>1. CASE c \in Listed(EveryOpening)
    <3>1. Left(<<"column", c>>)'
      BY <1>2, <2>1 DEF EntryStmts
    <3>2. QED
      BY <3>1 DEF ColumnComes
  <2>2. CASE c = Weight
    BY <1>5, <2>2 DEF ColumnComes
  <2>3. CASE c = Marker
    <3>1. 11 \in version + 1..kSchemaVersion
      BY <1>6, <2>3, VersionRange DEF FileKeeps, kSchemaVersion
    <3>2. QED
      BY <1>3, <1>5, <2>3, <3>1 DEF ColumnComes
  <2>4. CASE \E v \in 2..kSchemaVersion : c \in Listed(ColumnsOf(v))
    <3>1. PICK v \in 2..kSchemaVersion : c \in Listed(ColumnsOf(v))
      BY <2>4
    <3>2. v \in version + 1..kSchemaVersion
      BY <1>6, <3>1, VersionRange DEF FileKeeps, kSchemaVersion
    <3>3. QED
      BY <1>3, <1>5, <3>1, <3>2 DEF ColumnComes
  <2>5. QED
    BY <2>1, <2>2, <2>3, <2>4 DEF Columns
<1>7. QED
  BY <1>3, <1>4, <1>5, <1>6 DEF ShapeComes

\* The swap forgets the columns of version 13, which the file has still to come to.
LEMMA SwapShape ==
    ASSUME Types, Program, FileKeeps, ShapeComes, SwapProducts
    PROVE  FileKeeps' /\ ShapeComes'
<1>1. At("products") /\ version' = version /\ tables' = tables
  BY DEF SwapProducts
<1>2. todo[1] = <<"products">> /\ phase = "opening"
  BY <1>1, AtHand, Kinds
<1>3. CASE ~blankRefused
  <2>1. /\ columns' = columns \cup {Weight} /\ todo' = <<>> \o Tail(todo) /\ found' = found
        /\ stockTrigger' = stockTrigger /\ blankRefused' = blankRefused /\ phase' = phase
    BY <1>3 DEF SwapProducts, Done, Then
  <2>2. ShapeComes'
    <3> DEFINE k == "products"
    <3>1. <<>> \in Seq(Stmts) /\ columns \subseteq columns' /\ Weight \in columns'
      BY <2>1
    <3>2. /\ At(k) /\ k \notin {"migrate", "stamp", "table", "column", "trigger", "marker", "version"}
          /\ version' = version /\ tables \subseteq tables' /\ (blankRefused' => blankRefused)
          /\ (stockTrigger => stockTrigger') /\ ~blankRefused'
          /\ todo' = <<>> \o Tail(todo)
      BY <1>1, <1>3, <2>1
    <3> HIDE DEF k
    <3>3. QED
      BY <3>1, <3>2, ShapeStays
  <2>3. FileKeeps'
    BY <1>1, <1>3, <2>1 DEF FileKeeps
  <2>4. QED
    BY <2>2, <2>3
<1>4. CASE blankRefused
  <2>1. /\ columns' = {c \in columns : c[1] # "products"} \cup {Weight}
        /\ todo' = Replayed \o Tail(todo) /\ ~blankRefused' /\ ~stockTrigger' /\ phase' = phase
    BY <1>4 DEF SwapProducts, Then
  <2>2. version < 13
    BY <1>4 DEF FileKeeps
  <2>3. version \in 0..kSchemaVersion
    BY VersionRange
  <2>4. FileKeeps'
    <3>1. ASSUME NEW v \in 2..version, NEW c \in Listed(ColumnsOf(v)) PROVE c \in columns'
      <4>1. v # 13 /\ v \in Int /\ c \in columns
        BY <2>2, <2>3 DEF FileKeeps
      <4>2. c[1] # "products"
        BY <4>1, AddedColumns
      <4>3. QED
        BY <2>1, <4>1, <4>2
    <3>2. Marker[1] # "products"
      BY DEF Marker
    <3>3. version' = version /\ (version >= 11 => Marker \in columns')
      BY <1>1, <2>1, <3>2 DEF FileKeeps
    <3>4. QED
      BY <2>1, <3>1, <3>3 DEF FileKeeps
  <2>5. /\ \A s : Left(s) /\ s # <<"products">> => Left(s)'
        /\ \A s \in Listed(Replayed) : Left(s)'
    <3>1. Replayed \in Seq(Stmts)
      <4>1. Pushed(Replayed)
        BY <1>1, OnePushed, NothingPushed DEF Replayed
      <4>2. QED
        BY <4>1 DEF Pushed
    <3>2. QED
      BY <1>1, <1>2, <2>1, <3>1, LeftAfter
  <2>6. Left(<<"trigger">>)'
    <3>1. CASE stockTrigger
      <4>1. Listed(Replayed) = {<<"trigger">>}
        BY <1>1, <3>1, OnePushed DEF Replayed
      <4>2. QED
        BY <2>5, <4>1
    <3>2. CASE ~stockTrigger
      <4>1. Left(<<"trigger">>) /\ <<"trigger">> # <<"products">>
        BY <1>2, <3>2 DEF ShapeComes
      <4>2. QED
        BY <2>5, <4>1
    <3>3. QED
      BY <3>1, <3>2
  <2>7. Left(<<"migrate">>)'
    <3>1. Left(<<"products">>)
      BY <1>1, <1>2, AtHand
    <3>2. todo[Len(todo)] = <<"migrate">> /\ Len(todo) \in DOMAIN todo
      BY <1>1, <3>1, AtHand, LenProperties, EmptySeq DEF Program, Ends
    <3>3. Left(<<"migrate">>) /\ <<"migrate">> # <<"products">>
      BY <3>2 DEF Left
    <3>4. QED
      BY <2>5, <3>3
  <2>8. ASSUME NEW t \in Tables, t \notin tables' PROVE Left(<<"table", t>>)'
    <3>1. Left(<<"table", t>>) /\ <<"table", t>> # <<"products">>
      BY <1>1, <1>2, <2>8 DEF ShapeComes
    <3>2. QED
      BY <2>5, <3>1
  <2>9. ASSUME NEW c \in Columns, c \notin columns' PROVE ColumnComes(c)'
    <3>1. CASE c \in columns
      <4>1. c[1] = "products" /\ c # Weight
        BY <2>1, <2>9, <3>1
      <4>2. c \in Listed(ColumnsOf(13))
        BY <4>1, ProductColumns
      <4>3. 13 \in version + 1..kSchemaVersion
        BY <2>2, <2>3 DEF kSchemaVersion
      <4>4. QED
        BY <1>1, <2>7, <4>2, <4>3 DEF ColumnComes
    <3>2. CASE c \notin columns
      <4>1. ColumnComes(c) /\ c # Weight
        BY <1>2, <2>1, <2>9, <3>2 DEF ShapeComes
      <4>2. CASE Left(<<"column", c>>)
        <5>1. <<"column", c>> # <<"products">>
          OBVIOUS
        <5>2. Left(<<"column", c>>)'
          BY <2>5, <4>2, <5>1
        <5>3. QED
          BY <5>2 DEF ColumnComes
      <4>3. CASE c = Marker /\ Left(<<"marker">>)
        <5>1. <<"marker">> # <<"products">>
          OBVIOUS
        <5>2. Left(<<"marker">>)'
          BY <2>5, <4>3, <5>1
        <5>3. QED
          BY <4>3, <5>2 DEF ColumnComes
      <4>4. CASE \E v \in version + 1..kSchemaVersion :
                    c \in Listed(ColumnsOf(v)) \/ (c = Marker /\ v = 11)
        BY <1>1, <2>7, <4>4 DEF ColumnComes
      <4>5. QED
        BY <4>1, <4>2, <4>3, <4>4 DEF ColumnComes
    <3>3. QED
      BY <3>1, <3>2
  <2>10. QED
    BY <2>1, <2>4, <2>6, <2>7, <2>8, <2>9 DEF ShapeComes
<1>5. QED
  BY <1>3, <1>4

\* Every step keeps the shape, or what brings it.
LEMMA NextShape ==
    ASSUME Types, Program, Shape, [Next]_vars
    PROVE  Shape'
<1> USE DEF Shape
<1>1. ASSUME UNCHANGED <<version, found>>, columns \subseteq columns', blankRefused' => blankRefused
      PROVE  FileKeeps'
  BY <1>1 DEF FileKeeps
<1>2. ASSUME UNCHANGED <<version, found, shape>> PROVE FileKeeps'
  BY <1>1, <1>2 DEF shape
<1>3. ASSUME phase' # "running" PROVE SchemaComplete'
  BY <1>3 DEF SchemaComplete
<1>4. ASSUME phase' = "running", phase = "running", UNCHANGED <<version, shape>> PROVE SchemaComplete'
  BY <1>4 DEF SchemaComplete, shape
<1>5. ASSUME phase' # "opening" PROVE ShapeComes'
  BY <1>5 DEF ShapeComes
<1>6. ASSUME NEW k, At(k), UNCHANGED phase PROVE SchemaComplete'
  BY <1>3, <1>6, AtHand
<1>7. ASSUME NEW k, At(k), k \notin {"migrate", "stamp", "table", "column", "trigger", "products",
                                     "marker", "version"},
             NEW more, Pushed(more), Then(more), UNCHANGED <<version, shape>>
      PROVE  Shape'
  <2>1. todo' = more \o Tail(todo) /\ more \in Seq(Stmts) /\ phase' = phase /\ found' = found
    BY <1>7 DEF Then, Pushed
  <2>2. /\ version' = version /\ tables \subseteq tables' /\ columns \subseteq columns'
        /\ (stockTrigger => stockTrigger') /\ (blankRefused' => blankRefused)
    BY <1>7 DEF shape
  <2>3. ShapeComes'
    BY <1>7, <2>1, <2>2, ShapeStays
  <2>4. QED
    BY <1>2, <1>6, <1>7, <2>1, <2>3
<1>8. ASSUME NEW k, At(k), k \notin {"migrate", "stamp", "table", "column", "trigger", "products",
                                     "marker", "version"},
             Done, UNCHANGED <<version, shape>>
      PROVE  Shape'
  BY <1>7, <1>8, NothingPushed DEF Done
<1>9. ASSUME UNCHANGED <<version, found, shape, phase, todo>> PROVE Shape'
  BY <1>9 DEF FileKeeps, ShapeComes, SchemaComplete, ColumnComes, Left, shape
<1>10. CASE Open
  <2>1. phase' = "opening" /\ UNCHANGED <<version, found, shape>>
    BY <1>10 DEF Open
  <2>2. ShapeComes'
    BY <1>10, OpenShape
  <2>3. QED
    BY <1>2, <1>3, <2>1, <2>2
<1>11. CASE CreateTable
  <2> DEFINE k == "table"
  <2>1. /\ At(k) /\ todo' = <<>> \o Tail(todo) /\ UNCHANGED <<version, found, phase>>
        /\ columns \subseteq columns' /\ tables \subseteq tables' /\ Arg \in tables'
        /\ UNCHANGED <<stockTrigger, blankRefused>>
    BY <1>11 DEF CreateTable, Done, Then
  <2>2. <<>> \in Seq(Stmts)
        /\ k \notin {"migrate", "stamp", "column", "trigger", "products", "marker", "version"}
    OBVIOUS
  <2> HIDE DEF k
  <2>3. ShapeComes'
    BY <2>1, <2>2, ShapeStays
  <2>4. QED
    BY <1>1, <1>6, <2>1, <2>3
<1>12. CASE CreateTrigger
  <2> DEFINE k == "trigger"
  <2>1. /\ At(k) /\ todo' = <<>> \o Tail(todo) /\ UNCHANGED <<version, found, phase>>
        /\ UNCHANGED <<tables, columns, blankRefused>> /\ stockTrigger'
    BY <1>12 DEF CreateTrigger, Done, Then
  <2>2. <<>> \in Seq(Stmts)
        /\ k \notin {"migrate", "stamp", "column", "table", "products", "marker", "version"}
    OBVIOUS
  <2> HIDE DEF k
  <2>3. ShapeComes'
    BY <2>1, <2>2, ShapeStays
  <2>4. QED
    BY <1>1, <1>6, <2>1, <2>3
<1>13. CASE AddColumn
  <2> DEFINE k == "column"
  <2>1. /\ At(k) /\ todo' = <<>> \o Tail(todo) /\ UNCHANGED <<version, found, phase>>
        /\ UNCHANGED <<tables, stockTrigger, blankRefused>>
        /\ columns \subseteq columns' /\ Arg \in columns'
    BY <1>13 DEF AddColumn, Done, Then
  <2>2. <<>> \in Seq(Stmts)
        /\ k \notin {"migrate", "stamp", "trigger", "table", "products", "marker", "version"}
    OBVIOUS
  <2> HIDE DEF k
  <2>3. ShapeComes'
    BY <2>1, <2>2, ShapeStays
  <2>4. QED
    BY <1>1, <1>6, <2>1, <2>3
<1>14. CASE SwapProducts
  <2>1. At("products") /\ phase' = phase
    BY <1>14 DEF SwapProducts, Done, Then
  <2>2. QED
    BY <1>6, <1>14, <2>1, SwapShape
<1>15. CASE StartMigrations
  <2>1. At("migrate") /\ UNCHANGED <<version, found, shape, phase>>
    BY <1>15 DEF StartMigrations, Then
  <2>2. QED
    BY <1>2, <1>6, <1>15, <2>1, StartShape
<1>16. CASE ApplyMigration
  <2> DEFINE k == "version"
             more == MigrationOf(Arg)
  <2>1. /\ At(k) /\ todo' = more \o Tail(todo) /\ UNCHANGED <<version, found, phase, shape>>
    BY <1>16 DEF ApplyMigration, Then
  <2>2. Pushed(more) /\ OfVersion(Arg) \subseteq Listed(more)
    BY <2>1, MigrationPushed
  <2>3. more \in Seq(Stmts)
        /\ k \notin {"migrate", "stamp", "trigger", "table", "products", "marker", "column"}
    BY <2>2 DEF Pushed
  <2>4. /\ version' = version /\ tables \subseteq tables' /\ columns \subseteq columns'
        /\ (stockTrigger => stockTrigger') /\ (blankRefused' => blankRefused)
    BY <2>1 DEF shape
  <2> HIDE DEF k, more
  <2>5. ShapeComes'
    BY <2>1, <2>2, <2>3, <2>4, ShapeStays
  <2>6. QED
    BY <1>2, <1>6, <2>1, <2>5
<1>17. CASE AddMarker
  <2> DEFINE k == "marker"
             more == IF Marker \in columns THEN <<>> ELSE << <<"mark">> >>
  <2>1. /\ At(k) /\ todo' = more \o Tail(todo) /\ UNCHANGED <<version, found, phase>>
        /\ UNCHANGED <<tables, stockTrigger, blankRefused>>
        /\ columns \subseteq columns' /\ Marker \in columns'
    BY <1>17 DEF AddMarker, Then
  <2>2. Pushed(more)
    <3>1. Pushed(<< <<"mark">> >>)
      BY <2>1, OnePushed
    <3>2. QED
      BY <3>1, NothingPushed
  <2>3. more \in Seq(Stmts)
        /\ k \notin {"migrate", "stamp", "trigger", "table", "products", "version", "column"}
    BY <2>2 DEF Pushed
  <2> HIDE DEF k, more
  <2>4. ShapeComes'
    BY <2>1, <2>3, ShapeStays
  <2>5. QED
    BY <1>1, <1>6, <2>1, <2>4
<1>18. CASE CreateSessionIndex
  <2> DEFINE k == "sessionIndex"
  <2>1. /\ At(k) /\ todo' = <<>> \o Tail(todo) /\ UNCHANGED <<version, found, phase>>
        /\ UNCHANGED <<tables, columns, stockTrigger, blankRefused>>
    BY <1>18 DEF CreateSessionIndex, Done, Then
  <2>2. <<>> \in Seq(Stmts)
        /\ k \notin {"migrate", "stamp", "trigger", "table", "products", "version",
                                         "column", "marker"}
    OBVIOUS
  <2> HIDE DEF k
  <2>3. ShapeComes'
    BY <2>1, <2>2, ShapeStays
  <2>4. QED
    BY <1>1, <1>6, <2>1, <2>3
<1>19. CASE CreateReversalIndex
  <2> DEFINE k == "reversalIndex"
  <2>1. /\ At(k) /\ todo' = <<>> \o Tail(todo) /\ UNCHANGED <<version, found, phase>>
        /\ UNCHANGED <<tables, columns, stockTrigger, blankRefused>>
    BY <1>19 DEF CreateReversalIndex, Done, Then
  <2>2. <<>> \in Seq(Stmts)
        /\ k \notin {"migrate", "stamp", "trigger", "table", "products", "version",
                                         "column", "marker"}
    OBVIOUS
  <2> HIDE DEF k
  <2>3. ShapeComes'
    BY <2>1, <2>2, ShapeStays
  <2>4. QED
    BY <1>1, <1>6, <2>1, <2>3
<1>20. CASE CopyZakat
  BY <1>8, <1>20 DEF CopyZakat
<1>21. CASE DropZakat
  BY <1>8, <1>21 DEF DropZakat
<1>22. CASE MarkPayments
  BY <1>8, <1>22 DEF MarkPayments
<1>23. CASE BackfillPieces
  BY <1>8, <1>23 DEF BackfillPieces
<1>24. CASE BackfillTrays
  BY <1>8, <1>24 DEF BackfillTrays
<1>25. CASE SeedPrefix
  BY <1>8, <1>25 DEF SeedPrefix
<1>26. CASE StartNumbering
  <2> DEFINE more == IF \E y \in Years : counters[y] > 0 THEN <<>>
                     ELSE PerLedger("assign") \o << <<"seed">> >>
  <2>1. At("number") /\ Then(more) /\ UNCHANGED <<version, shape>>
    BY <1>26 DEF StartNumbering
  <2>2. Pushed(more)
    BY <2>1, NumberingPushed, NothingPushed
  <2> HIDE DEF more
  <2>3. QED
    BY <1>7, <2>1, <2>2
<1>27. CASE AssignNumber
  BY <1>8, <1>9, <1>27 DEF AssignNumber
<1>28. CASE SeedCounter
  BY <1>8, <1>9, <1>28 DEF SeedCounter
<1>29. CASE ClearWeighed
  BY <1>8, <1>29 DEF ClearWeighed
<1>30. CASE Stamp
  <2>1. At("stamp") /\ phase' = phase
    BY <1>30 DEF Stamp, Done, Then
  <2>2. QED
    BY <1>6, <1>30, <2>1, StampShape
<1>31. CASE FinishOpening
  <2>1. phase = "opening" /\ todo = <<>> /\ phase' = "running" /\ UNCHANGED <<version, found, shape>>
    BY <1>31 DEF FinishOpening
  <2>2. \A s : ~Left(s)
    BY <2>1 DEF Left
  <2>3. \A c \in Columns : c \in columns
    BY <2>1, <2>2 DEF ShapeComes, ColumnComes
  <2>4. tables \subseteq Tables /\ columns \subseteq Columns
    BY DEF Types, FileTypes
  <2>5. SchemaComplete'
    BY <2>1, <2>2, <2>3, <2>4 DEF SchemaComplete, ShapeComes, shape
  <2>6. QED
    BY <1>2, <1>5, <2>1, <2>5
<1>32. CASE \E l \in Ledgers, y \in Years : Sell(l, y)
  BY <1>9, <1>32 DEF Sell, program
<1>33. CASE CloseSession
  BY <1>9, <1>33 DEF CloseSession, program
<1>34. CASE OpenSession
  BY <1>9, <1>34 DEF OpenSession, program
<1>35. CASE Quit
  BY <1>2, <1>3, <1>5, <1>35 DEF Quit
<1>36. CASE PowerCut
  BY <1>2, <1>3, <1>5, <1>36 DEF PowerCut
<1>37. CASE UNCHANGED vars
  BY <1>9, <1>37 DEF vars, program
<1>38. QED
  BY <1>10, <1>11, <1>12, <1>13, <1>14, <1>15, <1>16, <1>17, <1>18, <1>19, <1>20, <1>21, <1>22,
     <1>23, <1>24, <1>25, <1>26, <1>27, <1>28, <1>29, <1>30, <1>31, <1>32, <1>33, <1>34, <1>35,
     <1>36, <1>37 DEF Next

----------------------------------------------------------------------------
(* The numbers. *)

\* The papers and their numbers are those before.
SamePapers ==
    \A l \in Ledgers :
        /\ DOMAIN ledger'[l] = DOMAIN ledger[l]
        /\ \A i \in DOMAIN ledger[l] : /\ ledger'[l][i].number = ledger[l][i].number
                                       /\ ledger'[l][i].year = ledger[l][i].year

\* The two parts of the invariant of the numbers are about these papers.
NumbersStand == "numbers" \notin torn => NumbersUnique /\ NumbersKnown

\* The same papers with the same counters have numbers that are right.
LEMMA SameNumbers ==
    ASSUME Types, NumbersStand, SamePapers, UNCHANGED <<counters, perYear, torn>>
    PROVE  NumbersStand'
<1> SUFFICES ASSUME "numbers" \notin torn' PROVE NumbersUnique' /\ NumbersKnown'
  BY DEF NumbersStand
<1>1. NumbersUnique /\ NumbersKnown
  BY DEF NumbersStand
<1>2. NumbersUnique'
  BY <1>1 DEF NumbersUnique, Numbered, SamePapers
<1>3. NumbersKnown'
  BY <1>1 DEF NumbersKnown, SamePapers
<1>4. QED
  BY <1>2, <1>3

\* A ledger that stays has the same papers.
LEMMA SameLedger ==
    ASSUME ledger' = ledger
    PROVE  SamePapers
BY DEF SamePapers

\* The counts and counters stay, and the numbering is as far as it was.
LEMMA CountsStay ==
    ASSUME CountsAhead, UNCHANGED <<counters, perYear>>,
           \A l \in Ledgers : Left(<<"assign", l>>)' => Left(<<"assign", l>>),
           Left(<<"seed">>) => Left(<<"seed">>)' \/ \A y \in Years : ~(perYear[y] > 0)
    PROVE  CountsAhead'
BY DEF CountsAhead

\* A step that pushes nothing of the numbering.
LEMMA NumbersPushed ==
    ASSUME Types, Program, Numbers, NEW k, At(k), k # "seed", NEW more \in Seq(Stmts),
           \A l \in Ledgers : <<"assign", l>> \notin Listed(more),
           todo' = more \o Tail(todo), SamePapers, UNCHANGED <<counters, perYear, torn>>
    PROVE  Numbers'
<1>1. /\ \A s : Left(s) /\ s # todo[1] => Left(s)'
      /\ \A s : Left(s)' => Left(s) \/ s \in Listed(more)
      /\ todo[1][1] = k
  BY LeftAfter, LeftBefore, AtHand
<1>2. <<"seed">> # todo[1]
  <2>1. <<"seed">>[1] = "seed"
    OBVIOUS
  <2>2. QED
    BY <1>1, <2>1
<1>3. CountsAhead'
  <2>1. CountsAhead
    BY DEF Numbers
  <2>2. QED
    BY <1>1, <1>2, <2>1, CountsStay
<1>4. NumbersStand'
  <2>1. NumbersStand
    BY DEF Numbers, NumbersStand
  <2>2. QED
    BY <2>1, SameNumbers
<1>5. QED
  BY <1>3, <1>4 DEF Numbers, NumbersStand

\* Nothing is counted but in a program that has the counters still to seed.
LEMMA NotCounting ==
    ASSUME Types, CountsAhead, \/ todo = <<>>
                               \/ Program /\ \E k \in {"migrate", "stamp"} : At(k)
    PROVE  \A y \in Years : perYear[y] = 0
<1>1. ~Left(<<"seed">>)
  <2>1. CASE todo = <<>>
    BY <2>1 DEF Left
  <2>2. CASE Program /\ \E k \in {"migrate", "stamp"} : At(k)
    <3>1. PICK k \in {"migrate", "stamp"} : \A s : Left(s) => s = <<k>>
      BY <2>2, NothingElse
    <3>2. <<"seed">> # <<k>>
      OBVIOUS
    <3>3. QED
      BY <3>1, <3>2
  <2>3. QED
    BY <2>1, <2>2
<1>2. \A y \in Years : perYear[y] \in Nat
  BY DEF Types, BookTypes
<1>3. QED
  BY <1>1, <1>2 DEF CountsAhead

\* The number a row gets is above every other of its year.
LEMMA AssignNumbers ==
    ASSUME Types, Program, Numbers, AssignNumber, Unnumbered(Arg) # {}
    PROVE  Numbers'
<1>1. PICK l \in Ledgers : l = Arg /\ todo[1] = <<"assign", l>>
  BY NumberRow
<1>2. UNCHANGED <<phase, todo, torn, counters>>
  BY NumberRow DEF AssignNumber, Done, Then
<1>3. PICK i \in Unnumbered(l) :
         /\ ledger[l][i].year \in Years
         /\ perYear' = [perYear EXCEPT ![ledger[l][i].year] = perYear[ledger[l][i].year] + 1]
         /\ \A m \in Ledgers : DOMAIN ledger'[m] = DOMAIN ledger[m]
         /\ \A m \in Ledgers : m # l => ledger'[m] = ledger[m]
         /\ \A j \in DOMAIN ledger[l] : j # i => ledger'[l][j] = ledger[l][j]
         /\ ledger'[l][i] = [ledger[l][i] EXCEPT !.number = perYear[ledger[l][i].year] + 1]
  BY <1>1, NumberRow
<1>4. PICK y \in Years : y = ledger[l][i].year
  BY <1>3
<1>5. /\ i \in DOMAIN ledger[l] /\ ledger[l][i].number = 0
      /\ perYear \in [Years -> Nat] /\ counters \in [Years -> Nat] /\ perYear[y] \in Nat
      /\ ledger[l][i] \in LedgerRows
  BY RowsOf DEF Unnumbered, Types, BookTypes
<1>6. Left(<<"assign", l>>) /\ At("assign")
  BY <1>1, AtHand DEF AssignNumber
<1>7. \A z \in Years : counters[z] = 0
  BY <1>6 DEF Numbers, CountsAhead
<1>8. perYear'[y] = perYear[y] + 1 /\ \A z \in Years : z # y => perYear'[z] = perYear[z]
  BY <1>3, <1>4, <1>5
<1>9. ledger'[l][i].number = perYear[y] + 1 /\ ledger'[l][i].year = y
  BY <1>3, <1>4, <1>5 DEF LedgerRows
<1>10. ASSUME NEW m \in Ledgers, NEW j \in DOMAIN ledger[m], ~(m = l /\ j = i)
       PROVE  ledger'[m][j] = ledger[m][j]
  BY <1>3, <1>10
<1>11. CountsAhead'
  <2>1. Left(<<"seed">>)
    <3>1. 1 \in DOMAIN todo /\ todo[1][1] = "assign"
      BY <1>6, AtHand
    <3>2. QED
      BY <3>1 DEF Program, NumberingOnce, Left
  <2>2. Left(<<"seed">>)'
    BY <1>2, <2>1 DEF Left
  <2>3. QED
    BY <1>2, <1>7, <2>2 DEF CountsAhead
<1>12. ASSUME "numbers" \notin torn' PROVE NumbersUnique' /\ NumbersKnown'
  <2>1. NumbersUnique /\ NumbersKnown
    BY <1>2, <1>12 DEF Numbers
  <2>2. ASSUME NEW m \in Ledgers, NEW j \in DOMAIN ledger[m]
        PROVE  /\ ledger[m][j].number \in Nat /\ ledger[m][j].year \in Years
               /\ ledger[m][j].number <= perYear[ledger[m][j].year]
    <3>1. /\ ledger[m][j].number \in Nat /\ ledger[m][j].year \in Years
          /\ perYear[ledger[m][j].year] \in Nat
      BY RowsOf DEF Types
    <3>2. QED
      BY <1>7, <2>1, <3>1 DEF NumbersKnown
  <2>3. NumbersKnown'
    <3>1. ASSUME NEW m \in Ledgers, NEW j \in DOMAIN ledger[m]
          PROVE  ledger'[m][j].number <= perYear'[ledger'[m][j].year]
      <4>1. CASE m = l /\ j = i
        BY <1>5, <1>8, <1>9, <4>1
      <4>2. CASE ~(m = l /\ j = i)
        <5>1. ledger'[m][j] = ledger[m][j]
          BY <1>10, <4>2
        <5>2. /\ perYear[ledger[m][j].year] \in Nat
              /\ perYear[ledger[m][j].year] <= perYear'[ledger[m][j].year]
          BY <1>5, <1>8, <2>2
        <5>3. perYear'[ledger[m][j].year] \in Int
          BY <1>5, <1>8, <2>2
        <5>4. QED
          BY <2>2, <5>1, <5>2, <5>3
      <4>3. QED
        BY <4>1, <4>2
    <3>2. QED
      BY <1>3, <3>1 DEF NumbersKnown
  <2>4. ASSUME NEW m \in Ledgers, NEW j \in DOMAIN ledger[m], ~(m = l /\ j = i),
               ledger'[m][j].year = y, ledger'[m][j].number = perYear[y] + 1
        PROVE  FALSE
    <3>1. ledger'[m][j] = ledger[m][j]
      BY <1>10, <2>4
    <3>2. QED
      BY <1>5, <2>2, <2>4, <3>1
  <2>5. ASSUME NEW m \in Ledgers, NEW n \in Ledgers,
               NEW a \in DOMAIN ledger[m], NEW b \in DOMAIN ledger[n],
               ledger'[m][a].number > 0, ledger'[n][b].number > 0,
               ledger'[m][a].year = ledger'[n][b].year, ledger'[m][a].number = ledger'[n][b].number
        PROVE  m = n /\ a = b
    <3>1. CASE m = l /\ a = i
      BY <1>9, <2>4, <2>5, <3>1
    <3>2. CASE n = l /\ b = i
      BY <1>9, <2>4, <2>5, <3>2
    <3>3. CASE ~(m = l /\ a = i) /\ ~(n = l /\ b = i)
      <4>1. ledger'[m][a] = ledger[m][a] /\ ledger'[n][b] = ledger[n][b]
        BY <1>10, <3>3
      <4>2. a \in Numbered(m) /\ b \in Numbered(n)
        BY <2>5, <4>1 DEF Numbered
      <4>3. QED
        BY <2>1, <2>5, <4>1, <4>2 DEF NumbersUnique
    <3>4. QED
      BY <3>1, <3>2, <3>3
  <2>6. NumbersUnique'
    BY <1>3, <2>5 DEF NumbersUnique, Numbered
  <2>7. QED
    BY <2>3, <2>6
<1>13. QED
  BY <1>11, <1>12 DEF Numbers

\* A counter that is seeded stands for the count it replaces.
LEMMA SeedNumbers ==
    ASSUME Types, Program, Numbers, SeedCounter
    PROVE  Numbers'
<1>1. At("seed") /\ ledger' = ledger /\ torn' = torn
  BY DEF SeedCounter, Done, Then
<1>2. todo[1] = <<"seed">> /\ 1 \in DOMAIN todo /\ todo \in Seq(Stmts)
  BY <1>1, AtHand, Kinds
<1>3. \A l \in Ledgers : ~Left(<<"assign", l>>)
  <2>1. ASSUME NEW m \in DOMAIN todo, todo[m][1] = "assign" PROVE FALSE
    <3>1. PICK n \in DOMAIN todo : m < n /\ todo[n] = <<"seed">>
      BY <2>1 DEF Program, NumberingOnce
    <3>2. n = 1
      BY <1>2, <3>1 DEF Program, NumberingOnce, Numbering
    <3>3. QED
      BY <1>2, <3>1, <3>2, LenProperties
  <2>2. \A l : <<"assign", l>>[1] = "assign"
    OBVIOUS
  <2>3. QED
    BY <2>1, <2>2 DEF Left
<1>4. perYear \in [Years -> Nat] /\ counters \in [Years -> Nat]
  BY DEF Types, BookTypes
<1>5. CASE \E y \in Years : /\ perYear[y] > 0
                            /\ counters' = [counters EXCEPT ![y] = perYear[y]]
                            /\ perYear' = [perYear EXCEPT ![y] = 0]
                            /\ todo' = todo
  <2>1. PICK y \in Years : /\ perYear[y] > 0 /\ todo' = todo
                           /\ counters' = [counters EXCEPT ![y] = perYear[y]]
                           /\ perYear' = [perYear EXCEPT ![y] = 0]
    BY <1>5
  <2>2. /\ counters'[y] = perYear[y] /\ perYear'[y] = 0
        /\ \A z \in Years : z # y => counters'[z] = counters[z] /\ perYear'[z] = perYear[z]
    BY <1>4, <2>1
  <2>3. CountsAhead'
    <3>1. \A s : Left(s)' <=> Left(s)
      BY <2>1 DEF Left
    <3>2. \A z \in Years : perYear'[z] > 0 => counters'[z] = 0 /\ Left(<<"seed">>)'
      BY <2>2, <3>1 DEF Numbers, CountsAhead
    <3>3. QED
      BY <1>3, <3>1, <3>2 DEF CountsAhead
  <2>4. ASSUME "numbers" \notin torn' PROVE NumbersUnique' /\ NumbersKnown'
    <3>1. NumbersUnique /\ NumbersKnown /\ counters[y] = 0
      BY <1>1, <2>1, <2>4 DEF Numbers, CountsAhead
    <3>2. NumbersUnique'
      BY <1>1, <3>1 DEF NumbersUnique, Numbered
    <3>3. ASSUME NEW l \in Ledgers, NEW i \in DOMAIN ledger[l]
          PROVE  \/ ledger[l][i].number <= perYear'[ledger[l][i].year]
                 \/ ledger[l][i].number <= counters'[ledger[l][i].year]
      <4>1. ledger[l][i].year \in Years /\ ledger[l][i].number \in Nat
        BY RowsOf DEF Types
      <4>2. \/ ledger[l][i].number <= perYear[ledger[l][i].year]
            \/ ledger[l][i].number <= counters[ledger[l][i].year]
        BY <3>1 DEF NumbersKnown
      <4>3. CASE ledger[l][i].year = y
        BY <1>4, <2>1, <2>2, <3>1, <4>1, <4>2, <4>3
      <4>4. CASE ledger[l][i].year # y
        BY <2>2, <4>1, <4>2, <4>4
      <4>5. QED
        BY <4>3, <4>4
    <3>4. NumbersKnown'
      BY <1>1, <3>3 DEF NumbersKnown
    <3>5. QED
      BY <3>2, <3>4
  <2>5. QED
    BY <2>3, <2>4 DEF Numbers
<1>6. CASE (\A y \in Years : perYear[y] = 0) /\ Done /\ UNCHANGED counters
  <2>1. todo' = <<>> \o Tail(todo) /\ <<>> \in Seq(Stmts) /\ perYear' = perYear /\ Listed(<<>>) = {}
    BY <1>6 DEF Done, Then, Listed
  <2>2. \A s : Left(s)' => Left(s)
    BY <1>1, <2>1, LeftBefore
  <2>3. CountsAhead'
    BY <1>6, <2>1, <2>2 DEF Numbers, CountsAhead
  <2>4. NumbersStand'
    <3>1. NumbersStand /\ SamePapers
      BY <1>1, SameLedger DEF Numbers, NumbersStand
    <3>2. QED
      BY <1>1, <1>6, <2>1, <3>1, SameNumbers
  <2>5. QED
    BY <2>3, <2>4 DEF Numbers, NumbersStand
<1>7. QED
  BY <1>5, <1>6 DEF SeedCounter

\* A sale's number is above every other of its year.
LEMMA SellNumbers ==
    ASSUME Types, Program, Numbers, NEW l \in Ledgers, NEW y \in Years, Sell(l, y)
    PROVE  Numbers'
<1>1. /\ phase = "running" /\ UNCHANGED <<phase, todo, perYear, torn>>
      /\ counters' = [counters EXCEPT ![y] = counters[y] + 1]
  BY DEF Sell, program
<1>2. todo = <<>> /\ \A s : ~Left(s)
  BY <1>1 DEF Program, Left
<1>3. \A z \in Years : perYear[z] = 0
  BY <1>2, NotCounting DEF Numbers
<1>4. counters \in [Years -> Nat] /\ Len(ledger[l]) \in Nat /\ DOMAIN ledger[l] = 1..Len(ledger[l])
  BY RowsOf DEF Types, BookTypes
<1>5. counters'[y] = counters[y] + 1 /\ \A z \in Years : z # y => counters'[z] = counters[z]
  BY <1>1, <1>4
<1>6. PICK k : k = Len(ledger[l]) + 1
  OBVIOUS
<1>7. /\ \A m \in Ledgers : m # l => ledger'[m] = ledger[m]
      /\ \A i \in DOMAIN ledger[l] : i \in DOMAIN ledger'[l] /\ ledger'[l][i] = ledger[l][i]
      /\ DOMAIN ledger'[l] = DOMAIN ledger[l] \cup {k}
      /\ ledger'[l][k].year = y /\ ledger'[l][k].number = counters[y] + 1
  BY <1>6, SellRow
<1>8. CountsAhead'
  <2>1. \A s : ~Left(s)'
    BY <1>1, <1>2 DEF Left
  <2>2. QED
    BY <1>1, <1>3, <2>1 DEF CountsAhead
<1>9. ASSUME "numbers" \notin torn' PROVE NumbersUnique' /\ NumbersKnown'
  <2>1. NumbersUnique /\ NumbersKnown
    BY <1>1, <1>9 DEF Numbers
  <2>2. ASSUME NEW m \in Ledgers, NEW j \in DOMAIN ledger[m]
        PROVE  /\ ledger[m][j].number \in Nat /\ ledger[m][j].year \in Years
               /\ ledger[m][j].number <= counters[ledger[m][j].year]
    <3>1. /\ ledger[m][j].number \in Nat /\ ledger[m][j].year \in Years
          /\ counters[ledger[m][j].year] \in Nat
      BY RowsOf DEF Types
    <3>2. QED
      BY <1>3, <2>1, <3>1 DEF NumbersKnown
  <2>3. ASSUME NEW m \in Ledgers, NEW j \in DOMAIN ledger'[m], ~(m = l /\ j = k)
        PROVE  j \in DOMAIN ledger[m] /\ ledger'[m][j] = ledger[m][j]
    <3>1. CASE m = l
      BY <1>7, <2>3, <3>1
    <3>2. CASE m # l
      BY <1>7, <2>3, <3>2
    <3>3. QED
      BY <3>1, <3>2
  <2>4. NumbersKnown'
    <3>1. ASSUME NEW m \in Ledgers, NEW j \in DOMAIN ledger'[m]
          PROVE  ledger'[m][j].number <= counters'[ledger'[m][j].year]
      <4>1. CASE m = l /\ j = k
        BY <1>4, <1>5, <1>7, <4>1
      <4>2. CASE ~(m = l /\ j = k)
        <5>1. j \in DOMAIN ledger[m] /\ ledger'[m][j] = ledger[m][j]
          BY <2>3, <4>2
        <5>2. /\ ledger[m][j].number \in Nat /\ ledger[m][j].year \in Years
              /\ ledger[m][j].number <= counters[ledger[m][j].year]
          BY <2>2, <5>1
        <5>3. /\ counters[ledger[m][j].year] \in Nat
              /\ counters[ledger[m][j].year] <= counters'[ledger[m][j].year]
              /\ counters'[ledger[m][j].year] \in Nat
          BY <1>4, <1>5, <5>2
        <5>4. QED
          BY <5>1, <5>2, <5>3
      <4>3. QED
        BY <4>1, <4>2
    <3>2. QED
      BY <3>1 DEF NumbersKnown
  <2>5. ASSUME NEW m \in Ledgers, NEW j \in DOMAIN ledger'[m], ~(m = l /\ j = k),
               ledger'[m][j].year = y, ledger'[m][j].number = counters[y] + 1
        PROVE  FALSE
    <3>1. j \in DOMAIN ledger[m] /\ ledger'[m][j] = ledger[m][j]
      BY <2>3, <2>5
    <3>2. counters[y] + 1 <= counters[y]
      BY <2>2, <2>5, <3>1
    <3>3. counters[y] \in Nat
      BY <1>4
    <3>4. QED
      BY <3>2, <3>3
  <2>6. ASSUME NEW m \in Ledgers, NEW n \in Ledgers,
               NEW a \in DOMAIN ledger'[m], NEW b \in DOMAIN ledger'[n],
               ledger'[m][a].number > 0, ledger'[n][b].number > 0,
               ledger'[m][a].year = ledger'[n][b].year, ledger'[m][a].number = ledger'[n][b].number
        PROVE  m = n /\ a = b
    <3>1. CASE m = l /\ a = k
      BY <1>7, <2>5, <2>6, <3>1
    <3>2. CASE n = l /\ b = k
      BY <1>7, <2>5, <2>6, <3>2
    <3>3. CASE ~(m = l /\ a = k) /\ ~(n = l /\ b = k)
      <4>1. /\ a \in DOMAIN ledger[m] /\ ledger'[m][a] = ledger[m][a]
            /\ b \in DOMAIN ledger[n] /\ ledger'[n][b] = ledger[n][b]
        BY <2>3, <3>3
      <4>2. a \in Numbered(m) /\ b \in Numbered(n)
        BY <2>6, <4>1 DEF Numbered
      <4>3. QED
        BY <2>1, <2>6, <4>1, <4>2 DEF NumbersUnique
    <3>4. QED
      BY <3>1, <3>2, <3>3
  <2>7. NumbersUnique'
    BY <2>6 DEF NumbersUnique, Numbered
  <2>8. QED
    BY <2>4, <2>7
<1>10. QED
  BY <1>8, <1>9 DEF Numbers

\* The numbers of a file that may be found are one paper's each.
LEMMA InitNumbers ==
    ASSUME Init
    PROVE  Numbers
<1>1. NumbersIssued(found) /\ ledger = found.ledger /\ counters = found.counters
  BY DatabasesAssumption DEF Init
<1>2. NumbersUnique /\ NumbersKnown
  BY <1>1 DEF NumbersIssued, NumbersUnique, Numbered, NumbersKnown
<1>3. CountsAhead
  BY DEF Init, CountsAhead, Left
<1>4. QED
  BY <1>2, <1>3 DEF Numbers

\* A backfill of pieces leaves the numbers alone.
LEMMA BackfilledPapers ==
    ASSUME Types, Program, BackfillPieces
    PROVE  SamePapers
<1>1. /\ Arg \in Ledgers /\ \A l \in Ledgers : DOMAIN ledger'[l] = DOMAIN ledger[l]
      /\ \A l \in Ledgers : l # Arg => ledger'[l] = ledger[l]
      /\ \A i \in DOMAIN ledger[Arg] : ledger'[Arg][i]
            = [ledger[Arg][i] EXCEPT !.pieces = BackfilledPieces(ledger[Arg][i])]
  BY BackfillRows
<1>2. \A i \in DOMAIN ledger[Arg] : /\ ledger'[Arg][i].number = ledger[Arg][i].number
                                    /\ ledger'[Arg][i].year = ledger[Arg][i].year
  <2>1. \A i \in DOMAIN ledger[Arg] : ledger[Arg][i] \in LedgerRows
    BY <1>1, RowsOf DEF Types
  <2>2. QED
    BY <1>1, <2>1 DEF LedgerRows
<1>3. QED
  BY <1>1, <1>2 DEF SamePapers

\* Every step keeps the numbers right.
LEMMA NextNumbers ==
    ASSUME Types, Program, Numbers, [Next]_vars
    PROVE  Numbers'
<1> DEFINE Quiet(more) == \A l \in Ledgers : <<"assign", l>> \notin Listed(more)
<1>1. ASSUME NEW k, At(k), k # "seed", NEW more, Pushed(more), Then(more), Quiet(more),
             SamePapers, UNCHANGED <<counters, perYear>>
      PROVE  Numbers'
  <2>1. todo' = more \o Tail(todo) /\ more \in Seq(Stmts) /\ torn' = torn
    BY <1>1 DEF Then, Pushed
  <2>2. \A l \in Ledgers : <<"assign", l>> \notin Listed(more)
    BY <1>1
  <2>3. QED
    BY <1>1, <2>1, <2>2, NumbersPushed
<1>2. ASSUME NEW k, At(k), k # "seed", Done, SamePapers, UNCHANGED counters
      PROVE  Numbers'
  <2>1. Quiet(<<>>)
    BY DEF Listed
  <2>2. QED
    BY <1>1, <1>2, <2>1, NothingPushed DEF Done
<1>3. ASSUME NEW k, At(k), k # "seed", Done, UNCHANGED <<ledger, counters>>
      PROVE  Numbers'
  BY <1>2, <1>3, SameLedger
<1>4. ASSUME UNCHANGED <<ledger, counters, perYear, todo, torn>>
      PROVE  Numbers'
  <2>1. CountsAhead'
    BY <1>4 DEF Numbers, CountsAhead, Left
  <2>2. NumbersStand'
    BY <1>4, SameLedger, SameNumbers DEF Numbers, NumbersStand
  <2>3. QED
    BY <2>1, <2>2 DEF Numbers, NumbersStand
<1>6. CASE Open
  <2>1. /\ UNCHANGED <<ledger, counters, torn>> /\ todo' = Opening /\ todo = <<>>
        /\ perYear' = [y \in Years |-> 0]
    BY <1>6 DEF Open, books, Program
  <2>2. \A y \in Years : perYear[y] = 0
    BY <2>1, NotCounting DEF Numbers
  <2>3. perYear' = perYear
    BY <2>1, <2>2 DEF Types, BookTypes
  <2>4. \A l \in Ledgers : ~Left(<<"assign", l>>)'
    <3>1. \A s : Left(s)' => s \in EntryStmts \cup {<<"migrate">>}
      BY <2>1, OpeningProperties DEF Left, Listed
    <3>2. \A l : <<"assign", l>> \notin EntryStmts \cup {<<"migrate">>}
      BY DEF EntryStmts
    <3>3. QED
      BY <3>1, <3>2
  <2>5. CountsAhead'
    BY <2>2, <2>3, <2>4 DEF CountsAhead
  <2>6. NumbersStand'
    BY <2>1, <2>3, SameLedger, SameNumbers DEF Numbers, NumbersStand
  <2>7. QED
    BY <2>5, <2>6 DEF Numbers, NumbersStand
<1>7. CASE CreateTable
  BY <1>3, <1>7 DEF CreateTable, books
<1>8. CASE CreateTrigger
  BY <1>3, <1>8 DEF CreateTrigger, books
<1>9. CASE CreateSessionIndex
  BY <1>3, <1>9 DEF CreateSessionIndex, books
<1>10. CASE CopyZakat
  BY <1>3, <1>10 DEF CopyZakat, books
<1>11. CASE DropZakat
  BY <1>3, <1>11 DEF DropZakat, books
<1>12. CASE AddColumn
  BY <1>3, <1>12 DEF AddColumn, books
<1>13. CASE SwapProducts
  <2>1. At("products") /\ UNCHANGED <<ledger, counters, perYear>>
    BY <1>13 DEF SwapProducts, Done
  <2>2. CASE ~blankRefused
    BY <1>3, <1>13, <2>1, <2>2 DEF SwapProducts
  <2>3. CASE blankRefused
    <3>1. Then(Replayed)
      BY <1>13, <2>3 DEF SwapProducts
    <3>2. Pushed(Replayed)
      BY <2>1, OnePushed, NothingPushed DEF Replayed
    <3>3. Listed(Replayed) \subseteq {<<"trigger">>}
      <4>1. Listed(<< <<"trigger">> >>) = {<<"trigger">>} /\ Listed(<<>>) = {}
        BY <2>1, OnePushed DEF Listed
      <4>2. QED
        BY <4>1 DEF Replayed
    <3>4. Quiet(Replayed)
      BY <3>3
    <3>5. QED
      BY <1>1, <2>1, <3>1, <3>2, <3>4, SameLedger
  <2>4. QED
    BY <2>2, <2>3
<1>14. CASE StartMigrations
  <2> DEFINE more == IF version >= kSchemaVersion THEN <<>> ELSE WorkAfter(version)
  <2>1. At("migrate") /\ todo' = more \o Tail(todo) /\ UNCHANGED <<ledger, counters, perYear, torn>>
    BY <1>14 DEF StartMigrations, Then, books
  <2>2. more \in Seq(Stmts) /\ \A s \in Listed(more) : s[1] \in {"version", "stamp"}
    <3>1. CASE version >= kSchemaVersion
      BY <3>1 DEF Listed
    <3>2. CASE ~(version >= kSchemaVersion)
      <4>1. version \in 0..kSchemaVersion - 1
        BY <3>2, VersionRange DEF kSchemaVersion
      <4> DEFINE u == WorkAfter(version)
      <4>2. /\ u \in Seq(Stmts) /\ DOMAIN u = 1..kSchemaVersion - version + 1
            /\ \A n \in 1..kSchemaVersion - version : u[n] = <<"version", version + n>>
            /\ u[kSchemaVersion - version + 1] = <<"stamp">>
        BY <4>1, WorkProperties
      <4>3. <<"stamp">>[1] = "stamp" /\ \A v : <<"version", v>>[1] = "version"
        OBVIOUS
      <4> HIDE DEF u
      <4>4. \A n \in DOMAIN u : n \in 1..kSchemaVersion - version \/ n = kSchemaVersion - version + 1
        BY <4>1, <4>2 DEF kSchemaVersion
      <4>5. \A n \in DOMAIN u : u[n][1] \in {"version", "stamp"}
        BY <4>2, <4>3, <4>4
      <4>6. more = u
        BY <3>2 DEF u
      <4>7. QED
        BY <4>2, <4>5, <4>6 DEF Listed
    <3>3. QED
      BY <3>1, <3>2
  <2> HIDE DEF more
  <2>3. \A l \in Ledgers : <<"assign", l>> \notin Listed(more)
    <3>1. \A l : <<"assign", l>>[1] = "assign"
      OBVIOUS
    <3>2. QED
      BY <2>2, <3>1
  <2>4. QED
    BY <2>1, <2>2, <2>3, SameLedger, NumbersPushed
<1>15. CASE ApplyMigration
  <2> DEFINE more == MigrationOf(Arg)
  <2>1. At("version") /\ Then(more) /\ UNCHANGED <<ledger, counters, perYear>>
    BY <1>15 DEF ApplyMigration, books
  <2>2. Pushed(more) /\ Listed(more) = OfVersion(Arg)
    BY <2>1, MigrationPushed
  <2> HIDE DEF more
  <2>3. Quiet(more)
    BY <2>2 DEF OfVersion
  <2>4. QED
    BY <1>1, <2>1, <2>2, <2>3, SameLedger
<1>16. CASE CreateReversalIndex
  BY <1>3, <1>16 DEF CreateReversalIndex, books
<1>17. CASE AddMarker
  <2> DEFINE more == IF Marker \in columns THEN <<>> ELSE << <<"mark">> >>
  <2>1. At("marker") /\ Then(more) /\ UNCHANGED <<ledger, counters, perYear>>
    BY <1>17 DEF AddMarker, books
  <2>2. Pushed(more) /\ Listed(more) \subseteq {<<"mark">>}
    <3>1. Pushed(<< <<"mark">> >>) /\ Listed(<< <<"mark">> >>) = {<<"mark">>} /\ Listed(<<>>) = {}
      BY <2>1, OnePushed DEF Listed
    <3>2. QED
      BY <3>1, NothingPushed
  <2> HIDE DEF more
  <2>3. Quiet(more)
    BY <2>2
  <2>4. QED
    BY <1>1, <2>1, <2>2, <2>3, SameLedger
<1>18. CASE MarkPayments
  BY <1>3, <1>18 DEF MarkPayments
<1>19. CASE BackfillPieces
  <2>1. SamePapers
    BY <1>19, BackfilledPapers
  <2>2. At("pieces") /\ Done /\ UNCHANGED counters
    BY <1>19 DEF BackfillPieces
  <2>3. QED
    BY <1>2, <2>1, <2>2
<1>20. CASE BackfillTrays
  BY <1>3, <1>20 DEF BackfillTrays
<1>21. CASE SeedPrefix
  BY <1>3, <1>21 DEF SeedPrefix, books
<1>22. CASE StartNumbering
  <2>1. At("number") /\ UNCHANGED <<ledger, counters, perYear, torn>>
    BY <1>22 DEF StartNumbering, Then, books
  <2>2. todo[1] = <<"number">>
    BY <2>1, NumberingPushed
  <2>3. CASE \E y \in Years : counters[y] > 0
    <3>1. Then(<<>>)
      BY <1>22, <2>3 DEF StartNumbering
    <3>2. Quiet(<<>>)
      BY DEF Listed
    <3>3. QED
      BY <1>1, <2>1, <3>1, <3>2, NothingPushed, SameLedger
  <2>4. CASE ~ \E y \in Years : counters[y] > 0
    <3> DEFINE more == PerLedger("assign") \o << <<"seed">> >>
    <3>1. todo' = more \o Tail(todo)
      BY <1>22, <2>4 DEF StartNumbering, Then
    <3>2. more \in Seq(Stmts)
      BY <2>1, NumberingPushed DEF Pushed
    <3> HIDE DEF more
    <3>3. \A y \in Years : counters[y] = 0
      BY <2>4 DEF Types, BookTypes
    <3>4. Left(<<"seed">>) => Left(<<"seed">>)'
      <4>1. <<"seed">> # todo[1]
        BY <2>2
      <4>2. QED
        BY <2>1, <3>1, <3>2, <4>1, LeftAfter
    <3>5. CountsAhead'
      BY <2>1, <3>3, <3>4 DEF Numbers, CountsAhead
    <3>6. NumbersStand'
      BY <2>1, SameLedger, SameNumbers DEF Numbers, NumbersStand
    <3>7. QED
      BY <3>5, <3>6 DEF Numbers, NumbersStand
  <2>5. QED
    BY <2>3, <2>4
<1>23. CASE AssignNumber
  <2>1. CASE Unnumbered(Arg) # {}
    BY <1>23, <2>1, AssignNumbers
  <2>2. CASE Unnumbered(Arg) = {}
    BY <1>3, <1>23, <2>2 DEF AssignNumber
  <2>3. QED
    BY <2>1, <2>2
<1>24. CASE SeedCounter
  BY <1>24, SeedNumbers
<1>25. CASE ClearWeighed
  BY <1>3, <1>25 DEF ClearWeighed
<1>26. CASE Stamp
  BY <1>3, <1>26 DEF Stamp, books
<1>27. CASE FinishOpening
  BY <1>4, <1>27 DEF FinishOpening, books
<1>28. CASE \E l \in Ledgers, y \in Years : Sell(l, y)
  BY <1>28, SellNumbers
<1>29. CASE CloseSession
  BY <1>4, <1>29 DEF CloseSession, books, program
<1>30. CASE OpenSession
  BY <1>4, <1>30 DEF OpenSession, books, program
<1>31. CASE Quit
  BY <1>4, <1>31 DEF Quit, books
<1>32. CASE PowerCut
  <2>1. /\ UNCHANGED <<ledger, counters>> /\ todo' = <<>> /\ perYear' = [y \in Years |-> 0]
        /\ torn \subseteq torn'
        /\ "numbers" \notin torn' => \A y \in Years : ~(perYear[y] > 0)
    BY <1>32 DEF PowerCut, books
  <2>2. CountsAhead'
    BY <2>1 DEF CountsAhead, Left
  <2>3. ASSUME "numbers" \notin torn' PROVE NumbersUnique' /\ NumbersKnown'
    <3>1. perYear' = perYear
      BY <2>1, <2>3 DEF Types, BookTypes
    <3>2. NumbersUnique /\ NumbersKnown
      BY <2>1, <2>3 DEF Numbers
    <3>3. QED
      BY <2>1, <3>1, <3>2 DEF NumbersUnique, Numbered, NumbersKnown
  <2>4. QED
    BY <2>2, <2>3 DEF Numbers
<1>33. CASE UNCHANGED vars
  BY <1>4, <1>33 DEF vars, books, program
<1>34. QED
  BY <1>6, <1>7, <1>8, <1>9, <1>10, <1>11, <1>12, <1>13, <1>14, <1>15, <1>16, <1>17, <1>18, <1>19,
     <1>20, <1>21, <1>22, <1>23, <1>24, <1>25, <1>26, <1>27, <1>28, <1>29, <1>30, <1>31, <1>32,
     <1>33 DEF Next

\* What the first opening found is remembered.
LEMMA FoundStays ==
    ASSUME [Next]_vars
    PROVE  found' = found
<1> USE DEF Done, Then
<1>1. CASE Open \/ CreateTable \/ CreateTrigger \/ CreateSessionIndex \/ CopyZakat \/ DropZakat
  BY <1>1 DEF Open, CreateTable, CreateTrigger, CreateSessionIndex, CopyZakat, DropZakat
<1>2. CASE AddColumn \/ SwapProducts \/ StartMigrations \/ ApplyMigration \/ CreateReversalIndex
  BY <1>2 DEF AddColumn, SwapProducts, StartMigrations, ApplyMigration, CreateReversalIndex
<1>3. CASE AddMarker \/ MarkPayments \/ BackfillPieces \/ BackfillTrays \/ SeedPrefix \/ StartNumbering
  BY <1>3 DEF AddMarker, MarkPayments, BackfillPieces, BackfillTrays, SeedPrefix, StartNumbering
<1>4. CASE AssignNumber \/ SeedCounter \/ ClearWeighed \/ Stamp \/ FinishOpening
  BY <1>4 DEF AssignNumber, SeedCounter, ClearWeighed, Stamp, FinishOpening
<1>5. CASE (\E l \in Ledgers, y \in Years : Sell(l, y)) \/ CloseSession \/ OpenSession
  BY <1>5 DEF Sell, CloseSession, OpenSession
<1>6. CASE Quit \/ PowerCut \/ UNCHANGED vars
  BY <1>6 DEF Quit, PowerCut, vars
<1>7. QED
  BY <1>1, <1>2, <1>3, <1>4, <1>5, <1>6 DEF Next

----------------------------------------------------------------------------
(* The counts. *)

\* The rows without a number are some of the rows.
LEMMA UnnumberedRows ==
    ASSUME BookTypes, NEW l \in Ledgers
    PROVE  /\ IsFiniteSet(Unnumbered(l)) /\ Cardinality(Unnumbered(l)) \in Nat
           /\ Cardinality(Unnumbered(l)) <= Len(ledger[l])
<1>1. Len(ledger[l]) \in Nat /\ DOMAIN ledger[l] = 1..Len(ledger[l])
  BY RowsOf
<1>2. IsFiniteSet(1..Len(ledger[l])) /\ Cardinality(1..Len(ledger[l])) = Len(ledger[l])
  BY <1>1, FS_Interval
<1>3. Unnumbered(l) \in SUBSET (1..Len(ledger[l]))
  BY <1>1 DEF Unnumbered
<1>4. QED
  BY <1>2, <1>3, FS_Subset, FS_CardinalityType

\* The sums are numbers.
LEMMA Sums ==
    ASSUME BookTypes
    PROVE  /\ Total \in Nat /\ NotYet \in Nat /\ NotYet <= Total
           /\ \A l \in Ledgers : Cardinality(Unnumbered(l)) <= NotYet
<1>1. "sales" \in Ledgers /\ "customer_transactions" \in Ledgers
      /\ \A l \in Ledgers : l \in {"sales", "customer_transactions"}
  BY DEF Ledgers
<1>2. \A l \in Ledgers : /\ Len(ledger[l]) \in Nat /\ Cardinality(Unnumbered(l)) \in Nat
                         /\ Cardinality(Unnumbered(l)) <= Len(ledger[l])
  BY RowsOf, UnnumberedRows
<1> DEFINE a == Len(ledger["sales"])
           b == Len(ledger["customer_transactions"])
           c == Cardinality(Unnumbered("sales"))
           d == Cardinality(Unnumbered("customer_transactions"))
<1>3. a \in Nat /\ b \in Nat /\ c \in Nat /\ d \in Nat /\ c <= a /\ d <= b
  BY <1>1, <1>2
<1>4. Total = a + b /\ NotYet = c + d
  BY DEF Total, NotYet
<1>5. \A l \in Ledgers : Cardinality(Unnumbered(l)) = c \/ Cardinality(Unnumbered(l)) = d
  BY <1>1
<1> HIDE DEF a, b, c, d
<1>6. Total \in Nat /\ NotYet \in Nat /\ NotYet <= Total /\ c <= NotYet /\ d <= NotYet
  BY <1>3, <1>4
<1>7. QED
  BY <1>5, <1>6

\* The files that may be found, as far as their counters go.
LEMMA FoundCounters == Types => found.counters \in [Years -> Nat]
BY DatabasesAssumption DEF Types, FileTypes, Readable

\* The counts fit in every file that may be found.
LEMMA InitCountsFit ==
    ASSUME Init
    PROVE  CountsFit
<1>1. /\ found \in OldDatabases /\ Readable(found) /\ NumbersIssued(found)
      /\ ledger = found.ledger /\ counters = found.counters /\ perYear = [y \in Years |-> 0]
  BY DatabasesAssumption DEF Init
<1>2. BookTypes /\ found.counters \in [Years -> Nat]
  BY <1>1, InitTypes DEF Types, Readable
<1>3. Total \in Nat /\ NotYet \in Nat /\ NotYet <= Total
  BY <1>2, Sums
<1>4. \A l \in Ledgers : Len(ledger[l]) <= MaxRows
  BY <1>1 DEF Readable
<1>5. \A y \in Years : perYear[y] + NotYet <= Total /\ counters[y] <= found.counters[y] + Total
  BY <1>1, <1>2, <1>3
<1>6. ASSUME NEW l \in Ledgers, NEW i \in DOMAIN ledger[l]
      PROVE  ledger[l][i].number <= found.counters[ledger[l][i].year] + Total
  <2>1. /\ ledger[l][i].year \in Years /\ ledger[l][i].number \in Nat
        /\ ledger[l][i].number <= found.counters[ledger[l][i].year]
    BY <1>1, <1>2, RowsOf DEF NumbersIssued
  <2>2. found.counters[ledger[l][i].year] \in Nat
    BY <1>2, <2>1
  <2>3. QED
    BY <1>3, <2>1, <2>2
<1>7. QED
  BY <1>4, <1>5, <1>6 DEF CountsFit

\* The same papers are counted the same.
LEMMA SameCounts ==
    ASSUME Types, CountsFit, BookTypes', found' = found, SamePapers, counters' = counters,
           perYear' = perYear \/ perYear' = [y \in Years |-> 0]
    PROVE  CountsFit'
<1>1. \A l \in Ledgers : Unnumbered(l)' = Unnumbered(l)
  BY DEF SamePapers, Unnumbered
<1>2. ASSUME NEW l \in Ledgers PROVE Len(ledger'[l]) = Len(ledger[l])
  <2>1. /\ ledger[l] \in Seq(LedgerRows) /\ ledger'[l] \in Seq(LedgerRows)
        /\ DOMAIN ledger'[l] = DOMAIN ledger[l]
    BY DEF Types, BookTypes, SamePapers
  <2>2. QED
    BY <2>1, LenProperties
<1>3. "sales" \in Ledgers /\ "customer_transactions" \in Ledgers
  BY DEF Ledgers
<1>4. Total' = Total /\ NotYet' = NotYet
  BY <1>1, <1>2, <1>3 DEF Total, NotYet
<1>5. Total \in Nat /\ NotYet \in Nat /\ NotYet <= Total
  BY Sums DEF Types
<1>6. \A y \in Years : perYear'[y] + NotYet' <= Total' /\ counters'[y] <= found'.counters[y] + Total'
  <2>1. ASSUME NEW y \in Years PROVE perYear'[y] + NotYet <= Total
    BY <1>5 DEF CountsFit
  <2>2. QED
    BY <1>4, <2>1 DEF CountsFit
<1>7. \A l \in Ledgers : \A i \in DOMAIN ledger'[l] :
         ledger'[l][i].number <= found'.counters[ledger'[l][i].year] + Total'
  BY <1>4 DEF CountsFit, SamePapers
<1>8. QED
  BY <1>2, <1>6, <1>7 DEF CountsFit

\* One row more is numbered, and one less has no number.
LEMMA AssignCounts ==
    ASSUME Types, Program, CountsFit, AssignNumber, Unnumbered(Arg) # {}, BookTypes', found' = found
    PROVE  CountsFit'
<1>1. PICK l \in Ledgers : l = Arg
  BY NumberRow
<1>2. PICK i \in Unnumbered(l) :
         /\ ledger[l][i].year \in Years
         /\ perYear' = [perYear EXCEPT ![ledger[l][i].year] = perYear[ledger[l][i].year] + 1]
         /\ \A m \in Ledgers : Len(ledger'[m]) = Len(ledger[m]) /\ DOMAIN ledger'[m] = DOMAIN ledger[m]
         /\ \A m \in Ledgers : m # l => ledger'[m] = ledger[m]
         /\ \A j \in DOMAIN ledger[l] : j # i => ledger'[l][j] = ledger[l][j]
         /\ ledger'[l][i] = [ledger[l][i] EXCEPT !.number = perYear[ledger[l][i].year] + 1]
  BY <1>1, NumberRow
<1>3. PICK y \in Years : y = ledger[l][i].year
  BY <1>2
<1>4. /\ i \in DOMAIN ledger[l] /\ ledger[l][i] \in LedgerRows
      /\ perYear \in [Years -> Nat] /\ perYear[y] \in Nat /\ counters' = counters
      /\ counters \in [Years -> Nat]
  BY RowsOf DEF Unnumbered, Types, BookTypes, AssignNumber
<1>5. perYear'[y] = perYear[y] + 1 /\ \A z \in Years : z # y => perYear'[z] = perYear[z]
  BY <1>2, <1>3, <1>4
<1>6. ledger'[l][i].number = perYear[y] + 1 /\ ledger'[l][i].year = y
  BY <1>2, <1>3, <1>4 DEF LedgerRows
<1>7. Unnumbered(l)' = Unnumbered(l) \ {i}
  <2>1. ledger'[l][i].number # 0
    BY <1>4, <1>6
  <2>2. QED
    BY <1>2, <1>4, <2>1 DEF Unnumbered
<1>8. \A m \in Ledgers : m # l => Unnumbered(m)' = Unnumbered(m)
  BY <1>2 DEF Unnumbered
<1>9. /\ IsFiniteSet(Unnumbered(l)) /\ Cardinality(Unnumbered(l)) \in Nat \ {0}
      /\ Cardinality(Unnumbered(l)') = Cardinality(Unnumbered(l)) - 1
      /\ \A m \in Ledgers : Cardinality(Unnumbered(m)) \in Nat
  BY <1>7, UnnumberedRows, FS_RemoveElement, FS_EmptySet DEF Types
<1>10. Total' = Total /\ NotYet' = NotYet - 1
  <2>1. "sales" \in Ledgers /\ "customer_transactions" \in Ledgers /\ "sales" # "customer_transactions"
        /\ (l = "sales" \/ l = "customer_transactions")
    BY DEF Ledgers
  <2>2. Total' = Total
    BY <1>2, <2>1 DEF Total
  <2>3. CASE l = "sales"
    <3>1. Cardinality(Unnumbered("customer_transactions")') = Cardinality(Unnumbered("customer_transactions"))
      BY <1>8, <2>1, <2>3
    <3>2. QED
      BY <1>9, <2>1, <2>2, <2>3, <3>1 DEF NotYet
  <2>4. CASE l = "customer_transactions"
    <3>1. Cardinality(Unnumbered("sales")') = Cardinality(Unnumbered("sales"))
      BY <1>8, <2>1, <2>4
    <3>2. QED
      BY <1>9, <2>1, <2>2, <2>4, <3>1 DEF NotYet
  <2>5. QED
    BY <2>1, <2>3, <2>4
<1>11. Total \in Nat /\ NotYet \in Nat \ {0} /\ found.counters \in [Years -> Nat]
  <2>1. Total \in Nat /\ NotYet \in Nat /\ Cardinality(Unnumbered(l)) <= NotYet
    BY Sums DEF Types
  <2>2. QED
    BY <1>9, <2>1, FoundCounters
<1>12. \A z \in Years : perYear'[z] + NotYet' <= Total' /\ counters'[z] <= found'.counters[z] + Total'
  <2>1. ASSUME NEW z \in Years PROVE perYear'[z] + NotYet' <= Total
    <3>1. perYear[z] \in Nat /\ perYear[z] + NotYet <= Total
      BY <1>4 DEF CountsFit
    <3>2. perYear'[z] = perYear[z] + 1 \/ perYear'[z] = perYear[z]
      BY <1>5
    <3>3. QED
      BY <1>10, <1>11, <3>1, <3>2
  <2>2. QED
    BY <1>4, <1>10, <2>1 DEF CountsFit
<1>13. ASSUME NEW m \in Ledgers, NEW j \in DOMAIN ledger'[m]
       PROVE  ledger'[m][j].number <= found'.counters[ledger'[m][j].year] + Total'
  <2>1. CASE m = l /\ j = i
    <3>1. perYear[y] + NotYet <= Total /\ found.counters[y] \in Nat
      BY <1>11 DEF CountsFit
    <3>2. perYear[y] + 1 <= found.counters[y] + Total
      BY <1>4, <1>10, <1>11, <3>1
    <3>3. QED
      BY <1>6, <1>10, <2>1, <3>2
  <2>2. CASE ~(m = l /\ j = i)
    <3>1. ledger'[m][j] = ledger[m][j] /\ j \in DOMAIN ledger[m]
      BY <1>2, <2>2
    <3>2. QED
      BY <1>10, <3>1 DEF CountsFit
  <2>3. QED
    BY <2>1, <2>2
<1>14. \A m \in Ledgers : Len(ledger'[m]) <= MaxRows
  BY <1>2 DEF CountsFit
<1>15. QED
  BY <1>12, <1>13, <1>14 DEF CountsFit

\* A sale is one row and one number more.
LEMMA SellCounts ==
    ASSUME Types, CountsFit, NEW l \in Ledgers, NEW y \in Years, Sell(l, y), BookTypes', found' = found
    PROVE  CountsFit'
<1>1. /\ perYear' = perYear /\ counters' = [counters EXCEPT ![y] = counters[y] + 1]
      /\ Len(ledger[l]) < MaxRows
  BY DEF Sell, program
<1>2. counters \in [Years -> Nat] /\ Len(ledger[l]) \in Nat /\ DOMAIN ledger[l] = 1..Len(ledger[l])
      /\ perYear \in [Years -> Nat] /\ MaxRows \in Nat
  BY RowsOf, BoundsAssumption DEF Types, BookTypes
<1>3. counters'[y] = counters[y] + 1 /\ \A z \in Years : z # y => counters'[z] = counters[z]
  BY <1>1, <1>2
<1>4. PICK k : k = Len(ledger[l]) + 1
  OBVIOUS
<1>5. /\ \A m \in Ledgers : m # l => ledger'[m] = ledger[m]
      /\ \A i \in DOMAIN ledger[l] : i \in DOMAIN ledger'[l] /\ ledger'[l][i] = ledger[l][i]
      /\ DOMAIN ledger'[l] = DOMAIN ledger[l] \cup {k} /\ Len(ledger'[l]) = k
      /\ ledger'[l][k].year = y /\ ledger'[l][k].number = counters[y] + 1
  BY <1>4, SellRow
<1>6. Unnumbered(l)' = Unnumbered(l)
  <2>1. counters[y] + 1 # 0
    BY <1>2
  <2>2. QED
    BY <1>5, <2>1 DEF Unnumbered
<1>7. \A m \in Ledgers : Unnumbered(m)' = Unnumbered(m)
  BY <1>5, <1>6 DEF Unnumbered
<1>8. "sales" \in Ledgers /\ "customer_transactions" \in Ledgers /\ "sales" # "customer_transactions"
      /\ (l = "sales" \/ l = "customer_transactions")
  BY DEF Ledgers
<1>9. NotYet' = NotYet
  BY <1>7, <1>8 DEF NotYet
<1>10. Total' = Total + 1
  <2>1. \A m \in Ledgers : Len(ledger[m]) \in Nat
    BY RowsOf DEF Types
  <2>2. Len(ledger'[l]) = Len(ledger[l]) + 1 /\ \A m \in Ledgers : m # l => Len(ledger'[m]) = Len(ledger[m])
    BY <1>4, <1>5
  <2> DEFINE a == Len(ledger["sales"])
             b == Len(ledger["customer_transactions"])
             c == Len(ledger'["sales"])
             d == Len(ledger'["customer_transactions"])
  <2>3. a \in Nat /\ b \in Nat /\ ((c = a + 1 /\ d = b) \/ (c = a /\ d = b + 1))
    BY <1>8, <2>1, <2>2
  <2>4. Total = a + b /\ Total' = c + d
    BY DEF Total
  <2> HIDE DEF a, b, c, d
  <2>5. QED
    BY <2>3, <2>4
<1>11. Total \in Nat /\ NotYet \in Nat /\ found.counters \in [Years -> Nat]
  BY Sums, FoundCounters DEF Types
<1>12. ASSUME NEW z \in Years
       PROVE  perYear'[z] + NotYet' <= Total' /\ counters'[z] <= found'.counters[z] + Total'
  <2>1. /\ perYear[z] \in Nat /\ counters[z] \in Nat /\ found.counters[z] \in Nat
        /\ perYear[z] + NotYet <= Total /\ counters[z] <= found.counters[z] + Total
    BY <1>2, <1>11 DEF CountsFit
  <2>2. counters'[z] = counters[z] + 1 \/ counters'[z] = counters[z]
    BY <1>3
  <2>3. QED
    BY <1>1, <1>9, <1>10, <1>11, <2>1, <2>2
<1>13. ASSUME NEW m \in Ledgers, NEW j \in DOMAIN ledger'[m]
       PROVE  ledger'[m][j].number <= found'.counters[ledger'[m][j].year] + Total'
  <2>1. CASE m = l /\ j = k
    <3>1. counters[y] + 1 <= found.counters[y] + (Total + 1)
      BY <1>2, <1>11 DEF CountsFit
    <3>2. QED
      BY <1>5, <1>10, <2>1, <3>1
  <2>2. CASE ~(m = l /\ j = k)
    <3>1. j \in DOMAIN ledger[m] /\ ledger'[m][j] = ledger[m][j]
      <4>1. CASE m = l
        BY <1>5, <2>2, <4>1
      <4>2. CASE m # l
        BY <1>5, <2>2, <4>2
      <4>3. QED
        BY <4>1, <4>2
    <3>2. /\ ledger[m][j].number \in Nat /\ ledger[m][j].year \in Years
          /\ ledger[m][j].number <= found.counters[ledger[m][j].year] + Total
      BY <3>1, RowsOf DEF CountsFit, Types
    <3>3. found.counters[ledger[m][j].year] \in Nat
      BY <1>11, <3>2
    <3>4. QED
      BY <1>10, <1>11, <3>1, <3>2, <3>3
  <2>3. QED
    BY <2>1, <2>2
<1>14. \A m \in Ledgers : Len(ledger'[m]) <= MaxRows
  <2>1. ASSUME NEW m \in Ledgers PROVE Len(ledger'[m]) <= MaxRows
    <3>1. CASE m = l
      BY <1>1, <1>2, <1>4, <1>5, <3>1
    <3>2. CASE m # l
      BY <1>5, <3>2 DEF CountsFit
    <3>3. QED
      BY <3>1, <3>2
  <2>2. QED
    BY <2>1
<1>15. QED
  BY <1>12, <1>13, <1>14 DEF CountsFit

\* A counter that is seeded takes over a count that fits.
LEMMA SeedCounts ==
    ASSUME Types, CountsFit, SeedCounter, BookTypes', found' = found
    PROVE  CountsFit'
<1>1. ledger' = ledger
  BY DEF SeedCounter
<1>2. CASE counters' = counters /\ perYear' = perYear
  BY <1>1, <1>2, SameLedger, SameCounts
<1>3. CASE \E y \in Years : /\ counters' = [counters EXCEPT ![y] = perYear[y]]
                            /\ perYear' = [perYear EXCEPT ![y] = 0]
  <2>1. PICK y \in Years : /\ counters' = [counters EXCEPT ![y] = perYear[y]]
                           /\ perYear' = [perYear EXCEPT ![y] = 0]
    BY <1>3
  <2>2. perYear \in [Years -> Nat] /\ counters \in [Years -> Nat] /\ found.counters \in [Years -> Nat]
    BY FoundCounters DEF Types, BookTypes
  <2>3. Total' = Total /\ NotYet' = NotYet /\ Total \in Nat /\ NotYet \in Nat
    BY <1>1, Sums DEF Total, NotYet, Unnumbered, Types
  <2>4. ASSUME NEW z \in Years
        PROVE  perYear'[z] + NotYet' <= Total' /\ counters'[z] <= found'.counters[z] + Total'
    <3>1. /\ perYear[z] \in Nat /\ found.counters[z] \in Nat
          /\ perYear[z] + NotYet <= Total /\ counters[z] <= found.counters[z] + Total
      BY <2>2 DEF CountsFit
    <3>2. CASE z = y
      <4>1. perYear'[z] = 0 /\ counters'[z] = perYear[z]
        BY <2>1, <2>2, <3>2
      <4>2. QED
        BY <2>3, <3>1, <4>1
    <3>3. CASE z # y
      <4>1. perYear'[z] = perYear[z] /\ counters'[z] = counters[z]
        BY <2>1, <2>2, <3>3
      <4>2. QED
        BY <2>3, <3>1, <4>1
    <3>4. QED
      BY <3>2, <3>3
  <2>5. QED
    BY <1>1, <2>3, <2>4 DEF CountsFit
<1>4. QED
  BY <1>2, <1>3 DEF SeedCounter, Done

\* Every step keeps the counts within the rows.
LEMMA NextCountsFit ==
    ASSUME Types, Program, CountsFit, [Next]_vars
    PROVE  CountsFit'
<1>1. BookTypes' /\ found' = found
  BY NextBookTypes, FoundStays
<1>2. ASSUME UNCHANGED <<ledger, counters>>, perYear' = perYear \/ perYear' = [y \in Years |-> 0]
      PROVE  CountsFit'
  BY <1>1, <1>2, SameLedger, SameCounts
<1>3. CASE Open \/ PowerCut
  BY <1>2, <1>3 DEF Open, PowerCut, books
<1>4. CASE CreateTable \/ CreateTrigger \/ CreateSessionIndex \/ CopyZakat \/ DropZakat \/ AddColumn
  BY <1>2, <1>4 DEF CreateTable, CreateTrigger, CreateSessionIndex, CopyZakat, DropZakat, AddColumn,
                    Done, books
<1>5. CASE StartMigrations \/ ApplyMigration \/ CreateReversalIndex \/ AddMarker \/ SeedPrefix
  BY <1>2, <1>5 DEF StartMigrations, ApplyMigration, CreateReversalIndex, AddMarker, SeedPrefix,
                    Done, books
<1>6. CASE StartNumbering \/ Stamp \/ FinishOpening \/ Quit
  BY <1>2, <1>6 DEF StartNumbering, Stamp, FinishOpening, Quit, Done, books
<1>7. CASE SwapProducts \/ MarkPayments \/ BackfillTrays \/ ClearWeighed
  BY <1>2, <1>7 DEF SwapProducts, MarkPayments, BackfillTrays, ClearWeighed, Done
<1>8. CASE CloseSession \/ OpenSession \/ UNCHANGED vars
  BY <1>2, <1>8 DEF CloseSession, OpenSession, vars, books, program
<1>9. CASE BackfillPieces
  BY <1>1, <1>9, BackfilledPapers, SameCounts DEF BackfillPieces, Done
<1>10. CASE AssignNumber
  <2>1. CASE Unnumbered(Arg) # {}
    BY <1>1, <1>10, <2>1, AssignCounts
  <2>2. CASE Unnumbered(Arg) = {}
    BY <1>2, <1>10, <2>2 DEF AssignNumber, Done
  <2>3. QED
    BY <2>1, <2>2
<1>11. CASE SeedCounter
  BY <1>1, <1>11, SeedCounts
<1>12. CASE \E l \in Ledgers, y \in Years : Sell(l, y)
  BY <1>1, <1>12, SellCounts
<1>13. QED
  BY <1>3, <1>4, <1>5, <1>6, <1>7, <1>8, <1>9, <1>10, <1>11, <1>12 DEF Next

----------------------------------------------------------------------------
(* The kinds of steps. *)

\* A statement that may push others in front of the rest of the program.
Pushes ==
    \E k, more :
        /\ At(k) /\ k \notin {"migrate", "stamp"} /\ Pushed(more) /\ Then(more)
        /\ version' = version /\ (k = "version" => more = MigrationOf(Arg))

\* A step opens, pushes, starts the migrations, stamps, leaves the program, or ends it.
LEMMA StepKinds ==
    ASSUME Types, Program, [Next]_vars
    PROVE  \/ Open
           \/ Pushes
           \/ StartMigrations
           \/ Stamp
           \/ UNCHANGED <<version, todo, phase, torn>>
           \/ phase' # "opening" /\ version' = version /\ todo' = <<>> /\ torn \subseteq torn'
<1>1. ASSUME NEW k, At(k), k \notin {"migrate", "stamp", "version"}, NEW more, Pushed(more), Then(more),
             version' = version
      PROVE  Pushes
  BY <1>1 DEF Pushes
<1>2. ASSUME NEW k, At(k), k \notin {"migrate", "stamp", "version"}, Done, version' = version
      PROVE  Pushes
  <2>1. Then(<<>>) /\ Pushed(<<>>)
    BY <1>2, NothingPushed DEF Done
  <2>2. QED
    BY <1>1, <1>2, <2>1
<1>3. CASE CreateTable
  BY <1>2, <1>3 DEF CreateTable
<1>4. CASE CreateTrigger
  BY <1>2, <1>4 DEF CreateTrigger
<1>5. CASE CreateSessionIndex
  BY <1>2, <1>5 DEF CreateSessionIndex
<1>6. CASE CopyZakat
  BY <1>2, <1>6 DEF CopyZakat
<1>7. CASE DropZakat
  BY <1>2, <1>7 DEF DropZakat
<1>8. CASE AddColumn
  BY <1>2, <1>8 DEF AddColumn
<1>9. CASE SwapProducts
  <2>1. At("products") /\ version' = version
    BY <1>9 DEF SwapProducts
  <2>2. CASE ~blankRefused
    BY <1>2, <1>9, <2>1, <2>2 DEF SwapProducts
  <2>3. CASE blankRefused
    <3>1. Then(Replayed)
      BY <1>9, <2>3 DEF SwapProducts
    <3>2. Pushed(Replayed)
      BY <2>1, OnePushed, NothingPushed DEF Replayed
    <3>3. QED
      BY <1>1, <2>1, <3>1, <3>2
  <2>4. QED
    BY <2>2, <2>3
<1>10. CASE ApplyMigration
  <2>1. At("version") /\ Then(MigrationOf(Arg)) /\ version' = version
    BY <1>10 DEF ApplyMigration
  <2>2. Pushed(MigrationOf(Arg))
    BY <2>1, MigrationPushed
  <2>3. QED
    BY <2>1, <2>2 DEF Pushes
<1>11. CASE CreateReversalIndex
  BY <1>2, <1>11 DEF CreateReversalIndex
<1>12. CASE AddMarker
  <2> DEFINE more == IF Marker \in columns THEN <<>> ELSE << <<"mark">> >>
  <2>1. At("marker") /\ Then(more) /\ version' = version
    BY <1>12 DEF AddMarker
  <2>2. Pushed(more)
    <3>1. Pushed(<< <<"mark">> >>)
      BY <2>1, OnePushed
    <3>2. QED
      BY <3>1, NothingPushed
  <2> HIDE DEF more
  <2>3. QED
    BY <1>1, <2>1, <2>2
<1>13. CASE MarkPayments
  BY <1>2, <1>13 DEF MarkPayments
<1>14. CASE BackfillPieces
  BY <1>2, <1>14 DEF BackfillPieces
<1>15. CASE BackfillTrays
  BY <1>2, <1>15 DEF BackfillTrays
<1>16. CASE SeedPrefix
  BY <1>2, <1>16 DEF SeedPrefix
<1>17. CASE StartNumbering
  <2> DEFINE more == IF \E y \in Years : counters[y] > 0 THEN <<>>
                     ELSE PerLedger("assign") \o << <<"seed">> >>
  <2>1. At("number") /\ Then(more) /\ version' = version
    BY <1>17 DEF StartNumbering
  <2>2. Pushed(more)
    BY <2>1, NumberingPushed, NothingPushed
  <2> HIDE DEF more
  <2>3. QED
    BY <1>1, <2>1, <2>2
<1>18. CASE AssignNumber
  <2>1. At("assign") /\ version' = version /\ (Done \/ UNCHANGED <<phase, todo, torn>>)
    BY <1>18 DEF AssignNumber
  <2>2. QED
    BY <1>2, <2>1
<1>19. CASE SeedCounter
  <2>1. At("seed") /\ version' = version /\ (Done \/ UNCHANGED <<phase, todo, torn>>)
    BY <1>19 DEF SeedCounter
  <2>2. QED
    BY <1>2, <2>1
<1>20. CASE ClearWeighed
  BY <1>2, <1>20 DEF ClearWeighed
<1>21. CASE FinishOpening
  BY <1>21 DEF FinishOpening
<1>22. CASE (\E l \in Ledgers, y \in Years : Sell(l, y)) \/ CloseSession \/ OpenSession
  BY <1>22 DEF Sell, CloseSession, OpenSession, program
<1>23. CASE Quit
  BY <1>23 DEF Quit, Program
<1>24. CASE PowerCut
  BY <1>24 DEF PowerCut
<1>25. CASE UNCHANGED vars
  BY <1>25 DEF vars, program
<1>26. QED
  BY <1>3, <1>4, <1>5, <1>6, <1>7, <1>8, <1>9, <1>10, <1>11, <1>12, <1>13, <1>14, <1>15, <1>16,
     <1>17, <1>18, <1>19, <1>20, <1>21, <1>22, <1>23, <1>24, <1>25 DEF Next

\* The steps that write the ledgers, the payments or the products.
LEMMA BookSteps ==
    ASSUME [Next]_vars
    PROVE  /\ \/ ledger' = ledger
              \/ BackfillPieces
              \/ AssignNumber /\ Unnumbered(Arg) # {}
              \/ \E l \in Ledgers, y \in Years : Sell(l, y)
           /\ payments' = payments \/ MarkPayments
           /\ \/ products' = products
              \/ SwapProducts /\ blankRefused
              \/ BackfillTrays
              \/ ClearWeighed
<1> USE DEF books
<1>1. CASE Open \/ CreateTable \/ CreateTrigger \/ CreateSessionIndex \/ CopyZakat \/ DropZakat
  BY <1>1 DEF Open, CreateTable, CreateTrigger, CreateSessionIndex, CopyZakat, DropZakat
<1>2. CASE AddColumn \/ SwapProducts \/ StartMigrations \/ ApplyMigration \/ CreateReversalIndex
  BY <1>2 DEF AddColumn, SwapProducts, StartMigrations, ApplyMigration, CreateReversalIndex
<1>3. CASE AddMarker \/ MarkPayments \/ BackfillPieces \/ BackfillTrays \/ SeedPrefix \/ StartNumbering
  BY <1>3 DEF AddMarker, MarkPayments, BackfillPieces, BackfillTrays, SeedPrefix, StartNumbering
<1>4. CASE SeedCounter \/ ClearWeighed \/ Stamp \/ FinishOpening
  BY <1>4 DEF SeedCounter, ClearWeighed, Stamp, FinishOpening
<1>5. CASE AssignNumber
  BY <1>5 DEF AssignNumber
<1>6. CASE (\E l \in Ledgers, y \in Years : Sell(l, y)) \/ CloseSession \/ OpenSession
  BY <1>6 DEF Sell, CloseSession, OpenSession
<1>7. CASE Quit \/ PowerCut \/ UNCHANGED vars
  BY <1>7 DEF Quit, PowerCut, vars
<1>8. QED
  BY <1>1, <1>2, <1>3, <1>4, <1>5, <1>6, <1>7 DEF Next

\* A statement of a version is none of those that end a program.
LEMMA VersionStmts ==
    ASSUME NEW v, NEW s \in OfVersion(v)
    PROVE  s[1] \notin {"migrate", "version", "stamp"}
BY DEF OfVersion

\* Work that is ahead stays ahead until its statement is at hand.
LEMMA AheadNext ==
    ASSUME Types, Program, Shape, [Next]_vars, NEW v \in 1..kSchemaVersion, NEW s \in OfVersion(v),
           Ahead(v, s), phase = "opening" /\ todo # <<>> => todo[1] # s
    PROVE  Ahead(v, s)'
<1>1. /\ version < v
      /\ phase = "opening" => Left(<<"migrate">>) \/ Left(<<"version", v>>) \/ Left(s)
  BY DEF Ahead
<1>2. <<"migrate">>[1] = "migrate" /\ <<"version", v>>[1] = "version" /\ <<"version", v>>[2] = v
  OBVIOUS
<1>3. s[1] \notin {"migrate", "version", "stamp"}
  BY VersionStmts
<1>4. CASE Open
  <2>1. version' = version /\ todo' = Opening
    BY <1>4 DEF Open
  <2>2. Left(<<"migrate">>)'
    BY <2>1, OpeningProperties DEF Left, Listed
  <2>3. QED
    BY <1>1, <2>1, <2>2 DEF Ahead
<1>5. CASE Pushes
  <2>1. PICK k, more : /\ At(k) /\ k \notin {"migrate", "stamp"} /\ Pushed(more) /\ Then(more)
                       /\ version' = version /\ (k = "version" => more = MigrationOf(Arg))
    BY <1>5 DEF Pushes
  <2>2. /\ phase = "opening" /\ todo # <<>> /\ todo[1][1] = k /\ todo[1] \in Stmts /\ phase' = phase
        /\ todo' = more \o Tail(todo) /\ more \in Seq(Stmts)
    BY <2>1, AtHand DEF Then, Pushed
  <2>3. /\ \A x : Left(x) /\ x # todo[1] => Left(x)'
        /\ \A x \in Listed(more) : Left(x)'
    BY <2>1, <2>2, LeftAfter
  <2>4. CASE Left(<<"migrate">>)
    BY <1>1, <1>2, <2>1, <2>2, <2>3, <2>4 DEF Ahead
  <2>5. CASE Left(s)
    BY <1>1, <2>1, <2>2, <2>3, <2>5 DEF Ahead
  <2>6. CASE Left(<<"version", v>>) /\ <<"version", v>> # todo[1]
    BY <1>1, <2>1, <2>3, <2>6 DEF Ahead
  <2>7. CASE <<"version", v>> = todo[1]
    <3>1. k = "version" /\ Arg = v
      BY <1>2, <2>2, <2>7 DEF Arg
    <3>2. Listed(more) = OfVersion(v)
      BY <2>1, <3>1, MigrationPushed
    <3>3. Left(s)'
      BY <2>3, <3>2
    <3>4. QED
      BY <1>1, <2>1, <3>3 DEF Ahead
  <2>8. QED
    BY <1>1, <2>2, <2>4, <2>5, <2>6, <2>7
<1>6. CASE StartMigrations
  <2>1. /\ At("migrate") /\ version' = version
        /\ todo' = (IF version >= kSchemaVersion THEN <<>> ELSE WorkAfter(version)) \o Tail(todo)
    BY <1>6 DEF StartMigrations, Then
  <2>2. version \in 0..kSchemaVersion - 1
    BY <1>1, VersionRange DEF kSchemaVersion
  <2> DEFINE u == WorkAfter(version)
  <2>3. /\ u \in Seq(Stmts) /\ DOMAIN u = 1..kSchemaVersion - version + 1
        /\ \A n \in 1..kSchemaVersion - version : u[n] = <<"version", version + n>>
    BY <2>2, WorkProperties
  <2>4. ~(version >= kSchemaVersion)
    BY <2>2 DEF kSchemaVersion
  <2> HIDE DEF u
  <2>5. todo' = u
    BY <2>1, <2>3, <2>4, NothingElse DEF u
  <2>6. PICK n : n = v - version
    OBVIOUS
  <2>7. n \in 1..kSchemaVersion - version /\ n \in DOMAIN u /\ version + n = v
    BY <1>1, <2>2, <2>3, <2>6 DEF kSchemaVersion
  <2>8. Left(<<"version", v>>)'
    BY <2>3, <2>5, <2>7 DEF Left
  <2>9. QED
    BY <1>1, <2>1, <2>8 DEF Ahead
<1>7. CASE Stamp
  <2>1. At("stamp") /\ phase = "opening"
    BY <1>7, AtHand DEF Stamp
  <2>2. \A x : Left(x) => x = <<"stamp">>
    BY <2>1, NothingElse
  <2>3. <<"stamp">>[1] = "stamp"
    OBVIOUS
  <2>4. QED
    BY <1>1, <1>2, <1>3, <2>1, <2>2, <2>3
<1>8. CASE UNCHANGED <<version, todo, phase, torn>>
  BY <1>1, <1>8 DEF Ahead, Left
<1>9. CASE phase' # "opening" /\ version' = version /\ todo' = <<>> /\ torn \subseteq torn'
  BY <1>1, <1>9 DEF Ahead
<1>10. QED
  BY <1>4, <1>5, <1>6, <1>7, <1>8, <1>9, StepKinds

\* No work is ahead of a running program.
LEMMA NothingAhead ==
    ASSUME Shape, phase = "running", NEW v \in 1..kSchemaVersion, NEW s
    PROVE  ~Ahead(v, s)
BY DEF Shape, SchemaComplete, Ahead, kSchemaVersion

----------------------------------------------------------------------------
(* The old rows. *)

\* The steps that carry out the work of a version that is at hand.
LEMMA WorkAtHand ==
    ASSUME [Next]_vars, phase = "opening", todo # <<>>
    PROVE  \/ PowerCut \/ UNCHANGED vars
           \/ todo[1][1] = "pieces" /\ BackfillPieces
           \/ todo[1][1] = "trays" /\ BackfillTrays
           \/ todo[1][1] = "weighed" /\ ClearWeighed
           \/ todo[1][1] = "mark" /\ MarkPayments
           \/ todo[1][1] = "number" /\ StartNumbering
           \/ todo[1][1] = "assign" /\ AssignNumber
           \/ todo[1][1] = "seed" /\ SeedCounter
           \/ todo[1][1] \notin {"pieces", "trays", "weighed", "mark", "number", "assign", "seed"}
<1> USE DEF At
<1>1. CASE Open \/ CreateTable \/ CreateTrigger \/ CreateSessionIndex \/ CopyZakat \/ DropZakat
  BY <1>1 DEF Open, CreateTable, CreateTrigger, CreateSessionIndex, CopyZakat, DropZakat
<1>2. CASE AddColumn \/ SwapProducts \/ StartMigrations \/ ApplyMigration \/ CreateReversalIndex
  BY <1>2 DEF AddColumn, SwapProducts, StartMigrations, ApplyMigration, CreateReversalIndex
<1>3. CASE AddMarker \/ MarkPayments \/ BackfillPieces \/ BackfillTrays \/ SeedPrefix \/ StartNumbering
  BY <1>3 DEF AddMarker, MarkPayments, BackfillPieces, BackfillTrays, SeedPrefix, StartNumbering
<1>4. CASE AssignNumber \/ SeedCounter \/ ClearWeighed \/ Stamp \/ FinishOpening
  BY <1>4 DEF AssignNumber, SeedCounter, ClearWeighed, Stamp, FinishOpening
<1>5. CASE (\E l \in Ledgers, y \in Years : Sell(l, y)) \/ CloseSession \/ OpenSession
  BY <1>5 DEF Sell, CloseSession, OpenSession
<1>6. CASE Quit \/ PowerCut \/ UNCHANGED vars
  BY <1>6 DEF Quit
<1>7. QED
  BY <1>1, <1>2, <1>3, <1>4, <1>5, <1>6 DEF Next

\* Work that is ahead stays ahead until it is done.
LEMMA AheadStays ==
    ASSUME Types, Program, Shape, [Next]_vars, NEW v \in 1..kSchemaVersion, NEW s \in OfVersion(v),
           Ahead(v, s)
    PROVE  \/ Ahead(v, s)'
           \/ phase = "opening" /\ todo # <<>> /\ todo[1] = s /\ ~PowerCut /\ ~UNCHANGED vars
<1>1. CASE PowerCut
  BY <1>1 DEF PowerCut, Ahead
<1>2. CASE UNCHANGED vars
  BY <1>2 DEF vars, program, Ahead, Left
<1>3. CASE phase = "opening" /\ todo # <<>> => todo[1] # s
  BY <1>3, AheadNext
<1>4. QED
  BY <1>1, <1>2, <1>3

\* A version is the one that was found, until it is stamped; no table is dropped.
LEMMA VersionAndTables ==
    ASSUME [Next]_vars
    PROVE  /\ version' = version \/ version' = kSchemaVersion
           /\ tables \subseteq tables'
<1> USE DEF shape
<1>1. CASE Open \/ CreateTable \/ CreateTrigger \/ CreateSessionIndex \/ CopyZakat \/ DropZakat
  BY <1>1 DEF Open, CreateTable, CreateTrigger, CreateSessionIndex, CopyZakat, DropZakat
<1>2. CASE AddColumn \/ SwapProducts \/ StartMigrations \/ ApplyMigration \/ CreateReversalIndex
  BY <1>2 DEF AddColumn, SwapProducts, StartMigrations, ApplyMigration, CreateReversalIndex
<1>3. CASE AddMarker \/ MarkPayments \/ BackfillPieces \/ BackfillTrays \/ SeedPrefix \/ StartNumbering
  BY <1>3 DEF AddMarker, MarkPayments, BackfillPieces, BackfillTrays, SeedPrefix, StartNumbering
<1>4. CASE AssignNumber \/ SeedCounter \/ ClearWeighed \/ Stamp \/ FinishOpening
  BY <1>4 DEF AssignNumber, SeedCounter, ClearWeighed, Stamp, FinishOpening
<1>5. CASE (\E l \in Ledgers, y \in Years : Sell(l, y)) \/ CloseSession \/ OpenSession
  BY <1>5 DEF Sell, CloseSession, OpenSession
<1>6. CASE Quit \/ PowerCut \/ UNCHANGED vars
  BY <1>6 DEF Quit, PowerCut, vars
<1>7. QED
  BY <1>1, <1>2, <1>3, <1>4, <1>5, <1>6 DEF Next

\* A row keeps its year and its quantity, and its pieces until they are filled in.
LEMMA RowsStay ==
    ASSUME Types, Program, Shape, [Next]_vars, NEW l \in Ledgers
    PROVE  /\ \/ Len(ledger'[l]) = Len(ledger[l])
              \/ Len(ledger'[l]) = Len(ledger[l]) + 1 /\ version = kSchemaVersion
           /\ \A i \in DOMAIN ledger[l] :
                 /\ i \in DOMAIN ledger'[l]
                 /\ ledger'[l][i].year = ledger[l][i].year
                 /\ ledger'[l][i].quantity = ledger[l][i].quantity
                 /\ \/ ledger'[l][i].pieces = ledger[l][i].pieces /\ ~(BackfillPieces /\ Arg = l)
                    \/ /\ BackfillPieces /\ todo[1] = <<"pieces", l>> /\ At("pieces")
                       /\ ledger'[l][i].pieces = BackfilledPieces(ledger[l][i])
<1>1. BookTypes /\ BookTypes'
  BY NextBookTypes DEF Types
<1>2. \A i \in DOMAIN ledger[l] : ledger[l][i] \in LedgerRows
  BY <1>1, RowsOf
<1>3. CASE BackfillPieces
  <2>1. At("pieces")
    BY <1>3 DEF BackfillPieces
  <2>2. CASE l = Arg
    <3>1. /\ Len(ledger'[l]) = Len(ledger[l]) /\ DOMAIN ledger'[l] = DOMAIN ledger[l]
          /\ todo[1] = <<"pieces", l>>
          /\ \A i \in DOMAIN ledger[l] :
                ledger'[l][i] = [ledger[l][i] EXCEPT !.pieces = BackfilledPieces(ledger[l][i])]
      BY <1>3, <2>2, BackfillRows
    <3>2. ASSUME NEW i \in DOMAIN ledger[l]
          PROVE  /\ ledger'[l][i].year = ledger[l][i].year
                 /\ ledger'[l][i].quantity = ledger[l][i].quantity
                 /\ ledger'[l][i].pieces = BackfilledPieces(ledger[l][i])
      BY <1>2, <3>1 DEF LedgerRows
    <3>3. QED
      BY <1>3, <2>1, <3>1, <3>2
  <2>3. CASE l # Arg
    BY <1>3, <2>3, BackfillRows
  <2>4. QED
    BY <2>2, <2>3
<1>4. CASE AssignNumber /\ Unnumbered(Arg) # {}
  <2>1. ~BackfillPieces
    BY <1>4 DEF AssignNumber, BackfillPieces, At
  <2>2. CASE l = Arg
    <3>1. PICK i \in Unnumbered(l) :
             /\ Len(ledger'[l]) = Len(ledger[l]) /\ DOMAIN ledger'[l] = DOMAIN ledger[l]
             /\ \A j \in DOMAIN ledger[l] : j # i => ledger'[l][j] = ledger[l][j]
             /\ ledger'[l][i] = [ledger[l][i] EXCEPT !.number = perYear[ledger[l][i].year] + 1]
      BY <1>4, <2>2, NumberRow
    <3>2. ASSUME NEW j \in DOMAIN ledger[l]
          PROVE  /\ ledger'[l][j].year = ledger[l][j].year
                 /\ ledger'[l][j].quantity = ledger[l][j].quantity
                 /\ ledger'[l][j].pieces = ledger[l][j].pieces
      BY <1>2, <3>1 DEF LedgerRows
    <3>3. QED
      BY <2>1, <3>1, <3>2
  <2>3. CASE l # Arg
    BY <1>4, <2>1, <2>3, NumberRow
  <2>4. QED
    BY <2>2, <2>3
<1>5. CASE \E m \in Ledgers, y \in Years : Sell(m, y)
  <2>1. PICK m \in Ledgers, y \in Years : Sell(m, y)
    BY <1>5
  <2>2. phase = "running" /\ ~BackfillPieces
    BY <2>1 DEF Sell, BackfillPieces, At
  <2>3. version = kSchemaVersion
    BY <2>2 DEF Shape, SchemaComplete
  <2>4. QED
    BY <2>1, <2>2, <2>3, SellRow
<1>6. CASE ledger' = ledger /\ ~BackfillPieces
  BY <1>6
<1>7. QED
  BY <1>3, <1>4, <1>5, <1>6, BookSteps

\* A file that is found has its own rows.
LEMMA InitOldRows ==
    ASSUME Init
    PROVE  OldRows
<1>1. found \in OldDatabases /\ Readable(found) /\ DefaultsBefore(found)
  BY DatabasesAssumption DEF Init
<1>2. \A l \in Ledgers : Len(found.ledger[l]) \in Nat
  BY <1>1 DEF Readable
<1>3. "supplier_payments" \notin tables => payments = <<>>
  BY <1>1 DEF Init, DefaultsBefore
<1>4. QED
  BY <1>2, <1>3 DEF Init, OldRows

\* The rows of a file that was found are among those of the ledger.
LEMMA OldRowsStay ==
    ASSUME Types, OldRows, NEW l \in Ledgers, NEW i \in DOMAIN found.ledger[l]
    PROVE  i \in DOMAIN ledger[l]
<1>1. found.ledger[l] \in Seq(LedgerRows) /\ ledger[l] \in Seq(LedgerRows)
  BY DatabasesAssumption DEF Types, FileTypes, BookTypes, Readable
<1>2. Len(found.ledger[l]) <= Len(ledger[l])
  BY DEF OldRows
<1>3. QED
  BY <1>1, <1>2, LenProperties

\* Every step keeps the old rows.
LEMMA NextOldRows ==
    ASSUME Types, Program, Shape, OldRows, [Next]_vars
    PROVE  OldRows'
<1>1. found' = found
  BY FoundStays
<1>2. ASSUME NEW l \in Ledgers
      PROVE  /\ Len(found.ledger[l]) <= Len(ledger'[l])
             /\ version' < kSchemaVersion => Len(ledger'[l]) = Len(found.ledger[l])
             /\ \A i \in DOMAIN found.ledger[l] :
                   /\ ledger'[l][i].year = found.ledger[l][i].year
                   /\ ledger'[l][i].quantity = found.ledger[l][i].quantity
  <2>1. Len(found.ledger[l]) \in Nat /\ Len(ledger[l]) \in Nat
    BY DatabasesAssumption DEF Types, FileTypes, BookTypes, Readable
  <2>2. /\ Len(found.ledger[l]) <= Len(ledger[l])
        /\ version < kSchemaVersion => Len(ledger[l]) = Len(found.ledger[l])
    BY DEF OldRows
  <2>3. /\ \/ Len(ledger'[l]) = Len(ledger[l])
           \/ Len(ledger'[l]) = Len(ledger[l]) + 1 /\ version = kSchemaVersion
        /\ \A i \in DOMAIN ledger[l] : /\ ledger'[l][i].year = ledger[l][i].year
                                       /\ ledger'[l][i].quantity = ledger[l][i].quantity
    BY RowsStay
  <2>4. version' = version \/ version' = kSchemaVersion
    BY VersionAndTables
  <2>5. Len(found.ledger[l]) <= Len(ledger'[l])
    BY <2>1, <2>2, <2>3
  <2>6. version' < kSchemaVersion => Len(ledger'[l]) = Len(found.ledger[l])
    <3>1. ASSUME version' < kSchemaVersion PROVE version' = version /\ version # kSchemaVersion
      BY <2>4, <3>1 DEF kSchemaVersion
    <3>2. QED
      BY <2>2, <2>3, <3>1
  <2>7. QED
    BY <2>3, <2>5, <2>6, OldRowsStay DEF OldRows
<1>3. Len(payments') = Len(payments) /\ ("supplier_payments" \notin tables' => payments' = <<>>)
  <2>1. CASE payments' = payments
    BY <2>1, VersionAndTables DEF OldRows
  <2>2. CASE MarkPayments
    <3>1. payments' \in Seq(PaymentRows) /\ Len(payments') = Len(payments)
      BY <2>2, PaymentsRewritten
    <3>2. payments = <<>> => payments' = <<>>
      BY <3>1, EmptySeq
    <3>3. QED
      BY <3>1, <3>2, VersionAndTables DEF OldRows
  <2>3. QED
    BY <2>1, <2>2, BookSteps
<1>4. Len(products') = Len(products)
  <2>1. CASE products' = products
    BY <2>1
  <2>2. CASE SwapProducts /\ blankRefused
    <3>1. products' = [p \in DOMAIN products |-> [products[p] EXCEPT !.perPackage = 1, !.weighed = FALSE]]
      BY <2>2 DEF SwapProducts
    <3>2. QED
      BY <3>1, ProductsRewritten
  <2>3. CASE BackfillTrays
    <3>1. products' = [p \in DOMAIN products |->
                         IF products[p].packageSize > 1 /\ products[p].perPackage = 1
                         THEN [products[p] EXCEPT !.perPackage = products[p].packageSize]
                         ELSE products[p]]
      BY <2>3 DEF BackfillTrays
    <3>2. QED
      BY <3>1, ProductsRewritten
  <2>4. CASE ClearWeighed
    <3>1. products' = [p \in DOMAIN products |->
                         IF products[p].weighed THEN [products[p] EXCEPT !.perPackage = 1]
                         ELSE products[p]]
      BY <2>4 DEF ClearWeighed
    <3>2. QED
      BY <3>1, ProductsRewritten
  <2>5. QED
    BY <2>1, <2>2, <2>3, <2>4, BookSteps
<1>5. QED
  BY <1>1, <1>2, <1>3, <1>4 DEF OldRows

----------------------------------------------------------------------------
(* The pieces of the old rows. *)

\* The work of a version that is not stamped yet is in a file of an older one.
LEMMA OlderFile == Types /\ version < kSchemaVersion => found.version = version
BY DEF Types, FileTypes, kSchemaVersion

\* A file from before the packages has no pieces yet, a later one has its own.
LEMMA InitPiecesDone ==
    ASSUME Init
    PROVE  PiecesDone
<1>1. /\ found \in OldDatabases /\ DefaultsBefore(found)
      /\ ledger = found.ledger /\ version = found.version /\ phase = "closed"
  BY DatabasesAssumption DEF Init
<1>2. found.version \in 0..kSchemaVersion
  BY <1>1, DatabasesAssumption DEF Readable
<1>3. ASSUME NEW l \in Ledgers, NEW i \in DOMAIN found.ledger[l]
      PROVE  \/ ledger[l][i].pieces = PiecesOf(found.ledger[l][i])
             \/ /\ ledger[l][i].pieces = 0 /\ found.ledger[l][i].pieces = 0
                /\ Ahead(13, <<"pieces", l>>)
  <2>1. CASE version < 13
    BY <1>1, <2>1 DEF DefaultsBefore, Ahead
  <2>2. CASE ~(version < 13)
    BY <1>1, <2>2 DEF PiecesOf
  <2>3. QED
    BY <2>1, <2>2
<1>4. QED
  BY <1>3 DEF PiecesDone

\* Every step keeps the pieces filled in, or what fills them in ahead.
LEMMA NextPiecesDone ==
    ASSUME Types, Program, Shape, OldRows, PiecesDone, [Next]_vars
    PROVE  PiecesDone'
<1>1. found' = found
  BY FoundStays
<1>2. ASSUME NEW l \in Ledgers, NEW i \in DOMAIN found.ledger[l]
      PROVE  \/ ledger'[l][i].pieces = PiecesOf(found.ledger[l][i])'
             \/ /\ ledger'[l][i].pieces = 0 /\ found.ledger[l][i].pieces = 0
                /\ Ahead(13, <<"pieces", l>>)'
  <2>1. PICK was : was = found.ledger[l][i]
    OBVIOUS
  <2>2. i \in DOMAIN ledger[l] /\ ledger[l][i].quantity = was.quantity
    BY <2>1, OldRowsStay DEF OldRows
  <2>3. PiecesOf(found.ledger[l][i])' = PiecesOf(was)
    BY <1>1, <2>1 DEF PiecesOf
  <2>4. \/ ledger[l][i].pieces = PiecesOf(was)
        \/ ledger[l][i].pieces = 0 /\ was.pieces = 0 /\ Ahead(13, <<"pieces", l>>)
    BY <2>1 DEF PiecesDone
  <2>5. CASE ledger'[l][i].pieces = ledger[l][i].pieces /\ ~(BackfillPieces /\ Arg = l)
    <3>1. CASE ledger[l][i].pieces = PiecesOf(was)
      BY <2>3, <2>5, <3>1
    <3>2. CASE was.pieces = 0 /\ ledger[l][i].pieces = 0 /\ Ahead(13, <<"pieces", l>>)
      <4>1. 13 \in 1..kSchemaVersion /\ <<"pieces", l>> \in OfVersion(13)
        BY DEF OfVersion, kSchemaVersion
      <4>2. ASSUME phase = "opening", todo # <<>>, todo[1] = <<"pieces", l>>, ~PowerCut, ~UNCHANGED vars
            PROVE  FALSE
        <5>1. todo[1][1] = "pieces" /\ Arg = l
          BY <4>2 DEF Arg
        <5>2. QED
          BY <2>5, <4>2, <5>1, WorkAtHand
      <4>3. Ahead(13, <<"pieces", l>>)'
        BY <3>2, <4>1, <4>2, AheadStays
      <4>4. QED
        BY <2>1, <2>5, <3>2, <4>3
    <3>3. QED
      BY <2>4, <3>1, <3>2
  <2>6. CASE /\ BackfillPieces /\ todo[1] = <<"pieces", l>> /\ At("pieces")
             /\ ledger'[l][i].pieces = BackfilledPieces(ledger[l][i])
    <3>1. version < 13
      BY <2>6, AtHand DEF Newer
    <3>2. found.version < 13
      BY <3>1, VersionRange, OlderFile DEF kSchemaVersion
    <3>3. PiecesOf(was) = was.quantity
      BY <3>2 DEF PiecesOf
    <3>4. ledger[l][i].pieces = was.quantity \/ ledger[l][i].pieces = 0
      BY <2>4, <3>3
    <3>5. QED
      BY <2>2, <2>3, <2>6, <3>3, <3>4 DEF BackfilledPieces
  <2>7. QED
    BY <2>2, <2>5, <2>6, RowsStay
<1>3. QED
  BY <1>1, <1>2 DEF PiecesDone

----------------------------------------------------------------------------
(* The marks of the payments. *)

\* A file from before the marker has neither column nor marks.
LEMMA InitMarksDone ==
    ASSUME Init
    PROVE  MarksDone
<1>1. /\ found \in OldDatabases /\ DefaultsBefore(found) /\ StampedAfterwards(found)
      /\ payments = found.payments /\ columns = found.columns
  BY DatabasesAssumption DEF Init
<1>2. found.version \in 0..kSchemaVersion
  BY <1>1, DatabasesAssumption DEF Readable
<1>3. CASE found.version < 11
  BY <1>1, <1>2, <1>3 DEF DefaultsBefore, StampedAfterwards, MarksDone
<1>4. CASE ~(found.version < 11)
  BY <1>1, <1>4 DEF MarksDone, MarkOf
<1>5. QED
  BY <1>3, <1>4

\* What a power cut has torn stays torn.
LEMMA TornGrows ==
    ASSUME [Next]_vars
    PROVE  torn \subseteq torn'
<1> USE DEF program, Done, Then
<1>1. CASE Open \/ CreateTable \/ CreateTrigger \/ CreateSessionIndex \/ CopyZakat \/ DropZakat
  BY <1>1 DEF Open, CreateTable, CreateTrigger, CreateSessionIndex, CopyZakat, DropZakat
<1>2. CASE AddColumn \/ SwapProducts \/ StartMigrations \/ ApplyMigration \/ CreateReversalIndex
  BY <1>2 DEF AddColumn, SwapProducts, StartMigrations, ApplyMigration, CreateReversalIndex
<1>3. CASE AddMarker \/ MarkPayments \/ BackfillPieces \/ BackfillTrays \/ SeedPrefix \/ StartNumbering
  BY <1>3 DEF AddMarker, MarkPayments, BackfillPieces, BackfillTrays, SeedPrefix, StartNumbering
<1>4. CASE AssignNumber \/ SeedCounter \/ ClearWeighed \/ Stamp \/ FinishOpening
  BY <1>4 DEF AssignNumber, SeedCounter, ClearWeighed, Stamp, FinishOpening
<1>5. CASE (\E l \in Ledgers, y \in Years : Sell(l, y)) \/ CloseSession \/ OpenSession
  BY <1>5 DEF Sell, CloseSession, OpenSession
<1>6. CASE Quit \/ PowerCut \/ UNCHANGED vars
  BY <1>6 DEF Quit, PowerCut, vars
<1>7. QED
  BY <1>1, <1>2, <1>3, <1>4, <1>5, <1>6 DEF Next

\* The marker comes with the table, or by the migration that has the rows marked.
LEMMA MarkerComes ==
    ASSUME Types, Program, [Next]_vars, Marker \notin columns, Marker \in columns'
    PROVE  \/ "supplier_payments" \notin tables
           \/ Left(<<"mark">>)'
<1>1. CASE CreateTable
  <2>1. At("table") /\ columns' = IF Arg \in tables THEN columns ELSE columns \cup CreatedWith(Arg)
    BY <1>1 DEF CreateTable
  <2>2. Arg \notin tables /\ Marker \in CreatedWith(Arg)
    BY <2>1
  <2>3. Marker[1] = Arg
    BY <2>2 DEF CreatedWith
  <2>4. Arg = "supplier_payments"
    BY <2>3 DEF Marker
  <2>5. QED
    BY <2>2, <2>4
<1>2. CASE AddColumn
  <2>1. At("column") /\ columns' = columns \cup {Arg}
    BY <1>2 DEF AddColumn
  <2>2. todo[1] \in Stmts /\ todo[1][1] = "column"
    BY <2>1, AtHand
  <2>3. Arg \in Columns \ {Marker}
    BY <2>2, Kinds DEF Arg
  <2>4. QED
    BY <2>1, <2>3
<1>3. CASE SwapProducts
  <2>1. Marker # Weight
    BY DEF Marker, Weight
  <2>2. columns' \subseteq columns \cup {Weight}
    <3>1. CASE blankRefused
      BY <1>3, <3>1 DEF SwapProducts
    <3>2. CASE ~blankRefused
      BY <1>3, <3>2 DEF SwapProducts
    <3>3. QED
      BY <3>1, <3>2
  <2>3. QED
    BY <2>1, <2>2
<1>4. CASE AddMarker
  <2>1. At("marker") /\ todo' = << <<"mark">> >> \o Tail(todo)
    BY <1>4 DEF AddMarker, Then
  <2>2. Pushed(<< <<"mark">> >>) /\ Listed(<< <<"mark">> >>) = {<<"mark">>}
    BY <2>1, OnePushed
  <2>3. << <<"mark">> >> \in Seq(Stmts)
    BY <2>2 DEF Pushed
  <2>4. \A s \in Listed(<< <<"mark">> >>) : Left(s)'
    BY <2>1, <2>3, LeftAfter
  <2>5. <<"mark">> \in Listed(<< <<"mark">> >>)
    BY <2>2
  <2>6. QED
    BY <2>4, <2>5
<1>5. CASE columns' = columns
  BY <1>5
<1>6. QED
  <2> USE DEF shape
  <2>1. CASE Open \/ CreateTrigger \/ CreateSessionIndex \/ CopyZakat \/ DropZakat
    BY <1>5, <2>1 DEF Open, CreateTrigger, CreateSessionIndex, CopyZakat, DropZakat
  <2>2. CASE StartMigrations \/ ApplyMigration \/ CreateReversalIndex
    BY <1>5, <2>2 DEF StartMigrations, ApplyMigration, CreateReversalIndex
  <2>3. CASE MarkPayments \/ BackfillPieces \/ BackfillTrays \/ SeedPrefix \/ StartNumbering
    BY <1>5, <2>3 DEF MarkPayments, BackfillPieces, BackfillTrays, SeedPrefix, StartNumbering
  <2>4. CASE AssignNumber \/ SeedCounter \/ ClearWeighed \/ Stamp \/ FinishOpening
    BY <1>5, <2>4 DEF AssignNumber, SeedCounter, ClearWeighed, Stamp, FinishOpening
  <2>5. CASE (\E l \in Ledgers, y \in Years : Sell(l, y)) \/ CloseSession \/ OpenSession
    BY <1>5, <2>5 DEF Sell, CloseSession, OpenSession
  <2>6. CASE Quit \/ PowerCut \/ UNCHANGED vars
    BY <1>5, <2>6 DEF Quit, PowerCut, vars
  <2>7. QED
    BY <1>1, <1>2, <1>3, <1>4, <2>1, <2>2, <2>3, <2>4, <2>5, <2>6 DEF Next

\* Which row pays an invoice does not depend on what is marked.
LEMMA PaidStays ==
    ASSUME Types, MarkPayments, NEW i \in DOMAIN payments
    PROVE  /\ PaidOnInvoice(i)' <=> PaidOnInvoice(i)
           /\ PaidOnInvoice(i) => payments'[i].initial = TRUE
           /\ ~PaidOnInvoice(i) => payments'[i] = payments[i]
<1>1. /\ DOMAIN payments = 1..Len(payments) /\ Len(payments) \in Nat
      /\ \A j \in DOMAIN payments : payments[j] \in PaymentRows
  BY LenProperties, ElementOfSeq DEF Types, BookTypes
<1>2. \A j \in DOMAIN payments :
         payments'[j] = IF PaidOnInvoice(j) THEN [payments[j] EXCEPT !.initial = TRUE] ELSE payments[j]
  BY DEF MarkPayments
<1>3. ASSUME NEW j \in DOMAIN payments
      PROVE  /\ payments'[j].purchase = payments[j].purchase /\ payments'[j].noted = payments[j].noted
             /\ payments'[j].agrees = payments[j].agrees
             /\ PaidOnInvoice(j) => payments'[j].initial = TRUE
             /\ ~PaidOnInvoice(j) => payments'[j] = payments[j]
  BY <1>1, <1>2 DEF PaymentRows
<1>4. \A j \in 1..i - 1 : j \in DOMAIN payments
  BY <1>1
<1>5. PaidOnInvoice(i)' <=> PaidOnInvoice(i)
  BY <1>3, <1>4 DEF PaidOnInvoice
<1>6. QED
  BY <1>3, <1>5

\* Every step keeps the marks, unless the power is cut between the column and them.
LEMMA NextMarksDone ==
    ASSUME Types, Program, OldRows, MarksDone, [Next]_vars
    PROVE  MarksDone'
<1> SUFFICES ASSUME "marks" \notin torn', NEW i \in DOMAIN payments'
             PROVE  \/ payments'[i].initial = MarkOf(i)'
                    \/ /\ ~payments'[i].initial /\ found'.version < 11
                       /\ Marker \notin columns' \/ Left(<<"mark">>)'
  BY DEF MarksDone
<1>1. found' = found
  BY FoundStays
<1>2. "marks" \notin torn
  BY TornGrows
<1>3. i \in DOMAIN payments
  BY BookSteps, PaymentsRewritten
<1>4. \/ payments[i].initial = MarkOf(i)
      \/ /\ ~payments[i].initial /\ found.version < 11
         /\ Marker \notin columns \/ Left(<<"mark">>)
  BY <1>2, <1>3 DEF MarksDone
<1>5. CASE MarkPayments
  <2>1. At("mark")
    BY <1>5 DEF MarkPayments
  <2>2. version < 11
    BY <2>1, AtHand DEF Newer
  <2>3. found.version < 11
    BY <2>2, VersionRange, OlderFile DEF kSchemaVersion
  <2>4. MarkOf(i) = PaidOnInvoice(i) /\ MarkOf(i)' = PaidOnInvoice(i)'
    BY <1>1, <2>3 DEF MarkOf
  <2>5. payments'[i].initial = MarkOf(i)'
    <3>1. CASE PaidOnInvoice(i)
      <4>1. payments'[i].initial = TRUE /\ PaidOnInvoice(i)'
        BY <1>3, <1>5, <3>1, PaidStays
      <4>2. PaidOnInvoice(i)' = TRUE
        BY <4>1, Zenon DEF PaidOnInvoice
      <4>3. QED
        BY <2>4, <4>1, <4>2, Zenon
    <3>2. CASE ~PaidOnInvoice(i)
      <4>1. payments'[i] = payments[i] /\ ~PaidOnInvoice(i)'
        BY <1>3, <1>5, <3>2, PaidStays
      <4>2. PaidOnInvoice(i)' = FALSE /\ PaidOnInvoice(i) = FALSE
        BY <3>2, <4>1, Zenon DEF PaidOnInvoice
      <4>3. payments[i].initial \in BOOLEAN
        <5>1. payments \in Seq(PaymentRows)
          BY DEF Types, BookTypes
        <5>2. payments[i] \in PaymentRows
          BY <1>3, <5>1, LenProperties, ElementOfSeq
        <5>3. QED
          BY <5>2 DEF PaymentRows
      <4>4. payments[i].initial = FALSE
        BY <1>4, <2>4, <4>2, <4>3, Zenon
      <4>5. QED
        BY <2>4, <4>1, <4>2, <4>4, Zenon
    <3>3. QED
      BY <3>1, <3>2
  <2>6. QED
    BY <2>5
<1>6. CASE payments' = payments /\ ~MarkPayments
  <2>1. MarkOf(i)' = MarkOf(i)
    BY <1>1, <1>6, Zenon DEF MarkOf, PaidOnInvoice
  <2>2. CASE payments[i].initial = MarkOf(i)
    BY <1>6, <2>1, <2>2, Zenon
  <2>3. CASE ~payments[i].initial /\ found.version < 11 /\ Left(<<"mark">>)
    <3>1. todo # <<>> /\ todo[1] = <<"mark">>
      BY <2>3 DEF Left, Program, MarkFirst
    <3>2. phase = "opening" /\ todo[1][1] = "mark"
      BY <3>1 DEF Program
    <3>3. At("mark")
      BY <3>1, <3>2 DEF At
    <3>4. ~PowerCut
      BY <3>3 DEF PowerCut
    <3>5. UNCHANGED vars
      BY <1>6, <3>1, <3>2, <3>4, WorkAtHand
    <3>6. Left(<<"mark">>)'
      BY <2>3, <3>5 DEF vars, program, Left
    <3>7. QED
      BY <1>1, <1>6, <2>3, <3>6
  <2>4. CASE ~payments[i].initial /\ found.version < 11 /\ Marker \notin columns
    <3>1. "supplier_payments" \in tables
      BY <1>3 DEF OldRows
    <3>2. Marker \notin columns' \/ Left(<<"mark">>)'
      BY <2>4, <3>1, MarkerComes
    <3>3. QED
      BY <1>1, <1>6, <2>4, <3>2
  <2>5. QED
    BY <1>4, <2>2, <2>3, <2>4
<1>7. QED
  BY <1>5, <1>6, BookSteps

----------------------------------------------------------------------------
(* The cartons of the products. *)

\* Products are those that were found.
LEMMA ProductsOf ==
    ASSUME Types, OldRows, NEW p \in DOMAIN products
    PROVE  /\ p \in DOMAIN found.products
           /\ products[p] \in ProductRows /\ found.products[p] \in ProductRows
<1>1. products \in Seq(ProductRows) /\ found.products \in Seq(ProductRows)
  BY DatabasesAssumption DEF Types, FileTypes, BookTypes, Readable
<1>2. Len(products) = Len(found.products)
  BY DEF OldRows
<1>3. QED
  BY <1>1, <1>2, LenProperties, ElementOfSeq

\* What versions 14 and 16 change is ahead in the files that are older.
LEMMA InitCartonsDone ==
    ASSUME Init
    PROVE  CartonsDone
<1>1. /\ found \in OldDatabases /\ products = found.products /\ version = found.version
      /\ phase = "closed"
  BY DEF Init
<1>2. found.version \in 0..kSchemaVersion /\ found.products \in Seq(ProductRows)
  BY <1>1, DatabasesAssumption DEF Readable
<1>3. ASSUME NEW p \in DOMAIN products, NEW was, was = found.products[p]
      PROVE  \/ was.perPackage = CartonOf(was)
             \/ ~was.weighed /\ Ahead(14, <<"trays">>)
             \/ was.weighed /\ Ahead(16, <<"weighed">>)
  <2>1. CASE version < 14 /\ ~was.weighed
    BY <1>1, <2>1 DEF Ahead
  <2>2. CASE version < 16 /\ was.weighed
    BY <1>1, <2>2 DEF Ahead
  <2>3. CASE ~(version < 14) /\ (~(version < 16) \/ ~was.weighed)
    BY <1>1, <2>3 DEF CartonOf
  <2>4. QED
    BY <1>1, <1>2, <2>1, <2>2, <2>3 DEF kSchemaVersion
<1>4. QED
  BY <1>1, <1>3 DEF CartonsDone

\* The swap is for an old file, whose products have no cartons of the new kind yet.
LEMMA SwapCartons ==
    ASSUME Types, Program, Shape, OldRows, SwapProducts, blankRefused, found' = found,
           NEW p \in DOMAIN products, NEW was, was = found.products[p],
           products[p].packageSize = was.packageSize
    PROVE  /\ products'[p].packageSize = was.packageSize /\ products'[p].weighed = was.weighed
           /\ ~was.weighed /\ products'[p].perPackage = was.perPackage /\ Ahead(14, <<"trays">>)'
<1>1. version < 13 /\ found.blankRefused
  BY DEF Shape, FileKeeps
<1>2. found.version < 13
  BY <1>1, VersionRange, OlderFile DEF kSchemaVersion
<1>3. was \in ProductRows /\ products[p] \in ProductRows /\ p \in DOMAIN found.products
  BY ProductsOf
<1>4. was.perPackage = 1 /\ ~was.weighed
  BY <1>1, <1>2, <1>3, DatabasesAssumption DEF DefaultsBefore, Types, FileTypes
<1>5. products'[p] = [products[p] EXCEPT !.perPackage = 1, !.weighed = FALSE]
  BY DEF SwapProducts
<1>6. products'[p].packageSize = was.packageSize /\ products'[p].perPackage = 1
      /\ products'[p].weighed = FALSE
  BY <1>3, <1>5 DEF ProductRows
<1>7. was.weighed = FALSE
  BY <1>3, <1>4 DEF ProductRows
<1>8. Ahead(14, <<"trays">>)'
  <2>1. At("products") /\ version' = version /\ phase = "opening" /\ phase' = phase
    BY DEF SwapProducts, At, Then
  <2>2. todo' = Replayed \o Tail(todo)
    BY DEF SwapProducts, Then
  <2>3. Pushed(Replayed)
    BY <2>1, OnePushed, NothingPushed DEF Replayed
  <2>4. todo \in Seq(Stmts) /\ todo # <<>> /\ todo[1] \in Stmts /\ todo[1][1] = "products" /\ Left(todo[1])
    BY <2>1, AtHand
  <2>5. todo[1] = <<"products">>
    BY <2>4, Kinds
  <2>6. todo[Len(todo)] = <<"migrate">>
    BY <2>4, <2>5 DEF Program, Ends
  <2>7. Len(todo) \in DOMAIN todo
    BY <2>4, LenProperties, EmptySeq
  <2>8. Left(<<"migrate">>) /\ <<"migrate">> # todo[1]
    BY <2>5, <2>6, <2>7 DEF Left
  <2>9. Replayed \in Seq(Stmts)
    BY <2>3 DEF Pushed
  <2>10. Left(<<"migrate">>)'
    BY <2>1, <2>2, <2>8, <2>9, LeftAfter
  <2>11. QED
    BY <1>1, <2>1, <2>10, VersionRange DEF Ahead
<1>9. QED
  BY <1>4, <1>6, <1>7, <1>8

\* The carton of a product that is not weighed is given back once; one that is weighed
\* loses it in a later version.
LEMMA TrayCartons ==
    ASSUME Types, Program, Shape, OldRows, BackfillTrays, NEW p \in DOMAIN products,
           NEW was, was = found.products[p],
           products[p].packageSize = was.packageSize, products[p].weighed = was.weighed,
           \/ products[p].perPackage = CartonOf(was)
           \/ products[p].perPackage = was.perPackage
           \/ was.weighed
    PROVE  /\ products'[p].packageSize = was.packageSize /\ products'[p].weighed = was.weighed
           /\ \/ products'[p].perPackage = CartonOf(was)
              \/ was.weighed /\ Ahead(16, <<"weighed">>)'
<1>1. At("trays") /\ version' = version /\ todo' = <<>> \o Tail(todo) /\ phase' = phase
      /\ products'[p] = IF products[p].packageSize > 1 /\ products[p].perPackage = 1
                        THEN [products[p] EXCEPT !.perPackage = products[p].packageSize]
                        ELSE products[p]
  BY DEF BackfillTrays, Done, Then
<1>2. was \in ProductRows /\ products[p] \in ProductRows
  BY ProductsOf
<1>3. todo \in Seq(Stmts) /\ 1 \in DOMAIN todo /\ todo[1] \in Stmts /\ todo[1][1] = "trays"
      /\ Newer(todo[1]) /\ phase = "opening"
  BY <1>1, AtHand
<1>4. todo[1] = <<"trays">> /\ version < 14
  BY <1>3, Kinds DEF Newer
<1>5. found.version < 14
  BY <1>4, VersionRange, OlderFile DEF kSchemaVersion
<1>6. PICK size, per : size = was.packageSize /\ per = products[p].perPackage
  OBVIOUS
<1>7. size \in Int /\ per \in Int /\ was.perPackage \in Int
  BY <1>2, <1>6 DEF ProductRows
<1>8. /\ products'[p].packageSize = size /\ products'[p].weighed = was.weighed
      /\ products'[p].perPackage = IF size > 1 /\ per = 1 THEN size ELSE per
  BY <1>1, <1>2, <1>6 DEF ProductRows
<1>9. CASE ~was.weighed
  <2>1. CartonOf(was) = IF size > 1 /\ was.perPackage = 1 THEN size ELSE was.perPackage
    BY <1>5, <1>6, <1>9 DEF CartonOf
  <2>2. per = CartonOf(was) \/ per = was.perPackage
    BY <1>6, <1>9
  <2>3. QED
    BY <1>6, <1>7, <1>8, <2>1, <2>2
<1>10. CASE was.weighed
  <2>1. Left(<<"version", 16>>)
    BY <1>3, <1>4 DEF Program, TraysFirst, Left
  <2>2. <<"version", 16>> # todo[1]
    BY <1>4
  <2>3. Left(<<"version", 16>>)'
    BY <1>1, <2>1, <2>2, EmptySeq, LeftAfter
  <2>4. version < 16
    BY <1>4, VersionRange
  <2>5. QED
    BY <1>1, <1>6, <1>8, <1>10, <2>3, <2>4 DEF Ahead
<1>11. QED
  BY <1>9, <1>10

\* A product sold by weight loses its carton, and no other does.
LEMMA WeighedCartons ==
    ASSUME Types, Program, OldRows, ClearWeighed, NEW p \in DOMAIN products,
           NEW was, was = found.products[p], products[p].weighed = was.weighed
    PROVE  /\ products'[p].packageSize = products[p].packageSize /\ products'[p].weighed = was.weighed
           /\ was.weighed => products'[p].perPackage = CartonOf(was)
           /\ ~was.weighed => products'[p].perPackage = products[p].perPackage
<1>1. At("weighed")
      /\ products'[p] = IF products[p].weighed THEN [products[p] EXCEPT !.perPackage = 1]
                        ELSE products[p]
  BY DEF ClearWeighed
<1>2. products[p] \in ProductRows
  BY ProductsOf
<1>3. version < 16
  BY <1>1, AtHand DEF Newer, kSchemaVersion
<1>4. found.version < 16
  BY <1>3, VersionRange, OlderFile DEF kSchemaVersion
<1>5. was.weighed => CartonOf(was) = 1
  BY <1>4 DEF CartonOf
<1>6. CASE was.weighed
  <2>1. products'[p] = [products[p] EXCEPT !.perPackage = 1]
    BY <1>1, <1>6
  <2>2. QED
    BY <1>2, <1>5, <1>6, <2>1 DEF ProductRows
<1>7. CASE ~was.weighed
  BY <1>1, <1>7
<1>8. QED
  BY <1>6, <1>7

\* Every step keeps the cartons right, or what makes them so ahead.
LEMMA NextCartonsDone ==
    ASSUME Types, Program, Shape, OldRows, CartonsDone, [Next]_vars
    PROVE  CartonsDone'
<1>1. found' = found
  BY FoundStays
<1>2. DOMAIN products' = DOMAIN products
  <2>1. products \in Seq(ProductRows) /\ products' \in Seq(ProductRows)
    BY NextBookTypes DEF Types, BookTypes
  <2>2. Len(products') = Len(found'.products) /\ Len(products) = Len(found.products)
    BY NextOldRows DEF OldRows
  <2>3. QED
    BY <1>1, <2>1, <2>2, LenProperties
<1>3. ASSUME NEW p \in DOMAIN products, NEW was, was = found.products[p]
      PROVE  /\ products'[p].packageSize = was.packageSize /\ products'[p].weighed = was.weighed
             /\ \/ products'[p].perPackage = CartonOf(was)
                \/ ~was.weighed /\ products'[p].perPackage = was.perPackage /\ Ahead(14, <<"trays">>)'
                \/ was.weighed /\ Ahead(16, <<"weighed">>)'
  <2>1. /\ products[p].packageSize = was.packageSize /\ products[p].weighed = was.weighed
        /\ \/ products[p].perPackage = CartonOf(was)
           \/ ~was.weighed /\ products[p].perPackage = was.perPackage /\ Ahead(14, <<"trays">>)
           \/ was.weighed /\ Ahead(16, <<"weighed">>)
    BY <1>3 DEF CartonsDone
  <2>2. /\ 14 \in 1..kSchemaVersion /\ <<"trays">> \in OfVersion(14)
        /\ 16 \in 1..kSchemaVersion /\ <<"weighed">> \in OfVersion(16)
        /\ <<"trays">>[1] = "trays" /\ <<"weighed">>[1] = "weighed"
    BY DEF OfVersion, kSchemaVersion
  <2>3. Ahead(14, <<"trays">>) /\ ~BackfillTrays => Ahead(14, <<"trays">>)'
    BY <2>2, AheadStays, WorkAtHand
  <2>4. Ahead(16, <<"weighed">>) /\ ~ClearWeighed => Ahead(16, <<"weighed">>)'
    BY <2>2, AheadStays, WorkAtHand
  <2>5. CASE BackfillTrays
    BY <1>3, <2>1, <2>5, TrayCartons
  <2>6. CASE ClearWeighed
    <3>1. ~BackfillTrays
      BY <2>6 DEF ClearWeighed, BackfillTrays, At
    <3>2. /\ products'[p].packageSize = products[p].packageSize /\ products'[p].weighed = was.weighed
          /\ was.weighed => products'[p].perPackage = CartonOf(was)
          /\ ~was.weighed => products'[p].perPackage = products[p].perPackage
      BY <1>3, <2>1, <2>6, WeighedCartons
    <3>3. QED
      BY <2>1, <2>3, <3>1, <3>2
  <2>7. CASE SwapProducts /\ blankRefused
    BY <1>1, <1>3, <2>1, <2>7, SwapCartons
  <2>8. CASE products' = products /\ ~BackfillTrays /\ ~ClearWeighed
    BY <2>1, <2>3, <2>4, <2>8
  <2>9. QED
    BY <2>5, <2>6, <2>7, <2>8, BookSteps
<1>4. QED
  <2>1. ASSUME NEW was PROVE CartonOf(was)' = CartonOf(was)
    BY <1>1 DEF CartonOf
  <2>2. QED
    BY <1>1, <1>2, <1>3, <2>1 DEF CartonsDone, CartonOf

----------------------------------------------------------------------------
(* The numbers of the old rows. *)

\* The steps that write the counters or the counts.
LEMMA CounterSteps ==
    ASSUME [Next]_vars
    PROVE  /\ \/ counters' = counters
              \/ SeedCounter /\ UNCHANGED <<version, ledger, todo, phase>>
              \/ \E l \in Ledgers, y \in Years : Sell(l, y)
           /\ perYear' = perYear \/ Open \/ PowerCut \/ AssignNumber \/ SeedCounter
<1> USE DEF books, Done
<1>1. CASE Open \/ CreateTable \/ CreateTrigger \/ CreateSessionIndex \/ CopyZakat \/ DropZakat
  BY <1>1 DEF Open, CreateTable, CreateTrigger, CreateSessionIndex, CopyZakat, DropZakat
<1>2. CASE AddColumn \/ StartMigrations \/ ApplyMigration \/ CreateReversalIndex
  BY <1>2 DEF AddColumn, StartMigrations, ApplyMigration, CreateReversalIndex
<1>3. CASE SwapProducts
  BY <1>3 DEF SwapProducts
<1>4. CASE AddMarker \/ MarkPayments \/ BackfillPieces \/ BackfillTrays \/ SeedPrefix \/ StartNumbering
  BY <1>4 DEF AddMarker, MarkPayments, BackfillPieces, BackfillTrays, SeedPrefix, StartNumbering
<1>5. CASE AssignNumber
  BY <1>5 DEF AssignNumber
<1>6. CASE SeedCounter
  BY <1>6 DEF SeedCounter
<1>7. CASE ClearWeighed \/ Stamp \/ FinishOpening
  BY <1>7 DEF ClearWeighed, Stamp, FinishOpening
<1>8. CASE (\E l \in Ledgers, y \in Years : Sell(l, y)) \/ CloseSession \/ OpenSession
  BY <1>8 DEF Sell, CloseSession, OpenSession, program
<1>9. CASE Quit \/ PowerCut \/ UNCHANGED vars
  BY <1>9 DEF Quit, PowerCut, vars, program
<1>10. QED
  BY <1>1, <1>2, <1>3, <1>4, <1>5, <1>6, <1>7, <1>8, <1>9 DEF Next

\* The steps that write papers or counters.
LEMMA PaperSteps ==
    ASSUME Types, Program, [Next]_vars
    PROVE  \/ SamePapers /\ counters' = counters
           \/ AssignNumber /\ Unnumbered(Arg) # {}
           \/ SeedCounter /\ SamePapers /\ UNCHANGED <<version, ledger, todo, phase>>
           \/ \E l \in Ledgers, y \in Years : Sell(l, y)
<1>1. CASE ledger' = ledger
  BY <1>1, SameLedger, CounterSteps
<1>2. CASE BackfillPieces
  <2>1. counters' = counters
    BY <1>2 DEF BackfillPieces
  <2>2. QED
    BY <1>2, <2>1, BackfilledPapers
<1>3. QED
  BY <1>1, <1>2, BookSteps

\* The numbering is left once.
LEMMA OnceLeft ==
    ASSUME Program, NEW s \in Numbering, NEW t \in Numbering, Left(s), Left(t)
    PROVE  s = t
BY DEF Program, NumberingOnce, Left

\* While rows are still to be numbered, the seeds are, and the numbering has begun.
LEMMA AssignLeft ==
    ASSUME Program, NEW l, Left(<<"assign", l>>)
    PROVE  /\ phase = "opening" /\ todo # <<>> /\ Left(<<"seed">>)
           /\ ~Left(<<"migrate">>) /\ ~Left(<<"version", 15>>) /\ ~Left(<<"number">>)
           /\ todo[1] # <<"seed">>
<1>1. PICK m \in DOMAIN todo : todo[m] = <<"assign", l>>
  BY DEF Left
<1>2. todo[m][1] = "assign"
  BY <1>1
<1>3. PICK n \in DOMAIN todo : m < n /\ todo[n] = <<"seed">>
  BY <1>1, <1>2 DEF Program, NumberingOnce
<1>4. Left(<<"seed">>)
  BY <1>3 DEF Left
<1>5. <<"seed">> # <<"migrate">> /\ <<"seed">> # <<"version", 15>> /\ <<"seed">> # <<"number">>
  OBVIOUS
<1>6. ~Left(<<"migrate">>) /\ ~Left(<<"version", 15>>) /\ ~Left(<<"number">>)
  BY <1>4, <1>5, OnceLeft DEF Numbering
<1>7. todo \in Seq(Stmts) /\ todo # <<>>
  BY <1>1, EmptySeq DEF Program
<1>8. DOMAIN todo = 1..Len(todo) /\ Len(todo) \in Nat
  BY <1>7, LenProperties
<1>9. todo[1] # <<"seed">>
  <2>1. ASSUME todo[1] = <<"seed">> PROVE FALSE
    <3>1. 1 \in DOMAIN todo /\ <<"seed">> \in Numbering
      BY <1>1, <1>8 DEF Numbering
    <3>2. n = 1
      BY <1>3, <2>1, <3>1 DEF Program, NumberingOnce
    <3>3. QED
      BY <1>1, <1>3, <1>8, <3>2
  <2>2. QED
    BY <2>1
<1>10. phase = "opening"
  BY <1>7 DEF Program
<1>11. QED
  BY <1>4, <1>6, <1>7, <1>9, <1>10

\* The credit is numbered after the sales.
LEMMA SalesFirst ==
    ASSUME Program, At("assign")
    PROVE  /\ Arg \in Ledgers /\ todo[1] = <<"assign", Arg>> /\ Left(<<"assign", Arg>>)
           /\ version < 15
           /\ Arg = "customer_transactions" => ~Left(<<"assign", "sales">>)
<1>1. /\ todo \in Seq(Stmts) /\ todo # <<>> /\ 1 \in DOMAIN todo /\ todo[1] \in Stmts
      /\ todo[1][1] = "assign" /\ Left(todo[1]) /\ Newer(todo[1])
  BY AtHand
<1>2. Arg \in Ledgers /\ todo[1] = <<"assign", Arg>>
  BY <1>1, Kinds DEF Arg
<1>3. version < 15
  BY <1>1 DEF Newer
<1>4. ASSUME Arg = "customer_transactions", Left(<<"assign", "sales">>)
      PROVE  FALSE
  <2>1. PICK n \in DOMAIN todo : todo[n] = <<"assign", "sales">>
    BY <1>4 DEF Left
  <2>2. n < 1
    BY <1>1, <1>2, <1>4, <2>1 DEF Program, NumberingOnce
  <2>3. n \in 1..Len(todo) /\ Len(todo) \in Nat
    BY <1>1, LenProperties
  <2>4. QED
    BY <2>2, <2>3
<1>5. QED
  BY <1>1, <1>2, <1>3, <1>4

\* Rows that are still to be numbered stay so until all of them have a number.
LEMMA AssignStays ==
    ASSUME Types, Program, Shape, [Next]_vars, NEW l \in Ledgers, Left(<<"assign", l>>), version < 15
    PROVE  \/ Ahead(15, <<"number">>)'
           \/ version' = version /\ Left(<<"assign", l>>)'
           \/ AssignNumber /\ Arg = l /\ Unnumbered(l) = {}
<1>1. phase = "opening" /\ todo # <<>>
  BY AssignLeft
<1>2. <<"assign", l>>[1] = "assign" /\ <<"assign", l>>[2] = l
  OBVIOUS
<1>3. CASE PowerCut
  BY <1>3 DEF PowerCut, Ahead
<1>4. CASE UNCHANGED vars
  BY <1>4 DEF vars, program, Left
<1>5. CASE todo[1] = <<"assign", l>> /\ ~PowerCut /\ ~UNCHANGED vars
  <2>1. AssignNumber /\ Arg = l
    BY <1>1, <1>2, <1>5, WorkAtHand DEF Arg
  <2>2. CASE Unnumbered(l) = {}
    BY <2>1, <2>2
  <2>3. CASE Unnumbered(l) # {}
    <3>1. todo' = todo /\ version' = version
      BY <2>1, <2>3, NumberRow DEF AssignNumber
    <3>2. QED
      BY <3>1 DEF Left
  <2>4. QED
    BY <2>2, <2>3
<1>6. CASE todo[1] # <<"assign", l>>
  <2>1. CASE Open
    BY <1>1, <2>1 DEF Open
  <2>2. CASE Pushes
    <3>1. PICK k, more : At(k) /\ Pushed(more) /\ Then(more) /\ version' = version
      BY <2>2 DEF Pushes
    <3>2. more \in Seq(Stmts) /\ todo' = more \o Tail(todo)
      BY <3>1 DEF Pushed, Then
    <3>3. QED
      BY <1>6, <3>1, <3>2, LeftAfter
  <2>3. CASE StartMigrations \/ Stamp
    <3>1. At("migrate") \/ At("stamp")
      BY <2>3 DEF StartMigrations, Stamp
    <3>2. \A s : Left(s) => s = <<"migrate">> \/ s = <<"stamp">>
      BY <3>1, NothingElse
    <3>3. QED
      BY <1>2, <3>2
  <2>4. CASE UNCHANGED <<version, todo, phase, torn>>
    BY <2>4 DEF Left
  <2>5. CASE phase' # "opening" /\ version' = version /\ todo' = <<>> /\ torn \subseteq torn'
    BY <2>5 DEF Ahead
  <2>6. QED
    BY <2>1, <2>2, <2>3, <2>4, <2>5, StepKinds
<1>7. QED
  BY <1>3, <1>4, <1>5, <1>6

\* Rows come to be numbered when no year has a counter.
LEMMA AssignComes ==
    ASSUME Types, Program, [Next]_vars, NEW l \in Ledgers, Left(<<"assign", l>>)'
    PROVE  \/ Left(<<"assign", l>>)
           \/ /\ StartNumbering /\ todo[1] = <<"number">>
              /\ \A y \in Years : counters[y] = 0
<1>1. <<"assign", l>>[1] = "assign" /\ todo' # <<>>
  BY EmptySeq DEF Left
<1>2. CASE Open
  <2>1. Left(<<"assign", l>>)' => <<"assign", l>> \in Listed(Opening)
    BY <1>2 DEF Open, Left, Listed
  <2>2. <<"assign", l>> \notin EntryStmts
    BY <1>1 DEF EntryStmts
  <2>3. QED
    BY <1>1, <2>1, <2>2, OpeningProperties
<1>3. CASE Pushes
  <2>1. PICK k, more : At(k) /\ Pushed(more) /\ Then(more)
    BY <1>3 DEF Pushes
  <2>2. more \in Seq(Stmts) /\ todo' = more \o Tail(todo)
    BY <2>1 DEF Pushed, Then
  <2>3. Left(<<"assign", l>>) \/ <<"assign", l>> \in Listed(more)
    BY <2>1, <2>2, LeftBefore
  <2>4. CASE <<"assign", l>> \in Listed(more) /\ ~Left(<<"assign", l>>)
    <3>1. todo[1] = <<"number">>
      BY <1>1, <2>1, <2>4 DEF Pushed, Listed
    <3>2. phase = "opening" /\ todo # <<>>
      BY <2>1, AtHand
    <3>3. ~PowerCut
      BY <1>1 DEF PowerCut
    <3>4. ~UNCHANGED vars
      BY <2>4 DEF vars, program, Left
    <3>5. <<"number">>[1] = "number"
      OBVIOUS
    <3>6. StartNumbering
      BY <3>1, <3>2, <3>3, <3>4, <3>5, WorkAtHand
    <3>7. ASSUME \E y \in Years : counters[y] > 0 PROVE FALSE
      <4>1. todo' = <<>> \o Tail(todo) /\ At("number")
        BY <3>6, <3>7 DEF StartNumbering, Then
      <4>2. <<>> \in Seq(Stmts) /\ Listed(<<>>) = {}
        BY DEF Listed
      <4>3. Left(<<"assign", l>>)
        BY <4>1, <4>2, LeftBefore
      <4>4. QED
        BY <2>4, <4>3
    <3>8. counters \in [Years -> Nat]
      BY DEF Types, BookTypes
    <3>9. QED
      BY <3>1, <3>6, <3>7, <3>8
  <2>5. QED
    BY <2>3, <2>4
<1>4. CASE StartMigrations
  <2>1. At("migrate") /\ todo' = (IF version >= kSchemaVersion THEN <<>> ELSE WorkAfter(version)) \o Tail(todo)
    BY <1>4 DEF StartMigrations, Then
  <2>2. CASE version >= kSchemaVersion
    <3>1. <<>> \in Seq(Stmts) /\ Listed(<<>>) = {}
      BY DEF Listed
    <3>2. QED
      BY <2>1, <2>2, <3>1, LeftBefore
  <2>3. CASE ~(version >= kSchemaVersion)
    <3>1. version \in 0..kSchemaVersion - 1
      BY <2>3, VersionRange DEF kSchemaVersion
    <3> DEFINE u == WorkAfter(version)
    <3>2. /\ u \in Seq(Stmts) /\ DOMAIN u = 1..kSchemaVersion - version + 1
          /\ \A n \in 1..kSchemaVersion - version : u[n] = <<"version", version + n>>
          /\ u[kSchemaVersion - version + 1] = <<"stamp">>
      BY <3>1, WorkProperties
    <3>3. todo' = u \o Tail(todo)
      BY <2>1, <2>3
    <3> HIDE DEF u
    <3>4. ASSUME NEW n \in DOMAIN u PROVE u[n] # <<"assign", l>>
      <4>1. n \in 1..kSchemaVersion - version \/ n = kSchemaVersion - version + 1
        BY <3>1, <3>2 DEF kSchemaVersion
      <4>2. u[n][1] \in {"version", "stamp"}
        BY <3>2, <4>1
      <4>3. QED
        BY <1>1, <4>2
    <3>5. <<"assign", l>> \notin Listed(u)
      BY <3>4 DEF Listed
    <3>6. QED
      BY <2>1, <3>2, <3>3, <3>5, LeftBefore
  <2>4. QED
    BY <2>2, <2>3
<1>5. CASE Stamp
  <2>1. At("stamp") /\ todo' = <<>> \o Tail(todo)
    BY <1>5 DEF Stamp, Done, Then
  <2>2. <<>> \in Seq(Stmts) /\ Listed(<<>>) = {}
    BY DEF Listed
  <2>3. QED
    BY <2>1, <2>2, LeftBefore
<1>6. CASE UNCHANGED <<version, todo, phase, torn>>
  BY <1>6 DEF Left
<1>7. QED
  BY <1>1, <1>2, <1>3, <1>4, <1>5, <1>6, StepKinds

\* A place among the papers is counted from one.
LEMMA PlacesFromOne ==
    ASSUME Types, NEW l \in Ledgers, NEW i \in DOMAIN found.ledger[l]
    PROVE  PaperOrder(l, i) \in Nat \ {0}
<1>1. \A m \in Ledgers : found.ledger[m] \in Seq(LedgerRows)
  BY DatabasesAssumption DEF Types, FileTypes, Readable
<1>2. \A m \in Ledgers : Len(found.ledger[m]) \in Nat /\ DOMAIN found.ledger[m] = 1..Len(found.ledger[m])
  BY <1>1, LenProperties
<1>3. PICK y : y = found.ledger[l][i].year
  OBVIOUS
<1> DEFINE Own == {j \in 1..i : found.ledger[l][j].year = y}
           Sold == {j \in DOMAIN found.ledger["sales"] : found.ledger["sales"][j].year = y}
<1>4. i \in Nat \ {0} /\ i \in 1..i
  BY <1>2
<1>5. Cardinality(Own) \in Nat \ {0}
  <2>1. IsFiniteSet(1..i)
    BY <1>4, FS_Interval
  <2>2. Own \in SUBSET (1..i) /\ i \in Own
    BY <1>3, <1>4
  <2> HIDE DEF Own
  <2>3. IsFiniteSet(Own) /\ Own # {}
    BY <2>1, <2>2, FS_Subset
  <2>4. Cardinality(Own) \in Nat /\ Cardinality(Own) # 0
    BY <2>3, FS_CardinalityType, FS_EmptySet
  <2>5. QED
    BY <2>4
<1>6. Cardinality(Sold) \in Nat
  <2>1. "sales" \in Ledgers
    BY DEF Ledgers
  <2>2. IsFiniteSet(DOMAIN found.ledger["sales"])
    <3>1. Len(found.ledger["sales"]) \in Int /\ DOMAIN found.ledger["sales"] = 1..Len(found.ledger["sales"])
      BY <1>2, <2>1
    <3>2. IsFiniteSet(1..Len(found.ledger["sales"]))
      BY <3>1, FS_Interval
    <3>3. QED
      BY <3>1, <3>2
  <2>3. Sold \in SUBSET DOMAIN found.ledger["sales"]
    OBVIOUS
  <2> HIDE DEF Sold
  <2>4. IsFiniteSet(Sold)
    BY <2>2, <2>3, FS_Subset
  <2>5. QED
    BY <2>4, FS_CardinalityType
<1>7. CASE l = "sales"
  <2>1. PaperOrder(l, i) = Cardinality(Own)
    BY <1>3, <1>7 DEF PaperOrder
  <2>2. QED
    BY <1>5, <2>1
<1>8. CASE l # "sales"
  <2>1. PaperOrder(l, i) = Cardinality(Sold) + Cardinality(Own)
    BY <1>3, <1>8 DEF PaperOrder
  <2> HIDE DEF Own, Sold
  <2>2. QED
    BY <1>5, <1>6, <2>1
<1>9. QED
  BY <1>7, <1>8

\* The numbered rows of a year are finitely many.
LEMMA NumberedRows ==
    ASSUME BookTypes, NEW l \in Ledgers, NEW y
    PROVE  IsFiniteSet(NumberedOf(l, y)) /\ Cardinality(NumberedOf(l, y)) \in Nat
<1>1. Len(ledger[l]) \in Nat /\ DOMAIN ledger[l] = 1..Len(ledger[l])
  BY RowsOf
<1>2. IsFiniteSet(1..Len(ledger[l]))
  BY <1>1, FS_Interval
<1>3. NumberedOf(l, y) \in SUBSET (1..Len(ledger[l]))
  BY <1>1 DEF NumberedOf
<1>4. QED
  BY <1>2, <1>3, FS_Subset, FS_CardinalityType

\* While the file is older than the numbering, its rows are the old ones.
LEMMA SameRows ==
    ASSUME Types, OldRows, version < 15, NEW l \in Ledgers
    PROVE  /\ DOMAIN ledger[l] = DOMAIN found.ledger[l]
           /\ \A i \in DOMAIN ledger[l] : ledger[l][i].year = found.ledger[l][i].year
           /\ found.version < 15
<1>1. ledger[l] \in Seq(LedgerRows) /\ found.ledger[l] \in Seq(LedgerRows)
  BY DatabasesAssumption DEF Types, FileTypes, BookTypes, Readable
<1>2. version < kSchemaVersion
  BY VersionRange DEF kSchemaVersion
<1>3. Len(ledger[l]) = Len(found.ledger[l])
  BY <1>2 DEF OldRows
<1>4. DOMAIN ledger[l] = DOMAIN found.ledger[l]
  BY <1>1, <1>3, LenProperties
<1>5. QED
  BY <1>2, <1>4, OlderFile DEF OldRows

\* The number that is given next is the place of the row among the papers.
LEMMA NextPlace ==
    ASSUME Types, Program, OldRows, PapersDone, CountsDone, At("assign"),
           NEW i \in Unnumbered(Arg), \A j \in Unnumbered(Arg) : i <= j
    PROVE  perYear[ledger[Arg][i].year] + 1 = NumberOf(Arg, i)
<1>1. PICK l \in Ledgers : /\ l = Arg /\ todo[1] = <<"assign", l>> /\ Left(<<"assign", l>>)
                           /\ version < 15
                           /\ l = "customer_transactions" => ~Left(<<"assign", "sales">>)
  BY SalesFirst
<1>2. PICK y : y = ledger[l][i].year
  OBVIOUS
<1>3. "sales" \in Ledgers /\ "customer_transactions" \in Ledgers
      /\ (l = "sales" \/ l = "customer_transactions")
  BY DEF Ledgers
<1>4. /\ i \in DOMAIN ledger[l] /\ y \in Years
      /\ DOMAIN ledger[l] = 1..Len(ledger[l]) /\ Len(ledger[l]) \in Nat
      /\ \A j \in DOMAIN ledger[l] : ledger[l][j].number \in Nat
  BY <1>1, <1>2, RowsOf DEF Unnumbered, Types
<1>5. \A m \in Ledgers : /\ DOMAIN ledger[m] = DOMAIN found.ledger[m]
                         /\ \A j \in DOMAIN ledger[m] : ledger[m][j].year = found.ledger[m][j].year
  BY <1>1, SameRows
<1>6. perYear[y] = Cardinality(NumberedOf("sales", y)) + Cardinality(NumberedOf("customer_transactions", y))
  BY <1>1, <1>4 DEF CountsDone
<1> DEFINE Own == {j \in 1..i : found.ledger[l][j].year = y}
           Sold == {j \in DOMAIN found.ledger["sales"] : found.ledger["sales"][j].year = y}
<1>7. \A j \in 1..i : j \in DOMAIN ledger[l]
  BY <1>4
<1>8. Own = NumberedOf(l, y) \cup {i} /\ i \notin NumberedOf(l, y)
  <2>1. \A j \in DOMAIN ledger[l] : j < i => ledger[l][j].number # 0
    BY <1>1, <1>4 DEF Unnumbered
  <2>2. \A j \in DOMAIN ledger[l] : i < j => ledger[l][j].number = 0
    BY <1>1, <1>4 DEF Unnumbered, CountsDone, NumberedFirst
  <2>3. ledger[l][i].number = 0
    BY <1>1 DEF Unnumbered
  <2>4. i \in Own
    BY <1>2, <1>4, <1>5
  <2>5. \A j \in NumberedOf(l, y) : j \in Own
    <3>1. ASSUME NEW j \in NumberedOf(l, y) PROVE j \in Own
      <4>1. j \in DOMAIN ledger[l] /\ ledger[l][j].number # 0 /\ ledger[l][j].year = y
        BY DEF NumberedOf
      <4>2. j \in 1..i
        BY <1>4, <2>2, <2>3, <4>1
      <4>3. QED
        BY <1>5, <4>1, <4>2
    <3>2. QED
      BY <3>1
  <2>6. \A j \in Own : j = i \/ j \in NumberedOf(l, y)
    <3>1. ASSUME NEW j \in Own, j # i PROVE j \in NumberedOf(l, y)
      <4>1. j \in DOMAIN ledger[l] /\ j < i
        BY <1>4, <1>7, <3>1
      <4>2. ledger[l][j].year = y
        BY <1>5, <4>1
      <4>3. QED
        BY <2>1, <4>1, <4>2 DEF NumberedOf
    <3>2. QED
      BY <3>1
  <2>7. i \notin NumberedOf(l, y)
    BY <2>3 DEF NumberedOf
  <2> HIDE DEF Own
  <2>8. QED
    BY <2>4, <2>5, <2>6, <2>7
<1>9. /\ Cardinality(Own) = Cardinality(NumberedOf(l, y)) + 1
      /\ \A m \in Ledgers : Cardinality(NumberedOf(m, y)) \in Nat
  <2> HIDE DEF Own
  <2>1. IsFiniteSet(NumberedOf(l, y))
    BY NumberedRows DEF Types
  <2>2. Cardinality(NumberedOf(l, y) \cup {i}) = Cardinality(NumberedOf(l, y)) + 1
    BY <1>8, <2>1, FS_AddElement
  <2>3. QED
    BY <1>8, <2>2, NumberedRows DEF Types
<1>10. found.version < 15
  BY <1>1, SameRows
<1>11. found.ledger[l][i].year = y
  BY <1>2, <1>4, <1>5
<1>12. CASE l = "sales"
  <2>1. PaperOrder(l, i) = Cardinality(Own)
    BY <1>11, <1>12 DEF PaperOrder
  <2>2. NumberedOf("customer_transactions", y) = {}
    BY <1>1, <1>12 DEF CountsDone, Unnumbered, NumberedOf
  <2>3. Cardinality(NumberedOf("customer_transactions", y)) = 0
    BY <2>2, FS_EmptySet
  <2>4. NumberOf(l, i) = PaperOrder(l, i)
    BY <1>10 DEF NumberOf
  <2> HIDE DEF Own
  <2>5. perYear[y] + 1 = NumberOf(l, i)
    BY <1>3, <1>6, <1>9, <1>12, <2>1, <2>3, <2>4
  <2>6. QED
    BY <1>1, <1>2, <2>5
<1>13. CASE l = "customer_transactions"
  <2>1. PaperOrder(l, i) = Cardinality(Sold) + Cardinality(Own)
    BY <1>11, <1>13 DEF PaperOrder
  <2>2. ASSUME NEW j \in DOMAIN ledger["sales"]
        PROVE  ledger["sales"][j].number # 0
    <3>1. j \in DOMAIN found.ledger["sales"]
      BY <1>3, <1>5
    <3>2. CASE ledger["sales"][j].number = NumberOf("sales", j)
      <4>1. NumberOf("sales", j) = PaperOrder("sales", j)
        BY <1>10 DEF NumberOf
      <4>2. PaperOrder("sales", j) \in Nat \ {0}
        BY <1>3, <3>1, PlacesFromOne
      <4>3. QED
        BY <3>2, <4>1, <4>2
    <3>3. CASE Ahead(15, <<"number">>)
      BY <1>1, <3>3, AssignLeft DEF Ahead
    <3>4. CASE Left(<<"assign", "sales">>)
      BY <1>1, <1>13, <3>4
    <3>5. QED
      BY <1>3, <3>1, <3>2, <3>3, <3>4 DEF PapersDone
  <2>3. Sold = NumberedOf("sales", y)
    BY <1>3, <1>5, <2>2 DEF NumberedOf
  <2>4. NumberOf(l, i) = PaperOrder(l, i)
    BY <1>10 DEF NumberOf
  <2> HIDE DEF Own, Sold
  <2>5. perYear[y] + 1 = NumberOf(l, i)
    BY <1>3, <1>6, <1>9, <1>13, <2>1, <2>3, <2>4
  <2>6. QED
    BY <1>1, <1>2, <2>5
<1>14. QED
  BY <1>3, <1>12, <1>13

\* A file from before the numbering has no numbers and no counters.
LEMMA InitPapers ==
    ASSUME Init
    PROVE  Papers
<1>1. /\ found \in OldDatabases /\ DefaultsBefore(found)
      /\ ledger = found.ledger /\ counters = found.counters /\ version = found.version
      /\ phase = "closed" /\ todo = <<>>
  BY DatabasesAssumption DEF Init
<1>2. ASSUME NEW l \in Ledgers, NEW i \in DOMAIN found.ledger[l]
      PROVE  \/ ledger[l][i].number = NumberOf(l, i)
             \/ /\ ledger[l][i].number = 0
                /\ Ahead(15, <<"number">>) \/ (version < 15 /\ Left(<<"assign", l>>))
                /\ \A y \in Years : counters[y] = 0
  <2>1. CASE version < 15
    BY <1>1, <2>1 DEF DefaultsBefore, Ahead
  <2>2. CASE ~(version < 15)
    BY <1>1, <2>2 DEF NumberOf
  <2>3. QED
    BY <2>1, <2>2
<1>3. ASSUME version < 15 PROVE CountsDone
  <2>1. \A l \in Ledgers : \A i \in DOMAIN ledger[l] : ledger[l][i].number = 0
    BY <1>1, <1>3 DEF DefaultsBefore
  <2>2. NumberedFirst
    BY <2>1 DEF NumberedFirst
  <2>3. \A s : ~Left(s)
    BY <1>1 DEF Left
  <2>4. QED
    BY <2>2, <2>3 DEF CountsDone
<1>4. QED
  BY <1>2, <1>3 DEF Papers, PapersDone

\* A step that leaves papers and counters alone leaves the numbering as far as it is.
LEMMA PapersStay ==
    ASSUME Types, Program, Shape, OldRows, PapersDone, [Next]_vars, SamePapers, counters' = counters,
           found' = found, ~(AssignNumber /\ Unnumbered(Arg) # {})
    PROVE  PapersDone'
<1> SUFFICES ASSUME NEW l \in Ledgers, NEW i \in DOMAIN found.ledger[l]
             PROVE  \/ ledger'[l][i].number = NumberOf(l, i)'
                    \/ /\ ledger'[l][i].number = 0
                       /\ Ahead(15, <<"number">>)' \/ (version' < 15 /\ Left(<<"assign", l>>)')
                       /\ \A y \in Years : counters'[y] = 0
  BY DEF PapersDone
<1>1. ledger'[l][i].number = ledger[l][i].number /\ i \in DOMAIN ledger[l]
  BY OldRowsStay DEF SamePapers
<1>2. NumberOf(l, i)' = NumberOf(l, i)
  BY DEF NumberOf, PaperOrder
<1>3. CASE ledger[l][i].number = NumberOf(l, i)
  BY <1>1, <1>2, <1>3
<1>4. CASE /\ ledger[l][i].number = 0 /\ Ahead(15, <<"number">>)
           /\ \A y \in Years : counters[y] = 0
  <2>1. 15 \in 1..kSchemaVersion /\ <<"number">> \in OfVersion(15) /\ <<"number">>[1] = "number"
    BY DEF OfVersion, kSchemaVersion
  <2>2. CASE Ahead(15, <<"number">>)'
    BY <1>1, <1>4, <2>2
  <2>3. CASE phase = "opening" /\ todo # <<>> /\ todo[1] = <<"number">> /\ ~PowerCut /\ ~UNCHANGED vars
    <3>1. StartNumbering
      BY <2>1, <2>3, WorkAtHand
    <3> DEFINE more == PerLedger("assign") \o << <<"seed">> >>
    <3>2. At("number") /\ todo' = more \o Tail(todo) /\ version' = version
      <4>1. ~(\E y \in Years : counters[y] > 0)
        BY <1>4
      <4>2. At("number") /\ Then(more) /\ version' = version
        BY <3>1, <4>1 DEF StartNumbering
      <4>3. QED
        BY <4>2 DEF Then
    <3>3. /\ Pushed(more)
          /\ more = << <<"assign", "sales">>, <<"assign", "customer_transactions">>, <<"seed">> >>
      BY <3>2, NumberingPushed
    <3>4. <<"assign", l>> \in Listed(more)
      <4> HIDE DEF more
      <4>1. l = "sales" \/ l = "customer_transactions"
        BY DEF Ledgers
      <4>2. <<"assign", "sales">> \in Listed(more) /\ <<"assign", "customer_transactions">> \in Listed(more)
        <5>1. /\ DOMAIN more = 1..3 /\ more[1] = <<"assign", "sales">>
              /\ more[2] = <<"assign", "customer_transactions">>
          BY <3>3
        <5>2. QED
          BY <5>1 DEF Listed
      <4>3. QED
        BY <4>1, <4>2
    <3>5. more \in Seq(Stmts)
      BY <3>3 DEF Pushed
    <3> HIDE DEF more
    <3>6. Left(<<"assign", l>>)'
      BY <3>2, <3>4, <3>5, LeftAfter
    <3>7. version < 15
      BY <1>4 DEF Ahead
    <3>8. QED
      BY <1>1, <1>4, <3>2, <3>6, <3>7
  <2>4. QED
    BY <1>4, <2>1, <2>2, <2>3, AheadStays
<1>5. CASE /\ ledger[l][i].number = 0 /\ version < 15 /\ Left(<<"assign", l>>)
           /\ \A y \in Years : counters[y] = 0
  <2>1. i \in Unnumbered(l)
    BY <1>1, <1>5 DEF Unnumbered
  <2>2. Ahead(15, <<"number">>)' \/ (version' = version /\ Left(<<"assign", l>>)')
    BY <1>5, <2>1, AssignStays
  <2>3. QED
    BY <1>1, <1>5, <2>2
<1>6. QED
  BY <1>3, <1>4, <1>5 DEF PapersDone

\* Nothing is counted, and no row has a number, when the numbering begins.
LEMMA BeginsWithNone ==
    ASSUME Types, Program, CountsAhead, NumbersKnown, todo[1] = <<"number">>, At("number"),
           \A y \in Years : counters[y] = 0
    PROVE  /\ \A y \in Years : perYear[y] = 0
           /\ \A l \in Ledgers : \A i \in DOMAIN ledger[l] : ledger[l][i].number = 0
<1>1. Left(<<"number">>)
  BY AtHand
<1>2. ~Left(<<"seed">>)
  BY <1>1, OnceLeft DEF Numbering
<1>3. ASSUME NEW y \in Years PROVE perYear[y] = 0
  <2>1. perYear[y] \in Nat
    BY DEF Types, BookTypes
  <2>2. ~(perYear[y] > 0)
    BY <1>2 DEF CountsAhead
  <2>3. QED
    BY <2>1, <2>2
<1>4. ASSUME NEW l \in Ledgers, NEW i \in DOMAIN ledger[l] PROVE ledger[l][i].number = 0
  <2>1. ledger[l][i].number \in Nat /\ ledger[l][i].year \in Years
    BY RowsOf DEF Types
  <2>2. ledger[l][i].number <= perYear[ledger[l][i].year] \/ ledger[l][i].number <= counters[ledger[l][i].year]
    BY DEF NumbersKnown
  <2>3. QED
    BY <1>3, <2>1, <2>2
<1>5. QED
  BY <1>3, <1>4

\* A step that leaves papers and counters alone leaves the counts right.
LEMMA CountingStays ==
    ASSUME Types, Program, CountsAhead, NumbersKnown, CountsDone, [Next]_vars, SamePapers,
           counters' = counters, ~(AssignNumber /\ Unnumbered(Arg) # {})
    PROVE  CountsDone'
<1>1. \A m \in Ledgers : /\ DOMAIN ledger'[m] = DOMAIN ledger[m]
                         /\ Unnumbered(m)' = Unnumbered(m)
                         /\ \A y : NumberedOf(m, y)' = NumberedOf(m, y)
  BY DEF SamePapers, Unnumbered, NumberedOf
<1>2. "sales" \in Ledgers /\ "customer_transactions" \in Ledgers
  BY DEF Ledgers
<1>3. NumberedFirst'
  BY DEF CountsDone, NumberedFirst, SamePapers
<1>4. ASSUME Left(<<"assign", "sales">>)'
      PROVE  Unnumbered("customer_transactions")' = DOMAIN ledger'["customer_transactions"]
  <2>1. CASE Left(<<"assign", "sales">>)
    BY <1>1, <1>2, <2>1 DEF CountsDone
  <2>2. CASE ~Left(<<"assign", "sales">>)
    <3>1. StartNumbering /\ todo[1] = <<"number">> /\ \A y \in Years : counters[y] = 0
      BY <1>2, <1>4, <2>2, AssignComes
    <3>2. At("number")
      BY <3>1 DEF StartNumbering
    <3>3. \A i \in DOMAIN ledger["customer_transactions"] : ledger["customer_transactions"][i].number = 0
      BY <1>2, <3>1, <3>2, BeginsWithNone
    <3>4. Unnumbered("customer_transactions") = DOMAIN ledger["customer_transactions"]
      BY <3>3 DEF Unnumbered
    <3>5. QED
      BY <1>1, <1>2, <3>4
  <2>3. QED
    BY <2>1, <2>2
<1>5. ASSUME NEW l \in Ledgers, Left(<<"assign", l>>)', NEW y \in Years
      PROVE  perYear'[y] = Cardinality(NumberedOf("sales", y)') +
                           Cardinality(NumberedOf("customer_transactions", y)')
  <2>1. CASE Left(<<"assign", l>>)
    <3>1. todo # <<>> /\ todo[1] # <<"seed">> /\ phase = "opening"
      BY <2>1, AssignLeft
    <3>2. ~SeedCounter
      <4>1. ASSUME SeedCounter PROVE FALSE
        <5>1. At("seed")
          BY <4>1 DEF SeedCounter
        <5>2. todo[1] \in Stmts /\ todo[1][1] = "seed"
          BY <5>1, AtHand
        <5>3. QED
          BY <3>1, <5>2, Kinds
      <4>2. QED
        BY <4>1
    <3>3. ~Open
      BY <3>1 DEF Open
    <3>4. ~PowerCut
      <4>1. todo' # <<>>
        BY <1>5, EmptySeq DEF Left
      <4>2. QED
        BY <4>1 DEF PowerCut
    <3>5. AssignNumber => perYear' = perYear
      BY DEF AssignNumber, Done
    <3>6. perYear' = perYear
      BY <3>2, <3>3, <3>4, <3>5, CounterSteps
    <3>7. QED
      BY <1>1, <1>2, <2>1, <3>6 DEF CountsDone
  <2>2. CASE ~Left(<<"assign", l>>)
    <3>1. StartNumbering /\ todo[1] = <<"number">> /\ \A z \in Years : counters[z] = 0
      BY <1>5, <2>2, AssignComes
    <3>2. At("number") /\ perYear' = perYear
      BY <3>1 DEF StartNumbering
    <3>3. /\ perYear[y] = 0
          /\ \A m \in Ledgers : \A i \in DOMAIN ledger[m] : ledger[m][i].number = 0
      BY <3>1, <3>2, BeginsWithNone
    <3>4. NumberedOf("sales", y) = {} /\ NumberedOf("customer_transactions", y) = {}
      BY <1>2, <3>3 DEF NumberedOf
    <3>5. NumberedOf("sales", y)' = {} /\ NumberedOf("customer_transactions", y)' = {}
      BY <1>1, <1>2, <3>4
    <3>6. /\ Cardinality(NumberedOf("sales", y)') = 0
          /\ Cardinality(NumberedOf("customer_transactions", y)') = 0
      BY <3>5, FS_EmptySet
    <3>7. QED
      BY <3>2, <3>3, <3>6
  <2>3. QED
    BY <2>1, <2>2
<1>6. (Left(<<"assign", "sales">>) =>
          Unnumbered("customer_transactions") = DOMAIN ledger["customer_transactions"])'
  BY <1>4
<1>7. (\A l \in Ledgers : Left(<<"assign", l>>) => \A y \in Years :
          perYear[y] = Cardinality(NumberedOf("sales", y))
                       + Cardinality(NumberedOf("customer_transactions", y)))'
  BY <1>5
<1>8. QED
  BY <1>3, <1>6, <1>7 DEF CountsDone

\* A row that gets its number gets the one of its place, and is counted.
LEMMA AssignPapers ==
    ASSUME Types, Program, OldRows, PapersDone, CountsDone, AssignNumber, Unnumbered(Arg) # {},
           BookTypes', found' = found
    PROVE  PapersDone' /\ CountsDone'
<1>1. PICK l \in Ledgers : /\ l = Arg /\ todo[1] = <<"assign", l>> /\ Left(<<"assign", l>>)
                           /\ version < 15
                           /\ l = "customer_transactions" => ~Left(<<"assign", "sales">>)
  BY SalesFirst DEF AssignNumber
<1>2. PICK i \in Unnumbered(l) :
         /\ ledger[l][i].year \in Years
         /\ \A j \in Unnumbered(l) : i <= j
         /\ perYear' = [perYear EXCEPT ![ledger[l][i].year] = perYear[ledger[l][i].year] + 1]
         /\ \A m \in Ledgers : DOMAIN ledger'[m] = DOMAIN ledger[m]
         /\ \A m \in Ledgers : m # l => ledger'[m] = ledger[m]
         /\ \A j \in DOMAIN ledger[l] : j # i => ledger'[l][j] = ledger[l][j]
         /\ ledger'[l][i] = [ledger[l][i] EXCEPT !.number = perYear[ledger[l][i].year] + 1]
  BY <1>1, NumberRow
<1>3. PICK y \in Years : y = ledger[l][i].year
  BY <1>2
<1>4. /\ i \in DOMAIN ledger[l] /\ ledger[l][i] \in LedgerRows /\ ledger[l][i].number = 0
      /\ perYear \in [Years -> Nat] /\ perYear[y] \in Nat /\ counters' = counters
      /\ DOMAIN ledger[l] = 1..Len(ledger[l]) /\ Len(ledger[l]) \in Nat
      /\ version' = version
  BY RowsOf DEF Unnumbered, Types, BookTypes, AssignNumber
<1>5. todo' = todo /\ phase' = phase
  BY NumberRow
<1>6. perYear'[y] = perYear[y] + 1 /\ \A z \in Years : z # y => perYear'[z] = perYear[z]
  BY <1>2, <1>3, <1>4
<1>7. ledger'[l][i].number = perYear[y] + 1 /\ ledger'[l][i].year = y
  BY <1>2, <1>3, <1>4 DEF LedgerRows
<1>8. perYear[y] + 1 = NumberOf(l, i)
  <2>1. At("assign")
    BY DEF AssignNumber
  <2>2. QED
    BY <1>1, <1>2, <1>3, <2>1, NextPlace
<1>9. \A s : Left(s)' <=> Left(s)
  BY <1>5 DEF Left
<1>10. PapersDone'
  <2> SUFFICES ASSUME NEW m \in Ledgers, NEW j \in DOMAIN found.ledger[m]
               PROVE  \/ ledger'[m][j].number = NumberOf(m, j)'
                      \/ /\ ledger'[m][j].number = 0
                         /\ Ahead(15, <<"number">>)' \/ (version' < 15 /\ Left(<<"assign", m>>)')
                         /\ \A z \in Years : counters'[z] = 0
    BY DEF PapersDone
  <2>1. NumberOf(m, j)' = NumberOf(m, j) /\ j \in DOMAIN ledger[m]
    BY OldRowsStay DEF NumberOf, PaperOrder
  <2>2. CASE m = l /\ j = i
    BY <1>7, <1>8, <2>1, <2>2
  <2>3. CASE ~(m = l /\ j = i)
    <3>1. ledger'[m][j] = ledger[m][j]
      BY <1>2, <2>1, <2>3
    <3>2. Ahead(15, <<"number">>)' <=> Ahead(15, <<"number">>)
      BY <1>4, <1>5, <1>9 DEF Ahead
    <3>3. QED
      BY <1>4, <1>9, <2>1, <3>1, <3>2 DEF PapersDone
  <2>4. QED
    BY <2>2, <2>3
<1>11. NumberedFirst'
  <2> SUFFICES ASSUME NEW m \in Ledgers, NEW a \in DOMAIN ledger'[m], NEW b \in DOMAIN ledger'[m],
                      a < b, ledger'[m][b].number # 0
               PROVE  ledger'[m][a].number # 0
    BY DEF NumberedFirst
  <2>1. a \in DOMAIN ledger[m] /\ b \in DOMAIN ledger[m]
    BY <1>2
  <2>2. ledger[m][b].number # 0 => ledger[m][a].number # 0
    BY <2>1 DEF CountsDone, NumberedFirst
  <2>3. CASE m # l
    BY <1>2, <2>2, <2>3
  <2>4. CASE m = l
    <3>1. ledger[l][a].number # 0
      <4>1. CASE b = i
        <5>1. a \notin Unnumbered(l)
          BY <1>2, <1>4, <2>1, <2>4, <4>1
        <5>2. QED
          BY <2>1, <2>4, <5>1 DEF Unnumbered
      <4>2. CASE b # i
        BY <1>2, <2>1, <2>2, <2>4, <4>2
      <4>3. QED
        BY <4>1, <4>2
    <3>2. a # i
      BY <1>4, <3>1
    <3>3. QED
      BY <1>2, <2>1, <2>4, <3>1, <3>2
  <2>5. QED
    BY <2>3, <2>4
<1>12. "sales" \in Ledgers /\ "customer_transactions" \in Ledgers /\ "sales" # "customer_transactions"
       /\ (l = "sales" \/ l = "customer_transactions")
  BY DEF Ledgers
<1>13. ASSUME Left(<<"assign", "sales">>)'
       PROVE  Unnumbered("customer_transactions")' = DOMAIN ledger'["customer_transactions"]
  <2>1. l = "sales" /\ Left(<<"assign", "sales">>)
    BY <1>1, <1>9, <1>12, <1>13
  <2>2. ledger'["customer_transactions"] = ledger["customer_transactions"]
    BY <1>2, <1>12, <2>1
  <2>3. Unnumbered("customer_transactions") = DOMAIN ledger["customer_transactions"]
    BY <2>1 DEF CountsDone
  <2>4. QED
    BY <2>2, <2>3 DEF Unnumbered
<1>14. ASSUME NEW z \in Years
       PROVE  perYear'[z] = Cardinality(NumberedOf("sales", z)')
                            + Cardinality(NumberedOf("customer_transactions", z)')
  <2>1. perYear[z] = Cardinality(NumberedOf("sales", z)) + Cardinality(NumberedOf("customer_transactions", z))
    BY <1>1 DEF CountsDone
  <2>2. \A m \in Ledgers : IsFiniteSet(NumberedOf(m, z)) /\ Cardinality(NumberedOf(m, z)) \in Nat
    BY NumberedRows DEF Types
  <2>3. \A m \in Ledgers : m # l => NumberedOf(m, z)' = NumberedOf(m, z)
    BY <1>2 DEF NumberedOf
  <2>4. CASE z # y
    <3>1. NumberedOf(l, z)' = NumberedOf(l, z)
      <4>1. \A j \in DOMAIN ledger[l] : (ledger'[l][j].number # 0 /\ ledger'[l][j].year = z)
                                        <=> (ledger[l][j].number # 0 /\ ledger[l][j].year = z)
        BY <1>2, <1>4, <1>7, <2>4
      <4>2. QED
        BY <1>2, <4>1 DEF NumberedOf
    <3>2. \A m \in Ledgers : Cardinality(NumberedOf(m, z)') = Cardinality(NumberedOf(m, z))
      BY <2>3, <3>1
    <3>3. perYear'[z] = perYear[z]
      BY <1>6, <2>4
    <3>4. QED
      BY <1>12, <2>1, <3>2, <3>3
  <2>5. CASE z = y
    <3>1. NumberedOf(l, z)' = NumberedOf(l, z) \cup {i} /\ i \notin NumberedOf(l, z)
      <4>1. \A j \in DOMAIN ledger[l] :
               (ledger'[l][j].number # 0 /\ ledger'[l][j].year = z)
               <=> ((ledger[l][j].number # 0 /\ ledger[l][j].year = z) \/ j = i)
        <5>1. ledger'[l][i].number # 0 /\ ledger'[l][i].year = z
          BY <1>4, <1>7, <2>5
        <5>2. QED
          BY <1>2, <5>1
      <4>2. QED
        BY <1>2, <1>4, <4>1 DEF NumberedOf
    <3>2. Cardinality(NumberedOf(l, z)') = Cardinality(NumberedOf(l, z)) + 1
      <4>1. Cardinality(NumberedOf(l, z) \cup {i}) = Cardinality(NumberedOf(l, z)) + 1
        BY <2>2, <3>1, FS_AddElement
      <4>2. QED
        BY <3>1, <4>1
    <3>3. \A m \in Ledgers : m # l => Cardinality(NumberedOf(m, z)') = Cardinality(NumberedOf(m, z))
      BY <2>3
    <3>4. perYear'[z] = perYear[z] + 1
      BY <1>6, <2>5
    <3> DEFINE a == Cardinality(NumberedOf("sales", z))
               b == Cardinality(NumberedOf("customer_transactions", z))
               c == Cardinality(NumberedOf("sales", z)')
               d == Cardinality(NumberedOf("customer_transactions", z)')
    <3>5. a \in Nat /\ b \in Nat /\ perYear[z] = a + b
      BY <1>12, <2>1, <2>2
    <3>6. (c = a + 1 /\ d = b) \/ (c = a /\ d = b + 1)
      BY <1>12, <3>2, <3>3
    <3> HIDE DEF a, b, c, d
    <3>7. perYear'[z] = c + d
      BY <3>4, <3>5, <3>6
    <3>8. QED
      BY <3>7 DEF c, d
  <2>6. QED
    BY <2>4, <2>5
<1>15. (Left(<<"assign", "sales">>) =>
          Unnumbered("customer_transactions") = DOMAIN ledger["customer_transactions"])'
  BY <1>13
<1>16. (\A m \in Ledgers : Left(<<"assign", m>>) => \A z \in Years :
          perYear[z] = Cardinality(NumberedOf("sales", z))
                       + Cardinality(NumberedOf("customer_transactions", z)))'
  BY <1>14
<1>17. CountsDone'
  BY <1>11, <1>15, <1>16 DEF CountsDone
<1>18. QED
  BY <1>10, <1>17

\* When a counter is seeded, or a sale gets its number, the old rows have theirs.
LEMMA PapersFinished ==
    ASSUME Program, Shape, PapersDone, At("seed") \/ phase = "running"
    PROVE  \A l \in Ledgers : \A i \in DOMAIN found.ledger[l] : ledger[l][i].number = NumberOf(l, i)
<1>1. CASE At("seed")
  <2>1. /\ phase = "opening" /\ todo # <<>> /\ 1 \in DOMAIN todo /\ todo[1] \in Stmts
        /\ todo[1][1] = "seed" /\ Left(todo[1])
    BY <1>1, AtHand
  <2>2. todo[1] = <<"seed">>
    BY <2>1, Kinds
  <2>3. \A l : ~Left(<<"assign", l>>)
    BY <2>2, AssignLeft
  <2>4. <<"seed">> # <<"migrate">> /\ <<"seed">> # <<"version", 15>> /\ <<"seed">> # <<"number">>
    OBVIOUS
  <2>5. ~Left(<<"migrate">>) /\ ~Left(<<"version", 15>>) /\ ~Left(<<"number">>)
    BY <2>1, <2>2, <2>4, OnceLeft DEF Numbering
  <2>6. ~Ahead(15, <<"number">>)
    BY <2>1, <2>5 DEF Ahead
  <2>7. QED
    BY <2>3, <2>6 DEF PapersDone
<1>2. CASE phase = "running"
  <2>1. ~(version < 15)
    BY <1>2 DEF Shape, SchemaComplete, kSchemaVersion
  <2>2. QED
    BY <2>1 DEF PapersDone, Ahead
<1>3. QED
  BY <1>1, <1>2

\* Every step keeps the numbering as far as it is.
LEMMA NextPapers ==
    ASSUME Types, Program, Shape, Numbers, OldRows, Papers, [Next]_vars
    PROVE  Papers'
<1> SUFFICES ASSUME "numbers" \notin torn' PROVE PapersDone' /\ (version' < 15 => CountsDone')
  BY DEF Papers
<1>1. "numbers" \notin torn
  BY TornGrows
<1>2. found' = found /\ BookTypes'
  BY FoundStays, NextBookTypes
<1>3. /\ PapersDone /\ (version < 15 => CountsDone) /\ CountsAhead /\ NumbersKnown
  BY <1>1 DEF Papers, Numbers
<1>4. version' < 15 => version < 15
  BY VersionAndTables, VersionRange DEF kSchemaVersion
<1>5. \A l \in Ledgers : \A i \in DOMAIN found'.ledger[l] :
          i \in DOMAIN found.ledger[l] /\ NumberOf(l, i)' = NumberOf(l, i)
  BY <1>2 DEF NumberOf, PaperOrder
<1>6. CASE AssignNumber /\ Unnumbered(Arg) # {}
  <2>1. version < 15
    BY <1>6, SalesFirst DEF AssignNumber
  <2>2. QED
    BY <1>2, <1>3, <1>6, <2>1, AssignPapers
<1>7. CASE SamePapers /\ counters' = counters /\ ~(AssignNumber /\ Unnumbered(Arg) # {})
  BY <1>2, <1>3, <1>4, <1>7, PapersStay, CountingStays
<1>8. CASE SeedCounter /\ SamePapers /\ UNCHANGED <<version, ledger, todo, phase>>
  <2>1. At("seed")
    BY <1>8 DEF SeedCounter
  <2>2. \A l \in Ledgers : \A i \in DOMAIN found.ledger[l] : ledger[l][i].number = NumberOf(l, i)
    BY <1>3, <2>1, PapersFinished
  <2>3. PapersDone'
    BY <1>8, <1>5, <2>2 DEF PapersDone
  <2>4. todo[1] = <<"seed">>
    BY <2>1, AtHand, Kinds
  <2>5. \A l : ~Left(<<"assign", l>>)'
    <3>1. \A l : ~Left(<<"assign", l>>)
      BY <2>4, AssignLeft
    <3>2. QED
      BY <1>8, <3>1 DEF Left
  <2>6. version' < 15 => NumberedFirst'
    BY <1>3, <1>8 DEF CountsDone, NumberedFirst
  <2>7. QED
    BY <2>3, <2>5, <2>6 DEF CountsDone
<1>9. CASE \E l \in Ledgers, y \in Years : Sell(l, y)
  <2>1. PICK m \in Ledgers, y \in Years : Sell(m, y)
    BY <1>9
  <2>2. phase = "running" /\ version' = version
    BY <2>1 DEF Sell
  <2>3. version = kSchemaVersion
    BY <2>2 DEF Shape, SchemaComplete
  <2>4. ASSUME NEW l \in Ledgers, NEW i \in DOMAIN found.ledger[l]
        PROVE  ledger'[l][i].number = NumberOf(l, i)
    <3>1. ledger[l][i].number = NumberOf(l, i) /\ i \in DOMAIN ledger[l]
      BY <1>3, <2>2, PapersFinished, OldRowsStay
    <3>2. ledger'[l][i] = ledger[l][i]
      BY <2>1, <3>1, SellRow
    <3>3. QED
      BY <3>1, <3>2
  <2>5. PapersDone'
    BY <1>5, <2>4 DEF PapersDone
  <2>6. QED
    BY <2>2, <2>3, <2>5 DEF kSchemaVersion
<1>10. QED
  BY <1>6, <1>7, <1>8, <1>9, PaperSteps

----------------------------------------------------------------------------
(* What holds of every opening. *)

\* The inductive invariant.
UpgradeInv ==
    /\ Types /\ Program /\ FoldFirst /\ Shape /\ Numbers /\ CountsFit
    /\ OldRows /\ PiecesDone /\ MarksDone /\ CartonsDone /\ Papers

\* It holds of every file that may be found.
LEMMA InitUpgradeInv == Init => UpgradeInv
<1> SUFFICES ASSUME Init PROVE UpgradeInv
  OBVIOUS
<1>1. Program
  <2>1. todo = <<>>
    BY DEF Init
  <2>2. DOMAIN todo = {} /\ todo \in Seq(Stmts)
    BY <2>1
  <2>3. QED
    BY <2>1, <2>2 DEF Program, Ends, Left, NumberingOnce, TraysFirst, MarkFirst
<1>2. FoldFirst
  BY DEF Init, FoldFirst
<1>3. QED
  BY <1>1, <1>2, InitTypes, InitShape, InitNumbers, InitCountsFit, InitOldRows, InitPiecesDone,
     InitMarksDone, InitCartonsDone, InitPapers DEF UpgradeInv

\* Every step keeps it.
LEMMA NextUpgradeInv == UpgradeInv /\ [Next]_vars => UpgradeInv'
<1> SUFFICES ASSUME UpgradeInv, [Next]_vars PROVE UpgradeInv'
  OBVIOUS
<1>1. /\ Types /\ Program /\ FoldFirst /\ Shape /\ Numbers /\ CountsFit
      /\ OldRows /\ PiecesDone /\ MarksDone /\ CartonsDone /\ Papers
  BY DEF UpgradeInv
<1>2. Types' /\ Program' /\ FoldFirst' /\ Shape'
  BY <1>1, NextFileTypes, NextBookTypes, NextProgram, NextFoldFirst, NextShape DEF Types
<1>3. Numbers' /\ CountsFit'
  BY <1>1, NextNumbers, NextCountsFit
<1>4. OldRows' /\ PiecesDone' /\ MarksDone' /\ CartonsDone' /\ Papers'
  BY <1>1, NextOldRows, NextPiecesDone, NextMarksDone, NextCartonsDone, NextPapers
<1>5. QED
  BY <1>2, <1>3, <1>4 DEF UpgradeInv

\* What the upgrades keep, said of the whole state.
THEOREM UpgradeInvCorrect == Spec => []UpgradeInv
BY InitUpgradeInv, NextUpgradeInv, PTL DEF Spec

\* Every variable keeps its kind of value, and no year counts more papers than it had
\* and than there are rows (migrateReceiptNumbering begun again after a power cut).
THEOREM UpgradeTypeCorrect == Spec => []TypeOK
<1>1. UpgradeInv => TypeOK
  <2> SUFFICES ASSUME UpgradeInv PROVE TypeOK
    OBVIOUS
  <2>1. Types /\ Program /\ CountsFit /\ FileTypes /\ BookTypes
    BY DEF UpgradeInv, Types
  <2>2. version \in 0..kSchemaVersion
    BY <2>1, VersionRange
  <2>3. \A n \in DOMAIN todo : todo[n][1] \in Statements
    BY <2>1, LenProperties, ElementOfSeq, Kinds DEF Program
  <2>4. Total \in Nat /\ NotYet \in Nat /\ Total <= 2 * MaxRows /\ MaxRows \in Nat
    <3> DEFINE a == Len(ledger["sales"])
               b == Len(ledger["customer_transactions"])
    <3>1. "sales" \in Ledgers /\ "customer_transactions" \in Ledgers
      BY DEF Ledgers
    <3>2. a \in Nat /\ b \in Nat /\ a <= MaxRows /\ b <= MaxRows /\ MaxRows \in Nat
      BY <2>1, <3>1, RowsOf, BoundsAssumption DEF CountsFit
    <3>3. Total = a + b
      BY DEF Total
    <3> HIDE DEF a, b
    <3>4. Total <= 2 * MaxRows
      BY <3>2, <3>3
    <3>5. QED
      BY <2>1, <3>2, <3>4, Sums
  <2>5. ASSUME NEW y \in Years
        PROVE  counters[y] <= MostNumbers(y) /\ perYear[y] <= 2 * MaxRows
    <3>1. /\ counters[y] \in Nat /\ perYear[y] \in Nat /\ found.counters[y] \in Nat
          /\ perYear[y] + NotYet <= Total /\ counters[y] <= found.counters[y] + Total
      BY <2>1, FoundCounters DEF CountsFit, BookTypes
    <3>2. MostNumbers(y) = found.counters[y] + 2 * MaxRows
      BY DEF MostNumbers
    <3>3. QED
      BY <2>4, <3>1, <3>2
  <2>6. ASSUME NEW l \in Ledgers, NEW i \in DOMAIN ledger[l]
        PROVE  ledger[l][i].number <= MostNumbers(ledger[l][i].year)
    <3>1. /\ ledger[l][i].number \in Nat /\ ledger[l][i].year \in Years
          /\ ledger[l][i].number <= found.counters[ledger[l][i].year] + Total
      BY <2>1, RowsOf DEF CountsFit
    <3>2. found.counters[ledger[l][i].year] \in Nat
      BY <2>1, <3>1, FoundCounters
    <3>3. MostNumbers(ledger[l][i].year) = found.counters[ledger[l][i].year] + 2 * MaxRows
      BY DEF MostNumbers
    <3>4. QED
      BY <2>4, <3>1, <3>2, <3>3
  <2>7. \A l \in Ledgers : Len(ledger[l]) <= MaxRows
    BY <2>1 DEF CountsFit
  <2>8. QED
    BY <2>1, <2>2, <2>3, <2>5, <2>6, <2>7 DEF TypeOK, FileTypes, BookTypes
<1>2. QED
  BY <1>1, UpgradeInvCorrect, PTL

\* Whatever the file was and however often the power failed, the program never runs
\* without a table, a column or the stock trigger its statements count on.
THEOREM SchemaCompleteCorrect == Spec => []SchemaComplete
<1>1. UpgradeInv => SchemaComplete
  BY DEF UpgradeInv, Shape
<1>2. QED
  BY <1>1, UpgradeInvCorrect, PTL

\* One paper has one number of its year, in both ledgers, unless the power failed
\* within the numbering (migrateReceiptNumbering, mintReceiptNumber).
THEOREM NumbersDifferCorrect == Spec => []NumbersDiffer
<1>1. UpgradeInv => NumbersDiffer
  BY DEF UpgradeInv, Numbers, NumbersDiffer
<1>2. QED
  BY <1>1, UpgradeInvCorrect, PTL

\* No step of an opening, and no power cut in it, loses a setting or puts another
\* value in its place.
THEOREM NoSettingLostCorrect == Spec => NoSettingLost
<1>1. UpgradeInv /\ [Next]_vars => [\A k \in Keys : ValueOf(k) # None => ValueOf(k)' = ValueOf(k)]_vars
  BY NextFoldFirst DEF UpgradeInv
<1>2. QED
  BY <1>1, UpgradeInvCorrect, PTL DEF Spec, NoSettingLost

\* The old rows come to have what one uninterrupted pass over the file would have
\* written (BackfillPieces, MarkPayments, BackfillTrays, ClearWeighed and the numbering),
\* wherever the power was cut but within the numbering or before the marks.
THEOREM UpgradedAsWrittenCorrect == Spec => []UpgradedAsWritten
<1>1. UpgradeInv => UpgradedAsWritten
  <2> SUFFICES ASSUME UpgradeInv, phase = "running", torn = {}
               PROVE  /\ \A l \in Ledgers : \A i \in DOMAIN found.ledger[l] :
                            /\ ledger[l][i].number = NumberOf(l, i)
                            /\ ledger[l][i].pieces = PiecesOf(found.ledger[l][i])
                      /\ \A i \in DOMAIN payments : payments[i].initial = MarkOf(i)
                      /\ \A p \in DOMAIN products : products[p].perPackage = CartonOf(found.products[p])
    BY DEF UpgradedAsWritten
  <2>1. Program /\ Shape /\ PiecesDone /\ MarksDone /\ CartonsDone /\ PapersDone
    BY DEF UpgradeInv, Papers
  <2>2. \A l \in Ledgers : \A i \in DOMAIN found.ledger[l] : ledger[l][i].number = NumberOf(l, i)
    BY <2>1, PapersFinished
  <2>3. 13 \in 1..kSchemaVersion /\ 14 \in 1..kSchemaVersion /\ 16 \in 1..kSchemaVersion
    BY DEF kSchemaVersion
  <2>4. \A s : ~Ahead(13, s) /\ ~Ahead(14, s) /\ ~Ahead(16, s)
    BY <2>1, <2>3, NothingAhead
  <2>5. \A l \in Ledgers : \A i \in DOMAIN found.ledger[l] :
           ledger[l][i].pieces = PiecesOf(found.ledger[l][i])
    BY <2>1, <2>4 DEF PiecesDone
  <2>6. \A p \in DOMAIN products : products[p].perPackage = CartonOf(found.products[p])
    BY <2>1, <2>4 DEF CartonsDone
  <2>7. Marker \in columns /\ ~Left(<<"mark">>)
    BY <2>1, WeightAndMarker DEF Shape, SchemaComplete, Program, Left
  <2>8. \A i \in DOMAIN payments : payments[i].initial = MarkOf(i)
    BY <2>1, <2>7, Zenon DEF MarksDone
  <2>9. QED
    BY <2>2, <2>5, <2>6, <2>8
<1>2. QED
  BY <1>1, UpgradeInvCorrect, PTL
=============================================================================
