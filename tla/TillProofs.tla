----------------------------- MODULE TillProofs -----------------------------
(***************************************************************************)
(* Proofs about the register and the reports.                              *)
(*                                                                         *)
(* A step of the register writes one row, or the row that undoes one, or   *)
(* nothing in the books (EveryStep).  BooksSound is what never changes     *)
(* about those rows: a sale is as it was written, a mirror is the opposite *)
(* of one sale that came to something, and no sale has two.  From it       *)
(* follow the shelf (the pieces of a mirror are those of its sale) and the *)
(* reports: the rows that do not stand come in pairs whose figures cancel  *)
(* out, so every sum over all rows is the sum over the sales that stand.   *)
(***************************************************************************)
EXTENDS Reports, SumTheorems

----------------------------------------------------------------------------
(* What the rows and the lines are. *)

\* What the assumption on the constants gives, one constant at a time.
LEMMA ConstantsAre ==
    /\ \A c \in Prices : c \in Nat \ {0}
    /\ \A n \in PackSizes : n \in Nat \ {0}
    /\ \A q \in Quantities : q \in Nat \ {0}
    /\ \A w \in Weights : w \in Nat \ {0}
    /\ \A a \in Corrections : a \in Nat
    /\ \A y \in Years : y \in Nat
    /\ \A p \in Weighed : p \in Products
    /\ FirstShelf \in Nat /\ MaxSteps \in Nat
    /\ Min(Prices) \in Prices /\ Min(PackSizes) \in PackSizes /\ Min(Years) \in Years
<1>1. Min(Prices) \in Prices /\ Min(PackSizes) \in PackSizes /\ Min(Years) \in Years
  <2>1. \A c \in Prices : c \in Nat
    BY TillAssumption
  <2>2. \A c \in PackSizes : c \in Nat
    BY TillAssumption
  <2>3. \A c \in Years : c \in Nat
    BY TillAssumption
  <2> QED
    BY <2>1, <2>2, <2>3, LeastIn, TillAssumption
<1> QED
  BY <1>1, TillAssumption

\* The screen is a list of lines.
LEMMA LinesAre ==
    ASSUME TypeOK
    PROVE  /\ DOMAIN cart = 1 .. Len(cart) /\ Len(cart) \in Nat /\ IsFiniteSet(DOMAIN cart)
           /\ \A i \in DOMAIN cart : cart[i] \in Line
<1>1. cart \in Seq(Line)
  BY DEF TypeOK
<1> QED
  BY <1>1, RowsAppended

\* The tables are a list of rows, each with its list of lines.
LEMMA RowsAre ==
    ASSUME TypeOK
    PROVE  /\ DOMAIN sales = 1 .. Len(sales) /\ Len(sales) \in Nat /\ IsFiniteSet(DOMAIN sales)
           /\ \A k \in DOMAIN sales : /\ sales[k] \in Sale
                                      /\ sales[k].lines \in Seq(Sold)
                                      /\ IsFiniteSet(DOMAIN sales[k].lines)
                                      /\ \A i \in DOMAIN sales[k].lines : sales[k].lines[i] \in Sold
<1>1. sales \in Seq(Sale)
  BY DEF TypeOK
<1>2. ASSUME NEW k \in DOMAIN sales
      PROVE  /\ sales[k] \in Sale
             /\ sales[k].lines \in Seq(Sold)
             /\ IsFiniteSet(DOMAIN sales[k].lines)
             /\ \A i \in DOMAIN sales[k].lines : sales[k].lines[i] \in Sold
  <2>1. sales[k] \in Sale
    BY <1>1
  <2>2. PICK q \in Seq(Sold) : q = sales[k].lines
    BY <2>1 DEF Sale
  <2>3. IsFiniteSet(DOMAIN q) /\ \A i \in DOMAIN q : q[i] \in Sold
    BY RowsAppended
  <2> QED
    BY <2>1, <2>2, <2>3
<1> QED
  BY <1>1, <1>2, RowsAppended

\* A list is one over a set when each of its elements is of that set.
LEMMA ListIn ==
    ASSUME NEW R, NEW n \in Nat, NEW q, q = [i \in 1 .. n |-> q[i]], \A i \in 1 .. n : q[i] \in R
    PROVE  q \in Seq(R)
OBVIOUS

\* A price times a quantity.
LEMMA ProductNat ==
    ASSUME NEW a \in Nat, NEW b \in Nat
    PROVE  a * b \in Nat
OBVIOUS

\* The same of quantities that come back.
LEMMA ProductInt ==
    ASSUME NEW a \in Int, NEW b \in Int
    PROVE  a * b \in Int
OBVIOUS

\* What the shop asks for a unit is not negative, a carton included.
LEMMA UnitPriceNat ==
    ASSUME TypeOK, NEW p \in Products, NEW unit
    PROVE  UnitPrice(p, unit) \in Nat
<1>1. price[p] \in Nat /\ pack[p] \in Nat
  <2>1. price[p] \in Prices \cup {0} /\ pack[p] \in PackSizes
    BY DEF TypeOK
  <2> QED
    BY <2>1, ConstantsAre
<1> QED
  BY <1>1, ProductNat DEF UnitPrice

\* Nor are the pieces a line takes from the shelf.
LEMMA PiecesNat ==
    ASSUME TypeOK, NEW p \in Products, NEW unit, NEW qty \in Nat
    PROVE  Pieces(p, unit, qty) \in Nat
<1>1. pack[p] \in Nat
  <2>1. pack[p] \in PackSizes
    BY DEF TypeOK
  <2> QED
    BY <2>1, ConstantsAre
<1> QED
  BY <1>1, ProductNat DEF Pieces

\* The cents of a line, a weighed one rounded down, are a whole number.
LEMMA CentsInt ==
    ASSUME NEW l, l.price \in Nat, l.qty \in Int
    PROVE  Cents(l) \in Int
<1>1. l.price * l.qty \in Int
  BY ProductInt
<1> QED
  BY <1>1 DEF Cents

\* So is the total of the lines.
LEMMA LinesTotalInt ==
    ASSUME NEW lines, IsFiniteSet(DOMAIN lines),
           \A i \in DOMAIN lines : lines[i].price \in Nat /\ lines[i].qty \in Int
    PROVE  LinesTotal(lines) \in Int
<1> DEFINE cents == [i \in DOMAIN lines |-> Cents(lines[i])]
<1>1. \A i \in DOMAIN lines : cents[i] \in Int
  BY CentsInt
<1>2. LinesTotal(lines) = SumFunctionOnSet(cents, DOMAIN lines)
  BY DEF LinesTotal, SumFunction
<1> HIDE DEF cents
<1> QED
  BY <1>1, <1>2, SumInt

\* So are the pieces that the lines of a row take of a product,
LEMMA PiecesOfInt ==
    ASSUME NEW lines, IsFiniteSet(DOMAIN lines), NEW p,
           \A i \in DOMAIN lines : lines[i].pieces \in Nat
    PROVE  PiecesOf(p, lines) \in Int
<1> DEFINE pieces == [i \in DOMAIN lines |-> IF lines[i].product = p THEN lines[i].pieces ELSE 0]
<1>1. \A i \in DOMAIN lines : pieces[i] \in Int
  OBVIOUS
<1>2. PiecesOf(p, lines) = SumFunctionOnSet(pieces, DOMAIN lines)
  BY DEF PiecesOf, SumFunction
<1> HIDE DEF pieces
<1> QED
  BY <1>1, <1>2, SumInt

\* for every row that can be in the tables.
LEMMA RowPiecesInt ==
    ASSUME NEW row \in Sale, NEW p
    PROVE  PiecesOf(p, row.lines) \in Int
<1>1. PICK q \in Seq(Sold) : q = row.lines
  BY DEF Sale
<1>2. IsFiniteSet(DOMAIN q)
  BY RowsAppended
<1>3. \A i \in DOMAIN q : q[i] \in Sold
  OBVIOUS
<1>4. \A i \in DOMAIN q : q[i].pieces \in Nat
  BY <1>3 DEF Sold
<1> QED
  BY <1>1, <1>2, <1>4, PiecesOfInt

----------------------------------------------------------------------------
(* The screen. *)

\* The line that a second unit of a product is added to is on the screen.
LEMMA FirstLineIn ==
    ASSUME TypeOK, NEW p, NEW unit, LinesOf(p, unit) # {}
    PROVE  Min(LinesOf(p, unit)) \in DOMAIN cart
<1>1. LinesOf(p, unit) \subseteq DOMAIN cart
  BY DEF LinesOf
<1>2. \A i \in LinesOf(p, unit) : i \in Nat
  BY <1>1, LinesAre
<1> QED
  BY <1>1, <1>2, LeastIn

\* Adding a unit, to a line that is there or as a new one, keeps the screen typed.
LEMMA AddToCartTyped ==
    ASSUME TypeOK, NEW p \in Products, NEW unit \in Kinds, NEW qty \in Nat \ {0}, NEW base \in Nat,
           AddToCart(p, unit, qty, base)
    PROVE  cart' \in Seq(Line)
<1>1. cart \in Seq(Line)
  BY DEF TypeOK
<1>2. CASE LinesOf(p, unit) # {}
  <2>1. PICK i \in DOMAIN cart : i = Min(LinesOf(p, unit))
    BY <1>2, FirstLineIn
  <2>2. cart[i] \in Line
    BY LinesAre
  <2>3. PICK n \in Nat \ {0} : n = cart[i].qty + qty
    BY <2>2 DEF Line
  <2>4. PICK l \in Line : l = [cart[i] EXCEPT !.qty = n]
    BY <2>2, <2>3 DEF Line
  <2>5. cart' = [cart EXCEPT ![i] = l]
    BY <1>2, <2>1, <2>3, <2>4 DEF AddToCart
  <2> QED
    BY <1>1, <2>5
<1>3. CASE LinesOf(p, unit) = {} /\ p \in file
  <2>1. NewLine(p, unit, qty, base) \in Line
    BY UnitPriceNat DEF NewLine, Line
  <2>2. cart' = Append(cart, NewLine(p, unit, qty, base))
    BY <1>3 DEF AddToCart
  <2> QED
    BY <1>1, <2>1, <2>2
<1>4. CASE LinesOf(p, unit) = {} /\ p \notin file
  BY <1>1, <1>4 DEF AddToCart
<1> QED
  BY <1>2, <1>3, <1>4

\* So does rewriting one line.
LEMMA LineChanged ==
    ASSUME TypeOK, NEW i \in DOMAIN cart, NEW l \in Line, cart' = [cart EXCEPT ![i] = l]
    PROVE  cart' \in Seq(Line)
BY DEF TypeOK

\* Moving the other lines up.
LEMMA LineRemoved ==
    ASSUME TypeOK, NEW i \in DOMAIN cart, cart' = RemoveAt(cart, i)
    PROVE  cart' \in Seq(Line)
BY DEF RemoveAt, TypeOK

\* Nothing and a single thing are at most one thing.
LEMMA AtMostOneIn ==
    /\ AtMostOne({})
    /\ \A x : AtMostOne({x})
<1>1. IsFiniteSet({}) /\ Cardinality({}) = 0
  BY FS_EmptySet
<1>2. ASSUME NEW x
      PROVE  AtMostOne({x})
  <2>1. IsFiniteSet({x}) /\ Cardinality({x}) = 1
    BY FS_Singleton
  <2> QED
    BY <2>1 DEF AtMostOne
<1>3. AtMostOne({})
  BY <1>1 DEF AtMostOne
<1> QED
  BY <1>2, <1>3

----------------------------------------------------------------------------
(* The sale that is written. *)

\* A line that is priced again when the sale is recorded keeps everything but its price, and
\* with a price on the screen it keeps that too.
LEMMA ResolvedIs ==
    ASSUME TypeOK, NEW l \in Line
    PROVE  /\ Resolved(l) \in Line
           /\ Resolved(l).kind = l.kind /\ Resolved(l).qty = l.qty
           /\ Resolved(l).product = l.product
           /\ l.price > 0 => Resolved(l) = l
<1>1. PICK n \in Nat : n = IF l.price > 0 THEN l.price ELSE UnitPrice(l.product, l.kind)
  <2>1. l.product \in Products /\ l.price \in Nat
    BY DEF Line
  <2> QED
    BY <2>1, UnitPriceNat
<1>2. Resolved(l) = [l EXCEPT !.price = n]
  BY <1>1 DEF Resolved
<1> QED
  BY <1>1, <1>2 DEF Line

\* What a line of the screen is written as: same product, unit and quantity, same cents.
LEMMA SoldLineIs ==
    ASSUME TypeOK, NEW l \in Line
    PROVE  /\ SoldLine(l) \in Sold
           /\ SoldLine(l).product = l.product /\ SoldLine(l).kind = l.kind
           /\ SoldLine(l).qty = l.qty /\ SoldLine(l).qty > 0
           /\ SoldLine(l).kind # "package" => SoldLine(l).pieces = SoldLine(l).qty
           /\ Cents(SoldLine(l)) = Cents(Resolved(l))
<1>1. l.product \in Products /\ l.kind \in Kinds /\ l.qty \in Nat \ {0}
  BY DEF Line
<1>2. PICK n \in Nat : n = Resolved(l).price
  BY ResolvedIs DEF Line
<1>3. PICK m \in Nat : m = Pieces(l.product, l.kind, l.qty)
  BY <1>1, PiecesNat
<1>4. PICK b \in BOOLEAN : b = Overridden(l)
  BY DEF Overridden
<1>5. PICK row : row = [product |-> l.product, kind |-> l.kind, qty |-> l.qty, price |-> n,
                        pieces |-> m, override |-> b]
  OBVIOUS
<1>6. SoldLine(l) = row
  BY <1>2, <1>3, <1>4, <1>5 DEF SoldLine
<1>7. /\ row.product = l.product /\ row.kind = l.kind /\ row.qty = l.qty /\ row.price = n
      /\ row.pieces = m /\ row \in Sold
  BY <1>1, <1>5 DEF Sold
<1>8. l.kind # "package" => m = l.qty
  BY <1>3 DEF Pieces
<1>9. Cents(row) = Cents(Resolved(l))
  BY <1>2, <1>7, ResolvedIs DEF Cents
<1> QED
  BY <1>1, <1>6, <1>7, <1>8, <1>9

\* What is written when a sale is completed: one row of its own, with the next number of
\* the year, whose total is that of its lines and its adjustment.
Sells(row) ==
    /\ row \in Sale /\ sales' = Append(sales, row)
    /\ row.reverses = 0 /\ row.account = account
    /\ row.receipt = <<year, counter[year] + 1>>
    /\ counter' = [counter EXCEPT ![year] = counter[year] + 1]
    /\ adjustment = {row.adjust}
    /\ row.total = LinesTotal(row.lines) + row.adjust
    /\ row.total = SaleTotal(cart, row.adjust)
    /\ account = {} => row.total > 0
    /\ \A i \in DOMAIN row.lines :
          /\ row.lines[i].product \in file /\ row.lines[i].qty > 0
          /\ row.lines[i].kind # "package" => row.lines[i].pieces = row.lines[i].qty
    /\ shelf' = [p \in Products |-> shelf[p] - PiecesOf(p, row.lines)]
    /\ drawer' = IF account = {} THEN drawer + row.total ELSE drawer

\* A number that can be read from the adjustment field is the one in it.
LEMMA AdjustmentIs ==
    ASSUME TypeOK, adjustment # {}
    PROVE  Max(adjustment) \in Int /\ adjustment = {Max(adjustment)}
<1>1. IsFiniteSet(adjustment) /\ Cardinality(adjustment) <= 1
  BY DEF TypeOK, AtMostOne
<1>2. Cardinality(adjustment) = 1
  BY <1>1, FS_EmptySet, FS_CardinalityType
<1>3. PICK a : adjustment = {a}
  BY <1>1, <1>2, FS_Singleton
<1>4. Max(adjustment) \in adjustment
  <2>1. \A x \in adjustment : x \in Int
    BY DEF TypeOK
  <2> QED
    BY <1>1, <2>1, MaxIn
<1> QED
  BY <1>3, <1>4 DEF TypeOK

\* SaleService records exactly such a row when a sale is completed.
LEMMA CompleteSaleSells ==
    ASSUME TypeOK, CompleteSale
    PROVE  \E row : Sells(row)
<1>1. PICK a \in Int : a = Max(adjustment) /\ adjustment = {a}
  BY AdjustmentIs DEF CompleteSale
<1>2. PICK lines : lines = [i \in DOMAIN cart |-> SoldLine(cart[i])]
  OBVIOUS
<1>3. DOMAIN lines = DOMAIN cart /\ \A i \in DOMAIN cart : lines[i] = SoldLine(cart[i]) /\ lines[i] \in Sold
  BY <1>2, LinesAre, SoldLineIs
<1>4. lines \in Seq(Sold)
  <2>1. DOMAIN cart = 1 .. Len(cart) /\ Len(cart) \in Nat
    BY LinesAre
  <2> QED
    BY <1>2, <1>3, <2>1
<1>5. LinesTotal(lines) = LinesTotal([i \in DOMAIN cart |-> Resolved(cart[i])])
  <2>1. [i \in DOMAIN lines |-> Cents(lines[i])]
          = [i \in DOMAIN cart |-> Cents(Resolved(cart[i]))]
    BY <1>3, LinesAre, SoldLineIs
  <2> QED
    BY <2>1 DEF LinesTotal
<1>6. LinesTotal(lines) \in Int
  <2>1. IsFiniteSet(DOMAIN lines) /\ \A i \in DOMAIN lines : lines[i].price \in Nat /\ lines[i].qty \in Int
    BY <1>3, LinesAre DEF Sold
  <2> QED
    BY <2>1, LinesTotalInt
<1>7. PICK total \in Int : total = SaleTotal(cart, a) /\ total = LinesTotal(lines) + a
  BY <1>5, <1>6 DEF SaleTotal
<1>8. year \in Nat /\ counter[year] + 1 \in Nat /\ account \in SUBSET Customers
  BY ConstantsAre DEF TypeOK
<1>9. PICK row : row = [lines |-> lines, total |-> total, adjust |-> a, account |-> account,
                        receipt |-> <<year, counter[year] + 1>>, reverses |-> 0]
  OBVIOUS
<1>10. /\ row.lines = lines /\ row.total = total /\ row.adjust = a /\ row.account = account
       /\ row.receipt = <<year, counter[year] + 1>> /\ row.reverses = 0
  BY <1>9
<1>11. row \in Sale
  BY <1>4, <1>8, <1>9 DEF Sale
<1>12. /\ sales' = Append(sales, row)
       /\ account = {} => total > 0
       /\ shelf' = [p \in Products |-> shelf[p] - PiecesOf(p, lines)]
       /\ drawer' = IF account = {} THEN drawer + total ELSE drawer
       /\ counter' = [counter EXCEPT ![year] = counter[year] + 1]
       /\ \A i \in DOMAIN cart : cart[i].product \in file
  BY <1>1, <1>2, <1>7, <1>9 DEF CompleteSale, NextReceipt
<1>13. \A i \in DOMAIN lines : /\ lines[i].product \in file /\ lines[i].qty > 0
                               /\ lines[i].kind # "package" => lines[i].pieces = lines[i].qty
  BY <1>3, <1>12, LinesAre, SoldLineIs
<1> QED
  BY <1>1, <1>7, <1>10, <1>11, <1>12, <1>13 DEF Sells

----------------------------------------------------------------------------
(* The row that undoes a sale. *)

\* A line that comes back: the quantity with the other sign, the rest as it went out.
Turned(l, m) ==
    /\ m.product = l.product /\ m.kind = l.kind /\ m.price = l.price
    /\ m.pieces = l.pieces /\ m.qty = -l.qty

\* A row that undoes another, line by line.
Opposite(s, row) ==
    /\ row.account = s.account /\ row.total = -s.total /\ row.adjust = -s.adjust
    /\ DOMAIN row.lines = DOMAIN s.lines
    /\ \A i \in DOMAIN row.lines : Turned(s.lines[i], row.lines[i])

\* What a refund or a cancelling writes, and what it puts back on the shelf.
Undoes(k, row) ==
    /\ row \in Sale /\ sales' = Append(sales, row)
    /\ k \in DOMAIN sales /\ sales[k].total > 0
    /\ \A s \in DOMAIN sales : sales[s].reverses # k
    /\ row.reverses = k /\ Opposite(sales[k], row)
    /\ shelf' = [p \in Products |-> shelf[p] + PiecesOf(p, row.lines)]
    /\ drawer' = IF sales[k].account = {} THEN drawer + row.total ELSE drawer

\* Turning a line gives a line.
LEMMA TurnedLine ==
    ASSUME NEW l \in Sold
    PROVE  /\ [l EXCEPT !.qty = -@, !.override = FALSE] \in Sold
           /\ Turned(l, [l EXCEPT !.qty = -@, !.override = FALSE])
<1>1. PICK n \in Int : n = -l.qty
  BY DEF Sold
<1>2. [l EXCEPT !.qty = -@, !.override = FALSE] = [l EXCEPT !.qty = n, !.override = FALSE]
  BY <1>1 DEF Sold
<1>3. PICK m : m = [l EXCEPT !.qty = n, !.override = FALSE]
  OBVIOUS
<1>4. m \in Sold
  BY <1>1, <1>3 DEF Sold
<1>5. Turned(l, m)
  BY <1>1, <1>3 DEF Sold, Turned
<1> QED
  BY <1>2, <1>3, <1>4, <1>5

\* The mirror of a row is a row, and its opposite.
LEMMA MirrorIs ==
    ASSUME TypeOK, NEW k \in DOMAIN sales
    PROVE  /\ [Mirror(sales[k]) EXCEPT !.reverses = k] \in Sale
           /\ [Mirror(sales[k]) EXCEPT !.reverses = k].reverses = k
           /\ Opposite(sales[k], [Mirror(sales[k]) EXCEPT !.reverses = k])
<1>1. PICK s \in Sale : s = sales[k]
  BY RowsAre
<1>2. PICK lines : lines = [i \in DOMAIN s.lines |->
                              [s.lines[i] EXCEPT !.qty = -@, !.override = FALSE]]
  OBVIOUS
<1>3. /\ DOMAIN lines = DOMAIN s.lines
      /\ \A i \in DOMAIN s.lines : lines[i] \in Sold /\ Turned(s.lines[i], lines[i])
  BY <1>1, <1>2, RowsAre, TurnedLine
<1>4. lines \in Seq(Sold)
  <2>1. PICK q \in Seq(Sold) : q = s.lines
    BY <1>1, RowsAre
  <2>2. DOMAIN q = 1 .. Len(q) /\ Len(q) \in Nat
    BY <2>1, RowsAppended
  <2>3. lines = [i \in 1 .. Len(q) |-> lines[i]]
    BY <1>2, <2>1, <2>2
  <2> QED
    BY <1>3, <2>1, <2>2, <2>3, ListIn
<1>5. PICK total \in Int, adjust \in Int : total = -s.total /\ adjust = -s.adjust
  BY DEF Sale
<1>6. Mirror(s) = [s EXCEPT !.lines = lines, !.total = total, !.adjust = adjust, !.receipt = <<>>]
  BY <1>2, <1>5 DEF Mirror, Sale
<1>7. k \in Nat
  BY RowsAre
<1>8. PICK row : row = [lines |-> lines, total |-> total, adjust |-> adjust, account |-> s.account,
                        receipt |-> <<>>, reverses |-> k]
  OBVIOUS
<1>9. [Mirror(s) EXCEPT !.reverses = k] = row
  <2>1. PICK m : m = [lines |-> lines, total |-> total, adjust |-> adjust, account |-> s.account,
                      receipt |-> <<>>, reverses |-> s.reverses]
    OBVIOUS
  <2>2. Mirror(s) = m
    BY <1>6, <2>1 DEF Sale
  <2> QED
    BY <1>8, <2>1, <2>2
<1>10. s.account \in SUBSET Customers
  BY DEF Sale
<1>11. row \in Sale
  BY <1>4, <1>5, <1>7, <1>8, <1>10 DEF Sale
<1>12. /\ row.lines = lines /\ row.total = total /\ row.adjust = adjust /\ row.account = s.account
       /\ row.reverses = k
  BY <1>8
<1>13. Opposite(s, row)
  BY <1>3, <1>5, <1>12 DEF Opposite
<1> QED
  BY <1>1, <1>9, <1>11, <1>12, <1>13

\* The refund of a cash sale and the cancelling of one on account write such a row.
LEMMA ReverseSaleUndoes ==
    ASSUME TypeOK, NEW k \in DOMAIN sales, ReverseSale(k)
    PROVE  \E row : Undoes(k, row) /\ counter' = counter
<1>1. PICK row : row = [Mirror(sales[k]) EXCEPT !.reverses = k]
  OBVIOUS
<1>2. row \in Sale /\ row.reverses = k /\ Opposite(sales[k], row)
  BY <1>1, MirrorIs
<1>3. /\ sales' = Append(sales, row)
      /\ shelf' = [p \in Products |-> shelf[p] + PiecesOf(p, row.lines)]
      /\ drawer' = IF sales[k].account = {} THEN drawer + row.total ELSE drawer
      /\ counter' = counter /\ sales[k].total > 0
      /\ \A s \in DOMAIN sales : sales[s].reverses # k
  BY <1>1 DEF ReverseSale
<1> QED
  BY <1>2, <1>3 DEF Undoes

----------------------------------------------------------------------------
(* Type correctness. *)

\* What is written and undone, and everything else: the shelf and the file of products
\* change on other pages.
LEMMA EveryStep ==
    ASSUME TypeOK, [Next]_vars
    PROVE  \/ CompleteSale /\ UNCHANGED <<file, counted>> /\ \E row : Sells(row)
           \/ (\E k, row : Undoes(k, row)) /\ UNCHANGED <<file, counted, counter>>
           \/ UNCHANGED <<sales, drawer, counter, goods>> /\ file \subseteq file'
           \/ /\ UNCHANGED <<sales, drawer, counter>>
              /\ \E p \in Products :
                    \/ \E scanned, sell \in BOOLEAN :
                          NewProduct(p, Min(Prices), Min(PackSizes), FirstShelf, scanned, sell)
                    \/ RemoveProduct(p) \/ EditQuantityCell(p, FirstShelf)
<1>1. CompleteSale => UNCHANGED <<file, counted>> /\ \E row : Sells(row)
  BY CompleteSaleSells DEF CompleteSale, catalogue
<1>2. \A k \in DOMAIN sales : ReverseSale(k) =>
        UNCHANGED <<file, counted, counter>> /\ \E row : Undoes(k, row)
  BY ReverseSaleUndoes DEF ReverseSale, catalogue
<1>3. \A p \in Products, cents \in Prices, n \in PackSizes : EditProduct(p, cents, n) =>
        UNCHANGED <<sales, drawer, counter, goods>> /\ file \subseteq file'
  BY DEF EditProduct, SaveProduct, books
<1>4. \A p \in Products : EditPriceCell(p, 0) =>
        UNCHANGED <<sales, drawer, counter, goods>> /\ file \subseteq file'
  BY DEF EditPriceCell, SaveProduct, books
<1>5. \A p \in Products : EditQuantityCell(p, FirstShelf) \/ RemoveProduct(p) =>
        UNCHANGED <<sales, drawer, counter>>
  BY DEF EditQuantityCell, RemoveProduct, books
<1>6. \A p \in Products, scanned, sell \in BOOLEAN :
        NewProduct(p, Min(Prices), Min(PackSizes), FirstShelf, scanned, sell) =>
        UNCHANGED <<sales, drawer, counter>>
  BY DEF NewProduct, books
<1>7. CASE UNCHANGED vars
  BY <1>7 DEF vars, goods
<1>8. CASE Next
  BY <1>1, <1>2, <1>3, <1>4, <1>5, <1>6, <1>8
     DEF Next, Scan, QuickClick, SubmitWeight, RemoveLine, ClearCart, SetQuantity, TypePrice,
         ChangeUnit, TypeAdjustment, EnterCreditMode, ClearCreditMode, TurnYear, books, catalogue
<1> QED
  BY <1>7, <1>8

\* The part of TypeOK that follows the books.
BooksTyped ==
    sales \in Seq(Sale) /\ drawer \in Int /\ counter \in [Years -> Nat]

\* The rows, the drawer and the counters stay typed.
LEMMA BooksStayTyped ==
    ASSUME TypeOK, [Next]_vars
    PROVE  BooksTyped'
<1>1. sales \in Seq(Sale) /\ drawer \in Int /\ counter \in [Years -> Nat] /\ year \in Years
  BY DEF TypeOK
<1>2. ASSUME NEW row, Sells(row)
      PROVE  BooksTyped'
  <2>1. row \in Sale /\ row.total \in Int
    BY <1>2 DEF Sells, Sale
  <2>2. sales' \in Seq(Sale)
    BY <1>1, <1>2, <2>1 DEF Sells
  <2>3. drawer' \in Int /\ counter' \in [Years -> Nat]
    BY <1>1, <1>2, <2>1 DEF Sells
  <2> QED
    BY <2>2, <2>3 DEF BooksTyped
<1>3. ASSUME NEW k, NEW row, Undoes(k, row), counter' = counter
      PROVE  BooksTyped'
  <2>1. row \in Sale /\ row.total \in Int
    BY <1>3 DEF Undoes, Sale
  <2>2. sales' \in Seq(Sale)
    BY <1>1, <1>3, <2>1 DEF Undoes
  <2>3. drawer' \in Int
    BY <1>1, <1>3, <2>1 DEF Undoes
  <2> QED
    BY <1>1, <1>3, <2>2, <2>3 DEF BooksTyped
<1> QED
  BY <1>1, <1>2, <1>3, EveryStep DEF BooksTyped

\* The part that follows the shelf.
ShelfTyped == shelf \in [Products -> Int] /\ counted \in [Products -> Int]

\* So does the shelf, whichever page moves it.
LEMMA ShelfStaysTyped ==
    ASSUME TypeOK, [Next]_vars
    PROVE  ShelfTyped'
<1>1. shelf \in [Products -> Int] /\ counted \in [Products -> Int]
  BY DEF TypeOK
<1>2. \A row \in Sale, p \in Products : PiecesOf(p, row.lines) \in Int
  BY RowPiecesInt
<1>3. CASE CompleteSale
  <2>1. PICK row : Sells(row)
    BY <1>3, CompleteSaleSells
  <2>2. row \in Sale /\ shelf' = [p \in Products |-> shelf[p] - PiecesOf(p, row.lines)]
    BY <2>1 DEF Sells
  <2>3. shelf' \in [Products -> Int]
    BY <1>1, <1>2, <2>2
  <2> QED
    BY <1>1, <1>3, <2>3 DEF CompleteSale, ShelfTyped
<1>4. ASSUME NEW k \in DOMAIN sales, ReverseSale(k)
      PROVE  ShelfTyped'
  <2>1. PICK row : Undoes(k, row)
    BY <1>4, ReverseSaleUndoes
  <2>2. row \in Sale /\ shelf' = [p \in Products |-> shelf[p] + PiecesOf(p, row.lines)]
    BY <2>1 DEF Undoes
  <2>3. shelf' \in [Products -> Int]
    BY <1>1, <1>2, <2>2
  <2> QED
    BY <1>1, <1>4, <2>3 DEF ReverseSale, ShelfTyped
<1>5. ASSUME NEW p \in Products, NEW scanned \in BOOLEAN, NEW sell \in BOOLEAN,
             NewProduct(p, Min(Prices), Min(PackSizes), FirstShelf, scanned, sell)
      PROVE  ShelfTyped'
  BY <1>1, <1>5, ConstantsAre DEF NewProduct, ShelfTyped
<1>6. ASSUME NEW p \in Products, EditQuantityCell(p, FirstShelf)
      PROVE  ShelfTyped'
  <2>1. FirstShelf \in Int /\ shelf[p] \in Int /\ counted[p] \in Int
    BY <1>1, ConstantsAre
  <2> QED
    BY <1>1, <1>6, <2>1 DEF EditQuantityCell, ShelfTyped
<1>7. ASSUME NEW p \in Products, RemoveProduct(p)
      PROVE  ShelfTyped'
  BY <1>1, <1>7 DEF RemoveProduct, ShelfTyped
<1>8. ASSUME UNCHANGED <<shelf, counted>>
      PROVE  ShelfTyped'
  BY <1>1, <1>8 DEF ShelfTyped
<1> QED
  BY <1>3, <1>4, <1>5, <1>6, <1>7, <1>8
     DEF Next, Scan, QuickClick, SubmitWeight, RemoveLine, ClearCart, SetQuantity,
         TypePrice, ChangeUnit, TypeAdjustment, EnterCreditMode, ClearCreditMode, EditProduct, EditPriceCell,
         TurnYear, goods, vars

\* The part that follows the file of products.
CatalogueTyped ==
    /\ file \subseteq Products /\ gone \subseteq Products
    /\ price \in [Products -> Prices \cup {0}] /\ pack \in [Products -> PackSizes]

\* So does the file of products.
LEMMA CatalogueStaysTyped ==
    ASSUME TypeOK, [Next]_vars
    PROVE  CatalogueTyped'
<1>1. CatalogueTyped
  BY DEF TypeOK, CatalogueTyped
<1>2. ASSUME NEW p \in Products, NEW cents \in Prices \cup {0}, NEW n \in PackSizes,
             SaveProduct(p, cents, n)
      PROVE  CatalogueTyped'
  BY <1>1, <1>2 DEF SaveProduct, CatalogueTyped
<1>3. ASSUME NEW p \in Products, NEW scanned \in BOOLEAN, NEW sell \in BOOLEAN,
             NewProduct(p, Min(Prices), Min(PackSizes), FirstShelf, scanned, sell)
      PROVE  CatalogueTyped'
  BY <1>2, <1>3, ConstantsAre DEF NewProduct
<1>4. ASSUME NEW p \in Products, NEW cents \in Prices, NEW n \in PackSizes,
             EditProduct(p, cents, n)
      PROVE  CatalogueTyped'
  BY <1>2, <1>4 DEF EditProduct
<1>5. ASSUME NEW p \in Products, EditPriceCell(p, 0)
      PROVE  CatalogueTyped'
  <2>1. pack[p] \in PackSizes
    BY <1>1 DEF CatalogueTyped
  <2> QED
    BY <1>2, <1>5, <2>1 DEF EditPriceCell
<1>6. ASSUME NEW p \in Products, RemoveProduct(p)
      PROVE  CatalogueTyped'
  BY <1>1, <1>6 DEF RemoveProduct, CatalogueTyped
<1>7. ASSUME UNCHANGED catalogue
      PROVE  CatalogueTyped'
  BY <1>1, <1>7 DEF catalogue, CatalogueTyped
<1> QED
  BY <1>3, <1>4, <1>5, <1>6, <1>7
     DEF Next, Scan, QuickClick, SubmitWeight, RemoveLine, ClearCart, SetQuantity,
         TypePrice, ChangeUnit, TypeAdjustment, EnterCreditMode, ClearCreditMode, CompleteSale, ReverseSale,
         EditQuantityCell, TurnYear, catalogue, vars

\* The lines on the screen, whichever entry wrote them.
LEMMA CartStaysTyped ==
    ASSUME TypeOK, [Next]_vars
    PROVE  cart' \in Seq(Line)
<1>1. cart \in Seq(Line)
  BY DEF TypeOK
<1>2. ASSUME NEW p \in Products, NEW carton \in BOOLEAN, Scan(p, carton)
      PROVE  cart' \in Seq(Line)
  <2>1. PICK unit \in FindProduct(p, carton) :
           AddToCart(p, unit, 1, price[p]) \/ cart' = cart
    BY <1>2 DEF Scan
  <2>2. unit \in Kinds
    BY DEF FindProduct, Kinds
  <2>3. price[p] \in Nat /\ 1 \in Nat \ {0}
    BY ConstantsAre DEF TypeOK
  <2> QED
    BY <1>1, <2>1, <2>2, <2>3, AddToCartTyped
<1>3. ASSUME NEW p \in Products, QuickClick(p)
      PROVE  cart' \in Seq(Line)
  <2>1. price[p] \in Nat /\ 1 \in Nat \ {0} /\ "piece" \in Kinds
    BY ConstantsAre DEF TypeOK, Kinds
  <2>2. AddToCart(p, "piece", 1, price[p])
    BY <1>3 DEF QuickClick
  <2> QED
    BY <2>1, <2>2, AddToCartTyped
<1>4. ASSUME NEW w \in weighing, NEW grams \in Weights, SubmitWeight(w, grams)
      PROVE  cart' \in Seq(Line)
  <2>1. w.product \in Weighed /\ w.price \in Nat
    BY DEF TypeOK
  <2>2. w.product \in Products /\ grams \in Nat \ {0} /\ "weight" \in Kinds
    BY <2>1, ConstantsAre DEF Kinds
  <2>3. AddToCart(w.product, "weight", grams, w.price)
    BY <1>4 DEF SubmitWeight
  <2> QED
    BY <2>1, <2>2, <2>3, AddToCartTyped
<1>5. ASSUME NEW p \in Products, NEW scanned \in BOOLEAN, NEW sell \in BOOLEAN,
             NewProduct(p, Min(Prices), Min(PackSizes), FirstShelf, scanned, sell)
      PROVE  cart' \in Seq(Line)
  <2>1. PICK cents \in Nat : cents = Min(Prices)
    BY ConstantsAre
  <2>2. [product |-> p, kind |-> "piece", qty |-> 1, price |-> cents, base |-> cents] \in Line
    BY DEF Line, Kinds
  <2> QED
    BY <1>1, <1>5, <2>1, <2>2 DEF NewProduct
<1>6. ASSUME NEW i \in DOMAIN cart, RemoveLine(i)
      PROVE  cart' \in Seq(Line)
  BY <1>6, LineRemoved DEF RemoveLine
<1>7. ASSUME NEW i \in DOMAIN cart, NEW qty \in Quantities, SetQuantity(i, qty)
      PROVE  cart' \in Seq(Line)
  <2>1. PICK l \in Line : l = [cart[i] EXCEPT !.qty = qty]
    BY LinesAre, ConstantsAre DEF Line
  <2>2. cart' = [cart EXCEPT ![i] = l]
    BY <1>7, <2>1 DEF SetQuantity
  <2> QED
    BY <2>2, LineChanged
<1>8. ASSUME NEW i \in DOMAIN cart, NEW cents \in Prices, TypePrice(i, cents)
      PROVE  cart' \in Seq(Line)
  <2>1. PICK l \in Line : l = [cart[i] EXCEPT !.price = cents]
    BY LinesAre, ConstantsAre DEF Line
  <2>2. cart' = [cart EXCEPT ![i] = l]
    BY <1>8, <2>1 DEF TypePrice
  <2> QED
    BY <2>2, LineChanged
<1>9. ASSUME NEW i \in DOMAIN cart, NEW unit \in Kinds, ChangeUnit(i, unit)
      PROVE  cart' \in Seq(Line)
  <2>1. cart[i] \in Line
    BY LinesAre
  <2>2. PICK asks \in Nat : asks = UnitPrice(cart[i].product, unit)
    BY <2>1, UnitPriceNat DEF Line
  <2>3. PICK l \in Line : l = [cart[i] EXCEPT !.kind = unit, !.price = asks, !.base = asks]
    BY <2>1, <2>2 DEF Line
  <2>4. cart' = [cart EXCEPT ![i] = l]
    BY <1>1, <1>9, <2>2, <2>3 DEF ChangeUnit
  <2> QED
    BY <2>4, LineChanged
<1>10. ASSUME cart' = <<>> \/ cart' = cart
       PROVE  cart' \in Seq(Line)
  <2>1. <<>> \in Seq(Line)
    OBVIOUS
  <2> QED
    BY <1>1, <1>10, <2>1
<1>11. CompleteSale => cart' = <<>>
  BY DEF CompleteSale
<1>12. \A k \in DOMAIN sales : ReverseSale(k) => cart' = cart
  BY DEF ReverseSale, screen
<1>13. \A p \in Products, cents \in Prices, n \in PackSizes : EditProduct(p, cents, n) => cart' = cart
  BY DEF EditProduct, screen
<1>14. \A p \in Products : \/ EditPriceCell(p, 0) \/ EditQuantityCell(p, FirstShelf)
                           \/ RemoveProduct(p)
                          => cart' = cart
  BY DEF EditPriceCell, EditQuantityCell, RemoveProduct, screen
<1>15. ClearCart => cart' = <<>>
  BY DEF ClearCart
<1>16. \A y \in Years : TurnYear(y) => cart' = cart
  BY DEF TurnYear, screen
<1>17. \A text : TypeAdjustment(text) => cart' = cart
  BY DEF TypeAdjustment
<1>18. (\E c \in Customers : EnterCreditMode(c)) \/ ClearCreditMode => cart' = cart
  BY DEF EnterCreditMode, ClearCreditMode
<1>19. CASE UNCHANGED vars
  BY <1>10, <1>19 DEF vars
<1>20. CASE Next
  BY <1>2, <1>3, <1>4, <1>5, <1>6, <1>7, <1>8, <1>9, <1>10, <1>11, <1>12, <1>13, <1>14, <1>15,
     <1>16, <1>17, <1>18, <1>20 DEF Next
<1> QED
  BY <1>19, <1>20

\* The fields beside the lines, and the clock.
FieldsTyped ==
    /\ adjustment \subseteq Int /\ AtMostOne(adjustment)
    /\ account \subseteq Customers /\ AtMostOne(account)
    /\ weighing \subseteq [product : Weighed, price : Nat] /\ AtMostOne(weighing)
    /\ year \in Years /\ entered \subseteq {"adjustment", "account"} /\ steps \in 0 .. MaxSteps

\* So do the fields of the screen and the clock.
LEMMA FieldsStayTyped ==
    ASSUME TypeOK, [Next]_vars
    PROVE  FieldsTyped'
<1>1. FieldsTyped
  BY DEF TypeOK, FieldsTyped
<1>2. steps' \in 0 .. MaxSteps
  <2>1. steps \in 0 .. MaxSteps /\ MaxSteps \in Nat
    BY <1>1, ConstantsAre DEF FieldsTyped
  <2>2. Step \/ steps' = steps
    BY DEF Next, Scan, QuickClick, SubmitWeight, NewProduct, RemoveLine, ClearCart, SetQuantity,
           TypePrice, ChangeUnit, TypeAdjustment, EnterCreditMode, ClearCreditMode, CompleteSale, ReverseSale,
           EditProduct, EditPriceCell, EditQuantityCell, RemoveProduct, TurnYear, vars
  <2> QED
    BY <2>1, <2>2 DEF Step
<1>3. year' \in Years
  BY <1>1 DEF FieldsTyped, Next, Scan, QuickClick, SubmitWeight, NewProduct, RemoveLine, ClearCart, SetQuantity,
           TypePrice, ChangeUnit, TypeAdjustment, EnterCreditMode, ClearCreditMode, CompleteSale, ReverseSale,
           EditProduct, EditPriceCell, EditQuantityCell, RemoveProduct, TurnYear, vars
<1>4. weighing' \subseteq [product : Weighed, price : Nat] /\ AtMostOne(weighing')
  <2>1. ASSUME NEW p \in Products, NEW carton \in BOOLEAN, Scan(p, carton)
        PROVE  weighing' \subseteq [product : Weighed, price : Nat] /\ AtMostOne(weighing')
    <3>1. \/ weighing' = weighing
          \/ p \in Weighed /\ weighing' = {[product |-> p, price |-> price[p]]}
      BY <2>1 DEF Scan, StartWeightEntry
    <3>2. price[p] \in Nat
      BY ConstantsAre DEF TypeOK
    <3>3. CASE weighing' = weighing
      BY <1>1, <3>3 DEF FieldsTyped
    <3>4. CASE p \in Weighed /\ weighing' = {[product |-> p, price |-> price[p]]}
      <4>1. PICK w \in [product : Weighed, price : Nat] : w = [product |-> p, price |-> price[p]]
        BY <3>2, <3>4
      <4>2. weighing' = {w}
        BY <3>4, <4>1
      <4>3. AtMostOne({w})
        BY AtMostOneIn
      <4> QED
        BY <4>1, <4>2, <4>3
    <3> QED
      BY <3>1, <3>3, <3>4
  <2>2. ASSUME weighing' = weighing \/ weighing' = {}
        PROVE  weighing' \subseteq [product : Weighed, price : Nat] /\ AtMostOne(weighing')
    <3>1. AtMostOne({})
      BY AtMostOneIn
    <3> QED
      BY <1>1, <2>2, <3>1 DEF FieldsTyped
  <2> QED
    BY <2>1, <2>2
       DEF Next, QuickClick, SubmitWeight, NewProduct, RemoveLine, ClearCart, SetQuantity,
           TypePrice, ChangeUnit, TypeAdjustment, EnterCreditMode, ClearCreditMode, CompleteSale, ReverseSale,
           EditProduct, EditPriceCell, EditQuantityCell, RemoveProduct, TurnYear, screen, vars
<1>5. /\ adjustment' \subseteq Int /\ AtMostOne(adjustment')
      /\ account' \subseteq Customers /\ AtMostOne(account')
      /\ entered' \subseteq {"adjustment", "account"}
  <2> DEFINE Goal == /\ adjustment' \subseteq Int /\ AtMostOne(adjustment')
                     /\ account' \subseteq Customers /\ AtMostOne(account')
                     /\ entered' \subseteq {"adjustment", "account"}
  <2>1. ASSUME NEW text \in {{}} \cup {{a} : a \in Corrections \cup {0}} \cup {{-a} : a \in Corrections},
               TypeAdjustment(text)
        PROVE  Goal
    <3>1. \/ text = {}
          \/ \E a \in Corrections \cup {0} : text = {a}
          \/ \E a \in Corrections : text = {-a}
      OBVIOUS
    <3>2. text = {} \/ \E n \in Int : text = {n}
      BY <3>1, ConstantsAre
    <3>3. AtMostOne(text)
      BY <3>2, AtMostOneIn
    <3>4. text \subseteq Int
      BY <3>2
    <3> QED
      BY <1>1, <2>1, <3>3, <3>4 DEF TypeAdjustment, FieldsTyped
  <2>2. ASSUME NEW c \in Customers, EnterCreditMode(c)
        PROVE  Goal
    BY <1>1, <2>2, AtMostOneIn DEF EnterCreditMode, FieldsTyped
  <2>3. ASSUME CompleteSale
        PROVE  Goal
    <3>1. adjustment' = {0} /\ account' = {} /\ entered' = {}
      BY <2>3 DEF CompleteSale, CleanScreen
    <3>2. AtMostOne({}) /\ AtMostOne({0})
      BY AtMostOneIn
    <3> QED
      BY <3>1, <3>2
  <2>4. ASSUME UNCHANGED <<adjustment, account, entered>>
        PROVE  Goal
    BY <1>1, <2>4 DEF FieldsTyped
  <2>5. ASSUME ClearCreditMode
        PROVE  Goal
    BY <1>1, <2>5, AtMostOneIn DEF ClearCreditMode, FieldsTyped
  <2> HIDE DEF Goal
  <2>6. Goal
    BY <2>1, <2>2, <2>3, <2>4, <2>5
       DEF Next, Scan, QuickClick, SubmitWeight, NewProduct, RemoveLine, ClearCart, SetQuantity,
           TypePrice, ChangeUnit, ReverseSale,
           EditProduct, EditPriceCell, EditQuantityCell, RemoveProduct, TurnYear, screen, vars
  <2> QED
    BY <2>6 DEF Goal
<1> QED
  BY <1>2, <1>3, <1>4, <1>5 DEF FieldsTyped

\* At the start everything is typed,
LEMMA TypeInit == Init => TypeOK
<1> SUFFICES ASSUME Init
             PROVE  TypeOK
  OBVIOUS
<1>1. AtStart \subseteq Products
  BY TillAssumption
<1>2. /\ price \in [Products -> Prices \cup {0}] /\ pack \in [Products -> PackSizes]
      /\ shelf \in [Products -> Int] /\ counted \in [Products -> Int]
  BY ConstantsAre DEF Init
<1>3. /\ adjustment \subseteq Int /\ AtMostOne(adjustment) /\ AtMostOne(account)
      /\ AtMostOne(weighing)
  <2>1. adjustment = {0} /\ account = {} /\ weighing = {}
    BY DEF Init
  <2>2. AtMostOne({}) /\ AtMostOne({0})
    BY AtMostOneIn
  <2> QED
    BY <2>1, <2>2
<1>4. counter \in [Years -> Nat] /\ year \in Years /\ steps \in 0 .. MaxSteps
  BY ConstantsAre DEF Init
<1> QED
  BY <1>1, <1>2, <1>3, <1>4 DEF Init, TypeOK

\* and every step keeps it so.
LEMMA TypeNext == TypeOK /\ [Next]_vars => TypeOK'
<1> SUFFICES ASSUME TypeOK, [Next]_vars
             PROVE  TypeOK'
  OBVIOUS
<1> QED
  BY BooksStayTyped, ShelfStaysTyped, CatalogueStaysTyped, CartStaysTyped, FieldsStayTyped
     DEF BooksTyped, ShelfTyped, CatalogueTyped, FieldsTyped, TypeOK

\* The register's screen and books stay what they are for any catalogue, prices, cartons,
\* quantities, weights, adjustments and customers, and for runs of any length.
THEOREM TypeCorrect == Spec => []TypeOK
BY TypeInit, TypeNext, PTL DEF Spec

----------------------------------------------------------------------------
(* The rows and the rows that undo them. *)

\* Writing a row changes none of those before it.
LEMMA RowAdded ==
    ASSUME TypeOK, NEW row, sales' = Append(sales, row)
    PROVE  /\ DOMAIN sales' = DOMAIN sales \cup {Len(sales) + 1}
           /\ Len(sales) + 1 \notin DOMAIN sales /\ Len(sales) + 1 \in Nat \ {0}
           /\ \A k \in DOMAIN sales : sales'[k] = sales[k]
           /\ sales'[Len(sales) + 1] = row
           /\ Len(sales') = Len(sales) + 1
<1>1. sales \in Seq(Sale)
  BY DEF TypeOK
<1>2. PICK q : q = Append(sales, row)
  OBVIOUS
<1>3. /\ DOMAIN q = DOMAIN sales \cup {Len(sales) + 1}
      /\ Len(sales) + 1 \notin DOMAIN sales /\ Len(sales) \in Nat
      /\ \A k \in DOMAIN sales : q[k] = sales[k]
      /\ q[Len(sales) + 1] = row
      /\ Len(q) = Len(sales) + 1
  BY <1>1, <1>2, RowsAppended
<1>4. sales' = q
  BY <1>2
<1> QED
  BY <1>3, <1>4

\* A row of a sale as it was written.
Original(s) ==
    /\ s.total = LinesTotal(s.lines) + s.adjust
    /\ s.account = {} => s.total > 0
    /\ \A i \in DOMAIN s.lines :
          /\ s.lines[i].qty > 0
          /\ s.lines[i].kind # "package" => s.lines[i].pieces = s.lines[i].qty

\* No row of a sale is changed after it was written.
SalesAsWritten == \A k \in DOMAIN sales : sales[k].reverses = 0 => Original(sales[k])

\* A row that reverses one is its opposite, and the other was a sale that came to
\* something.
MirrorsUndo ==
    \A k \in DOMAIN sales : sales[k].reverses # 0 =>
        /\ sales[k].reverses \in DOMAIN sales
        /\ sales[sales[k].reverses].reverses = 0
        /\ sales[sales[k].reverses].total > 0
        /\ Opposite(sales[sales[k].reverses], sales[k])

\* No two rows undo the same sale.
UndoneOnce ==
    \A j, k \in DOMAIN sales : sales[j].reverses # 0 /\ sales[j].reverses = sales[k].reverses => j = k

\* Every product a row names is on file.
NamedOnFile ==
    \A k \in DOMAIN sales : \A i \in DOMAIN sales[k].lines : sales[k].lines[i].product \in file

\* The inductive invariant of the rows.
BooksSound == TypeOK /\ SalesAsWritten /\ MirrorsUndo /\ UndoneOnce /\ NamedOnFile

\* Nothing reverses a row that reverses one.
LEMMA OnlySalesAreUndone ==
    ASSUME BooksSound, NEW k \in DOMAIN sales, sales[k].total > 0
    PROVE  sales[k].reverses = 0
<1> SUFFICES ASSUME sales[k].reverses # 0
             PROVE  FALSE
  OBVIOUS
<1>1. PICK o \in DOMAIN sales : o = sales[k].reverses /\ sales[o].total > 0 /\ Opposite(sales[o], sales[k])
  BY DEF BooksSound, MirrorsUndo
<1>2. sales[o].total \in Int /\ sales[k].total = -sales[o].total
  BY <1>1, RowsAre DEF BooksSound, Opposite, Sale
<1> QED
  BY <1>1, <1>2

\* A sale that is undone stands, and is one as it was written.
LEMMA UndoneStood ==
    ASSUME BooksSound, NEW k, NEW row, Undoes(k, row)
    PROVE  k \in DOMAIN sales /\ k # 0 /\ sales[k].reverses = 0 /\ k \in Standing
<1>1. k \in DOMAIN sales /\ sales[k].total > 0 /\ \A s \in DOMAIN sales : sales[s].reverses # k
  BY DEF Undoes
<1>2. sales[k].reverses = 0
  BY <1>1, OnlySalesAreUndone
<1>3. k # 0
  BY <1>1, RowsAre DEF BooksSound
<1> QED
  BY <1>1, <1>2, <1>3 DEF Standing, Cancelled

\* A sale is written whole and never touched again.
LEMMA SalesStayAsWritten ==
    ASSUME BooksSound, [Next]_vars
    PROVE  SalesAsWritten'
<1>1. TypeOK /\ SalesAsWritten
  BY DEF BooksSound
<1>2. ASSUME NEW row, Sells(row)
      PROVE  SalesAsWritten'
  <2>1. Original(row)
    BY <1>2 DEF Sells, Original
  <2> QED
    BY <1>1, <1>2, <2>1, RowAdded DEF Sells, SalesAsWritten
<1>3. ASSUME NEW k, NEW row, Undoes(k, row)
      PROVE  SalesAsWritten'
  <2>1. row.reverses # 0
    BY <1>3, UndoneStood DEF Undoes
  <2> QED
    BY <1>1, <1>3, <2>1, RowAdded DEF Undoes, SalesAsWritten
<1> QED
  BY <1>1, <1>2, <1>3, EveryStep DEF SalesAsWritten

\* What a mirror undoes is there, a sale, and stays as it was.
LEMMA MirrorsStayUndoing ==
    ASSUME BooksSound, [Next]_vars
    PROVE  MirrorsUndo'
<1>1. TypeOK /\ MirrorsUndo
  BY DEF BooksSound
<1>2. ASSUME NEW row, Sells(row)
      PROVE  MirrorsUndo'
  BY <1>1, <1>2, RowAdded DEF Sells, MirrorsUndo
<1>3. ASSUME NEW k, NEW row, Undoes(k, row)
      PROVE  MirrorsUndo'
  <2>1. /\ k \in DOMAIN sales /\ sales[k].reverses = 0 /\ sales[k].total > 0
        /\ row.reverses = k /\ Opposite(sales[k], row)
    BY <1>3, UndoneStood DEF Undoes
  <2> QED
    BY <1>1, <1>3, <2>1, RowAdded DEF Undoes, MirrorsUndo
<1> QED
  BY <1>1, <1>2, <1>3, EveryStep DEF MirrorsUndo

\* ReverseSale looks for a row that reverses the sale before it writes one.
LEMMA StaysUndoneOnce ==
    ASSUME BooksSound, [Next]_vars
    PROVE  UndoneOnce'
<1>1. TypeOK /\ UndoneOnce
  BY DEF BooksSound
<1>2. ASSUME NEW row, Sells(row)
      PROVE  UndoneOnce'
  BY <1>1, <1>2, RowAdded DEF Sells, UndoneOnce
<1>3. ASSUME NEW k, NEW row, Undoes(k, row)
      PROVE  UndoneOnce'
  BY <1>1, <1>3, RowAdded DEF Undoes, UndoneOnce
<1> QED
  BY <1>1, <1>2, <1>3, EveryStep DEF UndoneOnce

\* A product leaves the file only when no row names it, and only products on file are sold.
LEMMA StaysNamedOnFile ==
    ASSUME BooksSound, [Next]_vars
    PROVE  NamedOnFile'
<1>1. TypeOK /\ NamedOnFile
  BY DEF BooksSound
<1>2. ASSUME NEW row, Sells(row), file' = file
      PROVE  NamedOnFile'
  BY <1>1, <1>2, RowAdded DEF Sells, NamedOnFile
<1>3. ASSUME NEW k, NEW row, Undoes(k, row), file' = file
      PROVE  NamedOnFile'
  <2>1. /\ k \in DOMAIN sales /\ DOMAIN row.lines = DOMAIN sales[k].lines
        /\ \A i \in DOMAIN row.lines : row.lines[i].product = sales[k].lines[i].product
    BY <1>3 DEF Undoes, Opposite, Turned
  <2>2. \A i \in DOMAIN row.lines : row.lines[i].product \in file
    BY <1>1, <2>1 DEF NamedOnFile
  <2> QED
    BY <1>1, <1>3, <2>2, RowAdded DEF Undoes, NamedOnFile
<1>4. ASSUME sales' = sales, file \subseteq file'
      PROVE  NamedOnFile'
  BY <1>1, <1>4 DEF NamedOnFile
<1>5. ASSUME NEW p \in Products, NEW scanned \in BOOLEAN, NEW sell \in BOOLEAN, sales' = sales,
             NewProduct(p, Min(Prices), Min(PackSizes), FirstShelf, scanned, sell)
      PROVE  NamedOnFile'
  BY <1>4, <1>5 DEF NewProduct, SaveProduct
<1>6. ASSUME NEW p \in Products, sales' = sales, RemoveProduct(p)
      PROVE  NamedOnFile'
  BY <1>1, <1>6 DEF RemoveProduct, Referenced, NamedOnFile
<1>7. ASSUME NEW p \in Products, sales' = sales, EditQuantityCell(p, FirstShelf)
      PROVE  NamedOnFile'
  BY <1>4, <1>7 DEF EditQuantityCell, catalogue
<1> QED
  BY <1>1, <1>2, <1>3, <1>4, <1>5, <1>6, <1>7, EveryStep

\* With no rows nothing is wrong with them,
LEMMA BooksSoundInit == Init => BooksSound
BY TypeInit DEF Init, BooksSound, SalesAsWritten, MirrorsUndo, UndoneOnce, NamedOnFile

\* and every step keeps the rows sound.
LEMMA BooksSoundNext == BooksSound /\ [Next]_vars => BooksSound'
<1> SUFFICES ASSUME BooksSound, [Next]_vars
             PROVE  BooksSound'
  OBVIOUS
<1>1. TypeOK'
  BY TypeNext DEF BooksSound
<1> QED
  BY <1>1, SalesStayAsWritten, MirrorsStayUndoing, StaysUndoneOnce, StaysNamedOnFile DEF BooksSound

----------------------------------------------------------------------------
(* The sales that stand. *)

\* The sales that stand are finitely many rows.
LEMMA StandingAre ==
    ASSUME TypeOK
    PROVE  Standing \subseteq DOMAIN sales /\ IsFiniteSet(Standing)
<1>1. Standing \subseteq DOMAIN sales
  BY DEF Standing
<1> QED
  BY <1>1, RowsAre, FS_Subset

\* A completed sale stands, and those before it go on standing.
LEMMA OneMoreStands ==
    ASSUME BooksSound, NEW row, Sells(row)
    PROVE  Standing' = Standing \cup {Len(sales) + 1}
<1>1. PICK n \in Nat \ {0} : n = Len(sales) + 1 /\ n \notin DOMAIN sales
  BY RowAdded DEF Sells, BooksSound
<1>2. /\ DOMAIN sales' = DOMAIN sales \cup {n}
      /\ \A k \in DOMAIN sales : sales'[k] = sales[k]
      /\ sales'[n] = row /\ row.reverses = 0
  BY <1>1, RowAdded DEF Sells, BooksSound
<1>3. \A s \in DOMAIN sales : sales[s].reverses # n
  BY <1>1 DEF BooksSound, MirrorsUndo
<1>4. \A k \in DOMAIN sales : k # 0
  BY RowsAre DEF BooksSound
<1>5. \A k \in DOMAIN sales : Cancelled(k)' <=> Cancelled(k)
  BY <1>2, <1>4 DEF Cancelled
<1>6. ~Cancelled(n)'
  BY <1>1, <1>2, <1>3 DEF Cancelled
<1>7. Standing' = Standing \cup {n}
  BY <1>1, <1>2, <1>5, <1>6 DEF Standing
<1> QED
  BY <1>1, <1>7

\* A refund takes away the sale it undoes, and only that one.
LEMMA OneLessStands ==
    ASSUME BooksSound, NEW k, NEW row, Undoes(k, row)
    PROVE  Standing' = Standing \ {k}
<1>1. /\ DOMAIN sales' = DOMAIN sales \cup {Len(sales) + 1}
      /\ Len(sales) + 1 \notin DOMAIN sales
      /\ \A s \in DOMAIN sales : sales'[s] = sales[s]
      /\ sales'[Len(sales) + 1] = row /\ row.reverses = k /\ k # 0
  BY RowAdded, UndoneStood DEF Undoes, BooksSound
<1>2. \A s \in DOMAIN sales : Cancelled(s)' <=> Cancelled(s) \/ s = k
  BY <1>1 DEF Cancelled
<1> QED
  BY <1>1, <1>2 DEF Standing

----------------------------------------------------------------------------
(* The shelf. *)

\* How many pieces of a product each row moved.
PiecesTaken(p) == [k \in DOMAIN sales |-> PiecesOf(p, sales[k].lines)]

\* The invariant behind ShelfFollowsSales, for products that are not on file too: their shelf
\* is what was counted, because no row names them.
ShelfHolds ==
    \A p \in Products : shelf[p] = counted[p] - SumFunctionOnSet(PiecesTaken(p), Standing)

\* A product that no row names was never taken from the shelf.
LEMMA NothingTaken ==
    ASSUME TypeOK, NEW p \in Products, ~Referenced(p)
    PROVE  SumFunctionOnSet(PiecesTaken(p), Standing) = 0
<1> DEFINE taken == PiecesTaken(p)
<1>1. ASSUME NEW k \in DOMAIN sales
      PROVE  taken[k] = 0
  <2> DEFINE pieces == [i \in DOMAIN sales[k].lines |->
                          IF sales[k].lines[i].product = p THEN sales[k].lines[i].pieces ELSE 0]
  <2>1. \A i \in DOMAIN sales[k].lines : pieces[i] = 0
    BY DEF Referenced
  <2>2. IsFiniteSet(DOMAIN sales[k].lines)
    BY RowsAre
  <2>3. taken[k] = SumFunctionOnSet(pieces, DOMAIN sales[k].lines)
    BY DEF PiecesTaken, PiecesOf, SumFunction
  <2> HIDE DEF pieces, taken
  <2> QED
    BY <2>1, <2>2, <2>3, SumZero
<1> HIDE DEF taken
<1>2. SumFunctionOnSet(taken, Standing) = 0
  BY <1>1, StandingAre, SumZero
<1> QED
  BY <1>2 DEF taken

\* The row that undoes a sale brings back as many pieces as the sale took.
LEMMA SamePiecesBack ==
    ASSUME NEW p, NEW s, NEW row, Opposite(s, row)
    PROVE  PiecesOf(p, row.lines) = PiecesOf(p, s.lines)
<1>1. [i \in DOMAIN row.lines |-> IF row.lines[i].product = p THEN row.lines[i].pieces ELSE 0]
        = [i \in DOMAIN s.lines |-> IF s.lines[i].product = p THEN s.lines[i].pieces ELSE 0]
  BY DEF Opposite, Turned
<1> QED
  BY <1>1 DEF PiecesOf

\* The run begins with what was counted on the shelf.
LEMMA ShelfInit == Init => ShelfHolds
<1> SUFFICES ASSUME Init, NEW p \in Products
             PROVE  shelf[p] = counted[p] - SumFunctionOnSet(PiecesTaken(p), Standing)
  BY DEF ShelfHolds
<1>1. TypeOK /\ ~Referenced(p)
  BY TypeInit DEF Init, Referenced
<1>2. shelf[p] = counted[p] /\ shelf[p] \in Int
  BY <1>1 DEF Init, TypeOK
<1> QED
  BY <1>1, <1>2, NothingTaken

\* A sale takes from the shelf the pieces its own row names.
LEMMA ShelfAfterSale ==
    ASSUME BooksSound, ShelfHolds, NEW row, Sells(row), counted' = counted, NEW p \in Products
    PROVE  shelf'[p] = counted'[p] - SumFunctionOnSet(PiecesTaken(p)', Standing')
<1>1. PICK n : n = Len(sales) + 1
  OBVIOUS
<1>2. PICK f, g : f = PiecesTaken(p) /\ g = PiecesTaken(p)'
  OBVIOUS
<1>3. /\ DOMAIN sales' = DOMAIN sales \cup {n} /\ n \notin DOMAIN sales
      /\ \A k \in DOMAIN sales : sales'[k] = sales[k]
      /\ sales'[n] = row /\ row \in Sale
  BY <1>1, RowAdded DEF Sells, BooksSound
<1>4. /\ \A k \in DOMAIN sales : f[k] \in Int /\ g[k] = f[k]
      /\ g[n] = PiecesOf(p, row.lines) /\ g[n] \in Int
  BY <1>2, <1>3, RowsAre, RowPiecesInt DEF PiecesTaken, BooksSound
<1>5. IsFiniteSet(Standing) /\ Standing \subseteq DOMAIN sales
  BY StandingAre DEF BooksSound
<1>6. SumFunctionOnSet(g, Standing') = SumFunctionOnSet(f, Standing) + g[n]
  <2>1. SumFunctionOnSet(g, Standing \cup {n}) = SumFunctionOnSet(f, Standing) + g[n]
    BY <1>3, <1>4, <1>5, SumGrow
  <2> QED
    BY <1>1, <2>1, OneMoreStands
<1>7. SumFunctionOnSet(f, Standing) \in Int
  BY <1>4, <1>5, SumInt
<1>8. shelf'[p] = shelf[p] - g[n] /\ shelf[p] = counted[p] - SumFunctionOnSet(f, Standing)
  BY <1>2, <1>4 DEF Sells, ShelfHolds
<1>9. counted[p] \in Int
  BY DEF BooksSound, TypeOK
<1>10. shelf'[p] = counted[p] - SumFunctionOnSet(g, Standing')
  BY <1>4, <1>6, <1>7, <1>8, <1>9
<1> QED
  BY <1>2, <1>10

\* A refund puts back what the row of the sale took, not what the carton holds today.
LEMMA ShelfAfterRefund ==
    ASSUME BooksSound, ShelfHolds, NEW k, NEW row, Undoes(k, row), counted' = counted,
           NEW p \in Products
    PROVE  shelf'[p] = counted'[p] - SumFunctionOnSet(PiecesTaken(p)', Standing')
<1>1. PICK f, g : f = PiecesTaken(p) /\ g = PiecesTaken(p)'
  OBVIOUS
<1>2. /\ k \in DOMAIN sales /\ k \in Standing
      /\ \A s \in DOMAIN sales : s \in DOMAIN sales' /\ sales'[s] = sales[s]
  BY RowAdded, UndoneStood DEF Undoes, BooksSound
<1>3. \A s \in DOMAIN sales : f[s] \in Int /\ g[s] = f[s]
  BY <1>1, <1>2, RowsAre, RowPiecesInt DEF PiecesTaken, BooksSound
<1>4. IsFiniteSet(Standing) /\ Standing \subseteq DOMAIN sales
  BY StandingAre DEF BooksSound
<1>5. /\ IsFiniteSet(Standing \ {k})
      /\ SumFunctionOnSet(f, Standing) = f[k] + SumFunctionOnSet(f, Standing \ {k})
      /\ SumFunctionOnSet(f, Standing \ {k}) \in Int
  <2>1. IsFiniteSet(Standing \ {k})
    BY <1>4, FS_Subset
  <2> QED
    BY <1>2, <1>3, <1>4, <2>1, SumRemove, SumInt
<1>6. SumFunctionOnSet(g, Standing') = SumFunctionOnSet(f, Standing \ {k})
  <2>1. SumFunctionOnSet(g, Standing \ {k}) = SumFunctionOnSet(f, Standing \ {k})
    BY <1>3, <1>4, <1>5, SumSame
  <2> QED
    BY <2>1, OneLessStands
<1>7. PiecesOf(p, row.lines) = f[k]
  <2>1. Opposite(sales[k], row)
    BY DEF Undoes
  <2>2. PiecesOf(p, row.lines) = PiecesOf(p, sales[k].lines)
    BY <2>1, SamePiecesBack
  <2> QED
    BY <1>1, <1>2, <2>2 DEF PiecesTaken
<1>8. shelf'[p] = shelf[p] + f[k] /\ shelf[p] = counted[p] - SumFunctionOnSet(f, Standing)
  BY <1>1, <1>7 DEF Undoes, ShelfHolds
<1>9. counted[p] \in Int /\ f[k] \in Int
  BY <1>2, <1>3 DEF BooksSound, TypeOK
<1>10. shelf'[p] = counted[p] - SumFunctionOnSet(g, Standing')
  BY <1>5, <1>6, <1>8, <1>9
<1> QED
  BY <1>1, <1>10

\* No step parts the shelf from the sales that stand.
LEMMA ShelfNext ==
    ASSUME BooksSound, ShelfHolds, [Next]_vars
    PROVE  ShelfHolds'
<1>1. shelf \in [Products -> Int] /\ counted \in [Products -> Int]
  BY DEF BooksSound, TypeOK
<1>2. ASSUME sales' = sales
      PROVE  \A p \in Products : PiecesTaken(p)' = PiecesTaken(p) /\ Standing' = Standing
  BY <1>2 DEF PiecesTaken, Standing, Cancelled
<1>3. \A p \in Products : p \notin file => ~Referenced(p)
  BY DEF BooksSound, NamedOnFile, Referenced
<1>4. ASSUME sales' = sales, NEW p \in Products, ~Referenced(p), NEW n \in Int,
             shelf' = [shelf EXCEPT ![p] = n], counted' = [counted EXCEPT ![p] = n]
      PROVE  ShelfHolds'
  <2>1. SumFunctionOnSet(PiecesTaken(p), Standing) = 0
    BY <1>4, NothingTaken DEF BooksSound
  <2>2. ASSUME NEW o \in Products
        PROVE  shelf'[o] = counted'[o] - SumFunctionOnSet(PiecesTaken(o), Standing)
    <3>1. CASE o = p
      <4>1. shelf'[o] = n /\ counted'[o] = n
        BY <1>1, <1>4, <3>1
      <4> QED
        BY <2>1, <3>1, <4>1
    <3>2. CASE o # p
      BY <1>1, <1>4, <3>2 DEF ShelfHolds
    <3> QED
      BY <3>1, <3>2
  <2> QED
    BY <1>2, <1>4, <2>2 DEF ShelfHolds
<1>5. ASSUME sales' = sales, NEW p \in Products, NEW scanned \in BOOLEAN, NEW sell \in BOOLEAN,
             NewProduct(p, Min(Prices), Min(PackSizes), FirstShelf, scanned, sell)
      PROVE  ShelfHolds'
  <2>1. PICK n \in Int : n = IF scanned THEN FirstShelf ELSE 0
    BY ConstantsAre
  <2>2. p \notin file /\ shelf' = [shelf EXCEPT ![p] = n] /\ counted' = [counted EXCEPT ![p] = n]
    BY <1>5, <2>1 DEF NewProduct
  <2> QED
    BY <1>3, <1>4, <1>5, <2>2
<1>6. ASSUME sales' = sales, NEW p \in Products, RemoveProduct(p)
      PROVE  ShelfHolds'
  <2>1. /\ ~Referenced(p) /\ 0 \in Int
        /\ shelf' = [shelf EXCEPT ![p] = 0] /\ counted' = [counted EXCEPT ![p] = 0]
    BY <1>6 DEF RemoveProduct
  <2> QED
    BY <1>4, <1>6, <2>1
<1>7. ASSUME sales' = sales, NEW p \in Products, EditQuantityCell(p, FirstShelf)
      PROVE  ShelfHolds'
  <2>1. PICK n \in Int, m \in Int : n = FirstShelf /\ m = counted[p] + n - shelf[p]
    BY <1>1, ConstantsAre
  <2>2. shelf' = [shelf EXCEPT ![p] = n] /\ counted' = [counted EXCEPT ![p] = m]
    BY <1>1, <1>7, <2>1 DEF EditQuantityCell
  <2>3. PICK t : t = SumFunctionOnSet(PiecesTaken(p), Standing)
    OBVIOUS
  <2>4. t \in Int
    <3>1. PICK f : f = PiecesTaken(p)
      OBVIOUS
    <3>2. \A k \in Standing : f[k] \in Int
      BY <3>1, StandingAre, RowsAre, RowPiecesInt DEF PiecesTaken, BooksSound
    <3> QED
      BY <2>3, <3>1, <3>2, StandingAre, SumInt DEF BooksSound
  <2>5. n = m - t
    BY <1>1, <2>1, <2>3, <2>4 DEF ShelfHolds
  <2> QED
    BY <1>1, <1>2, <1>7, <2>2, <2>3, <2>5 DEF ShelfHolds
<1>8. ASSUME sales' = sales, UNCHANGED goods
      PROVE  ShelfHolds'
  BY <1>2, <1>8 DEF ShelfHolds, goods
<1>9. ASSUME NEW row, Sells(row), counted' = counted
      PROVE  ShelfHolds'
  BY <1>9, ShelfAfterSale DEF ShelfHolds
<1>10. ASSUME NEW k, NEW row, Undoes(k, row), counted' = counted
       PROVE  ShelfHolds'
  BY <1>10, ShelfAfterRefund DEF ShelfHolds
<1>11. TypeOK
  BY DEF BooksSound
<1> QED
  BY <1>5, <1>6, <1>7, <1>8, <1>9, <1>10, <1>11, EveryStep

\* For any catalogue, any cartons and any number of sales and refunds, the shelf holds what
\* was counted in less the pieces of the sales that stand.
THEOREM ShelfCorrect == Spec => []ShelfFollowsSales
<1>1. Init => BooksSound /\ ShelfHolds
  BY BooksSoundInit, ShelfInit
<1>2. BooksSound /\ ShelfHolds /\ [Next]_vars => (BooksSound /\ ShelfHolds)'
  BY BooksSoundNext, ShelfNext
<1>3. BooksSound /\ ShelfHolds => ShelfFollowsSales
  BY DEF BooksSound, TypeOK, ShelfHolds, ShelfFollowsSales, PiecesTaken
<1> QED
  BY <1>1, <1>2, <1>3, PTL DEF Spec

----------------------------------------------------------------------------
(* The numbers of the receipts. *)

\* The rows that carry a receipt of a year.
IssuedIn(y) == {s \in DOMAIN sales : sales[s].reverses = 0 /\ sales[s].receipt[1] = y}

\* Before the first sale no number was given.
LEMMA ReceiptsInit == Init => ReceiptsRunOn
<1> SUFFICES ASSUME Init, NEW y \in Years
             PROVE  /\ {sales[s].receipt[2] : s \in IssuedIn(y)} = 1 .. Cardinality(IssuedIn(y))
                    /\ counter[y] = Cardinality(IssuedIn(y))
  BY DEF ReceiptsRunOn, IssuedIn
<1>1. IssuedIn(y) = {} /\ counter[y] = 0
  BY DEF Init, IssuedIn
<1>2. Cardinality({}) = 0
  BY FS_EmptySet
<1> QED
  BY <1>1, <1>2

\* A sale takes the number after the last of its year, a refund takes none.
LEMMA ReceiptsNext ==
    ASSUME TypeOK, ReceiptsRunOn, [Next]_vars
    PROVE  ReceiptsRunOn'
<1>1. ASSUME NEW y \in Years
      PROVE  /\ {sales[s].receipt[2] : s \in IssuedIn(y)} = 1 .. Cardinality(IssuedIn(y))
             /\ counter[y] = Cardinality(IssuedIn(y))
  BY DEF ReceiptsRunOn, IssuedIn
<1>2. ASSUME NEW y \in Years
      PROVE  IsFiniteSet(IssuedIn(y)) /\ IssuedIn(y) \subseteq DOMAIN sales
  <2>1. IssuedIn(y) \subseteq DOMAIN sales
    BY DEF IssuedIn
  <2> QED
    BY <2>1, RowsAre, FS_Subset
<1>3. ASSUME \A y \in Years : /\ {sales'[s].receipt[2] : s \in IssuedIn(y)'} = 1 .. Cardinality(IssuedIn(y)')
                            /\ counter'[y] = Cardinality(IssuedIn(y)')
      PROVE  ReceiptsRunOn'
  BY <1>3 DEF ReceiptsRunOn, IssuedIn
<1>4. ASSUME counter' = counter, \A s \in DOMAIN sales : sales'[s] = sales[s],
             NEW y \in Years, IssuedIn(y)' = IssuedIn(y)
      PROVE  /\ {sales'[s].receipt[2] : s \in IssuedIn(y)'} = 1 .. Cardinality(IssuedIn(y)')
             /\ counter'[y] = Cardinality(IssuedIn(y)')
  <2>1. {sales'[s].receipt[2] : s \in IssuedIn(y)} = {sales[s].receipt[2] : s \in IssuedIn(y)}
    BY <1>2, <1>4
  <2> QED
    BY <1>1, <1>4, <2>1
<1>5. ASSUME NEW row, Sells(row)
      PROVE  ReceiptsRunOn'
  <2>1. PICK n : n = Len(sales) + 1
    OBVIOUS
  <2>2. PICK m \in Nat : m = counter[year]
    BY DEF TypeOK
  <2>3. /\ DOMAIN sales' = DOMAIN sales \cup {n} /\ n \notin DOMAIN sales
        /\ \A s \in DOMAIN sales : sales'[s] = sales[s]
        /\ sales'[n] = row /\ row.reverses = 0 /\ row.receipt[1] = year /\ row.receipt[2] = m + 1
        /\ counter' = [counter EXCEPT ![year] = m + 1]
    BY <1>5, <2>1, <2>2, RowAdded DEF Sells
  <2>4. ASSUME NEW y \in Years
        PROVE  /\ {sales'[s].receipt[2] : s \in IssuedIn(y)'} = 1 .. Cardinality(IssuedIn(y)')
               /\ counter'[y] = Cardinality(IssuedIn(y)')
    <3>1. CASE y = year
      <4>1. PICK S : S = IssuedIn(y)
        OBVIOUS
      <4>2. IssuedIn(y)' = S \cup {n} /\ n \notin S
        BY <2>3, <3>1, <4>1 DEF IssuedIn
      <4>3. Cardinality(S) = m /\ {sales[s].receipt[2] : s \in S} = 1 .. m
        BY <1>1, <2>2, <3>1, <4>1
      <4>4. Cardinality(S \cup {n}) = m + 1
        BY <1>2, <4>1, <4>2, <4>3, FS_AddElement
      <4>5. {sales'[s].receipt[2] : s \in S \cup {n}} = {sales[s].receipt[2] : s \in S} \cup {m + 1}
        BY <1>2, <2>3, <4>1
      <4>6. (1 .. m) \cup {m + 1} = 1 .. (m + 1)
        OBVIOUS
      <4>7. counter'[y] = m + 1
        BY <2>3, <3>1 DEF TypeOK
      <4> QED
        BY <4>2, <4>3, <4>4, <4>5, <4>6, <4>7
    <3>2. CASE y # year
      <4>1. IssuedIn(y)' = IssuedIn(y)
        BY <2>3, <3>2 DEF IssuedIn
      <4>2. {sales'[s].receipt[2] : s \in IssuedIn(y)} = {sales[s].receipt[2] : s \in IssuedIn(y)}
        BY <1>2, <2>3
      <4>3. counter'[y] = counter[y]
        BY <2>3, <3>2 DEF TypeOK
      <4> QED
        BY <1>1, <4>1, <4>2, <4>3
    <3> QED
      BY <3>1, <3>2
  <2> QED
    BY <1>3, <2>4
<1>6. ASSUME NEW k, NEW row, Undoes(k, row), counter' = counter
      PROVE  ReceiptsRunOn'
  <2>1. PICK n : n = Len(sales) + 1
    OBVIOUS
  <2>2. /\ DOMAIN sales' = DOMAIN sales \cup {n} /\ n \notin DOMAIN sales
        /\ \A s \in DOMAIN sales : sales'[s] = sales[s]
        /\ sales'[n] = row /\ row.reverses # 0
    BY <1>6, <2>1, RowAdded, RowsAre DEF Undoes
  <2>3. \A y \in Years : IssuedIn(y)' = IssuedIn(y)
    BY <2>2 DEF IssuedIn
  <2> QED
    BY <1>3, <1>4, <1>6, <2>2, <2>3
<1>7. ASSUME sales' = sales, counter' = counter
      PROVE  ReceiptsRunOn'
  <2>1. \A y \in Years : IssuedIn(y)' = IssuedIn(y)
    BY <1>7 DEF IssuedIn
  <2> QED
    BY <1>3, <1>4, <1>7, <2>1
<1> QED
  BY <1>5, <1>6, <1>7, EveryStep

\* The receipts of every year run from one without a gap or a repetition, however often the
\* clock goes back and forth between years.
THEOREM ReceiptsCorrect == Spec => []ReceiptsRunOn
<1>1. Init => TypeOK /\ ReceiptsRunOn
  BY TypeInit, ReceiptsInit
<1>2. TypeOK /\ ReceiptsRunOn /\ [Next]_vars => (TypeOK /\ ReceiptsRunOn)'
  BY TypeNext, ReceiptsNext
<1> QED
  BY <1>1, <1>2, PTL DEF Spec

----------------------------------------------------------------------------
(* The screen and the row. *)

\* A new row that reverses nothing was written by a completed sale.
LEMMA NewRowIs ==
    ASSUME TypeOK, [Next]_vars, Len(sales') > Len(sales), Last(sales').reverses = 0
    PROVE  Sells(Last(sales'))
<1>1. ASSUME NEW row, sales' = Append(sales, row)
      PROVE  Last(sales') = row
  BY <1>1, RowAdded DEF Last
<1>2. ASSUME NEW row, Sells(row)
      PROVE  Sells(Last(sales'))
  <2>1. Last(sales') = row
    BY <1>1, <1>2 DEF Sells
  <2> QED
    BY <1>2, <2>1
<1>3. ASSUME NEW k, NEW row, Undoes(k, row)
      PROVE  FALSE
  <2>1. Last(sales').reverses = k /\ k \in DOMAIN sales
    BY <1>1, <1>3 DEF Undoes
  <2> QED
    BY <2>1, RowsAre
<1>4. ASSUME sales' = sales
      PROVE  FALSE
  BY <1>4, RowsAre
<1> QED
  BY <1>2, <1>3, <1>4, EveryStep

\* The row that is written adds up to what the page shows at that moment.
LEMMA ScreenNext ==
    ASSUME TypeOK, [Next]_vars, Len(sales') > Len(sales), Last(sales').reverses = 0,
           \A i \in DOMAIN cart : cart[i].price > 0
    PROVE  Last(sales').total = ScreenTotal
<1>1. PICK row : row = Last(sales') /\ Sells(row)
  BY NewRowIs
<1>2. PICK a : a = row.adjust
  OBVIOUS
<1>3. adjustment # {} /\ Max(adjustment) = a
  <2>1. adjustment = {a}
    BY <1>1, <1>2 DEF Sells
  <2>2. adjustment = {Max(adjustment)}
    BY <2>1, AdjustmentIs
  <2> QED
    BY <2>1, <2>2
<1>4. [i \in DOMAIN cart |-> Cents(Resolved(cart[i]))] = [i \in DOMAIN cart |-> Cents(cart[i])]
  BY LinesAre, ResolvedIs
<1>5. LinesTotal([i \in DOMAIN cart |-> Resolved(cart[i])]) = LinesTotal(cart)
  <2>1. PICK lines : lines = [i \in DOMAIN cart |-> Resolved(cart[i])]
    OBVIOUS
  <2>2. [i \in DOMAIN lines |-> Cents(lines[i])] = [i \in DOMAIN cart |-> Cents(cart[i])]
    BY <1>4, <2>1
  <2>3. LinesTotal(lines) = LinesTotal(cart)
    BY <2>2 DEF LinesTotal
  <2> QED
    BY <2>1, <2>3
<1>6. row.total = SaleTotal(cart, a)
  BY <1>1, <1>2 DEF Sells
<1> QED
  BY <1>1, <1>3, <1>5, <1>6 DEF SaleTotal, ScreenTotal

\* For any prices and edits, what the cashier reads out is the total of the row, as long as
\* every line on the screen has a price.
THEOREM ScreenCorrect == Spec => PricedScreenIsRecorded
<1>1. TypeOK /\ [Next]_vars =>
        [Len(sales') > Len(sales) /\ Last(sales').reverses = 0
             /\ (\A i \in DOMAIN cart : cart[i].price > 0)
         => Last(sales').total = ScreenTotal]_vars
  BY ScreenNext
<1> QED
  BY <1>1, TypeInit, TypeNext, PTL DEF Spec, PricedScreenIsRecorded

\* What is on the screen beside the lines was entered for this invoice.
EnteredHere ==
    /\ "adjustment" \notin entered => adjustment = {0}
    /\ "account" \notin entered => account = {}

\* A recorded sale clears both fields, and only the cashier fills them.
LEMMA EnteredNext == EnteredHere /\ [Next]_vars => EnteredHere'
<1> SUFFICES ASSUME EnteredHere, [Next]_vars
             PROVE  EnteredHere'
  OBVIOUS
<1>1. ASSUME UNCHANGED <<adjustment, account, entered>>
      PROVE  EnteredHere'
  BY <1>1 DEF EnteredHere
<1>2. ASSUME NEW text, TypeAdjustment(text)
      PROVE  EnteredHere'
  BY <1>2 DEF TypeAdjustment, EnteredHere
<1>3. ASSUME NEW c, EnterCreditMode(c)
      PROVE  EnteredHere'
  BY <1>3 DEF EnterCreditMode, EnteredHere
<1>4. ASSUME CompleteSale
      PROVE  EnteredHere'
  BY <1>4 DEF CompleteSale, CleanScreen, EnteredHere
<1>5. \A k \in DOMAIN sales : ReverseSale(k) => UNCHANGED <<adjustment, account, entered>>
  BY DEF ReverseSale, screen
<1>6. \A p \in Products, cents \in Prices, n \in PackSizes :
        EditProduct(p, cents, n) => UNCHANGED <<adjustment, account, entered>>
  BY DEF EditProduct, screen
<1>7. \A p \in Products : EditPriceCell(p, 0) \/ EditQuantityCell(p, FirstShelf) \/ RemoveProduct(p)
        => UNCHANGED <<adjustment, account, entered>>
  BY DEF EditPriceCell, EditQuantityCell, RemoveProduct, screen
<1>8. ASSUME ClearCreditMode
      PROVE  EnteredHere'
  BY <1>8 DEF ClearCreditMode, EnteredHere
<1>9. CASE UNCHANGED vars
  BY <1>1, <1>9 DEF vars
<1>10. CASE Next
  BY <1>1, <1>2, <1>3, <1>4, <1>5, <1>6, <1>7, <1>8, <1>10
     DEF Next, Scan, QuickClick, SubmitWeight, NewProduct, RemoveLine, ClearCart, SetQuantity,
         TypePrice, ChangeUnit, TurnYear, screen
<1> QED
  BY <1>9, <1>10

\* So what a row carries was entered since the row before.
LEMMA CarriedNext ==
    ASSUME TypeOK, EnteredHere, [Next]_vars, Len(sales') > Len(sales), Last(sales').reverses = 0
    PROVE  /\ Last(sales').adjust # 0 => "adjustment" \in entered
           /\ Last(sales').account # {} => "account" \in entered
<1>1. PICK row : row = Last(sales') /\ Sells(row)
  BY NewRowIs
<1>2. adjustment = {row.adjust} /\ row.account = account
  BY <1>1 DEF Sells
<1> QED
  BY <1>1, <1>2 DEF EnteredHere

\* No adjustment and no customer passes from one invoice to the next, whatever happens on the
\* screen in between.
THEOREM CarryCorrect == Spec => NothingCarriedOver
<1>1. Init => TypeOK /\ EnteredHere
  BY TypeInit DEF Init, EnteredHere
<1>2. TypeOK /\ EnteredHere /\ [Next]_vars => (TypeOK /\ EnteredHere)'
  BY TypeNext, EnteredNext
<1>3. TypeOK /\ EnteredHere /\ [Next]_vars =>
        [Len(sales') > Len(sales) /\ Last(sales').reverses = 0 =>
             /\ Last(sales').adjust # 0 => "adjustment" \in entered
             /\ Last(sales').account # {} => "account" \in entered]_vars
  BY CarriedNext
<1> QED
  BY <1>1, <1>2, <1>3, PTL DEF Spec, NothingCarriedOver

----------------------------------------------------------------------------
(* The report of a period. *)

\* What is read from finitely many rows is finitely many.
LEMMA ImageFinite ==
    ASSUME NEW S, IsFiniteSet(S), NEW f
    PROVE  IsFiniteSet({f[x] : x \in S})
<1> DEFINE T == {f[x] : x \in S}
<1>1. [x \in S |-> f[x]] \in Surjection(S, T)
  BY DEF Surjection
<1> QED
  BY <1>1, FS_Surjection

\* The row that undoes a row, and the row it undoes.
Twin == [k \in DOMAIN sales |-> IF sales[k].reverses # 0
                                THEN sales[k].reverses
                                ELSE CHOOSE s \in DOMAIN sales : sales[s].reverses = k]

\* Rows that do not stand come in pairs, a sale and the one row that undoes it.
LEMMA TwinIs ==
    ASSUME BooksSound, NEW k \in DOMAIN sales \ Standing
    PROVE  /\ Twin[k] \in DOMAIN sales \ Standing
           /\ Twin[Twin[k]] = k
           /\ \/ sales[k].reverses # 0 /\ sales[k].reverses = Twin[k]
              \/ sales[Twin[k]].reverses # 0 /\ sales[Twin[k]].reverses = k
<1>1. k \in DOMAIN sales /\ k # 0 /\ \A s \in DOMAIN sales : s # 0
  BY RowsAre DEF BooksSound
<1>2. CASE sales[k].reverses # 0
  <2>1. PICK o \in DOMAIN sales : o = sales[k].reverses /\ sales[o].reverses = 0
    BY <1>1, <1>2 DEF BooksSound, MirrorsUndo
  <2>2. Twin[k] = o
    BY <1>1, <1>2, <2>1 DEF Twin
  <2>3. Cancelled(o)
    BY <1>1, <2>1 DEF Cancelled
  <2>4. Twin[o] \in DOMAIN sales /\ sales[Twin[o]].reverses = o
    <3>1. \E s \in DOMAIN sales : sales[s].reverses = o
      BY <1>1, <2>1
    <3>2. Twin[o] = CHOOSE s \in DOMAIN sales : sales[s].reverses = o
      BY <2>1 DEF Twin
    <3> QED
      BY <3>1, <3>2
  <2>5. Twin[o] = k
    BY <1>1, <1>2, <2>1, <2>4 DEF BooksSound, UndoneOnce
  <2> QED
    BY <1>2, <2>1, <2>2, <2>3, <2>5 DEF Standing
<1>3. CASE sales[k].reverses = 0
  <2>1. \E s \in DOMAIN sales : sales[s].reverses = k
    BY <1>1, <1>3 DEF Standing, Cancelled
  <2>2. Twin[k] = CHOOSE s \in DOMAIN sales : sales[s].reverses = k
    BY <1>1, <1>3 DEF Twin
  <2>3. PICK t \in DOMAIN sales : t = Twin[k] /\ sales[t].reverses = k
    BY <2>1, <2>2
  <2>4. Twin[t] = k /\ t \notin Standing
    BY <1>1, <2>3 DEF Twin, Standing
  <2> QED
    BY <1>1, <2>3, <2>4
<1> QED
  BY <1>2, <1>3

\* Figures that change sign from a sale to its mirror: what was undone cancels out.
LEMMA RowsCancel ==
    ASSUME BooksSound, NEW f, NEW A \in SUBSET DOMAIN sales,
           \A k \in A : f[k] \in Int,
           \A k \in DOMAIN sales : sales[k].reverses # 0 =>
               /\ k \in A <=> sales[k].reverses \in A
               /\ k \in A => f[k] = -f[sales[k].reverses]
    PROVE  SumFunctionOnSet(f, A) = SumFunctionOnSet(f, A \cap Standing)
<1>1. IsFiniteSet(A)
  BY RowsAre, FS_Subset DEF BooksSound
<1>2. PICK twin : twin = Twin
  OBVIOUS
<1>3. ASSUME NEW k \in A \ (A \cap Standing)
      PROVE  /\ twin[k] \in A \ (A \cap Standing)
             /\ twin[twin[k]] = k
             /\ f[twin[k]] = -f[k]
  <2>1. k \in DOMAIN sales \ Standing /\ f[k] \in Int
    BY <1>3
  <2>2. PICK t \in DOMAIN sales \ Standing : t = Twin[k]
    BY <2>1, TwinIs
  <2>3. /\ Twin[t] = k
        /\ \/ sales[k].reverses # 0 /\ sales[k].reverses = t
           \/ sales[t].reverses # 0 /\ sales[t].reverses = k
    BY <2>1, <2>2, TwinIs
  <2>4. t \in A
    BY <1>3, <2>2, <2>3
  <2>5. f[t] = -f[k] /\ f[t] \in Int
    BY <1>3, <2>1, <2>3, <2>4
  <2> QED
    BY <1>2, <2>2, <2>3, <2>4, <2>5
<1> QED
  BY <1>1, <1>3, SumCancels

\* What every mirror is, beside the sale it undoes.
LEMMA MirrorAndSale ==
    ASSUME BooksSound, NEW k \in DOMAIN sales, sales[k].reverses # 0
    PROVE  /\ sales[k].reverses \in DOMAIN sales
           /\ Opposite(sales[sales[k].reverses], sales[k])
           /\ Original(sales[sales[k].reverses])
           /\ sales[sales[k].reverses].total > 0
BY DEF BooksSound, MirrorsUndo, SalesAsWritten

\* What each row says it came to.
RowTotal == [k \in DOMAIN sales |-> sales[k].total]
\* What each row comes to by its lines and its adjustment.
RowTaken == [k \in DOMAIN sales |-> Taken(k)]

\* The totals of a sale and its mirror cancel out, and a sale that stands says what it took.
LEMMA TotalsAre ==
    ASSUME BooksSound
    PROVE  /\ \A k \in DOMAIN sales : RowTotal[k] = sales[k].total /\ RowTotal[k] \in Int
           /\ \A k \in DOMAIN sales : sales[k].reverses # 0 =>
                  /\ sales[k].reverses \in DOMAIN sales
                  /\ sales[sales[k].reverses].account = sales[k].account
                  /\ RowTotal[k] = -RowTotal[sales[k].reverses]
           /\ \A k \in Standing : k \in DOMAIN sales /\ RowTaken[k] = RowTotal[k]
<1>1. \A k \in DOMAIN sales : RowTotal[k] = sales[k].total /\ RowTotal[k] \in Int
  BY RowsAre DEF RowTotal, BooksSound, Sale
<1>2. ASSUME NEW k \in DOMAIN sales, sales[k].reverses # 0
      PROVE  /\ sales[k].reverses \in DOMAIN sales
             /\ sales[sales[k].reverses].account = sales[k].account
             /\ RowTotal[k] = -RowTotal[sales[k].reverses]
  BY <1>1, <1>2, MirrorAndSale DEF Opposite
<1>3. ASSUME NEW k \in Standing
      PROVE  k \in DOMAIN sales /\ RowTaken[k] = RowTotal[k]
  <2>1. k \in DOMAIN sales /\ sales[k].reverses = 0
    BY DEF Standing
  <2> QED
    BY <2>1 DEF BooksSound, SalesAsWritten, Original, RowTaken, RowTotal, Taken
<1> QED
  BY <1>1, <1>2, <1>3

\* Every row is either to the till or on account.
LEMMA SaleRowsAre ==
    ASSUME TypeOK
    PROVE  /\ IsFiniteSet(SaleRows) /\ IsFiniteSet(AccountRows)
           /\ SaleRows \cup AccountRows = DOMAIN sales /\ SaleRows \cap AccountRows = {}
           /\ \A k \in DOMAIN sales : k \in SaleRows <=> sales[k].account = {}
<1>1. SaleRows \subseteq DOMAIN sales /\ AccountRows \subseteq DOMAIN sales
  BY DEF SaleRows, AccountRows
<1>2. IsFiniteSet(SaleRows) /\ IsFiniteSet(AccountRows)
  BY <1>1, RowsAre, FS_Subset
<1> QED
  BY <1>2 DEF SaleRows, AccountRows

\* The revenue of the report is what the sales that stand took.
LEMMA RevenueNetsOut ==
    ASSUME BooksSound
    PROVE  Revenue = SumFunctionOnSet(RowTaken, Standing)
<1>1. PICK f : f = RowTotal
  OBVIOUS
<1>2. Revenue = SumFunctionOnSet(f, SaleRows) + SumFunctionOnSet(f, AccountRows)
  BY <1>1 DEF Revenue, RowTotal
<1>3. Revenue = SumFunctionOnSet(f, DOMAIN sales)
  BY <1>1, <1>2, TotalsAre, SaleRowsAre, SumUnion DEF BooksSound
<1>4. SumFunctionOnSet(f, DOMAIN sales) = SumFunctionOnSet(f, DOMAIN sales \cap Standing)
  BY <1>1, TotalsAre, RowsCancel
<1>5. DOMAIN sales \cap Standing = Standing /\ IsFiniteSet(Standing)
  BY StandingAre DEF BooksSound
<1>6. SumFunctionOnSet(RowTaken, Standing) = SumFunctionOnSet(f, Standing)
  BY <1>1, <1>5, TotalsAre, SumSame
<1> QED
  BY <1>3, <1>4, <1>5, <1>6

\* What the pieces of a line are worth, whichever way they went.
Worth(l) == (Cost[l.product] * l.pieces) \div (IF l.kind = "weight" THEN 1000 ELSE 1)

\* A line costs what its pieces are worth, in the direction of its quantity.
LEMMA WorthIs ==
    ASSUME NEW l \in Sold
    PROVE  /\ Worth(l) \in Nat
           /\ CostOfLine(l) = IF l.qty < 0 THEN -Worth(l) ELSE Worth(l)
           /\ CostOfLine(l) \in Int
<1>1. Cost[l.product] \in Nat /\ l.pieces \in Nat /\ l.qty \in Int
  BY ReportsAssumption DEF Sold
<1>2. PICK w \in Nat : w = Cost[l.product] * l.pieces
  BY <1>1, ProductNat
<1>3. w \div (IF l.kind = "weight" THEN 1000 ELSE 1) \in Nat
  OBVIOUS
<1>4. Worth(l) \in Nat
  BY <1>2, <1>3 DEF Worth
<1>5. CostOfLine(l) = IF l.qty < 0 THEN -Worth(l) ELSE Worth(l)
  BY DEF CostOfLine, Worth
<1> QED
  BY <1>4, <1>5

\* The cost of a line that comes back is what it cost, taken off.
LEMMA CostTurns ==
    ASSUME NEW l \in Sold, NEW m \in Sold, Turned(l, m), l.qty > 0
    PROVE  CostOfLine(m) = -CostOfLine(l)
<1>1. l.qty \in Int /\ m.qty < 0 /\ Worth(m) = Worth(l)
  BY DEF Sold, Turned, Worth
<1> QED
  BY <1>1, WorthIs

\* The costs of a row, line by line.
LineCosts(s) == [i \in DOMAIN s.lines |-> CostOfLine(s.lines[i])]

\* The cost of a row is a sum over its lines.
LEMMA RowCostIs ==
    ASSUME TypeOK, NEW k \in DOMAIN sales
    PROVE  /\ CostOfRow(sales[k]) = SumFunctionOnSet(LineCosts(sales[k]), DOMAIN sales[k].lines)
           /\ \A i \in DOMAIN sales[k].lines : LineCosts(sales[k])[i] \in Int
           /\ CostOfRow(sales[k]) \in Int
<1>1. PICK f : f = LineCosts(sales[k])
  OBVIOUS
<1>2. CostOfRow(sales[k]) = SumFunctionOnSet(f, DOMAIN sales[k].lines)
  BY <1>1 DEF CostOfRow, LineCosts, SumFunction
<1>3. \A i \in DOMAIN sales[k].lines : f[i] \in Int
  BY <1>1, RowsAre, WorthIs DEF LineCosts
<1> QED
  BY <1>1, <1>2, <1>3, RowsAre, SumInt

\* The cost of a mirror is that of its sale, taken off.
LEMMA RowCostTurns ==
    ASSUME TypeOK, NEW k \in DOMAIN sales, NEW o \in DOMAIN sales, Opposite(sales[o], sales[k]),
           Original(sales[o])
    PROVE  CostOfRow(sales[k]) = -CostOfRow(sales[o])
<1>1. PICK f, g, D : f = LineCosts(sales[o]) /\ g = LineCosts(sales[k]) /\ D = DOMAIN sales[o].lines
  OBVIOUS
<1>2. DOMAIN sales[k].lines = D
  BY <1>1 DEF Opposite
<1>3. ASSUME NEW i \in D
      PROVE  f[i] \in Int /\ g[i] = -f[i]
  <2>1. PICK l \in Sold, m \in Sold : l = sales[o].lines[i] /\ m = sales[k].lines[i]
    BY <1>1, <1>2, RowsAre
  <2>2. Turned(l, m) /\ l.qty > 0
    BY <1>1, <1>2, <2>1 DEF Opposite, Original
  <2>3. CostOfLine(m) = -CostOfLine(l) /\ CostOfLine(l) \in Int
    BY <2>2, CostTurns, WorthIs
  <2> QED
    BY <1>1, <1>2, <2>1, <2>3 DEF LineCosts
<1>4. SumFunctionOnSet(g, D) = -SumFunctionOnSet(f, D)
  BY <1>1, <1>3, RowsAre, SumNegated
<1> QED
  BY <1>1, <1>2, <1>4, RowCostIs

\* The cost of the pieces that went out, as the report is expected to give it.
Piecewise(l) == IF l.kind = "weight" THEN (Cost[l.product] * l.qty) \div 1000
                ELSE Cost[l.product] * l.pieces
\* What the report takes each row to cost.
RowCost == [k \in DOMAIN sales |-> CostOfRow(sales[k])]
\* What each row is expected to cost.
RowPiecewise == [k \in DOMAIN sales |->
                    SumFunction([i \in DOMAIN sales[k].lines |-> Piecewise(sales[k].lines[i])])]

\* A sale as it was written costs what its pieces cost.
LEMMA PiecewiseIs ==
    ASSUME BooksSound, NEW k \in Standing
    PROVE  RowPiecewise[k] = RowCost[k]
<1>1. k \in DOMAIN sales /\ sales[k].reverses = 0
  BY DEF Standing
<1>2. Original(sales[k])
  BY <1>1 DEF BooksSound, SalesAsWritten
<1>3. ASSUME NEW i \in DOMAIN sales[k].lines
      PROVE  Piecewise(sales[k].lines[i]) = CostOfLine(sales[k].lines[i])
  <2>1. PICK l \in Sold : l = sales[k].lines[i]
    BY <1>1, RowsAre DEF BooksSound
  <2>2. l.qty \in Int /\ l.qty > 0 /\ (l.kind # "package" => l.pieces = l.qty)
    BY <1>2, <2>1 DEF Original, Sold
  <2>3. PICK w \in Nat : w = Cost[l.product] * l.pieces
    <3>1. Cost[l.product] \in Nat /\ l.pieces \in Nat
      BY ReportsAssumption DEF Sold
    <3> QED
      BY <3>1, ProductNat
  <2>4. CostOfLine(l) = Worth(l)
    BY <2>2, WorthIs
  <2>5. CASE l.kind = "weight"
    BY <2>1, <2>2, <2>4, <2>5 DEF Piecewise, Worth
  <2>6. CASE l.kind # "weight"
    <3>1. w \div 1 = w
      OBVIOUS
    <3>2. Worth(l) = w
      BY <2>3, <2>6, <3>1 DEF Worth
    <3> QED
      BY <2>1, <2>3, <2>4, <2>6, <3>2 DEF Piecewise
  <2> QED
    BY <2>5, <2>6
<1>4. [i \in DOMAIN sales[k].lines |-> Piecewise(sales[k].lines[i])]
        = [i \in DOMAIN sales[k].lines |-> CostOfLine(sales[k].lines[i])]
  BY <1>3
<1> QED
  BY <1>1, <1>4 DEF RowPiecewise, RowCost, CostOfRow

\* The cost in the report is that of the pieces of the sales that stand.
LEMMA CostsNetOut ==
    ASSUME BooksSound
    PROVE  Cogs = SumFunctionOnSet(RowPiecewise, Standing)
<1>1. PICK f, g, h : /\ f = RowCost /\ g = [k \in SaleRows |-> CostOfRow(sales[k])]
                     /\ h = [k \in AccountRows |-> CostOnAccount(sales[k])]
  OBVIOUS
<1>2. /\ \A k \in DOMAIN sales : f[k] = CostOfRow(sales[k]) /\ f[k] \in Int
      /\ \A k \in SaleRows : g[k] = f[k]
      /\ \A k \in AccountRows : h[k] = f[k]
  BY <1>1, SaleRowsAre, RowCostIs DEF RowCost, CostOnAccount, BooksSound
<1>3. Cogs = SumFunctionOnSet(g, SaleRows) + SumFunctionOnSet(h, AccountRows)
  BY <1>1 DEF Cogs, SumFunction
<1>4. /\ SumFunctionOnSet(g, SaleRows) = SumFunctionOnSet(f, SaleRows)
      /\ SumFunctionOnSet(h, AccountRows) = SumFunctionOnSet(f, AccountRows)
  BY <1>2, SaleRowsAre, SumSame DEF BooksSound
<1>5. Cogs = SumFunctionOnSet(f, DOMAIN sales)
  BY <1>2, <1>3, <1>4, SaleRowsAre, SumUnion DEF BooksSound
<1>6. ASSUME NEW k \in DOMAIN sales, sales[k].reverses # 0
      PROVE  sales[k].reverses \in DOMAIN sales /\ f[k] = -f[sales[k].reverses]
  BY <1>2, <1>6, MirrorAndSale, RowCostTurns DEF BooksSound
<1>7. SumFunctionOnSet(f, DOMAIN sales) = SumFunctionOnSet(f, DOMAIN sales \cap Standing)
  BY <1>2, <1>6, RowsCancel
<1>8. DOMAIN sales \cap Standing = Standing /\ IsFiniteSet(Standing)
  BY StandingAre DEF BooksSound
<1>9. SumFunctionOnSet(RowPiecewise, Standing) = SumFunctionOnSet(f, Standing)
  BY <1>1, <1>8, PiecewiseIs, SumSame
<1> QED
  BY <1>5, <1>7, <1>8, <1>9

\* The account of one customer.
LEMMA AccountNetsOut ==
    ASSUME BooksSound, NEW c
    PROVE  SumFunctionOnSet(RowTotal, {k \in AccountRows : sales[k].account = {c}})
             = SumFunctionOnSet(RowTaken, {k \in Standing : sales[k].account = {c}})
<1>1. PICK f, A : f = RowTotal /\ A = {k \in AccountRows : sales[k].account = {c}}
  OBVIOUS
<1>2. A \subseteq DOMAIN sales /\ \A k \in DOMAIN sales : k \in A <=> sales[k].account = {c}
  BY <1>1, SaleRowsAre DEF BooksSound
<1>3. SumFunctionOnSet(f, A) = SumFunctionOnSet(f, A \cap Standing)
  BY <1>1, <1>2, TotalsAre, RowsCancel
<1>4. A \cap Standing = {k \in Standing : sales[k].account = {c}} /\ IsFiniteSet(A \cap Standing)
  BY <1>2, StandingAre, FS_Subset DEF BooksSound
<1>5. SumFunctionOnSet(RowTaken, A \cap Standing) = SumFunctionOnSet(f, A \cap Standing)
  BY <1>1, <1>4, TotalsAre, SumSame
<1> QED
  BY <1>1, <1>3, <1>4, <1>5

\* The report counts the sales that stand, as long as every one on account came to
\* something.
LEMMA CountNetsOut ==
    ASSUME BooksSound, \A k \in Standing \cap AccountRows : sales[k].total > 0
    PROVE  SalesCount = Cardinality(Standing)
<1>1. PICK f, g, h : /\ f = [k \in DOMAIN sales |-> IF sales[k].reverses = 0 THEN 1 ELSE -1]
                     /\ g = [k \in SaleRows |-> IF sales[k].reverses = 0 THEN 1 ELSE -1]
                     /\ h = [k \in AccountRows |-> IF sales[k].total > 0 THEN 1 ELSE -1]
  OBVIOUS
<1>2. \A k \in SaleRows : g[k] = f[k]
  BY <1>1, SaleRowsAre DEF BooksSound
<1>3. ASSUME NEW k \in AccountRows
      PROVE  h[k] = f[k]
  <2>1. k \in DOMAIN sales /\ sales[k].total \in Int
    BY SaleRowsAre, RowsAre DEF BooksSound, Sale
  <2>2. CASE sales[k].reverses = 0 /\ k \in Standing
    BY <1>1, <2>1, <2>2
  <2>3. CASE sales[k].reverses = 0 /\ k \notin Standing
    <3>1. PICK s \in DOMAIN sales : sales[s].reverses = k
      BY <2>1, <2>3 DEF Standing, Cancelled
    <3>2. k # 0
      BY <2>1, RowsAre DEF BooksSound
    <3>3. sales[k].total > 0
      BY <3>1, <3>2, MirrorAndSale
    <3> QED
      BY <1>1, <2>1, <2>3, <3>3
  <2>4. CASE sales[k].reverses # 0
    <3>1. ~(sales[k].total > 0)
      BY <2>1, <2>4, OnlySalesAreUndone
    <3> QED
      BY <1>1, <2>1, <2>4, <3>1
  <2> QED
    BY <2>2, <2>3, <2>4
<1>4. \A k \in DOMAIN sales : f[k] \in Int
  BY <1>1
<1>5. /\ SumFunctionOnSet(g, SaleRows) = SumFunctionOnSet(f, SaleRows)
      /\ SumFunctionOnSet(h, AccountRows) = SumFunctionOnSet(f, AccountRows)
  BY <1>2, <1>3, SaleRowsAre, SumSame DEF BooksSound
<1>6. SumFunctionOnSet(f, SaleRows) + SumFunctionOnSet(f, AccountRows) = SumFunctionOnSet(f, DOMAIN sales)
  BY <1>4, SaleRowsAre, SumUnion DEF BooksSound
<1>7. ASSUME NEW k \in DOMAIN sales, sales[k].reverses # 0
      PROVE  sales[k].reverses \in DOMAIN sales /\ f[k] = -f[sales[k].reverses]
  <2>1. sales[k].reverses \in DOMAIN sales /\ sales[sales[k].reverses].reverses = 0
    BY <1>7 DEF BooksSound, MirrorsUndo
  <2> QED
    BY <1>1, <1>7, <2>1
<1>8. SumFunctionOnSet(f, DOMAIN sales) = SumFunctionOnSet(f, DOMAIN sales \cap Standing)
  BY <1>4, <1>7, RowsCancel
<1>9. DOMAIN sales \cap Standing = Standing /\ IsFiniteSet(Standing)
  BY StandingAre DEF BooksSound
<1>10. SumFunctionOnSet(f, Standing) = Cardinality(Standing)
  <2>1. \A k \in Standing : f[k] = 1
    BY <1>1 DEF Standing
  <2> QED
    BY <1>9, <2>1, SumCounts
<1>11. SalesCount = Max({0, SumFunctionOnSet(g, SaleRows) + SumFunctionOnSet(h, AccountRows)})
  BY <1>1 DEF SalesCount, SumFunction
<1>12. PICK n \in Nat : n = Cardinality(Standing)
  BY <1>9, FS_CardinalityType
<1>13. SalesCount = Max({0, n})
  BY <1>5, <1>6, <1>8, <1>9, <1>10, <1>11, <1>12
<1>14. Max({0, n}) = n
  <2>1. IsFiniteSet({0, n})
    <3>1. IsFiniteSet(0 .. n) /\ {0, n} \subseteq 0 .. n
      BY FS_Interval
    <3> QED
      BY <3>1, FS_Subset
  <2>2. Max({0, n}) \in {0, n} /\ n <= Max({0, n})
    BY <2>1, MaxIn
  <2> QED
    BY <2>2
<1> QED
  BY <1>12, <1>13, <1>14

\* The report of a period leaves nothing of what was undone.
LEMMA PeriodHolds ==
    ASSUME BooksSound
    PROVE  PeriodNetsOut
<1>1. [k \in DOMAIN sales |-> Taken(k)] = RowTaken /\ [k \in DOMAIN sales |-> sales[k].total] = RowTotal
  BY DEF RowTaken, RowTotal
<1>2. OutstandingDebt = SumFunction([c \in Customers |->
            Max({0, SumFunctionOnSet(RowTotal, {k \in AccountRows : sales[k].account = {c}})})])
  BY <1>1 DEF OutstandingDebt
<1>3. OutstandingDebt = SumFunction([c \in Customers |->
            Max({0, SumFunctionOnSet(RowTaken, {k \in Standing : sales[k].account = {c}})})])
  BY <1>2, AccountNetsOut
<1>4. GrossProfit = Revenue - SumFunctionOnSet(RowPiecewise, Standing)
  BY CostsNetOut DEF GrossProfit
<1> QED
  BY <1>1, <1>3, <1>4, RevenueNetsOut, CountNetsOut DEF PeriodNetsOut, RowPiecewise, Piecewise

----------------------------------------------------------------------------
(* The report of a day. *)

\* The drawer holds what the rows to the till add up to, refunds included.
TakingsHold == drawer = SumFunctionOnSet(RowTotal, SaleRows)

\* At the start the drawer holds nothing of these sales.
LEMMA TakingsInit == Init => TakingsHold
<1> SUFFICES ASSUME Init
             PROVE  TakingsHold
  OBVIOUS
<1>1. SaleRows = {} /\ drawer = 0
  BY DEF Init, SaleRows
<1>2. SumFunctionOnSet(RowTotal, {}) = 0
  BY SumEmpty
<1> QED
  BY <1>1, <1>2 DEF TakingsHold

\* A row to the till moves the drawer by its total, one on account does not.
LEMMA TakingsGrow ==
    ASSUME TypeOK, TakingsHold, NEW row \in Sale, sales' = Append(sales, row),
           drawer' = IF row.account = {} THEN drawer + row.total ELSE drawer
    PROVE  TakingsHold'
<1>1. PICK n, f, g, S : n = Len(sales) + 1 /\ f = RowTotal /\ g = RowTotal' /\ S = SaleRows
  OBVIOUS
<1>2. /\ DOMAIN sales' = DOMAIN sales \cup {n} /\ n \notin DOMAIN sales
      /\ \A k \in DOMAIN sales : sales'[k] = sales[k]
      /\ sales'[n] = row
  BY <1>1, RowAdded
<1>3. /\ \A k \in DOMAIN sales : f[k] \in Int /\ g[k] = f[k]
      /\ g[n] = row.total /\ g[n] \in Int
  BY <1>1, <1>2, RowsAre DEF RowTotal, Sale
<1>4. IsFiniteSet(S) /\ S \subseteq DOMAIN sales /\ n \notin S
  BY <1>1, <1>2, SaleRowsAre
<1>5. SaleRows' = IF row.account = {} THEN S \cup {n} ELSE S
  BY <1>1, <1>2 DEF SaleRows
<1>6. drawer = SumFunctionOnSet(f, S)
  BY <1>1 DEF TakingsHold
<1>7. SumFunctionOnSet(g, S \cup {n}) = SumFunctionOnSet(f, S) + g[n]
  BY <1>3, <1>4, SumGrow
<1>8. SumFunctionOnSet(g, S) = SumFunctionOnSet(f, S)
  BY <1>3, <1>4, SumSame
<1>9. drawer' = SumFunctionOnSet(g, SaleRows')
  BY <1>3, <1>5, <1>6, <1>7, <1>8
<1> QED
  BY <1>1, <1>9 DEF TakingsHold

\* No step parts the drawer from the rows to the till.
LEMMA TakingsNext ==
    ASSUME TypeOK, TakingsHold, [Next]_vars
    PROVE  TakingsHold'
<1>1. ASSUME NEW row, Sells(row)
      PROVE  TakingsHold'
  BY <1>1, TakingsGrow DEF Sells
<1>2. ASSUME NEW k, NEW row, Undoes(k, row)
      PROVE  TakingsHold'
  BY <1>2, TakingsGrow DEF Undoes, Opposite
<1>3. ASSUME sales' = sales, drawer' = drawer
      PROVE  TakingsHold'
  BY <1>3 DEF TakingsHold, RowTotal, SaleRows
<1> QED
  BY <1>1, <1>2, <1>3, EveryStep

\* The takings of the day are those rows added up.
LEMMA TakingsAre ==
    ASSUME TypeOK, TakingsHold
    PROVE  DailyTakings = drawer
<1>1. PICK f, g : f = RowTotal /\ g = [k \in SaleRows |-> sales[k].total]
  OBVIOUS
<1>2. \A k \in SaleRows : g[k] = f[k]
  BY <1>1, SaleRowsAre DEF RowTotal
<1>3. SumFunctionOnSet(g, SaleRows) = SumFunctionOnSet(f, SaleRows)
  BY <1>2, SaleRowsAre, SumSame
<1> QED
  BY <1>1, <1>3 DEF DailyTakings, SumFunction, TakingsHold

\* What a customer newly owes is what stands on the account.
LEMMA DebtsNetOut ==
    ASSUME BooksSound, NEW c
    PROVE  SumFunction([d \in {n \in NewDebts : n.who = {c}} |-> d.amount])
             = SumFunction([k \in {n \in Standing : sales[n].account = {c}} |-> Taken(k)])
<1>1. PICK A, B, D : /\ A = {k \in AccountRows : sales[k].account = {c}}
                     /\ B = {k \in Standing : sales[k].account = {c}}
                     /\ D = {d \in NewDebts : d.who = {c}}
  OBVIOUS
<1>2. PICK f, g, h, t : /\ f = RowTotal /\ g = [d \in D |-> d.amount] /\ h = [d \in D |-> d.row]
                        /\ t = [k \in B |-> Taken(k)]
  OBVIOUS
<1>3. A \subseteq DOMAIN sales /\ B \subseteq DOMAIN sales
  BY <1>1, SaleRowsAre, StandingAre DEF BooksSound
<1>4. IsFiniteSet(A) /\ IsFiniteSet(B)
  BY <1>3, RowsAre, FS_Subset DEF BooksSound
<1>5. PICK debt : debt = [k \in A |-> [who |-> sales[k].account, amount |-> sales[k].total, row |-> k]]
  OBVIOUS
<1>6. D = {debt[k] : k \in A}
  BY <1>1, <1>5 DEF NewDebts
<1>7. \A k \in A : /\ debt[k].amount = sales[k].total /\ debt[k].row = k /\ debt[k] \in D
  BY <1>5, <1>6
<1>8. IsFiniteSet(D)
  BY <1>4, <1>6, ImageFinite
<1>9. \A d \in D : h[d] \in A /\ debt[h[d]] = d /\ g[d] = f[h[d]] /\ g[d] \in Int
  BY <1>2, <1>3, <1>6, <1>7, TotalsAre
<1>10. \A k \in A : \E d \in D : h[d] = k
  BY <1>2, <1>7
<1>11. \A d, e \in D : h[d] = h[e] => d = e
  BY <1>9
<1>12. SumFunctionOnSet(g, D) = SumFunctionOnSet(f, A)
  BY <1>4, <1>8, <1>9, <1>10, <1>11, SumRenamed
<1>13. SumFunctionOnSet(f, A) = SumFunctionOnSet(RowTaken, B)
  BY <1>1, <1>2, AccountNetsOut
<1>14. SumFunctionOnSet(t, B) = SumFunctionOnSet(RowTaken, B)
  <2>1. \A k \in B : t[k] = RowTaken[k]
    BY <1>2, <1>3 DEF RowTaken
  <2> QED
    BY <1>4, <2>1, SumSame
<1>15. SumFunction(g) = SumFunctionOnSet(g, D) /\ SumFunction(t) = SumFunctionOnSet(t, B)
  BY <1>2 DEF SumFunction
<1>16. SumFunction(g) = SumFunction(t)
  BY <1>12, <1>13, <1>14, <1>15
<1> QED
  BY <1>1, <1>2, <1>16

\* The lines to the till are finitely many, each a row and a place in it.
LEMMA PairsAre ==
    ASSUME TypeOK
    PROVE  /\ IsFiniteSet(ToTheTill)
           /\ \A r \in ToTheTill : /\ r = <<r[1], r[2]>> /\ r[1] \in SaleRows
                                   /\ r[2] \in DOMAIN sales[r[1]].lines
                                   /\ At(r) \in Sold
           /\ \A k \in SaleRows : \A i \in DOMAIN sales[k].lines :
                 <<k, i>> \in ToTheTill /\ At(<<k, i>>) = sales[k].lines[i]
<1>1. PICK part : part = [k \in SaleRows |-> {k} \X DOMAIN sales[k].lines]
  OBVIOUS
<1>2. ToTheTill = UNION {part[k] : k \in SaleRows}
  BY <1>1 DEF ToTheTill
<1>3. \A k \in SaleRows : k \in DOMAIN sales
  BY SaleRowsAre
<1>4. ASSUME NEW k \in SaleRows
      PROVE  IsFiniteSet(part[k])
  <2>1. IsFiniteSet({k}) /\ IsFiniteSet(DOMAIN sales[k].lines)
    BY <1>3, RowsAre, FS_Singleton
  <2>2. IsFiniteSet({k} \X DOMAIN sales[k].lines)
    BY <2>1, FS_Product
  <2> QED
    BY <1>1, <2>2
<1>5. IsFiniteSet(ToTheTill)
  <2>1. PICK T : T = {part[k] : k \in SaleRows}
    OBVIOUS
  <2>2. IsFiniteSet(T) /\ \A U \in T : IsFiniteSet(U)
    BY <1>4, <2>1, SaleRowsAre, ImageFinite
  <2>3. IsFiniteSet(UNION T)
    BY <2>2, FS_UNION
  <2> QED
    BY <1>2, <2>1, <2>3
<1>6. ASSUME NEW r \in ToTheTill
      PROVE  /\ r = <<r[1], r[2]>> /\ r[1] \in SaleRows
             /\ r[2] \in DOMAIN sales[r[1]].lines
             /\ At(r) \in Sold
  <2>1. PICK k \in SaleRows : r \in {k} \X DOMAIN sales[k].lines
    BY <1>1, <1>2
  <2>2. r = <<r[1], r[2]>> /\ r[1] = k /\ r[2] \in DOMAIN sales[k].lines
    BY <2>1
  <2>3. At(r) \in Sold
    BY <1>3, <2>2, RowsAre DEF At
  <2> QED
    BY <2>2, <2>3
<1>7. ASSUME NEW k \in SaleRows, NEW i \in DOMAIN sales[k].lines
      PROVE  <<k, i>> \in ToTheTill /\ At(<<k, i>>) = sales[k].lines[i]
  BY <1>1, <1>2 DEF At
<1> QED
  BY <1>5, <1>6, <1>7

\* A line of a mirror, and the line of the sale it turns.
LEMMA PairTurns ==
    ASSUME BooksSound, NEW k \in SaleRows, sales[k].reverses # 0, NEW i \in DOMAIN sales[k].lines
    PROVE  /\ sales[k].reverses \in SaleRows
           /\ i \in DOMAIN sales[sales[k].reverses].lines
           /\ <<k, i>> \in ToTheTill /\ <<sales[k].reverses, i>> \in ToTheTill
           /\ At(<<k, i>>) \in Sold /\ At(<<sales[k].reverses, i>>) \in Sold
           /\ Turned(At(<<sales[k].reverses, i>>), At(<<k, i>>))
           /\ At(<<sales[k].reverses, i>>).qty > 0
           /\ At(<<sales[k].reverses, i>>).kind # "package" =>
                 At(<<sales[k].reverses, i>>).pieces = At(<<sales[k].reverses, i>>).qty
<1>1. PICK o : o = sales[k].reverses
  OBVIOUS
<1>2. /\ k \in DOMAIN sales /\ o \in DOMAIN sales
      /\ Opposite(sales[o], sales[k]) /\ Original(sales[o])
  BY <1>1, SaleRowsAre, MirrorAndSale DEF BooksSound
<1>3. o \in SaleRows /\ i \in DOMAIN sales[o].lines
  BY <1>2, SaleRowsAre DEF BooksSound, Opposite
<1>4. /\ <<k, i>> \in ToTheTill /\ At(<<k, i>>) = sales[k].lines[i] /\ At(<<k, i>>) \in Sold
      /\ <<o, i>> \in ToTheTill /\ At(<<o, i>>) = sales[o].lines[i] /\ At(<<o, i>>) \in Sold
  BY <1>3, PairsAre DEF BooksSound
<1>5. /\ Turned(sales[o].lines[i], sales[k].lines[i]) /\ sales[o].lines[i].qty > 0
      /\ sales[o].lines[i].kind # "package" => sales[o].lines[i].pieces = sales[o].lines[i].qty
  BY <1>2, <1>3 DEF Opposite, Original
<1> QED
  BY <1>1, <1>3, <1>4, <1>5

\* Figures of lines that change sign with the line: what was undone cancels out.
LEMMA LinesCancel ==
    ASSUME BooksSound, NEW f, NEW A \in SUBSET ToTheTill,
           \A r \in A : f[r] \in Int,
           \A k \in SaleRows : sales[k].reverses # 0 =>
               \A i \in DOMAIN sales[k].lines :
                   /\ <<k, i>> \in A <=> <<sales[k].reverses, i>> \in A
                   /\ <<k, i>> \in A => f[<<k, i>>] = -f[<<sales[k].reverses, i>>]
    PROVE  SumFunctionOnSet(f, A) = SumFunctionOnSet(f, {r \in A : r[1] \in Standing})
<1>1. IsFiniteSet(A)
  BY PairsAre, FS_Subset DEF BooksSound
<1>2. PICK twin : twin = [r \in A |-> <<Twin[r[1]], r[2]>>]
  OBVIOUS
<1>3. PICK Kept : Kept = {r \in A : r[1] \in Standing}
  OBVIOUS
<1>4. ASSUME NEW r \in A \ Kept
      PROVE  /\ twin[r] \in A \ Kept
             /\ twin[twin[r]] = r
             /\ f[twin[r]] = -f[r]
  <2>1. PICK k, i : k \in SaleRows /\ i \in DOMAIN sales[k].lines /\ r = <<k, i>>
    BY <1>4, PairsAre DEF BooksSound
  <2>2. r \in A /\ k \in DOMAIN sales \ Standing /\ f[r] \in Int
    BY <1>3, <1>4, <2>1, SaleRowsAre DEF BooksSound
  <2>3. PICK t \in DOMAIN sales \ Standing : t = Twin[k]
    BY <2>2, TwinIs
  <2>4. /\ Twin[t] = k
        /\ \/ sales[k].reverses # 0 /\ sales[k].reverses = t
           \/ sales[t].reverses # 0 /\ sales[t].reverses = k
    BY <2>2, <2>3, TwinIs
  <2>5. <<t, i>> \in A /\ (f[<<t, i>>] = -f[<<k, i>>] \/ f[<<k, i>>] = -f[<<t, i>>])
    <3>1. CASE sales[k].reverses # 0 /\ sales[k].reverses = t
      BY <2>1, <2>2, <3>1
    <3>2. CASE sales[t].reverses # 0 /\ sales[t].reverses = k
      <4>1. t \in DOMAIN sales /\ Opposite(sales[k], sales[t])
        BY <2>3, <3>2, MirrorAndSale
      <4>2. t \in SaleRows /\ i \in DOMAIN sales[t].lines
        BY <2>1, <2>2, <4>1, SaleRowsAre DEF BooksSound, Opposite
      <4> QED
        BY <2>1, <2>2, <3>2, <4>2
    <3> QED
      BY <2>4, <3>1, <3>2
  <2>6. f[<<t, i>>] = -f[r] /\ f[<<t, i>>] \in Int
    BY <2>1, <2>2, <2>5
  <2>7. twin[r] = <<t, i>> /\ twin[<<t, i>>] = <<k, i>>
    BY <1>2, <2>1, <2>2, <2>3, <2>4, <2>5
  <2>8. <<t, i>> \notin Kept
    BY <1>3, <2>3
  <2> QED
    BY <2>1, <2>5, <2>6, <2>7, <2>8
<1>5. SumFunctionOnSet(f, A) = SumFunctionOnSet(f, Kept)
  <2>1. Kept \in SUBSET A
    BY <1>3
  <2> QED
    BY <1>1, <1>4, <2>1, SumCancels
<1> QED
  BY <1>3, <1>5

\* A price times a quantity that comes back.
LEMMA ProductTurns ==
    ASSUME NEW a \in Nat, NEW b \in Nat
    PROVE  a * (-b) = -(a * b)
OBVIOUS

\* Rounding towards zero treats both directions alike.
LEMMA QuotientTurns ==
    ASSUME NEW w \in Nat
    PROVE  /\ Quotient(w, 1000) = w \div 1000 /\ Quotient(-w, 1000) = -(w \div 1000)
           /\ w \div 1000 \in Nat
<1>1. w \div 1000 \in Nat
  OBVIOUS
<1>2. Quotient(w, 1000) = w \div 1000
  BY DEF Quotient
<1>3. CASE ~(w > 0)
  <2>1. PICK z \in Int : z = -w
    OBVIOUS
  <2>2. z = 0 /\ w = 0
    BY <1>3, <2>1
  <2>3. 0 \div 1000 = 0
    OBVIOUS
  <2>4. Quotient(z, 1000) = 0
    BY <2>2, <2>3 DEF Quotient
  <2>5. ~(w \div 1000 > 0)
    BY <2>2, <2>3
  <2>6. -(w \div 1000) = 0
    BY <1>1, <2>5
  <2> QED
    BY <1>1, <1>2, <2>1, <2>4, <2>6
<1>4. CASE w > 0
  <2>1. ~(-w >= 0) /\ -(-w) = w
    BY <1>4
  <2> QED
    BY <1>1, <1>2, <2>1 DEF Quotient
<1> QED
  BY <1>1, <1>2, <1>3, <1>4

\* What the day's report makes of a line, at some price a unit.
AtRate(l, rate) == IF l.kind = "weight" THEN Quotient(rate * l.qty, 1000) ELSE rate * l.qty

\* A line that comes back gives what it gave, with the other sign.
LEMMA AtRateIs ==
    ASSUME NEW l \in Sold, NEW rate \in Nat, l.qty > 0
    PROVE  /\ AtRate(l, rate) \in Nat
           /\ AtRate(l, rate) = IF l.kind = "weight" THEN (rate * l.qty) \div 1000 ELSE rate * l.qty
           /\ \A m \in Sold : m.kind = l.kind /\ m.qty = -l.qty => AtRate(m, rate) = -AtRate(l, rate)
<1>1. PICK q \in Nat : q = l.qty
  BY DEF Sold
<1>2. PICK w \in Nat : w = rate * q /\ rate * (-q) = -w
  BY ProductNat, ProductTurns
<1>3. /\ Quotient(w, 1000) = w \div 1000 /\ Quotient(-w, 1000) = -(w \div 1000)
      /\ w \div 1000 \in Nat
  BY QuotientTurns
<1>4. AtRate(l, rate) = IF l.kind = "weight" THEN w \div 1000 ELSE w
  BY <1>1, <1>2, <1>3 DEF AtRate
<1>5. ASSUME NEW m \in Sold, m.kind = l.kind, m.qty = -l.qty
      PROVE  AtRate(m, rate) = -AtRate(l, rate)
  <2>1. m.qty = -q
    BY <1>1, <1>5
  <2>2. AtRate(m, rate) = IF l.kind = "weight" THEN Quotient(-w, 1000) ELSE -w
    BY <1>2, <1>5, <2>1 DEF AtRate
  <2> QED
    BY <1>3, <1>4, <2>2
<1> QED
  BY <1>1, <1>2, <1>3, <1>4, <1>5

\* A line of a sale to the till that stands.
LEMMA StandingLine ==
    ASSUME BooksSound, NEW r \in ToTheTill, sales[r[1]].reverses = 0
    PROVE  At(r).qty > 0 /\ (At(r).kind # "package" => At(r).pieces = At(r).qty)
<1>1. r[1] \in DOMAIN sales /\ r[2] \in DOMAIN sales[r[1]].lines
  BY PairsAre, SaleRowsAre DEF BooksSound
<1>2. Original(sales[r[1]])
  BY <1>1 DEF BooksSound, SalesAsWritten
<1> QED
  BY <1>1, <1>2 DEF Original, At

\* The same for the lines of one product.
LEMMA LinesSoldCancel ==
    ASSUME BooksSound, NEW p, NEW f,
           \A r \in LinesSold(p) : f[r] \in Int,
           \A r \in LinesSold(p), o \in LinesSold(p) :
               /\ sales[r[1]].reverses # 0 /\ o = <<sales[r[1]].reverses, r[2]>>
               /\ At(o).qty > 0 /\ Turned(At(o), At(r))
               => f[r] = -f[o]
    PROVE  SumFunctionOnSet(f, LinesSold(p))
             = SumFunctionOnSet(f, {r \in LinesSold(p) : r[1] \in Standing})
<1>1. PICK A : A = LinesSold(p)
  OBVIOUS
<1>2. A \in SUBSET ToTheTill /\ \A r \in ToTheTill : r \in A <=> At(r).product = p
  BY <1>1 DEF LinesSold
<1>3. ASSUME NEW k \in SaleRows, sales[k].reverses # 0, NEW i \in DOMAIN sales[k].lines
      PROVE  /\ <<k, i>> \in A <=> <<sales[k].reverses, i>> \in A
             /\ <<k, i>> \in A => f[<<k, i>>] = -f[<<sales[k].reverses, i>>]
  <2>1. PICK r, o : r = <<k, i>> /\ o = <<sales[k].reverses, i>>
    OBVIOUS
  <2>2. /\ r \in ToTheTill /\ o \in ToTheTill /\ Turned(At(o), At(r)) /\ At(o).qty > 0
    BY <1>3, <2>1, PairTurns
  <2>3. r \in A <=> o \in A
    BY <1>2, <2>2 DEF Turned
  <2>4. r[1] = k /\ r[2] = i
    BY <2>1
  <2>5. r \in A => f[r] = -f[o]
    BY <1>1, <1>3, <2>1, <2>2, <2>3, <2>4
  <2> QED
    BY <2>1, <2>3, <2>5
<1>4. SumFunctionOnSet(f, A) = SumFunctionOnSet(f, {r \in A : r[1] \in Standing})
  BY <1>1, <1>2, <1>3, LinesCancel
<1> QED
  BY <1>1, <1>4

\* The lines of a product of the sales that stand.
LinesKept(p) == {r \in {s \in ToTheTill : s[1] \in Standing} : At(r).product = p}

\* They are lines that were sold, with a positive quantity.
LEMMA LinesKeptAre ==
    ASSUME BooksSound, NEW p
    PROVE  /\ LinesKept(p) = {r \in LinesSold(p) : r[1] \in Standing}
           /\ IsFiniteSet(LinesKept(p))
           /\ \A r \in LinesKept(p) : /\ r \in LinesSold(p) /\ r \in ToTheTill
                                      /\ At(r) \in Sold /\ At(r).qty > 0
<1>1. LinesKept(p) = {r \in LinesSold(p) : r[1] \in Standing} /\ LinesKept(p) \subseteq ToTheTill
  BY DEF LinesKept, LinesSold
<1>2. IsFiniteSet(LinesKept(p))
  BY <1>1, PairsAre, FS_Subset DEF BooksSound
<1>3. \A r \in LinesKept(p) : /\ r \in LinesSold(p) /\ r \in ToTheTill
                             /\ At(r) \in Sold /\ At(r).qty > 0
  BY <1>1, PairsAre, StandingLine DEF BooksSound, Standing
<1> QED
  BY <1>1, <1>2, <1>3

\* The units of a product are those of the sales that stand.
LEMMA UnitsNetOut ==
    ASSUME BooksSound, NEW p
    PROVE  UnitsSold(p) = SumFunction([r \in LinesKept(p) |-> At(r).qty])
<1>1. PICK f, g : f = [r \in LinesSold(p) |-> At(r).qty] /\ g = [r \in LinesKept(p) |-> At(r).qty]
  OBVIOUS
<1>2. \A r \in LinesSold(p) : f[r] = At(r).qty /\ f[r] \in Int
  BY <1>1, PairsAre DEF LinesSold, BooksSound, Sold
<1>3. SumFunctionOnSet(f, LinesSold(p)) = SumFunctionOnSet(f, LinesKept(p))
  <2>1. \A r \in LinesSold(p), o \in LinesSold(p) : Turned(At(o), At(r)) => f[r] = -f[o]
    BY <1>2 DEF Turned
  <2> QED
    BY <1>2, <2>1, LinesSoldCancel, LinesKeptAre
<1>4. SumFunctionOnSet(g, LinesKept(p)) = SumFunctionOnSet(f, LinesKept(p))
  <2>1. \A r \in LinesKept(p) : g[r] = f[r]
    BY <1>1, LinesKeptAre
  <2> QED
    BY <2>1, LinesKeptAre, SumSame
<1> QED
  BY <1>1, <1>3, <1>4 DEF UnitsSold, SumFunction

\* So is its revenue, to the cent: a refund rounds as the sale did.
LEMMA MoneyNetsOut ==
    ASSUME BooksSound, NEW p
    PROVE  RevenueOf(p) = SumFunction([r \in LinesKept(p) |-> Cents(At(r))])
<1>1. PICK f, g : /\ f = [r \in LinesSold(p) |-> AtRate(At(r), At(r).price)]
                  /\ g = [r \in LinesKept(p) |-> Cents(At(r))]
  OBVIOUS
<1>2. ASSUME NEW r \in LinesSold(p)
      PROVE  f[r] = AtRate(At(r), At(r).price) /\ At(r) \in Sold /\ At(r).price \in Nat
  BY <1>1, PairsAre DEF LinesSold, BooksSound, Sold
<1>3. ASSUME NEW r \in LinesSold(p), NEW o \in LinesSold(p), At(o).qty > 0, Turned(At(o), At(r))
      PROVE  f[r] = -f[o]
  <2>1. PICK l \in Sold, m \in Sold : l = At(o) /\ m = At(r)
    BY <1>2
  <2>2. l.price \in Nat /\ m.price = l.price /\ m.kind = l.kind /\ m.qty = -l.qty
    BY <1>2, <1>3, <2>1 DEF Turned
  <2>3. AtRate(m, l.price) = -AtRate(l, l.price)
    BY <1>3, <2>1, <2>2, AtRateIs
  <2> QED
    BY <1>2, <2>1, <2>2, <2>3
<1>4. ASSUME NEW r \in LinesSold(p)
      PROVE  f[r] \in Int
  <2>1. r \in ToTheTill
    BY DEF LinesSold
  <2>2. CASE sales[r[1]].reverses = 0
    <3>1. At(r).qty > 0
      BY <2>1, <2>2, StandingLine
    <3>2. AtRate(At(r), At(r).price) \in Nat
      BY <1>2, <3>1, AtRateIs
    <3> QED
      BY <1>2, <3>2
  <2>3. CASE sales[r[1]].reverses # 0
    <3>1. PICK k, i : k \in SaleRows /\ i \in DOMAIN sales[k].lines /\ r = <<k, i>>
      BY <2>1, PairsAre DEF BooksSound
    <3>2. PICK o : o = <<sales[k].reverses, i>>
      OBVIOUS
    <3>3. o \in ToTheTill /\ At(o) \in Sold /\ At(o).qty > 0 /\ Turned(At(o), At(r))
      BY <2>3, <3>1, <3>2, PairTurns
    <3>4. o \in LinesSold(p)
      BY <3>3 DEF LinesSold, Turned
    <3>5. f[o] \in Nat
      BY <1>2, <3>3, <3>4, AtRateIs
    <3> QED
      BY <1>3, <3>3, <3>4, <3>5
  <2> QED
    BY <2>2, <2>3
<1>5. SumFunctionOnSet(f, LinesSold(p)) = SumFunctionOnSet(f, LinesKept(p))
  BY <1>3, <1>4, LinesSoldCancel, LinesKeptAre
<1>6. SumFunctionOnSet(g, LinesKept(p)) = SumFunctionOnSet(f, LinesKept(p))
  <2>1. ASSUME NEW r \in LinesKept(p)
        PROVE  g[r] = f[r]
    <3>1. r \in LinesSold(p) /\ At(r) \in Sold /\ At(r).qty > 0 /\ At(r).price \in Nat
      BY <1>2, LinesKeptAre
    <3>2. AtRate(At(r), At(r).price) = Cents(At(r))
      BY <3>1, AtRateIs DEF Cents
    <3> QED
      BY <1>1, <1>2, <3>1, <3>2
  <2> QED
    BY <2>1, LinesKeptAre, SumSame
<1>7. RevenueOf(p) = SumFunction(f)
  BY <1>1 DEF RevenueOf, AtRate
<1> QED
  BY <1>1, <1>5, <1>6, <1>7 DEF SumFunction

\* Without cartons the units of a line are its pieces.
LEMMA UnitCostIs ==
    ASSUME BooksSound, NEW r \in ToTheTill, At(r).kind # "package"
    PROVE  AtRate(At(r), Cost[At(r).product]) = CostOfLine(At(r))
<1>1. PICK k, i : k \in SaleRows /\ i \in DOMAIN sales[k].lines /\ r = <<k, i>>
  BY PairsAre DEF BooksSound
<1>2. PICK m \in Sold : m = At(r)
  BY PairsAre DEF BooksSound
<1>3. PICK c \in Nat : c = Cost[m.product]
  BY ReportsAssumption DEF Sold
<1>4. ASSUME NEW l \in Sold, l.product = m.product, l.kind = m.kind, l.qty > 0, l.pieces = l.qty
      PROVE  AtRate(l, c) = CostOfLine(l)
  <2>1. l.qty \in Int
    BY DEF Sold
  <2>2. PICK w \in Nat : w = c * l.qty
    <3>1. c \in Nat /\ l.qty \in Nat
      BY <1>4, <2>1
    <3> QED
      BY <3>1, ProductNat
  <2>3. AtRate(l, c) = IF l.kind = "weight" THEN w \div 1000 ELSE w
    BY <1>4, <2>2, AtRateIs
  <2>4. w \div 1 = w
    OBVIOUS
  <2>5. Worth(l) = IF l.kind = "weight" THEN w \div 1000 ELSE w
    BY <1>3, <1>4, <2>2, <2>4 DEF Worth
  <2>6. CostOfLine(l) = Worth(l)
    BY <1>4, <2>1, WorthIs
  <2> QED
    BY <2>3, <2>5, <2>6
<1>5. CASE sales[k].reverses = 0
  <2>1. m.qty > 0 /\ m.pieces = m.qty
    BY <1>1, <1>2, <1>5, StandingLine
  <2> QED
    BY <1>2, <1>3, <1>4, <2>1
<1>6. CASE sales[k].reverses # 0
  <2>1. PICK l \in Sold : l = At(<<sales[k].reverses, i>>)
    BY <1>1, <1>6, PairTurns
  <2>2. Turned(l, m) /\ l.qty > 0 /\ (l.kind # "package" => l.pieces = l.qty)
    BY <1>1, <1>2, <1>6, <2>1, PairTurns
  <2>3. /\ l.product = m.product /\ l.kind = m.kind /\ l.pieces = l.qty /\ m.qty = -l.qty
    BY <1>2, <2>2 DEF Turned
  <2>4. AtRate(m, c) = -AtRate(l, c)
    BY <2>2, <2>3, AtRateIs
  <2>5. CostOfLine(m) = -CostOfLine(l)
    BY <2>2, CostTurns
  <2> QED
    BY <1>2, <1>3, <1>4, <2>2, <2>3, <2>4, <2>5
<1> QED
  BY <1>5, <1>6

\* The costs of the lines to the till, one row at a time.
LEMMA CostsByRow ==
    ASSUME TypeOK
    PROVE  SumFunction([r \in ToTheTill |-> CostOfLine(At(r))])
             = SumFunction([k \in SaleRows |-> CostOfRow(sales[k])])
<1>1. PICK P, I : P = ToTheTill /\ I = SaleRows
  OBVIOUS
<1>2. PICK f, g, h, group : /\ f = [r \in P |-> CostOfLine(At(r))]
                            /\ g = [k \in I |-> CostOfRow(sales[k])]
                            /\ h = [r \in P |-> r[1]]
                            /\ group = [k \in I |-> {r \in P : r[1] = k}]
  OBVIOUS
<1>3. IsFiniteSet(P) /\ IsFiniteSet(I)
  BY <1>1, PairsAre, SaleRowsAre
<1>4. \A r \in P : f[r] = CostOfLine(At(r)) /\ f[r] \in Int /\ h[r] = r[1] /\ h[r] \in I
  BY <1>1, <1>2, PairsAre, WorthIs
<1>5. /\ \A k \in I : group[k] \in SUBSET P
      /\ \A k \in I, r \in P : r \in group[k] <=> h[r] = k
  BY <1>2, <1>4
<1>6. ASSUME NEW k \in I
      PROVE  g[k] = SumFunctionOnSet(f, group[k])
  <2>1. PICK S, D, c, turn : /\ S = group[k] /\ D = DOMAIN sales[k].lines /\ c = LineCosts(sales[k])
                             /\ turn = [r \in S |-> r[2]]
    OBVIOUS
  <2>2. k \in DOMAIN sales /\ k \in SaleRows
    BY <1>1, SaleRowsAre
  <2>3. IsFiniteSet(D) /\ IsFiniteSet(S) /\ S \subseteq P
    BY <1>3, <1>5, <2>1, <2>2, RowsAre, FS_Subset
  <2>4. ASSUME NEW r \in S
        PROVE  /\ turn[r] \in D /\ r = <<k, turn[r]>>
               /\ f[r] \in Int /\ f[r] = c[turn[r]]
    <3>1. r \in P /\ r[1] = k /\ turn[r] = r[2]
      BY <1>4, <1>5, <2>1, <2>3
    <3>2. r = <<r[1], r[2]>> /\ r[2] \in DOMAIN sales[r[1]].lines
      BY <1>1, <3>1, PairsAre
    <3>3. r = <<k, turn[r]>> /\ turn[r] \in D
      BY <2>1, <3>1, <3>2
    <3>4. At(r) = sales[k].lines[turn[r]]
      BY <3>1 DEF At
    <3>5. f[r] = c[turn[r]] /\ f[r] \in Int
      BY <1>4, <2>1, <3>1, <3>3, <3>4 DEF LineCosts
    <3> QED
      BY <3>3, <3>5
  <2>5. ASSUME NEW i \in D
        PROVE  \E r \in S : turn[r] = i
    <3>1. PICK r : r = <<k, i>>
      OBVIOUS
    <3>2. r \in P /\ r[1] = k /\ r[2] = i
      BY <1>1, <2>1, <2>2, <3>1, PairsAre
    <3>3. r \in S
      BY <1>4, <1>5, <2>1, <3>2
    <3> QED
      BY <2>1, <3>2, <3>3
  <2>6. \A r, q \in S : turn[r] = turn[q] => r = q
    BY <2>4
  <2>7. SumFunctionOnSet(f, S) = SumFunctionOnSet(c, D)
    BY <2>3, <2>4, <2>5, <2>6, SumRenamed
  <2>8. g[k] = SumFunctionOnSet(c, D)
    BY <1>2, <2>1, <2>2, RowCostIs
  <2> QED
    BY <2>1, <2>7, <2>8
<1>7. SumFunctionOnSet(g, I) = SumFunctionOnSet(f, P)
  <2>1. P \in SUBSET P /\ \A r \in P : r \in P <=> h[r] \in I
    BY <1>4
  <2>2. \A r \in P : f[r] \in Int
    BY <1>4
  <2>3. \A k \in I : g[k] = SumFunctionOnSet(f, group[k])
    BY <1>6
  <2>4. \A k \in I, r \in P : r \in group[k] <=> h[r] = k
    BY <1>5
  <2>5. \A k \in I : group[k] \in SUBSET P
    BY <1>5
  <2> QED
    BY <1>3, <2>1, <2>2, <2>3, <2>4, <2>5, SumGroups
<1> QED
  BY <1>1, <1>2, <1>7 DEF SumFunction

\* The report of a day leaves nothing of what was undone either.
LEMMA DayHolds ==
    ASSUME BooksSound, TakingsHold
    PROVE  DayNetsOut
<1>1. DailyTakings = drawer
  BY TakingsAre DEF BooksSound
<1>2. ASSUME \A r \in ToTheTill : At(r).kind # "package"
      PROVE  DailyCogs = SumFunction([k \in SaleRows |-> CostOfRow(sales[k])])
  <2>1. [r \in ToTheTill |-> AtRate(At(r), Cost[At(r).product])]
          = [r \in ToTheTill |-> CostOfLine(At(r))]
    BY <1>2, UnitCostIs
  <2>2. DailyCogs = SumFunction([r \in ToTheTill |-> AtRate(At(r), Cost[At(r).product])])
    BY DEF DailyCogs, AtRate
  <2> QED
    BY <2>1, <2>2, CostsByRow DEF BooksSound
<1> QED
  BY <1>1, <1>2, UnitsNetOut, MoneyNetsOut, DebtsNetOut DEF DayNetsOut, LinesKept

\* A sale that was undone is nowhere in either report, for any prices, costs, cartons and
\* customers, whatever was edited between the sale and its refund.
THEOREM ReportCorrect == Spec => []ReportNetsOut
<1>1. Init => BooksSound /\ TakingsHold
  BY BooksSoundInit, TakingsInit
<1>2. BooksSound /\ TakingsHold /\ [Next]_vars => (BooksSound /\ TakingsHold)'
  BY BooksSoundNext, TakingsNext DEF BooksSound
<1>3. BooksSound /\ TakingsHold => ReportNetsOut
  BY PeriodHolds, DayHolds DEF ReportNetsOut
<1> QED
  BY <1>1, <1>2, <1>3, PTL DEF Spec
=============================================================================
