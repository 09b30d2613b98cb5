--------------------------- MODULE PurchasesProofs ---------------------------
(***************************************************************************)
(* Proofs about Purchases, for any suppliers, quantities, prices, taxes    *)
(* and openings and for runs of any length the bound allows: no invoice is *)
(* overpaid, the drawer follows the cash payments, the goods of an invoice *)
(* are voided once, the average cost stays between two prices, and the     *)
(* report of a supplier is explained by its rows.                          *)
(*                                                                         *)
(* The actions are first brought down to what they write (EveryWrite,      *)
(* EveryGoods); the invariant BooksInv then has one lemma per part.        *)
(***************************************************************************)
EXTENDS Purchases, SumTheorems

\* Each row read back from a table is a row of that table.
LEMMA RowsTyped ==
    ASSUME TypeOK
    PROVE  /\ \A i \in DOMAIN invoices : invoices[i] \in Invoice
           /\ \A p \in DOMAIN payments : payments[p] \in Payment
           /\ \A r \in DOMAIN returns : returns[r] \in Return
           /\ \A n \in DOMAIN stock : stock[n] \in Movement
           /\ \A d \in DOMAIN drawer : drawer[d] \in CashMove
BY DEF TypeOK

\* What is settled on an invoice is a sum of the cents of finitely many payments.
LEMMA SettledInt ==
    ASSUME TypeOK, NEW i
    PROVE  Settled(i) \in Int
<1>1. IsFiniteSet(DOMAIN payments)
  BY RowsAppended DEF TypeOK
<1>2. PaymentsOf(i) \subseteq DOMAIN payments
  BY DEF PaymentsOf
<1>3. IsFiniteSet(PaymentsOf(i))
  BY <1>1, <1>2, FS_Subset
<1>4. \A p \in DOMAIN payments : payments[p].amount \in Int
  BY RowsTyped DEF Payment
<1> QED
  BY <1>2, <1>3, <1>4, SumInt DEF Settled

\* And what remains of it is so many cents, above or below nothing.
LEMMA RemainingInt ==
    ASSUME TypeOK, NEW i \in DOMAIN invoices
    PROVE  Remaining(i) \in Int
BY SettledInt, RowsTyped DEF Remaining, Invoice

\* The division of the code, towards zero, stays in the integers.
LEMMA QuotientInt ==
    ASSUME NEW a \in Int, NEW b \in Int, b > 0
    PROVE  Quotient(a, b) \in Int
BY DEF Quotient

\* The average price after goods come in is a number of cents.
LEMMA AverageInt ==
    ASSUME TypeOK, NEW qty \in Int, NEW price \in Int
    PROVE  AverageCost(qty, price) \in Int
<1>1. shelf \in Int /\ cost \in Int
  BY DEF TypeOK
<1>2. CASE shelf + qty <= 0
  BY <1>1, <1>2 DEF AverageCost
<1>3. CASE ~(shelf + qty <= 0)
  <2>1. shelf * cost + qty * price \in Int /\ shelf + qty \in Int /\ shelf + qty > 0
    BY <1>1, <1>3
  <2> QED
    BY <1>3, <2>1, QuotientInt DEF AverageCost
<1> QED
  BY <1>2, <1>3

\* A stock movement writes one row and moves the shelf.
LEMMA GoodsTyped ==
    ASSUME TypeOK, NEW delta \in Int, NEW reason \in {"purchase", "void", "return", "sale"},
           NEW i \in Nat, MoveGoods(delta, reason, i)
    PROVE  stock' \in Seq(Movement) /\ shelf' \in Int
<1>1. [delta |-> delta, reason |-> reason, invoice |-> i] \in Movement
  BY DEF Movement
<1> QED
  BY <1>1 DEF TypeOK, MoveGoods

\* A movement of cash writes one row of the drawer, or none when no cash moved.
LEMMA CashTyped ==
    ASSUME TypeOK, NEW method \in Methods, NEW amount \in Int,
           NEW ref \in {"purchase", "supplier_payment"}, NEW id \in Nat,
           MoveCash(method, amount, ref, id)
    PROVE  drawer' \in Seq(CashMove)
<1>1. [amount |-> amount, ref |-> ref, id |-> id] \in CashMove
  BY DEF CashMove
<1>2. drawer \in Seq(CashMove)
  BY DEF TypeOK
<1>3. CASE method = "cash"
  BY <1>1, <1>2, <1>3 DEF MoveCash
<1>4. CASE method # "cash"
  BY <1>2, <1>4 DEF MoveCash
<1> QED
  BY <1>3, <1>4

\* A product of two amounts that are not negative.
LEMMA ProductNat ==
    ASSUME NEW a \in Nat, NEW b \in Nat
    PROVE  a * b \in Nat
OBVIOUS

\* What a purchase is recorded with is not negative, and its row is an invoice.
LEMMA PurchaseInputs ==
    ASSUME TypeOK, NEW s \in Suppliers, NEW qty \in Quantities, NEW price \in UnitPrices,
           NEW vat \in Vats, NEW stocked \in BOOLEAN,
           NEW paid \in InitialPaid(LineTotal(qty, price) + vat)
    PROVE  /\ LineTotal(qty, price) \in Nat /\ LineTotal(qty, price) + vat \in Nat
           /\ paid \in Nat /\ Len(invoices) + 1 \in Nat /\ price > 0
           /\ qty \in Int /\ price \in Int
           /\ NewInvoice(s, qty, price, vat, paid, stocked) \in Invoice
<1>1. qty \in Nat /\ price \in Nat \ {0} /\ vat \in Nat
  BY PurchasesAssumption
<1>2. qty * price \in Nat
  BY <1>1, ProductNat
<1>3. LineTotal(qty, price) \in Nat
  BY <1>2 DEF LineTotal
<1>4. paid \in {0, LineTotal(qty, price) + vat, LineTotal(qty, price) + vat + 1}
  BY DEF InitialPaid
<1>5. Len(invoices) \in Nat
  BY DEF TypeOK
<1>6. LineTotal(qty, price) + vat \in Nat /\ paid \in Nat /\ price > 0
  BY <1>1, <1>3, <1>4
<1>7. NewInvoice(s, qty, price, vat, paid, stocked) \in Invoice
  BY <1>1, <1>6 DEF NewInvoice, Invoice
<1> QED
  BY <1>1, <1>3, <1>5, <1>6, <1>7

\* PurchaseService::recordPurchase keeps the tables typed.
LEMMA RecordPurchaseTyped ==
    ASSUME TypeOK, NEW s \in Suppliers, NEW qty \in Quantities, NEW price \in UnitPrices,
           NEW vat \in Vats, NEW method \in Methods, NEW stocked \in BOOLEAN,
           NEW paid \in InitialPaid(LineTotal(qty, price) + vat),
           RecordPurchase(s, qty, price, vat, paid, method, stocked)
    PROVE  TypeOK'
<1>1. LineTotal(qty, price) \in Nat /\ paid \in Nat /\ Len(invoices) + 1 \in Nat
  BY PurchaseInputs
<1>2. NewInvoice(s, qty, price, vat, paid, stocked) \in Invoice /\ qty \in Int /\ price \in Int
  BY PurchaseInputs
<1>3. invoices' \in Seq(Invoice)
  BY <1>2 DEF RecordPurchase, TypeOK
<1>4. stock' \in Seq(Movement) /\ shelf' \in Int /\ cost' \in Int
  <2>1. CASE stocked
    BY <1>1, <1>2, <2>1, GoodsTyped, AverageInt DEF RecordPurchase, StockIn
  <2>2. CASE ~stocked
    BY <2>2 DEF RecordPurchase, StockIn, goodsVars, TypeOK
  <2> QED
    BY <2>1, <2>2
<1>5. payments' \in Seq(Payment) /\ drawer' \in Seq(CashMove)
  <2>1. CASE paid > 0
    <3>1. [who |-> s, invoice |-> Len(invoices) + 1, amount |-> paid, method |-> method,
           reverses |-> 0, initial |-> TRUE] \in Payment
      BY <1>1 DEF Payment
    <3>2. MoveCash(method, -paid, "purchase", Len(invoices) + 1)
      BY <2>1 DEF RecordPurchase, PayInitially
    <3>3. PICK out \in Int : out = -paid
      BY <1>1
    <3>4. drawer' \in Seq(CashMove)
      BY <1>1, <3>2, <3>3, CashTyped
    <3>5. payments' = Append(payments, [who |-> s, invoice |-> Len(invoices) + 1,
                                        amount |-> paid, method |-> method, reverses |-> 0,
                                        initial |-> TRUE])
      BY <2>1 DEF RecordPurchase, PayInitially
    <3>6. payments' \in Seq(Payment)
      BY <3>1, <3>5 DEF TypeOK
    <3> QED
      BY <3>4, <3>6
  <2>2. CASE ~(paid > 0)
    BY <2>2 DEF RecordPurchase, PayInitially, TypeOK
  <2> QED
    BY <2>1, <2>2
<1> QED
  BY <1>3, <1>4, <1>5 DEF RecordPurchase, TypeOK

\* The payment that came with an invoice is a row of the table, and the first has a number.
LEMMA FirstPaymentIn ==
    ASSUME TypeOK, NEW i \in DOMAIN invoices, InitialPayments(i) # {}
    PROVE  /\ Min(InitialPayments(i)) \in DOMAIN payments
           /\ Min(InitialPayments(i)) \in Nat \ {0}
<1>1. InitialPayments(i) \subseteq DOMAIN payments
  BY DEF InitialPayments, PaymentsOf
<1>2. IsFiniteSet(InitialPayments(i)) /\ DOMAIN payments = 1 .. Len(payments)
  BY <1>1, RowsAppended, FS_Subset DEF TypeOK
<1>3. Min(InitialPayments(i)) \in InitialPayments(i)
  BY <1>1, <1>2, MinIn
<1> QED
  BY <1>1, <1>2, <1>3

\* The row that voids an invoice is one, of the same supplier and price, with quantity and
\* total turned round.
LEMMA VoidRowIs ==
    ASSUME TypeOK, NEW i \in DOMAIN invoices
    PROVE  /\ VoidRow(i) \in Invoice
           /\ VoidRow(i).who = invoices[i].who /\ VoidRow(i).price = invoices[i].price
           /\ VoidRow(i).qty = -invoices[i].qty /\ VoidRow(i).total = -invoices[i].total
           /\ VoidRow(i).stocked = invoices[i].stocked /\ VoidRow(i).voids = i
<1>1. invoices[i] \in Invoice /\ i \in Nat
  BY RowsTyped DEF TypeOK
<1>2. PICK qty \in Int, total \in Int : qty = -invoices[i].qty /\ total = -invoices[i].total
  BY <1>1 DEF Invoice
<1>3. PICK w : w = VoidRow(i)
  OBVIOUS
<1>4. w = [invoices[i] EXCEPT !.qty = qty, !.total = total, !.paid = 0, !.voids = i]
  BY <1>2, <1>3 DEF VoidRow
<1>5. /\ w \in Invoice
      /\ w.who = invoices[i].who /\ w.qty = qty /\ w.price = invoices[i].price
      /\ w.total = total /\ w.stocked = invoices[i].stocked /\ w.voids = i
  <2>1. PICK r \in Invoice : r = invoices[i]
    BY <1>1
  <2>2. w = [r EXCEPT !.qty = qty, !.total = total, !.paid = 0, !.voids = i]
    BY <1>4, <2>1
  <2>3. /\ w \in Invoice
        /\ w.who = r.who /\ w.qty = qty /\ w.price = r.price
        /\ w.total = total /\ w.stocked = r.stocked /\ w.voids = i
    BY <1>1, <2>2 DEF Invoice
  <2> QED
    BY <2>1, <2>3
<1> QED
  BY <1>2, <1>3, <1>5

\* The voiding of an invoice keeps the tables typed, with and without goods or payment.
LEMMA VoidPurchaseTyped ==
    ASSUME TypeOK, NEW i \in DOMAIN invoices, VoidPurchase(i)
    PROVE  TypeOK'
<1>1. invoices[i] \in Invoice /\ i \in Nat
  BY RowsTyped DEF TypeOK
<1>2. VoidRow(i) \in Invoice
  BY VoidRowIs
<1>3. invoices' \in Seq(Invoice)
  BY <1>2 DEF VoidPurchase, TypeOK
<1>4. stock' \in Seq(Movement) /\ shelf' \in Int
  <2>1. -invoices[i].qty \in Int
    BY <1>1 DEF Invoice
  <2>2. CASE invoices[i].stocked
    BY <1>1, <2>1, <2>2, GoodsTyped DEF VoidPurchase, GoodsBack
  <2>3. CASE ~invoices[i].stocked
    BY <2>3 DEF VoidPurchase, GoodsBack, TypeOK
  <2> QED
    BY <2>2, <2>3
<1>5. payments' \in Seq(Payment) /\ drawer' \in Seq(CashMove)
  <2>1. invoices[i].paid \in Nat /\ invoices[i].who \in Suppliers
    BY <1>1 DEF Invoice
  <2>2. CASE Found(i).paid > 0
    <3>1. Found(i).method = "cash"
      BY DEF Found
    <3>2. /\ InitialPayments(i) # {}
          /\ payments' = Append(payments, [who |-> invoices[i].who, invoice |-> i,
                                           amount |-> -invoices[i].paid, method |-> "cash",
                                           reverses |-> Min(InitialPayments(i)),
                                           initial |-> FALSE])
          /\ MoveCash("cash", invoices[i].paid, "purchase", i)
      BY <2>2, <3>1 DEF VoidPurchase, ReturnInitialPayment
    <3>3. [who |-> invoices[i].who, invoice |-> i, amount |-> -invoices[i].paid,
           method |-> "cash", reverses |-> Min(InitialPayments(i)), initial |-> FALSE]
              \in Payment
      BY <1>1, <2>1, <3>2, FirstPaymentIn DEF Payment, Methods
    <3> QED
      BY <1>1, <2>1, <3>2, <3>3, CashTyped DEF TypeOK, Methods
  <2>3. CASE ~(Found(i).paid > 0)
    BY <2>3 DEF VoidPurchase, ReturnInitialPayment, TypeOK
  <2> QED
    BY <2>2, <2>3
<1> QED
  BY <1>3, <1>4, <1>5 DEF VoidPurchase, TypeOK

\* What the payment dialog passes on is a number of cents.
LEMMA AmountsInt ==
    ASSUME TypeOK, NEW amount \in Amounts
    PROVE  amount \in Int
BY RemainingInt DEF Amounts

\* So does a payment to a supplier, on an invoice or on none.
LEMMA RecordPaymentTyped ==
    ASSUME TypeOK, NEW s \in Suppliers, NEW i \in DOMAIN invoices \cup {0}, NEW method \in Methods,
           NEW amount \in Amounts, RecordPayment(s, i, amount, method)
    PROVE  TypeOK'
<1>1. amount \in Int /\ i \in Nat /\ Len(payments) + 1 \in Nat
  BY AmountsInt DEF TypeOK
<1>2. [who |-> s, invoice |-> i, amount |-> amount, method |-> method, reverses |-> 0,
       initial |-> FALSE] \in Payment
  BY <1>1 DEF Payment
<1>3. payments' \in Seq(Payment)
  BY <1>2 DEF RecordPayment, TypeOK
<1>4. drawer' \in Seq(CashMove)
  <2>1. PICK out \in Int : out = -amount
    BY <1>1
  <2>2. MoveCash(method, out, "supplier_payment", Len(payments) + 1)
    BY <2>1 DEF RecordPayment
  <2> QED
    BY <1>1, <2>2, CashTyped
<1> QED
  BY <1>3, <1>4 DEF RecordPayment, TypeOK

\* So does the reversal of a payment.
LEMMA ReversePaymentTyped ==
    ASSUME TypeOK, NEW p \in DOMAIN payments, ReversePayment(p)
    PROVE  TypeOK'
<1>1. p \in Nat /\ payments[p] \in Payment
  BY RowsTyped DEF TypeOK
<1>2. PICK back \in Int : back = -payments[p].amount
  BY <1>1 DEF Payment
<1>3. [who |-> payments[p].who, invoice |-> payments[p].invoice, amount |-> back,
       method |-> payments[p].method, reverses |-> p, initial |-> FALSE] \in Payment
  BY <1>1, <1>2 DEF Payment
<1>4. payments' \in Seq(Payment)
  BY <1>2, <1>3 DEF ReversePayment, TypeOK
<1>5. drawer' \in Seq(CashMove)
  <2>1. payments[p].method \in Methods /\ payments[p].amount \in Int
    BY <1>1 DEF Payment
  <2>2. MoveCash(payments[p].method, payments[p].amount, "supplier_payment", p)
    BY DEF ReversePayment
  <2> QED
    BY <1>1, <2>1, <2>2, CashTyped
<1> QED
  BY <1>4, <1>5 DEF ReversePayment, TypeOK

\* So does a return of goods of an invoice.
LEMMA LinkedReturnTyped ==
    ASSUME TypeOK, NEW s \in Suppliers, NEW i \in DOMAIN invoices, NEW qty \in Quantities,
           LinkedReturn(s, i, qty)
    PROVE  TypeOK'
<1>1. i \in Nat /\ qty \in Nat /\ invoices[i] \in Invoice
  BY RowsTyped, PurchasesAssumption DEF TypeOK
<1>2. PICK worth \in Int : worth = LineTotal(qty, invoices[i].price)
  BY <1>1 DEF LineTotal, Invoice
<1>3. [who |-> s, invoice |-> i, qty |-> qty, amount |-> worth] \in Return
  BY <1>1 DEF Return
<1>4. returns' \in Seq(Return)
  BY <1>2, <1>3 DEF LinkedReturn, TypeOK
<1>5. PICK out \in Int : out = -qty
  BY <1>1
<1>6. MoveGoods(out, "return", i)
  BY <1>5 DEF LinkedReturn
<1>7. stock' \in Seq(Movement) /\ shelf' \in Int
  BY <1>1, <1>6, GoodsTyped
<1> QED
  BY <1>4, <1>7 DEF LinkedReturn, TypeOK

\* So does a credit no invoice is named for.
LEMMA GeneralReturnTyped ==
    ASSUME TypeOK, NEW s \in Suppliers, GeneralReturn(s, 1)
    PROVE  TypeOK'
<1>1. [who |-> s, invoice |-> 0, qty |-> 0, amount |-> 1] \in Return
  BY DEF Return
<1>2. returns' \in Seq(Return)
  BY <1>1 DEF GeneralReturn, TypeOK
<1> QED
  BY <1>2 DEF GeneralReturn, TypeOK

\* And a piece sold at the register.
LEMMA SellPieceTyped ==
    ASSUME TypeOK, SellPiece
    PROVE  TypeOK'
<1>1. MoveGoods(-1, "sale", 0)
  BY DEF SellPiece
<1>2. stock' \in Seq(Movement) /\ shelf' \in Int
  BY <1>1, GoodsTyped
<1> QED
  BY <1>2 DEF SellPiece, booksVars, TypeOK

\* Whatever step is taken, the tables stay typed.
LEMMA TypeNext == TypeOK /\ [Next]_vars => TypeOK'
<1> SUFFICES ASSUME TypeOK, [Next]_vars
             PROVE  TypeOK'
  OBVIOUS
<1>1. ASSUME NEW s \in Suppliers, NEW amount \in Openings, SaveCard(s, amount)
      PROVE  TypeOK'
  BY <1>1 DEF SaveCard, goodsVars, TypeOK
<1>2. ASSUME NEW s \in Suppliers, DeleteSupplier(s)
      PROVE  TypeOK'
  BY <1>2 DEF DeleteSupplier, goodsVars, TypeOK
<1>3. CASE UNCHANGED vars
  BY <1>3 DEF vars, TypeOK
<1> QED
  BY <1>1, <1>2, <1>3, RecordPurchaseTyped, VoidPurchaseTyped, RecordPaymentTyped,
     ReversePaymentTyped, LinkedReturnTyped, GeneralReturnTyped, SellPieceTyped DEF Next

\* The tables, the shelf and the average cost stay what they are for any suppliers,
\* quantities, prices, taxes and openings, whatever is voided, reversed or returned.
THEOREM TypeCorrect == Spec => []TypeOK
<1>1. Init => TypeOK
  BY PurchasesAssumption DEF Init, TypeOK
<1> QED
  BY <1>1, TypeNext, PTL DEF Spec

----------------------------------------------------------------------------
(* The rows hang together. *)

\* A payment has a positive amount unless it reverses one, and one on an invoice is a
\* payment of that invoice's supplier.
PaymentsLinked ==
    \A p \in DOMAIN payments :
        /\ payments[p].reverses = 0 => payments[p].amount > 0
        /\ payments[p].invoice # 0 =>
              /\ payments[p].invoice \in DOMAIN invoices
              /\ payments[p].who = invoices[payments[p].invoice].who

\* What the books say of a payment that has just been written: the amount fits what was
\* open, or the invoice is the one recorded with it.
Afterwards(row) ==
    /\ row.reverses = 0 => row.amount > 0
    /\ row.invoice # 0 =>
          /\ row.invoice \in DOMAIN invoices'
          /\ row.who = invoices'[row.invoice].who
          /\ \/ row.amount <= 0
             \/ row.invoice \in DOMAIN invoices /\ row.amount <= Remaining(row.invoice)
             \/ row.invoice = Len(invoices) + 1 /\ row.amount <= invoices'[row.invoice].total

\* No step writes more than one payment, and a payment goes with its movement of cash:
\* recordPayment, voidPurchase and reversePayment write both in one transaction.
PaymentWritten ==
    \/ payments' = payments /\ drawer' = drawer
    \/ \E row \in Payment, moved \in Int, ref \in {"purchase", "supplier_payment"}, id \in Nat :
          /\ payments' = Append(payments, row)
          /\ MoveCash(row.method, moved, ref, id) /\ moved = -row.amount
          /\ Afterwards(row)

\* No step writes more than one invoice, and none rewrites one.
InvoiceWritten ==
    \/ invoices' = invoices
    \/ \E row \in Invoice : invoices' = Append(invoices, row) /\ row.price > 0

\* A purchase writes one invoice, and with money down one payment that fits it.
LEMMA RecordPurchaseWrites ==
    ASSUME TypeOK, NEW s \in Suppliers, NEW qty \in Quantities, NEW price \in UnitPrices,
           NEW vat \in Vats, NEW method \in Methods, NEW stocked \in BOOLEAN,
           NEW paid \in InitialPaid(LineTotal(qty, price) + vat),
           RecordPurchase(s, qty, price, vat, paid, method, stocked)
    PROVE  InvoiceWritten /\ PaymentWritten
<1>1. /\ LineTotal(qty, price) + vat \in Nat /\ paid \in Nat /\ Len(invoices) + 1 \in Nat
      /\ price > 0
  BY PurchaseInputs
<1>2. NewInvoice(s, qty, price, vat, paid, stocked) \in Invoice
  BY PurchaseInputs
<1>3. /\ NewInvoice(s, qty, price, vat, paid, stocked).price = price
      /\ NewInvoice(s, qty, price, vat, paid, stocked).who = s
      /\ NewInvoice(s, qty, price, vat, paid, stocked).total = LineTotal(qty, price) + vat
  BY DEF NewInvoice
<1>4. invoices' = Append(invoices, NewInvoice(s, qty, price, vat, paid, stocked))
  BY DEF RecordPurchase
<1>5. InvoiceWritten
  BY <1>1, <1>2, <1>3, <1>4 DEF InvoiceWritten
<1>6. CASE paid > 0
  <2>1. PICK row : row = [who |-> s, invoice |-> Len(invoices) + 1, amount |-> paid,
                          method |-> method, reverses |-> 0, initial |-> TRUE]
    OBVIOUS
  <2>2. row \in Payment
    BY <1>1, <2>1 DEF Payment
  <2>3. PICK moved \in Int : moved = -paid
    BY <1>1
  <2>4. payments' = Append(payments, row) /\ MoveCash(method, moved, "purchase", Len(invoices) + 1)
    BY <1>6, <2>1, <2>3 DEF RecordPurchase, PayInitially
  <2>5. paid <= LineTotal(qty, price) + vat
    BY DEF RecordPurchase, Acceptable
  <2>6. /\ row.reverses = 0 /\ row.amount = paid /\ row.invoice = Len(invoices) + 1
        /\ row.who = s /\ row.method = method
    BY <2>1
  <2>7. /\ Len(invoices) + 1 \in DOMAIN invoices'
        /\ invoices'[Len(invoices) + 1] = NewInvoice(s, qty, price, vat, paid, stocked)
    BY <1>4, RowsAppended DEF TypeOK
  <2>8. Afterwards(row)
    BY <1>3, <1>6, <2>5, <2>6, <2>7 DEF Afterwards
  <2> QED
    BY <1>1, <1>5, <2>2, <2>3, <2>4, <2>6, <2>8 DEF PaymentWritten
<1>7. CASE ~(paid > 0)
  BY <1>5, <1>7 DEF RecordPurchase, PayInitially, PaymentWritten
<1> QED
  BY <1>5, <1>6, <1>7

\* Voiding writes the mirror, and reverses what came with the invoice.
LEMMA VoidPurchaseWrites ==
    ASSUME TypeOK, NEW i \in DOMAIN invoices, VoidPurchase(i), invoices[i].price > 0
    PROVE  InvoiceWritten /\ PaymentWritten
<1>1. invoices[i] \in Invoice /\ i \in Nat
  BY RowsTyped DEF TypeOK
<1>2. InvoiceWritten
  BY VoidRowIs DEF VoidPurchase, InvoiceWritten
<1>3. CASE Found(i).paid > 0
  <2>1. InitialPayments(i) # {} /\ Found(i).method = "cash"
    BY <1>3 DEF VoidPurchase, ReturnInitialPayment, Found
  <2>2. PICK back \in Int : back = -invoices[i].paid
    BY <1>1 DEF Invoice
  <2>3. PICK first \in Nat \ {0} : first = Min(InitialPayments(i))
    BY <2>1, FirstPaymentIn
  <2>4. PICK row : row = [who |-> invoices[i].who, invoice |-> i, amount |-> back,
                          method |-> "cash", reverses |-> first, initial |-> FALSE]
    OBVIOUS
  <2>5. row \in Payment
    BY <1>1, <2>4 DEF Payment, Invoice, Methods
  <2>6. payments' = Append(payments, row) /\ MoveCash("cash", invoices[i].paid, "purchase", i)
    BY <1>3, <2>1, <2>2, <2>3, <2>4 DEF VoidPurchase, ReturnInitialPayment
  <2>7. /\ row.reverses = first /\ row.amount = back /\ row.invoice = i
        /\ row.who = invoices[i].who /\ row.method = "cash"
    BY <2>4
  <2>8. i \in DOMAIN invoices' /\ invoices'[i] = invoices[i]
    BY RowsAppended DEF VoidPurchase, TypeOK
  <2>9. invoices[i].paid \in Nat /\ back <= 0 /\ -back = invoices[i].paid
    BY <1>1, <2>2 DEF Invoice
  <2>10. Afterwards(row)
    BY <2>7, <2>8, <2>9 DEF Afterwards
  <2> QED
    BY <1>1, <1>2, <2>5, <2>6, <2>7, <2>9, <2>10 DEF PaymentWritten
<1>4. CASE ~(Found(i).paid > 0)
  BY <1>2, <1>4 DEF VoidPurchase, ReturnInitialPayment, PaymentWritten
<1> QED
  BY <1>2, <1>3, <1>4

\* A payment writes one row, for no more than remains when the invoice is named.
LEMMA RecordPaymentWrites ==
    ASSUME TypeOK, NEW s \in Suppliers, NEW i \in DOMAIN invoices \cup {0}, NEW method \in Methods,
           NEW amount \in Amounts, RecordPayment(s, i, amount, method)
    PROVE  InvoiceWritten /\ PaymentWritten
<1>1. amount \in Int /\ i \in Nat /\ Len(payments) + 1 \in Nat
  BY AmountsInt DEF TypeOK
<1>2. PICK row : row = [who |-> s, invoice |-> i, amount |-> amount, method |-> method,
                        reverses |-> 0, initial |-> FALSE]
  OBVIOUS
<1>3. row \in Payment
  BY <1>1, <1>2 DEF Payment
<1>4. PICK moved \in Int : moved = -amount
  BY <1>1
<1>5. payments' = Append(payments, row)
  BY <1>2 DEF RecordPayment
<1>6. MoveCash(method, moved, "supplier_payment", Len(payments) + 1)
  BY <1>4 DEF RecordPayment
<1>7. /\ row.reverses = 0 /\ row.amount = amount /\ row.invoice = i /\ row.who = s
      /\ row.method = method
  BY <1>2
<1>8. invoices' = invoices
  BY DEF RecordPayment
<1>9. amount > 0 /\ (i # 0 => i \in UnpaidInvoices(s) /\ amount <= Remaining(i))
  BY DEF RecordPayment, Payable
<1>10. Afterwards(row)
  BY <1>7, <1>8, <1>9 DEF Afterwards, UnpaidInvoices
<1> QED
  BY <1>1, <1>3, <1>4, <1>5, <1>6, <1>7, <1>8, <1>10 DEF PaymentWritten, InvoiceWritten

\* A reversal writes the amount back on the invoice of the payment it reverses.
LEMMA ReversePaymentWrites ==
    ASSUME TypeOK, PaymentsLinked, NEW p \in DOMAIN payments, ReversePayment(p)
    PROVE  InvoiceWritten /\ PaymentWritten
<1>1. p \in Nat \ {0} /\ payments[p] \in Payment
  BY RowsTyped DEF TypeOK
<1>2. PICK back \in Int : back = -payments[p].amount
  BY <1>1 DEF Payment
<1>3. PICK row : row = [who |-> payments[p].who, invoice |-> payments[p].invoice,
                        amount |-> back, method |-> payments[p].method, reverses |-> p,
                        initial |-> FALSE]
  OBVIOUS
<1>4. row \in Payment
  BY <1>1, <1>3 DEF Payment
<1>5. payments' = Append(payments, row)
  BY <1>2, <1>3 DEF ReversePayment
<1>6. MoveCash(payments[p].method, payments[p].amount, "supplier_payment", p)
  BY DEF ReversePayment
<1>7. /\ row.reverses = p /\ row.amount = back /\ row.invoice = payments[p].invoice
      /\ row.who = payments[p].who /\ row.method = payments[p].method
  BY <1>3
<1>8. invoices' = invoices
  BY DEF ReversePayment
<1>9. payments[p].amount > 0 /\ payments[p].amount \in Int /\ -back = payments[p].amount
  BY <1>1, <1>2 DEF ReversePayment, Reversible, PaymentsLinked, Payment
<1>10. back <= 0
  BY <1>2, <1>9
<1>11. Afterwards(row)
  BY <1>1, <1>7, <1>8, <1>10 DEF Afterwards, PaymentsLinked
<1> QED
  BY <1>1, <1>4, <1>5, <1>6, <1>7, <1>8, <1>9, <1>11 DEF PaymentWritten, InvoiceWritten

\* Nothing is bought, or voided, at a price of nothing.
PricesAsked == \A i \in DOMAIN invoices : invoices[i].price > 0

\* Whatever step is taken, the rows written are of these forms.
LEMMA EveryWrite ==
    ASSUME TypeOK, PricesAsked, PaymentsLinked, [Next]_vars
    PROVE  InvoiceWritten /\ PaymentWritten
<1>1. ASSUME NEW i \in DOMAIN invoices, VoidPurchase(i)
      PROVE  InvoiceWritten /\ PaymentWritten
  BY <1>1, VoidPurchaseWrites DEF PricesAsked
<1>2. ASSUME NEW s \in Suppliers, NEW i \in DOMAIN invoices, NEW qty \in Quantities,
             LinkedReturn(s, i, qty)
      PROVE  InvoiceWritten /\ PaymentWritten
  BY <1>2 DEF LinkedReturn, InvoiceWritten, PaymentWritten
<1>3. ASSUME NEW s \in Suppliers, GeneralReturn(s, 1)
      PROVE  InvoiceWritten /\ PaymentWritten
  BY <1>3 DEF GeneralReturn, InvoiceWritten, PaymentWritten
<1>4. ASSUME NEW s \in Suppliers, NEW amount \in Openings, SaveCard(s, amount)
      PROVE  InvoiceWritten /\ PaymentWritten
  BY <1>4 DEF SaveCard, InvoiceWritten, PaymentWritten
<1>5. ASSUME NEW s \in Suppliers, DeleteSupplier(s)
      PROVE  InvoiceWritten /\ PaymentWritten
  BY <1>5 DEF DeleteSupplier, InvoiceWritten, PaymentWritten
<1>6. ASSUME SellPiece
      PROVE  InvoiceWritten /\ PaymentWritten
  BY <1>6 DEF SellPiece, booksVars, InvoiceWritten, PaymentWritten
<1>7. CASE UNCHANGED vars
  BY <1>7 DEF vars, InvoiceWritten, PaymentWritten
<1> QED
  BY <1>1, <1>2, <1>3, <1>4, <1>5, <1>6, <1>7, RecordPurchaseWrites, RecordPaymentWrites,
     ReversePaymentWrites DEF Next

\* An invoice on record stays as it was written, and a new one takes the next id.
LEMMA InvoicesKept ==
    ASSUME TypeOK, InvoiceWritten
    PROVE  /\ \A i \in DOMAIN invoices : i \in DOMAIN invoices' /\ invoices'[i] = invoices[i]
           /\ DOMAIN invoices' \subseteq DOMAIN invoices \cup {Len(invoices) + 1}
           /\ Len(invoices) + 1 \notin DOMAIN invoices
           /\ Len(invoices) + 1 # 0 /\ 0 \notin DOMAIN invoices
<1>1. invoices \in Seq(Invoice)
  BY DEF TypeOK
<1>2. CASE invoices' = invoices
  BY <1>1, <1>2
<1>3. ASSUME NEW row \in Invoice, invoices' = Append(invoices, row)
      PROVE  /\ \A i \in DOMAIN invoices : i \in DOMAIN invoices' /\ invoices'[i] = invoices[i]
             /\ DOMAIN invoices' \subseteq DOMAIN invoices \cup {Len(invoices) + 1}
  BY <1>1, <1>3, RowsAppended
<1> QED
  BY <1>1, <1>2, <1>3 DEF InvoiceWritten

\* Prices and links outlive every step.
LEMMA LinkedNext ==
    ASSUME TypeOK, PricesAsked, PaymentsLinked, InvoiceWritten, PaymentWritten
    PROVE  PricesAsked' /\ PaymentsLinked'
<1>1. PricesAsked'
  <2>1. CASE invoices' = invoices
    BY <2>1 DEF PricesAsked
  <2>2. ASSUME NEW row \in Invoice, invoices' = Append(invoices, row), row.price > 0
        PROVE  PricesAsked'
    BY <2>2, RowsAppended DEF PricesAsked, TypeOK
  <2> QED
    BY <2>1, <2>2 DEF InvoiceWritten
<1>2. PaymentsLinked'
  <2>1. CASE payments' = payments
    BY <2>1, InvoicesKept DEF PaymentsLinked
  <2>2. ASSUME NEW row \in Payment, payments' = Append(payments, row), Afterwards(row)
        PROVE  PaymentsLinked'
    <3> SUFFICES ASSUME NEW p \in DOMAIN payments'
                 PROVE  /\ payments'[p].reverses = 0 => payments'[p].amount > 0
                        /\ payments'[p].invoice # 0 =>
                              /\ payments'[p].invoice \in DOMAIN invoices'
                              /\ payments'[p].who = invoices'[payments'[p].invoice].who
      BY DEF PaymentsLinked
    <3>1. CASE p \in DOMAIN payments
      <4>1. payments'[p] = payments[p]
        BY <2>2, <3>1, RowsAppended DEF TypeOK
      <4> QED
        BY <3>1, <4>1, InvoicesKept DEF PaymentsLinked
    <3>2. CASE p \notin DOMAIN payments
      <4>1. payments'[p] = row
        BY <2>2, <3>2, RowsAppended DEF TypeOK
      <4> QED
        BY <2>2, <4>1 DEF Afterwards
    <3> QED
      BY <3>1, <3>2
  <2> QED
    BY <2>1, <2>2 DEF PaymentWritten
<1> QED
  BY <1>1, <1>2

\* What is settled on an invoice grows by what is written on it.
LEMMA SettledWritten ==
    ASSUME TypeOK, NEW row \in Payment, payments' = Append(payments, row), NEW i
    PROVE  Settled(i)' = Settled(i) + (IF row.invoice = i THEN row.amount ELSE 0)
<1> DEFINE f == [p \in DOMAIN payments |-> payments[p].amount]
           g == [p \in DOMAIN payments' |-> payments'[p].amount]
           old == PaymentsOf(i)
<1>1. /\ DOMAIN payments' = DOMAIN payments \cup {Len(payments) + 1}
      /\ IsFiniteSet(DOMAIN payments) /\ Len(payments) + 1 \notin DOMAIN payments
      /\ \A p \in DOMAIN payments : payments'[p] = payments[p]
      /\ payments'[Len(payments) + 1] = row
  <2>1. payments \in Seq(Payment)
    BY DEF TypeOK
  <2> QED
    BY <2>1, RowsAppended
<1>2. old \subseteq DOMAIN payments
  BY DEF PaymentsOf
<1>3. IsFiniteSet(old)
  BY <1>1, <1>2, FS_Subset
<1>4. \A p \in old : f[p] \in Int /\ g[p] = f[p]
  BY <1>1, <1>2, RowsTyped DEF Payment
<1>5. Settled(i) = SumFunctionOnSet(f, old) /\ Settled(i)' = SumFunctionOnSet(g, PaymentsOf(i)')
  BY DEF Settled
<1>6. CASE row.invoice = i
  <2>1. PaymentsOf(i)' = old \cup {Len(payments) + 1}
    BY <1>1, <1>6 DEF PaymentsOf
  <2>2. g[Len(payments) + 1] = row.amount /\ row.amount \in Int
    BY <1>1 DEF Payment
  <2>3. Len(payments) + 1 \notin old
    BY <1>1, <1>2
  <2>4. SumFunctionOnSet(g, old \cup {Len(payments) + 1})
          = SumFunctionOnSet(f, old) + g[Len(payments) + 1]
    BY <1>3, <1>4, <2>2, <2>3, SumGrow
  <2> QED
    BY <1>5, <1>6, <2>1, <2>2, <2>4
<1>7. CASE row.invoice # i
  <2>1. PaymentsOf(i)' = old
    BY <1>1, <1>7 DEF PaymentsOf
  <2>2. SumFunctionOnSet(g, old) = SumFunctionOnSet(f, old)
    <3>1. \A p \in old : g[p] = f[p]
      BY <1>4
    <3> HIDE DEF f, g, old
    <3> QED
      BY <1>3, <3>1, SumSame
  <2>3. Settled(i) \in Int
    BY SettledInt
  <2> QED
    BY <1>5, <1>7, <2>1, <2>2, <2>3
<1> QED
  BY <1>6, <1>7

\* What is settled on an invoice after a step is again so many cents.
LEMMA SettledStays ==
    ASSUME TypeOK, PaymentWritten, NEW i
    PROVE  Settled(i)' \in Int
<1>1. CASE payments' = payments
  <2>1. Settled(i)' = Settled(i)
    BY <1>1 DEF Settled, PaymentsOf
  <2> QED
    BY <2>1, SettledInt
<1>2. ASSUME NEW row \in Payment, payments' = Append(payments, row)
      PROVE  Settled(i)' \in Int
  BY <1>2, SettledInt, SettledWritten DEF Payment
<1> QED
  BY <1>1, <1>2 DEF PaymentWritten

\* Nothing is settled yet on an invoice that is still to come.
LEMMA NewInvoiceUnsettled ==
    ASSUME TypeOK, PaymentsLinked, NEW i, i # 0, i \notin DOMAIN invoices
    PROVE  Settled(i) = 0
<1>1. PaymentsOf(i) = {}
  BY DEF PaymentsOf, PaymentsLinked
<1> QED
  BY <1>1, SumEmpty DEF Settled

\* No step leaves a positive invoice with more settled than it asks: a payment is held
\* against what remains as the transaction reads it, not as the dialog showed it.
LEMMA OverpaidNext ==
    ASSUME TypeOK, TypeOK', PaymentsLinked, InvoiceNotOverpaid, InvoiceWritten, PaymentWritten
    PROVE  InvoiceNotOverpaid'
<1> SUFFICES ASSUME NEW i \in DOMAIN invoices', invoices'[i].total > 0
             PROVE  Settled(i)' <= invoices'[i].total
  <2>1. \A j \in DOMAIN invoices' : invoices'[j].total \in Int /\ Settled(j)' \in Int
    <3>1. \A j \in DOMAIN invoices' : invoices'[j] \in Invoice
      BY DEF TypeOK
    <3> QED
      BY <3>1, SettledStays DEF Invoice
  <2> QED
    BY <2>1 DEF InvoiceNotOverpaid, Remaining
<1>1. invoices'[i].total \in Int
  <2>1. invoices'[i] \in Invoice
    BY DEF TypeOK
  <2> QED
    BY <2>1 DEF Invoice
<1>2. Settled(i) \in Int
  BY SettledInt
<1>3. Settled(i) <= invoices'[i].total
  <2>1. CASE i \in DOMAIN invoices
    BY <1>1, <1>2, <2>1, InvoicesKept DEF InvoiceNotOverpaid, Remaining
  <2>2. CASE i \notin DOMAIN invoices
    BY <1>1, <2>2, InvoicesKept, NewInvoiceUnsettled
  <2> QED
    BY <2>1, <2>2
<1>4. CASE payments' = payments
  BY <1>3, <1>4 DEF Settled, PaymentsOf
<1>5. ASSUME NEW row \in Payment, payments' = Append(payments, row), Afterwards(row)
      PROVE  Settled(i)' <= invoices'[i].total
  <2>1. row.amount \in Int
    BY DEF Payment
  <2>2. CASE row.invoice # i
    BY <1>2, <1>3, <1>5, <2>2, SettledWritten
  <2>3. CASE row.invoice = i /\ row.amount <= 0
    BY <1>1, <1>2, <1>3, <1>5, <2>1, <2>3, SettledWritten
  <2>4. CASE row.invoice = i /\ i \in DOMAIN invoices /\ row.amount <= Remaining(i)
    <3>1. row.amount <= invoices'[i].total - Settled(i)
      BY <2>4, InvoicesKept DEF Remaining
    <3> QED
      BY <1>1, <1>2, <1>5, <2>1, <2>4, <3>1, SettledWritten
  <2>5. CASE row.invoice = i /\ i = Len(invoices) + 1 /\ row.amount <= invoices'[i].total
    <3>1. Settled(i) = 0
      BY <2>5, InvoicesKept, NewInvoiceUnsettled
    <3> QED
      BY <1>1, <1>5, <2>1, <2>5, <3>1, SettledWritten
  <2>6. i # 0
    BY InvoicesKept
  <2> QED
    BY <1>5, <2>2, <2>3, <2>4, <2>5, <2>6 DEF Afterwards
<1> QED
  BY <1>4, <1>5 DEF PaymentWritten

----------------------------------------------------------------------------
(* The drawer. *)

\* The cash a payment stands for, and the movements of the drawer.
CashOf == [p \in DOMAIN payments |-> IF payments[p].method = "cash" THEN payments[p].amount ELSE 0]
Moved == [d \in DOMAIN drawer |-> drawer[d].amount]

\* The drawer follows the payments when two sums differ in their sign.
LEMMA DrawerIs ==
    DrawerFollowsPayments <=>
        SumFunctionOnSet(Moved, DOMAIN drawer) = -SumFunctionOnSet(CashOf, DOMAIN payments)
<1>1. DOMAIN Moved = DOMAIN drawer /\ DOMAIN CashOf = DOMAIN payments
  BY DEF Moved, CashOf
<1>2. /\ SumFunction(Moved) = SumFunctionOnSet(Moved, DOMAIN drawer)
      /\ SumFunction(CashOf) = SumFunctionOnSet(CashOf, DOMAIN payments)
  BY <1>1 DEF SumFunction
<1> QED
  BY <1>2 DEF DrawerFollowsPayments, Moved, CashOf

\* The same after a step.
LEMMA DrawerNowIs ==
    DrawerFollowsPayments' <=>
        SumFunctionOnSet(Moved', DOMAIN drawer') = -SumFunctionOnSet(CashOf', DOMAIN payments')
<1>1. DOMAIN Moved' = DOMAIN drawer' /\ DOMAIN CashOf' = DOMAIN payments'
  BY DEF Moved, CashOf
<1>2. /\ SumFunction(Moved') = SumFunctionOnSet(Moved', DOMAIN drawer')
      /\ SumFunction(CashOf') = SumFunctionOnSet(CashOf', DOMAIN payments')
  BY <1>1 DEF SumFunction
<1> QED
  BY <1>2 DEF DrawerFollowsPayments, Moved, CashOf

\* The drawer moves by the cash of the payment that is written, and by nothing else.
LEMMA DrawerNext ==
    ASSUME TypeOK, DrawerFollowsPayments, PaymentWritten
    PROVE  DrawerFollowsPayments'
<1> DEFINE cash == SumFunctionOnSet(CashOf, DOMAIN payments)
           moves == SumFunctionOnSet(Moved, DOMAIN drawer)
<1>1. payments \in Seq(Payment) /\ drawer \in Seq(CashMove)
  BY DEF TypeOK
<1>2. /\ \A p \in DOMAIN payments : CashOf[p] \in Int
      /\ \A d \in DOMAIN drawer : Moved[d] \in Int
  BY RowsTyped DEF CashOf, Moved, Payment, CashMove
<1>3. cash \in Int /\ moves \in Int
  <2>1. IsFiniteSet(DOMAIN payments) /\ IsFiniteSet(DOMAIN drawer)
    BY <1>1, RowsAppended
  <2> QED
    BY <1>2, <2>1, SumInt
<1>4. moves = -cash
  BY DrawerIs
<1>5. CASE payments' = payments /\ drawer' = drawer
  BY <1>5 DEF DrawerFollowsPayments
<1>6. ASSUME NEW row \in Payment, NEW amount \in Int,
             NEW ref \in {"purchase", "supplier_payment"}, NEW id \in Nat,
             payments' = Append(payments, row), MoveCash(row.method, amount, ref, id),
             amount = -row.amount
      PROVE  DrawerFollowsPayments'
  <2>1. row.amount \in Int
    BY DEF Payment
  <2>2. SumFunctionOnSet(CashOf', DOMAIN payments')
          = cash + (IF row.method = "cash" THEN row.amount ELSE 0)
    <3>1. \A p \in DOMAIN payments : CashOf'[p] = CashOf[p]
      BY <1>1, <1>6, RowsAppended DEF CashOf
    <3>2. CashOf'[Len(payments) + 1] = IF row.method = "cash" THEN row.amount ELSE 0
      BY <1>1, <1>6, RowsAppended DEF CashOf
    <3>3. SumFunctionOnSet(CashOf', DOMAIN Append(payments, row))
            = cash + CashOf'[Len(payments) + 1]
      BY <1>1, <1>2, <2>1, <3>1, <3>2, SumAppend
    <3> QED
      BY <1>6, <3>2, <3>3
  <2>3. SumFunctionOnSet(Moved', DOMAIN drawer')
          = moves + (IF row.method = "cash" THEN amount ELSE 0)
    <3>1. CASE row.method = "cash"
      <4>1. PICK move : move = [amount |-> amount, ref |-> ref, id |-> id]
        OBVIOUS
      <4>2. drawer' = Append(drawer, move) /\ move.amount = amount
        BY <1>6, <3>1, <4>1 DEF MoveCash
      <4>3. \A d \in DOMAIN drawer : Moved'[d] = Moved[d]
        BY <1>1, <4>2, RowsAppended DEF Moved
      <4>4. Moved'[Len(drawer) + 1] = amount
        BY <1>1, <4>2, RowsAppended DEF Moved
      <4>5. SumFunctionOnSet(Moved', DOMAIN Append(drawer, move))
              = moves + Moved'[Len(drawer) + 1]
        BY <1>1, <1>2, <4>3, <4>4, SumAppend
      <4> QED
        BY <3>1, <4>2, <4>4, <4>5
    <3>2. CASE row.method # "cash"
      <4>1. Moved' = Moved /\ drawer' = drawer
        BY <1>6, <3>2 DEF MoveCash, Moved
      <4> QED
        BY <1>3, <3>2, <4>1
    <3> QED
      BY <3>1, <3>2
  <2>4. SumFunctionOnSet(Moved', DOMAIN drawer') = -SumFunctionOnSet(CashOf', DOMAIN payments')
    BY <1>3, <1>4, <1>6, <2>1, <2>2, <2>3
  <2> QED
    BY <2>4, DrawerNowIs
<1> QED
  BY <1>5, <1>6 DEF PaymentWritten

----------------------------------------------------------------------------
(* The goods. *)

\* A movement of a purchase or a void names an invoice on record, stocked goods came in by
\* a movement of their own, and a void's movement is later than the purchase's.
MovementsLinked ==
    /\ \A n \in DOMAIN stock :
          stock[n].reason \in {"purchase", "void"} => stock[n].invoice \in DOMAIN invoices
    /\ \A i \in DOMAIN invoices :
          invoices[i].voids = 0 /\ invoices[i].stocked =>
              \E m \in DOMAIN stock : stock[m].reason = "purchase" /\ stock[m].invoice = i
    /\ \A n, m \in DOMAIN stock :
          /\ stock[n].reason = "void" /\ stock[m].reason = "purchase"
          /\ stock[n].invoice = stock[m].invoice
          => m < n

\* Goods come in with the invoice that is written.
BoughtGoods ==
    \E inv \in Invoice, move \in Movement :
        /\ invoices' = Append(invoices, inv) /\ stock' = Append(stock, move)
        /\ move.reason = "purchase" /\ move.invoice = Len(invoices) + 1

\* Goods go out with the mirror of an invoice none of whose goods were touched.
VoidedGoods ==
    \E inv \in Invoice, move \in Movement :
        /\ invoices' = Append(invoices, inv) /\ stock' = Append(stock, move)
        /\ inv.voids # 0
        /\ move.reason = "void" /\ move.invoice \in DOMAIN invoices
        /\ invoices[move.invoice].stocked /\ GoodsUntouched(move.invoice)

\* Goods go out by a return or a sale.
OtherGoods ==
    \E move \in Movement :
        /\ invoices' = invoices /\ stock' = Append(stock, move)
        /\ move.reason \in {"return", "sale"}

\* No goods move: a service, or nothing that concerns the shelf.
NoGoods ==
    /\ stock' = stock
    /\ \/ invoices' = invoices
       \/ \E inv \in Invoice : /\ invoices' = Append(invoices, inv)
                               /\ inv.voids # 0 \/ ~inv.stocked

GoodsWritten == BoughtGoods \/ VoidedGoods \/ OtherGoods \/ NoGoods

\* The movement an invoice brought its goods in with is found by its reason and id.
LEMMA OwnMovementIn ==
    ASSUME TypeOK, NEW i,
           NEW m \in DOMAIN stock, stock[m].reason = "purchase", stock[m].invoice = i
    PROVE  /\ OwnMovement(i) \in DOMAIN stock /\ OwnMovement(i) # 0
           /\ stock[OwnMovement(i)].reason = "purchase"
           /\ stock[OwnMovement(i)].invoice = i
<1> DEFINE Own == {n \in DOMAIN stock : stock[n].reason = "purchase" /\ stock[n].invoice = i}
<1>1. DOMAIN stock = 1 .. Len(stock) /\ Len(stock) \in Nat /\ IsFiniteSet(DOMAIN stock)
  BY RowsAppended DEF TypeOK
<1>2. Own # {} /\ IsFiniteSet(Own) /\ \A n \in Own : n \in Int
  BY <1>1, FS_Subset
<1>3. OwnMovement(i) = Max(Own)
  BY <1>2 DEF OwnMovement
<1>4. Max(Own) \in Own
  <2> HIDE DEF Own
  <2> QED
    BY <1>2, MaxIn
<1> QED
  BY <1>1, <1>3, <1>4

\* Whatever step is taken, goods move in one of these ways.
LEMMA EveryGoods ==
    ASSUME TypeOK, [Next]_vars
    PROVE  GoodsWritten
<1>1. ASSUME NEW s \in Suppliers, NEW qty \in Quantities, NEW price \in UnitPrices,
             NEW vat \in Vats, NEW method \in Methods, NEW stocked \in BOOLEAN,
             NEW paid \in InitialPaid(LineTotal(qty, price) + vat),
             RecordPurchase(s, qty, price, vat, paid, method, stocked)
      PROVE  GoodsWritten
  <2>1. PICK inv \in Invoice : inv = NewInvoice(s, qty, price, vat, paid, stocked)
    BY PurchaseInputs
  <2>2. invoices' = Append(invoices, inv) /\ inv.stocked = stocked
    BY <1>1, <2>1 DEF RecordPurchase, NewInvoice
  <2>3. CASE stocked
    <3>1. PICK move : move = [delta |-> qty, reason |-> "purchase", invoice |-> Len(invoices) + 1]
      OBVIOUS
    <3>2. stock' = Append(stock, move)
      BY <1>1, <2>3, <3>1 DEF RecordPurchase, StockIn, MoveGoods
    <3>3. move \in Movement /\ move.reason = "purchase" /\ move.invoice = Len(invoices) + 1
      BY <3>1, PurchaseInputs DEF Movement
    <3> QED
      BY <2>2, <3>2, <3>3 DEF GoodsWritten, BoughtGoods
  <2>4. CASE ~stocked
    BY <1>1, <2>2, <2>4 DEF RecordPurchase, StockIn, goodsVars, GoodsWritten, NoGoods
  <2> QED
    BY <2>3, <2>4
<1>2. ASSUME NEW i \in DOMAIN invoices, VoidPurchase(i)
      PROVE  GoodsWritten
  <2>0. i \in Nat \ {0} /\ invoices[i] \in Invoice
    BY RowsTyped DEF TypeOK
  <2>1. PICK inv \in Invoice : inv = VoidRow(i)
    BY VoidRowIs
  <2>2. invoices' = Append(invoices, inv) /\ inv.stocked = invoices[i].stocked /\ inv.voids # 0
    BY <1>2, <2>0, <2>1, VoidRowIs DEF VoidPurchase
  <2>3. CASE invoices[i].stocked
    <3>1. PICK back \in Int : back = -invoices[i].qty
      BY <2>0 DEF Invoice
    <3>2. PICK move : move = [delta |-> back, reason |-> "void", invoice |-> i]
      OBVIOUS
    <3>3. stock' = Append(stock, move)
      BY <1>2, <2>3, <3>1, <3>2 DEF VoidPurchase, GoodsBack, MoveGoods
    <3>4. move \in Movement /\ move.reason = "void" /\ move.invoice = i
      BY <2>0, <3>2 DEF Movement
    <3>5. GoodsUntouched(i)
      BY <1>2 DEF VoidPurchase
    <3> QED
      BY <2>2, <2>3, <3>3, <3>4, <3>5 DEF GoodsWritten, VoidedGoods
  <2>4. CASE ~invoices[i].stocked
    BY <1>2, <2>2, <2>4 DEF VoidPurchase, GoodsBack, GoodsWritten, NoGoods
  <2> QED
    BY <2>3, <2>4
<1>3. ASSUME NEW s \in Suppliers, NEW i \in DOMAIN invoices \cup {0}, NEW method \in Methods,
             NEW amount \in Amounts, RecordPayment(s, i, amount, method)
      PROVE  GoodsWritten
  BY <1>3 DEF RecordPayment, GoodsWritten, NoGoods
<1>4. ASSUME NEW p \in DOMAIN payments, ReversePayment(p)
      PROVE  GoodsWritten
  BY <1>4 DEF ReversePayment, GoodsWritten, NoGoods
<1>5. ASSUME NEW s \in Suppliers, NEW i \in DOMAIN invoices, NEW qty \in Quantities,
             LinkedReturn(s, i, qty)
      PROVE  GoodsWritten
  <2>1. PICK out \in Int : out = -qty
    BY PurchasesAssumption
  <2>2. PICK move : move = [delta |-> out, reason |-> "return", invoice |-> i]
    OBVIOUS
  <2>3. stock' = Append(stock, move) /\ invoices' = invoices
    BY <1>5, <2>1, <2>2 DEF LinkedReturn, MoveGoods
  <2>4. move \in Movement /\ move.reason = "return"
    BY <2>2 DEF Movement, TypeOK
  <2> QED
    BY <2>3, <2>4 DEF GoodsWritten, OtherGoods
<1>6. ASSUME SellPiece
      PROVE  GoodsWritten
  <2>1. PICK move : move = [delta |-> -1, reason |-> "sale", invoice |-> 0]
    OBVIOUS
  <2>2. stock' = Append(stock, move) /\ invoices' = invoices
    BY <1>6, <2>1 DEF SellPiece, MoveGoods, booksVars
  <2>3. move \in Movement /\ move.reason = "sale"
    BY <2>1 DEF Movement
  <2> QED
    BY <2>2, <2>3 DEF GoodsWritten, OtherGoods
<1>7. ASSUME NEW s \in Suppliers, GeneralReturn(s, 1)
      PROVE  GoodsWritten
  BY <1>7 DEF GeneralReturn, GoodsWritten, NoGoods
<1>8. ASSUME NEW s \in Suppliers, NEW amount \in Openings, SaveCard(s, amount)
      PROVE  GoodsWritten
  BY <1>8 DEF SaveCard, goodsVars, GoodsWritten, NoGoods
<1>9. ASSUME NEW s \in Suppliers, DeleteSupplier(s)
      PROVE  GoodsWritten
  BY <1>9 DEF DeleteSupplier, goodsVars, GoodsWritten, NoGoods
<1>10. CASE UNCHANGED vars
  BY <1>10 DEF vars, GoodsWritten, NoGoods
<1> QED
  BY <1>1, <1>2, <1>3, <1>4, <1>5, <1>6, <1>7, <1>8, <1>9, <1>10 DEF Next

\* Goods came in on the invoice and went out again: something has moved since.
LEMMA VoidedIsTouched ==
    ASSUME TypeOK, MovementsLinked, NEW n \in DOMAIN stock, stock[n].reason = "void",
           NEW i \in DOMAIN invoices, stock[n].invoice = i, invoices[i].voids = 0,
           invoices[i].stocked
    PROVE  ~GoodsUntouched(i)
<1>1. PICK m \in DOMAIN stock : stock[m].reason = "purchase" /\ stock[m].invoice = i
  BY DEF MovementsLinked
<1>2. /\ OwnMovement(i) \in DOMAIN stock /\ OwnMovement(i) # 0
      /\ stock[OwnMovement(i)].reason = "purchase" /\ stock[OwnMovement(i)].invoice = i
  BY <1>1, OwnMovementIn
<1>3. OwnMovement(i) < n
  BY <1>2 DEF MovementsLinked
<1>4. OwnMovement(i) # Len(stock)
  <2>1. n <= Len(stock) /\ n \in Nat /\ Len(stock) \in Nat
    BY DEF TypeOK
  <2> QED
    BY <1>3, <2>1
<1> QED
  BY <1>2, <1>4 DEF GoodsUntouched

\* A movement more: the ones before stay, and come before.
LEMMA MovementAdded ==
    ASSUME TypeOK, NEW move, stock' = Append(stock, move)
    PROVE  /\ DOMAIN stock' = DOMAIN stock \cup {Len(stock) + 1}
           /\ \A n \in DOMAIN stock : stock'[n] = stock[n] /\ n < Len(stock) + 1
           /\ stock'[Len(stock) + 1] = move
           /\ Len(stock) + 1 \notin DOMAIN stock
<1>1. stock \in Seq(Movement)
  BY DEF TypeOK
<1>2. DOMAIN stock = 1 .. Len(stock) /\ Len(stock) \in Nat
  BY <1>1
<1>3. \A n \in DOMAIN stock : n < Len(stock) + 1
  BY <1>2
<1> QED
  BY <1>1, <1>3, RowsAppended

\* An invoice more: the ones before stay.
LEMMA InvoiceAdded ==
    ASSUME TypeOK, NEW inv, invoices' = Append(invoices, inv)
    PROVE  /\ DOMAIN invoices' = DOMAIN invoices \cup {Len(invoices) + 1}
           /\ \A i \in DOMAIN invoices : invoices'[i] = invoices[i]
           /\ invoices'[Len(invoices) + 1] = inv
           /\ Len(invoices) + 1 \notin DOMAIN invoices
<1>1. invoices \in Seq(Invoice)
  BY DEF TypeOK
<1> QED
  BY <1>1, RowsAppended

\* Voiding asks that nothing moved since the goods came in, and its own movement is such a
\* one: the goods of an invoice go out by a void once.
LEMMA GoodsNext ==
    ASSUME TypeOK, MovementsLinked, GoodsVoidedOnce, GoodsWritten
    PROVE  MovementsLinked' /\ GoodsVoidedOnce'
<1>1. CASE BoughtGoods
  <2>1. PICK inv \in Invoice, move \in Movement :
           /\ invoices' = Append(invoices, inv) /\ stock' = Append(stock, move)
           /\ move.reason = "purchase" /\ move.invoice = Len(invoices) + 1
    BY <1>1 DEF BoughtGoods
  <2>2. /\ DOMAIN stock' = DOMAIN stock \cup {Len(stock) + 1}
        /\ \A n \in DOMAIN stock : stock'[n] = stock[n]
        /\ stock'[Len(stock) + 1] = move
    BY <2>1, MovementAdded
  <2>3. /\ DOMAIN invoices' = DOMAIN invoices \cup {Len(invoices) + 1}
        /\ \A i \in DOMAIN invoices : invoices'[i] = invoices[i]
        /\ Len(invoices) + 1 \notin DOMAIN invoices
    BY <2>1, InvoiceAdded
  <2>4. \A n \in DOMAIN stock' :
           stock'[n].reason \in {"purchase", "void"} => stock'[n].invoice \in DOMAIN invoices'
    BY <2>1, <2>2, <2>3 DEF MovementsLinked
  <2>5. \A i \in DOMAIN invoices' :
           invoices'[i].voids = 0 /\ invoices'[i].stocked =>
               \E m \in DOMAIN stock' : stock'[m].reason = "purchase" /\ stock'[m].invoice = i
    BY <2>1, <2>2, <2>3 DEF MovementsLinked
  <2>6. ASSUME NEW n \in DOMAIN stock', stock'[n].reason = "void"
        PROVE  /\ n \in DOMAIN stock /\ stock[n].reason = "void" /\ stock'[n] = stock[n]
               /\ stock'[n].invoice \in DOMAIN invoices
    BY <2>1, <2>2, <2>6 DEF MovementsLinked
  <2>7. \A n, m \in DOMAIN stock' :
           /\ stock'[n].reason = "void" /\ stock'[m].reason = "purchase"
           /\ stock'[n].invoice = stock'[m].invoice
           => m < n
    BY <2>1, <2>2, <2>3, <2>6 DEF MovementsLinked
  <2>8. GoodsVoidedOnce'
    BY <2>3, <2>6 DEF GoodsVoidedOnce
  <2> QED
    BY <2>4, <2>5, <2>7, <2>8 DEF MovementsLinked
<1>2. CASE VoidedGoods
  <2>1. PICK inv \in Invoice, move \in Movement :
           /\ invoices' = Append(invoices, inv) /\ stock' = Append(stock, move)
           /\ inv.voids # 0
           /\ move.reason = "void" /\ move.invoice \in DOMAIN invoices
           /\ invoices[move.invoice].stocked /\ GoodsUntouched(move.invoice)
    BY <1>2 DEF VoidedGoods
  <2>2. /\ DOMAIN stock' = DOMAIN stock \cup {Len(stock) + 1}
        /\ \A n \in DOMAIN stock : stock'[n] = stock[n] /\ n < Len(stock) + 1
        /\ stock'[Len(stock) + 1] = move
        /\ Len(stock) + 1 \notin DOMAIN stock
    BY <2>1, MovementAdded
  <2>3. /\ DOMAIN invoices' = DOMAIN invoices \cup {Len(invoices) + 1}
        /\ \A i \in DOMAIN invoices : invoices'[i] = invoices[i]
        /\ invoices'[Len(invoices) + 1] = inv
    BY <2>1, InvoiceAdded
  <2>4. \A n \in DOMAIN stock' :
           stock'[n].reason \in {"purchase", "void"} => stock'[n].invoice \in DOMAIN invoices'
    BY <2>1, <2>2, <2>3 DEF MovementsLinked
  <2>5. \A i \in DOMAIN invoices' :
           invoices'[i].voids = 0 /\ invoices'[i].stocked =>
               \E m \in DOMAIN stock' : stock'[m].reason = "purchase" /\ stock'[m].invoice = i
    BY <2>1, <2>2, <2>3 DEF MovementsLinked
  <2>6. \A n, m \in DOMAIN stock' :
           /\ stock'[n].reason = "void" /\ stock'[m].reason = "purchase"
           /\ stock'[n].invoice = stock'[m].invoice
           => m < n
    BY <2>1, <2>2 DEF MovementsLinked
  <2>7. ASSUME NEW n \in DOMAIN stock, stock[n].reason = "void",
               stock[n].invoice = move.invoice, invoices[move.invoice].voids = 0
        PROVE  FALSE
    BY <2>1, <2>7, VoidedIsTouched
  <2>8. \A n \in DOMAIN stock : stock[n].reason = "void" => stock[n].invoice \in DOMAIN invoices
    BY DEF MovementsLinked
  <2>9. GoodsVoidedOnce'
    BY <2>1, <2>2, <2>3, <2>7, <2>8 DEF GoodsVoidedOnce
  <2> QED
    BY <2>4, <2>5, <2>6, <2>9 DEF MovementsLinked
<1>3. CASE OtherGoods
  <2>1. PICK move \in Movement : /\ invoices' = invoices /\ stock' = Append(stock, move)
                                 /\ move.reason \in {"return", "sale"}
    BY <1>3 DEF OtherGoods
  <2>2. /\ DOMAIN stock' = DOMAIN stock \cup {Len(stock) + 1}
        /\ \A n \in DOMAIN stock : stock'[n] = stock[n]
        /\ stock'[Len(stock) + 1] = move
    BY <2>1, MovementAdded
  <2>3. ASSUME NEW n \in DOMAIN stock', stock'[n].reason \in {"purchase", "void"}
        PROVE  n \in DOMAIN stock /\ stock'[n] = stock[n]
    BY <2>1, <2>2, <2>3
  <2>4. MovementsLinked'
    BY <2>1, <2>2, <2>3 DEF MovementsLinked
  <2>5. GoodsVoidedOnce'
    BY <2>1, <2>3 DEF GoodsVoidedOnce
  <2> QED
    BY <2>4, <2>5
<1>4. CASE NoGoods
  <2>1. CASE invoices' = invoices
    BY <1>4, <2>1 DEF NoGoods, MovementsLinked, GoodsVoidedOnce
  <2>2. ASSUME NEW inv \in Invoice, invoices' = Append(invoices, inv),
               inv.voids # 0 \/ ~inv.stocked
        PROVE  MovementsLinked' /\ GoodsVoidedOnce'
    <3>1. /\ DOMAIN invoices' = DOMAIN invoices \cup {Len(invoices) + 1}
          /\ \A i \in DOMAIN invoices : invoices'[i] = invoices[i]
          /\ invoices'[Len(invoices) + 1] = inv
      BY <2>2, InvoiceAdded
    <3>2. stock' = stock
      BY <1>4 DEF NoGoods
    <3>3. MovementsLinked'
      BY <2>2, <3>1, <3>2 DEF MovementsLinked
    <3>4. GoodsVoidedOnce'
      BY <3>1, <3>2 DEF GoodsVoidedOnce, MovementsLinked
    <3> QED
      BY <3>3, <3>4
  <2> QED
    BY <1>4, <2>1, <2>2 DEF NoGoods
<1> QED
  BY <1>1, <1>2, <1>3, <1>4 DEF GoodsWritten

----------------------------------------------------------------------------
(* What goes back. *)

\* A return is a credit, never a debit.
ReturnsGiven == \A r \in DOMAIN returns : returns[r].amount >= 0

\* A return of goods is worth their price, and a general one was typed positive.
LEMMA ReturnsNext ==
    ASSUME TypeOK, PricesAsked, ReturnsGiven, [Next]_vars
    PROVE  ReturnsGiven'
<1>1. ASSUME NEW row, returns' = Append(returns, row), row.amount >= 0
      PROVE  ReturnsGiven'
  <2>1. returns \in Seq(Return)
    BY DEF TypeOK
  <2>2. /\ DOMAIN returns' = DOMAIN returns \cup {Len(returns) + 1}
        /\ \A r \in DOMAIN returns : returns'[r] = returns[r]
        /\ returns'[Len(returns) + 1] = row
    BY <1>1, <2>1, RowsAppended
  <2> QED
    BY <1>1, <2>2 DEF ReturnsGiven
<1>2. ASSUME NEW s \in Suppliers, NEW i \in DOMAIN invoices, NEW qty \in Quantities,
             LinkedReturn(s, i, qty)
      PROVE  ReturnsGiven'
  <2>1. invoices[i].price \in Nat /\ qty \in Nat
    BY RowsTyped, PurchasesAssumption DEF PricesAsked, Invoice
  <2>2. PICK worth \in Nat : worth = LineTotal(qty, invoices[i].price)
    BY <2>1, ProductNat DEF LineTotal
  <2>3. PICK row : row = [who |-> s, invoice |-> i, qty |-> qty, amount |-> worth]
    OBVIOUS
  <2>4. returns' = Append(returns, row) /\ row.amount >= 0
    BY <1>2, <2>2, <2>3 DEF LinkedReturn
  <2> QED
    BY <1>1, <2>4
<1>3. ASSUME NEW s \in Suppliers, GeneralReturn(s, 1)
      PROVE  ReturnsGiven'
  <2>1. PICK row : row = [who |-> s, invoice |-> 0, qty |-> 0, amount |-> 1]
    OBVIOUS
  <2>2. returns' = Append(returns, row) /\ row.amount >= 0
    BY <1>3, <2>1 DEF GeneralReturn
  <2> QED
    BY <1>1, <2>2
<1>4. CASE returns' = returns
  BY <1>4 DEF ReturnsGiven
<1>5. (\/ \E s \in Suppliers, i \in DOMAIN invoices, qty \in Quantities : LinkedReturn(s, i, qty)
       \/ \E s \in Suppliers : GeneralReturn(s, 1)
       \/ returns' = returns)
  BY DEF Next, vars, RecordPurchase, VoidPurchase, RecordPayment, ReversePayment, SaveCard,
         DeleteSupplier, SellPiece, booksVars
<1> QED
  BY <1>2, <1>3, <1>4, <1>5

----------------------------------------------------------------------------
(* The books as a whole. *)

\* What is true of the books together: a payment is held against what remains, which
\* needs the links, which need the prices; the goods need their movements in order.
BooksInv ==
    /\ TypeOK
    /\ PricesAsked
    /\ ReturnsGiven
    /\ PaymentsLinked
    /\ MovementsLinked
    /\ InvoiceNotOverpaid
    /\ DrawerFollowsPayments
    /\ GoodsVoidedOnce

\* Empty books are in order.
LEMMA InitBooks == Init => BooksInv
<1> SUFFICES ASSUME Init
             PROVE  BooksInv
  OBVIOUS
<1>1. TypeOK
  BY PurchasesAssumption DEF Init, TypeOK
<1>2. /\ DOMAIN invoices = {} /\ DOMAIN payments = {} /\ DOMAIN stock = {}
      /\ DOMAIN drawer = {}
  BY DEF Init
<1>3. /\ PricesAsked /\ PaymentsLinked /\ MovementsLinked /\ InvoiceNotOverpaid
      /\ GoodsVoidedOnce /\ ReturnsGiven
  BY <1>2 DEF Init, ReturnsGiven, PricesAsked, PaymentsLinked, MovementsLinked, InvoiceNotOverpaid, GoodsVoidedOnce
<1>4. DrawerFollowsPayments
  BY <1>2, SumEmpty, DrawerIs
<1> QED
  BY <1>1, <1>3, <1>4 DEF BooksInv

\* And every step leaves them so.
LEMMA NextBooks == BooksInv /\ [Next]_vars => BooksInv'
<1> SUFFICES ASSUME BooksInv, [Next]_vars
             PROVE  BooksInv'
  OBVIOUS
<1>1. TypeOK' /\ InvoiceWritten /\ PaymentWritten /\ GoodsWritten
  BY TypeNext, EveryWrite, EveryGoods DEF BooksInv
<1> QED
  BY <1>1, LinkedNext, ReturnsNext, OverpaidNext, DrawerNext, GoodsNext DEF BooksInv

\* The books are always in order.
LEMMA BooksAlways == Spec => []BooksInv
BY InitBooks, NextBooks, PTL DEF Spec

\* What purchases and payments took from the drawer is what the cash payments on record
\* say, reversals included, for any number of payments (cash by recordPayment,
\* voidPurchase and reversePayment).
THEOREM DrawerCorrect == Spec => []DrawerFollowsPayments
<1>1. BooksInv => DrawerFollowsPayments
  BY DEF BooksInv
<1> QED
  BY <1>1, BooksAlways, PTL

\* No invoice has more settled on it than its total, whatever is paid, reversed, voided
\* or paid again, in any order.
THEOREM PaymentsCorrect == Spec => []InvoiceNotOverpaid
<1>1. BooksInv => InvoiceNotOverpaid
  BY DEF BooksInv
<1> QED
  BY <1>1, BooksAlways, PTL

\* The goods of an invoice leave the shelf by voiding it at most once, though nothing in
\* the code keeps an invoice from being voided twice.
THEOREM VoidsCorrect == Spec => []GoodsVoidedOnce
<1>1. BooksInv => GoodsVoidedOnce
  BY DEF BooksInv
<1> QED
  BY <1>1, BooksAlways, PTL

----------------------------------------------------------------------------
(* The average cost. *)

\* A larger price makes no smaller a value.
LEMMA TimesAtMost ==
    ASSUME NEW a \in Int, NEW b \in Int, NEW n \in Nat, a <= b
    PROVE  n * a <= n * b
OBVIOUS

\* Two bounds add up to a bound.
LEMMA SumsAtMost ==
    ASSUME NEW a \in Int, NEW b \in Int, NEW c \in Int, NEW d \in Int, a <= c, b <= d
    PROVE  a + b <= c + d
OBVIOUS

\* And a smaller value has a smaller price.
LEMMA TimesBelow ==
    ASSUME NEW a \in Int, NEW b \in Int, NEW n \in Nat \ {0}, n * a < n * b
    PROVE  a < b
<1>1. CASE b <= a
  BY <1>1, TimesAtMost
<1> QED
  BY <1>1

\* A quotient lies between the bounds its dividend allows, on either side of zero.
LEMMA QuotientBetween ==
    ASSUME NEW a \in Int, NEW n \in Nat \ {0}, NEW low \in Int, NEW high \in Int,
           n * low <= a, a <= n * high
    PROVE  low <= Quotient(a, n) /\ Quotient(a, n) <= high
<1>1. ASSUME NEW b \in Nat
      PROVE  /\ b \div n \in Int
             /\ n * (b \div n) <= b /\ b < n * (b \div n + 1)
  OBVIOUS
<1>2. CASE a >= 0
  <2>1. PICK q \in Int : q = a \div n /\ n * q <= a /\ a < n * (q + 1)
    BY <1>1, <1>2
  <2>2. Quotient(a, n) = q
    BY <1>2, <2>1 DEF Quotient
  <2>3. n * low < n * (q + 1)
    BY <2>1
  <2>4. low < q + 1
    BY <2>3, TimesBelow
  <2>5. n * q < n * (high + 1)
    BY <2>1
  <2>6. q < high + 1
    BY <2>5, TimesBelow
  <2> QED
    BY <2>2, <2>4, <2>6
<1>3. CASE a < 0
  <2>1. PICK q \in Int : q = (-a) \div n /\ n * q <= -a /\ -a < n * (q + 1)
    BY <1>1, <1>3
  <2>2. Quotient(a, n) = -q
    BY <1>3, <2>1 DEF Quotient
  <2>3. n * (-high) < n * (q + 1)
    BY <2>1
  <2>4. -high < q + 1
    BY <2>3, TimesBelow
  <2>5. n * q < n * (-low + 1)
    BY <2>1
  <2>6. q < -low + 1
    BY <2>5, TimesBelow
  <2> QED
    BY <2>2, <2>4, <2>6
<1> QED
  BY <1>2, <1>3

\* Of two numbers one is the smaller and one the larger.
LEMMA PairEnds ==
    ASSUME NEW a \in Int, NEW b \in Int
    PROVE  /\ Min({a, b}) \in Int /\ Max({a, b}) \in Int /\ Max({a, b}) \in {a, b}
           /\ Min({a, b}) <= a /\ Min({a, b}) <= b
           /\ a <= Max({a, b}) /\ b <= Max({a, b})
<1>1. IsFiniteSet({a, b})
  <2>1. IsFiniteSet({a}) /\ {a} \cup {b} = {a, b}
    BY FS_Singleton
  <2> QED
    BY <2>1, FS_AddElement
<1>2. {a, b} # {} /\ \A x \in {a, b} : x \in Int
  OBVIOUS
<1>3. Min({a, b}) \in {a, b} /\ \A y \in {a, b} : Min({a, b}) <= y
  BY <1>1, <1>2, MinIn
<1>4. Max({a, b}) \in {a, b} /\ \A y \in {a, b} : y <= Max({a, b})
  BY <1>1, <1>2, MaxIn
<1> QED
  BY <1>3, <1>4

\* The weighted average of a shelf that holds something or nothing, and of goods that
\* come in, lies between the two prices: truncation does not take it past either.
LEMMA AverageBetween ==
    ASSUME TypeOK, shelf >= 0, NEW qty \in Nat \ {0}, NEW price \in Int
    PROVE  AverageCost(qty, price) \in Min({cost, price}) .. Max({cost, price})
<1>1. shelf \in Nat /\ cost \in Int
  BY DEF TypeOK
<1>2. PICK low \in Int, high \in Int :
         /\ low = Min({cost, price}) /\ high = Max({cost, price})
         /\ low <= cost /\ low <= price /\ cost <= high /\ price <= high
  BY <1>1, PairEnds
<1>3. /\ shelf * low <= shelf * cost /\ qty * low <= qty * price
      /\ shelf * cost <= shelf * high /\ qty * price <= qty * high
  BY <1>1, <1>2, TimesAtMost
<1>4. PICK whole \in Int : whole = shelf * cost + qty * price
  BY <1>1
<1>5. PICK pieces \in Nat \ {0} : pieces = shelf + qty
  BY <1>1
<1>6. pieces * low = shelf * low + qty * low /\ pieces * high = shelf * high + qty * high
  BY <1>1, <1>2, <1>5
<1>7. pieces * low <= whole /\ whole <= pieces * high
  <2>1. /\ shelf * low \in Int /\ qty * low \in Int /\ shelf * cost \in Int
        /\ qty * price \in Int /\ shelf * high \in Int /\ qty * high \in Int
    BY <1>1, <1>2
  <2>2. /\ shelf * low + qty * low <= shelf * cost + qty * price
        /\ shelf * cost + qty * price <= shelf * high + qty * high
    BY <1>3, <2>1, SumsAtMost
  <2> QED
    BY <1>4, <1>6, <2>2
<1>8. low <= Quotient(whole, pieces) /\ Quotient(whole, pieces) <= high
  BY <1>2, <1>4, <1>5, <1>7, QuotientBetween
<1>9. AverageCost(qty, price) = Quotient(whole, pieces)
  BY <1>1, <1>4, <1>5 DEF AverageCost
<1>10. Quotient(whole, pieces) \in Int
  BY QuotientInt
<1> QED
  BY <1>2, <1>8, <1>9, <1>10

\* Only goods that come in change the cost, and by the average.
LEMMA CostStep ==
    ASSUME TypeOK, [Next]_vars
    PROVE  CostMoves
<1>1. ASSUME NEW s \in Suppliers, NEW qty \in Quantities, NEW price \in UnitPrices,
             NEW vat \in Vats, NEW method \in Methods, NEW stocked \in BOOLEAN,
             NEW paid \in InitialPaid(LineTotal(qty, price) + vat),
             RecordPurchase(s, qty, price, vat, paid, method, stocked)
      PROVE  CostMoves
  <2>1. PICK inv \in Invoice : inv = NewInvoice(s, qty, price, vat, paid, stocked)
    BY PurchaseInputs
  <2>2. invoices' = Append(invoices, inv) /\ inv.price = price
    BY <1>1, <2>1 DEF RecordPurchase, NewInvoice
  <2>3. invoices'[Len(invoices')].price = price
    <3>1. invoices \in Seq(Invoice)
      BY DEF TypeOK
    <3> QED
      BY <2>2, <3>1, RowsAppended
  <2>4. CASE stocked
    <3>1. cost' = AverageCost(qty, price)
      BY <1>1, <2>4 DEF RecordPurchase, StockIn
    <3>2. qty \in Nat \ {0} /\ price \in Int
      BY PurchasesAssumption
    <3> QED
      BY <2>3, <3>1, <3>2, AverageBetween DEF CostMoves
  <2>5. CASE ~stocked
    BY <1>1, <2>5 DEF RecordPurchase, StockIn, goodsVars, CostMoves
  <2> QED
    BY <2>4, <2>5
<1>2. CASE cost' = cost
  BY <1>2 DEF CostMoves
<1>3. CASE UNCHANGED vars
  BY <1>2, <1>3 DEF vars
<1>4. ASSUME NEW i \in DOMAIN invoices, VoidPurchase(i)
      PROVE  CostMoves
  BY <1>2, <1>4 DEF VoidPurchase
<1>5. ASSUME NEW s \in Suppliers, NEW i \in DOMAIN invoices \cup {0}, NEW method \in Methods,
             NEW amount \in Amounts, RecordPayment(s, i, amount, method)
      PROVE  CostMoves
  BY <1>2, <1>5 DEF RecordPayment
<1>6. ASSUME NEW p \in DOMAIN payments, ReversePayment(p)
      PROVE  CostMoves
  BY <1>2, <1>6 DEF ReversePayment
<1>7. ASSUME NEW s \in Suppliers, NEW i \in DOMAIN invoices, NEW qty \in Quantities,
             LinkedReturn(s, i, qty)
      PROVE  CostMoves
  BY <1>2, <1>7 DEF LinkedReturn
<1>8. ASSUME NEW s \in Suppliers, GeneralReturn(s, 1)
      PROVE  CostMoves
  BY <1>2, <1>8 DEF GeneralReturn
<1>9. ASSUME NEW s \in Suppliers, NEW amount \in Openings, SaveCard(s, amount)
      PROVE  CostMoves
  BY <1>2, <1>9 DEF SaveCard, goodsVars
<1>10. ASSUME NEW s \in Suppliers, DeleteSupplier(s)
      PROVE  CostMoves
  BY <1>2, <1>10 DEF DeleteSupplier, goodsVars
<1>11. ASSUME SellPiece
      PROVE  CostMoves
  BY <1>2, <1>11 DEF SellPiece
<1> QED
  BY <1>1, <1>3, <1>4, <1>5, <1>6, <1>7, <1>8, <1>9, <1>10, <1>11 DEF Next

\* As long as the shelf was not oversold, the average cost after any step lies between the
\* cost before and the price of the goods that came in, for all quantities and prices.
THEOREM CostCorrect == Spec => CostStaysBetween
<1>1. TypeOK /\ [Next]_vars => [CostMoves]_vars
  BY CostStep
<1> QED
  BY <1>1, TypeCorrect, PTL DEF Spec, CostStaysBetween

----------------------------------------------------------------------------
(* The suppliers' report. *)

\* The columns the report adds up, invoice by invoice and row by row.
TotalOf == [i \in DOMAIN invoices |-> invoices[i].total]
SettledOf == [i \in DOMAIN invoices |-> Settled(i)]
LeftOf == [i \in DOMAIN invoices |-> Remaining(i)]
AmountOf == [p \in DOMAIN payments |-> payments[p].amount]
CreditOf == [r \in DOMAIN returns |-> returns[r].amount]

\* The rows of a supplier.
InvoicesOf(s) == {i \in DOMAIN invoices : invoices[i].who = s}
Overpaid(s) == {i \in DOMAIN invoices : invoices[i].who = s /\ Remaining(i) < 0}
PaidBy(s) == {p \in DOMAIN payments : payments[p].who = s}
General(s) == {p \in PaymentsOf(0) : payments[p].who = s}
ReturnsOf(s) == {r \in DOMAIN returns : returns[r].who = s}
Loose(s) == SumFunctionOnSet(AmountOf, General(s))
\* What the report shows as open.
Open(s) == Summary(s).unpaidTotal + opening[s]

\* The tables are finite and their columns hold cents.
LEMMA TablesFinite ==
    ASSUME TypeOK
    PROVE  /\ IsFiniteSet(DOMAIN invoices) /\ IsFiniteSet(DOMAIN payments)
           /\ IsFiniteSet(DOMAIN returns)
           /\ \A i \in DOMAIN invoices : TotalOf[i] \in Int /\ SettledOf[i] \in Int
                                          /\ LeftOf[i] \in Int /\ LeftOf[i] = TotalOf[i] - SettledOf[i]
           /\ \A p \in DOMAIN payments : AmountOf[p] \in Int
           /\ \A r \in DOMAIN returns : CreditOf[r] \in Int
<1>1. IsFiniteSet(DOMAIN invoices) /\ IsFiniteSet(DOMAIN payments) /\ IsFiniteSet(DOMAIN returns)
  BY RowsAppended DEF TypeOK
<1>2. \A i \in DOMAIN invoices : TotalOf[i] \in Int
  BY RowsTyped DEF TotalOf, Invoice
<1>3. \A i \in DOMAIN invoices : SettledOf[i] \in Int
  BY SettledInt DEF SettledOf
<1>4. \A i \in DOMAIN invoices : LeftOf[i] \in Int /\ LeftOf[i] = TotalOf[i] - SettledOf[i]
  BY RemainingInt DEF LeftOf, TotalOf, SettledOf, Remaining
<1>5. \A p \in DOMAIN payments : AmountOf[p] \in Int
  BY RowsTyped DEF AmountOf, Payment
<1>6. \A r \in DOMAIN returns : CreditOf[r] \in Int
  BY RowsTyped DEF CreditOf, Return
<1> QED
  BY <1>1, <1>2, <1>3, <1>4, <1>5, <1>6

\* The entries of the ledger, table by table.
LEMMA EntriesAre ==
    ASSUME TypeOK, NEW s
    PROVE  Entries(s) = SumFunctionOnSet(TotalOf, InvoicesOf(s))
                          - SumFunctionOnSet(AmountOf, PaidBy(s))
                          - SumFunctionOnSet(CreditOf, ReturnsOf(s))
<1> DEFINE billed == [i \in DOMAIN invoices |-> IF invoices[i].who = s THEN invoices[i].total ELSE 0]
           paid == [p \in DOMAIN payments |-> IF payments[p].who = s THEN payments[p].amount ELSE 0]
           credited == [r \in DOMAIN returns |-> IF returns[r].who = s THEN returns[r].amount ELSE 0]
<1>1. /\ \A i \in InvoicesOf(s) : billed[i] = TotalOf[i]
      /\ \A i \in DOMAIN invoices \ InvoicesOf(s) : billed[i] = 0
      /\ InvoicesOf(s) \in SUBSET (DOMAIN invoices) /\ DOMAIN billed = DOMAIN invoices
  BY DEF InvoicesOf, TotalOf
<1>2. /\ \A p \in PaidBy(s) : paid[p] = AmountOf[p]
      /\ \A p \in DOMAIN payments \ PaidBy(s) : paid[p] = 0
      /\ PaidBy(s) \in SUBSET (DOMAIN payments) /\ DOMAIN paid = DOMAIN payments
  BY DEF PaidBy, AmountOf
<1>3. /\ \A r \in ReturnsOf(s) : credited[r] = CreditOf[r]
      /\ \A r \in DOMAIN returns \ ReturnsOf(s) : credited[r] = 0
      /\ ReturnsOf(s) \in SUBSET (DOMAIN returns) /\ DOMAIN credited = DOMAIN returns
  BY DEF ReturnsOf, CreditOf
<1>4. Entries(s) = SumFunction(billed) - SumFunction(paid) - SumFunction(credited)
  BY DEF Entries
<1> HIDE DEF billed, paid, credited
<1>5. SumFunction(billed) = SumFunctionOnSet(TotalOf, InvoicesOf(s))
  <2>1. SumFunctionOnSet(billed, DOMAIN invoices) = SumFunctionOnSet(TotalOf, InvoicesOf(s))
    BY <1>1, TablesFinite, SumRestrict
  <2> QED
    BY <1>1, <2>1 DEF SumFunction
<1>6. SumFunction(paid) = SumFunctionOnSet(AmountOf, PaidBy(s))
  <2>1. SumFunctionOnSet(paid, DOMAIN payments) = SumFunctionOnSet(AmountOf, PaidBy(s))
    BY <1>2, TablesFinite, SumRestrict
  <2> QED
    BY <1>2, <2>1 DEF SumFunction
<1>7. SumFunction(credited) = SumFunctionOnSet(CreditOf, ReturnsOf(s))
  <2>1. SumFunctionOnSet(credited, DOMAIN returns) = SumFunctionOnSet(CreditOf, ReturnsOf(s))
    BY <1>3, TablesFinite, SumRestrict
  <2> QED
    BY <1>3, <2>1 DEF SumFunction
<1> QED
  BY <1>4, <1>5, <1>6, <1>7

\* A payment is settled on an invoice of its own supplier, or on none.
LEMMA PaidSplits ==
    ASSUME TypeOK, PaymentsLinked, NEW s
    PROVE  SumFunctionOnSet(AmountOf, PaidBy(s))
             = Loose(s) + SumFunctionOnSet(SettledOf, InvoicesOf(s))
<1> DEFINE on == [p \in DOMAIN payments |-> payments[p].invoice]
           rows == [i \in DOMAIN invoices |-> PaymentsOf(i)]
           mine == {p \in DOMAIN payments : payments[p].invoice \in InvoicesOf(s)}
<1>1. IsFiniteSet(InvoicesOf(s)) /\ InvoicesOf(s) \subseteq DOMAIN invoices
  BY TablesFinite, FS_Subset DEF InvoicesOf
<1>2. /\ \A i \in InvoicesOf(s) : rows[i] \in SUBSET DOMAIN payments
      /\ \A i \in InvoicesOf(s), p \in DOMAIN payments : p \in rows[i] <=> on[p] = i
      /\ \A i \in InvoicesOf(s) : SettledOf[i] = SumFunctionOnSet(AmountOf, rows[i])
      /\ mine \in SUBSET DOMAIN payments
      /\ \A p \in DOMAIN payments : p \in mine <=> on[p] \in InvoicesOf(s)
  BY <1>1 DEF PaymentsOf, SettledOf, Settled, AmountOf
<1>3. SumFunctionOnSet(SettledOf, InvoicesOf(s)) = SumFunctionOnSet(AmountOf, mine)
  <2>1. IsFiniteSet(DOMAIN payments) /\ \A p \in DOMAIN payments : AmountOf[p] \in Int
    BY TablesFinite
  <2> HIDE DEF on, rows, mine
  <2> QED
    BY <1>1, <1>2, <2>1, SumGroups
<1>4. PaidBy(s) = General(s) \cup mine /\ General(s) \cap mine = {}
  <2>1. 0 \notin InvoicesOf(s)
    BY <1>1 DEF TypeOK
  <2> QED
    BY <2>1 DEF PaidBy, General, PaymentsOf, PaymentsLinked, InvoicesOf
<1>5. IsFiniteSet(General(s)) /\ IsFiniteSet(mine) /\ General(s) \cup mine \subseteq DOMAIN payments
  BY TablesFinite, FS_Subset DEF General, PaymentsOf
<1>6. SumFunctionOnSet(AmountOf, General(s) \cup mine)
        = SumFunctionOnSet(AmountOf, General(s)) + SumFunctionOnSet(AmountOf, mine)
  <2> HIDE DEF mine
  <2> QED
    BY <1>4, <1>5, TablesFinite, SumUnion
<1> QED
  BY <1>3, <1>4, <1>6 DEF Loose

\* What is left on a supplier's invoices is on the unpaid ones and on the overpaid.
LEMMA LeftSplits ==
    ASSUME TypeOK, NEW s
    PROVE  SumFunctionOnSet(LeftOf, InvoicesOf(s))
             = SumFunctionOnSet(LeftOf, UnpaidInvoices(s)) + SumFunctionOnSet(LeftOf, Overpaid(s))
<1>1. PICK A, B : A = UnpaidInvoices(s) /\ B = Overpaid(s)
  OBVIOUS
<1>2. A \subseteq InvoicesOf(s) /\ B \subseteq InvoicesOf(s) /\ InvoicesOf(s) \subseteq DOMAIN invoices
  BY <1>1 DEF UnpaidInvoices, Overpaid, InvoicesOf
<1>3. A \cap B = {}
  BY <1>1, RemainingInt DEF UnpaidInvoices, Overpaid
<1>4. \A i \in InvoicesOf(s) \ (A \cup B) : LeftOf[i] = 0
  BY <1>1, <1>2, RemainingInt DEF UnpaidInvoices, Overpaid, InvoicesOf, LeftOf
<1>5. IsFiniteSet(InvoicesOf(s)) /\ IsFiniteSet(A) /\ IsFiniteSet(B)
  BY <1>2, TablesFinite, FS_Subset
<1>6. SumFunctionOnSet(LeftOf, A \cup B) = SumFunctionOnSet(LeftOf, A) + SumFunctionOnSet(LeftOf, B)
  BY <1>2, <1>3, <1>5, TablesFinite, SumUnion
<1>7. SumFunctionOnSet(LeftOf, InvoicesOf(s)) = SumFunctionOnSet(LeftOf, A \cup B)
  <2>1. A \cup B \in SUBSET InvoicesOf(s) /\ \A i \in A \cup B : LeftOf[i] \in Int
    BY <1>2, TablesFinite
  <2> QED
    BY <1>4, <1>5, <2>1, SumRestrict
<1> QED
  BY <1>1, <1>6, <1>7

\* An opening balance is not negative.
LEMMA OpeningNat ==
    ASSUME TypeOK, NEW s \in suppliers
    PROVE  opening[s] \in Nat
<1>1. s \in Suppliers
  BY DEF TypeOK
<1>2. opening[s] \in Openings
  BY <1>1 DEF TypeOK
<1> QED
  BY <1>2, PurchasesAssumption

\* The balance is what is open, the overpaid invoices, the loose payments and the returns.
LEMMA BalanceExplained ==
    ASSUME TypeOK, PaymentsLinked, NEW s \in suppliers
    PROVE  /\ Summary(s).balance = Open(s) + SumFunctionOnSet(LeftOf, Overpaid(s)) - Loose(s)
                                     - SumFunctionOnSet(CreditOf, ReturnsOf(s))
           /\ Summary(s).balance \in Int /\ Open(s) \in Int /\ Loose(s) \in Int
           /\ Open(s) = SumFunctionOnSet(LeftOf, UnpaidInvoices(s)) + opening[s]
<1>1. /\ IsFiniteSet(InvoicesOf(s)) /\ IsFiniteSet(UnpaidInvoices(s)) /\ IsFiniteSet(Overpaid(s))
      /\ IsFiniteSet(ReturnsOf(s)) /\ IsFiniteSet(General(s))
      /\ InvoicesOf(s) \subseteq DOMAIN invoices /\ UnpaidInvoices(s) \subseteq DOMAIN invoices
      /\ Overpaid(s) \subseteq DOMAIN invoices /\ ReturnsOf(s) \subseteq DOMAIN returns
      /\ General(s) \subseteq DOMAIN payments
  BY TablesFinite, FS_Subset
     DEF InvoicesOf, UnpaidInvoices, Overpaid, ReturnsOf, General, PaymentsOf
<1>2. SumFunctionOnSet(LeftOf, InvoicesOf(s))
        = SumFunctionOnSet(TotalOf, InvoicesOf(s)) - SumFunctionOnSet(SettledOf, InvoicesOf(s))
  BY <1>1, TablesFinite, SumMinus
<1>3. /\ SumFunctionOnSet(LeftOf, UnpaidInvoices(s)) \in Int
      /\ SumFunctionOnSet(LeftOf, Overpaid(s)) \in Int
      /\ SumFunctionOnSet(TotalOf, InvoicesOf(s)) \in Int
      /\ SumFunctionOnSet(SettledOf, InvoicesOf(s)) \in Int
  BY <1>1, TablesFinite, SumInt
<1>4. SumFunctionOnSet(CreditOf, ReturnsOf(s)) \in Int /\ Loose(s) \in Int
  BY <1>1, TablesFinite, SumInt DEF Loose
<1>5. opening[s] \in Int
  BY OpeningNat
<1>6. Summary(s).balance = opening[s] + Entries(s)
  BY DEF Summary, Balance
<1>7. Open(s) = SumFunctionOnSet(LeftOf, UnpaidInvoices(s)) + opening[s]
  BY DEF Open, Summary, LeftOf
<1> QED
  BY <1>2, <1>3, <1>4, <1>5, <1>6, <1>7, EntriesAre, PaidSplits, LeftSplits

\* The report of books in order is explained by their rows.
LEMMA ReportExplained ==
    ASSUME TypeOK, PaymentsLinked, ReturnsGiven
    PROVE  SummaryExplained
<1>1. \A s \in suppliers :
         Summary(s).balance = Open(s) + SumFunctionOnSet(LeftOf, Overpaid(s)) - Loose(s)
                                - SumFunctionOnSet(CreditOf, ReturnsOf(s))
  BY BalanceExplained
<1>2. ASSUME \A s \in suppliers : Loose(s) >= 0
      PROVE  GrandTotalOwed <= SumFunction([s \in suppliers |-> Open(s)])
  <2> DEFINE owed == [s \in suppliers |-> Max({0, Summary(s).balance})]
             open == [s \in suppliers |-> Open(s)]
  <2>1. ASSUME NEW s \in suppliers
        PROVE  owed[s] \in Int /\ open[s] \in Int /\ owed[s] <= open[s]
    <3>1. Max({0, Summary(s).balance}) \in {0, Summary(s).balance}
      <4>1. 0 \in Int /\ Summary(s).balance \in Int
        BY BalanceExplained
      <4> QED
        BY <4>1, PairEnds
    <3>2. SumFunctionOnSet(LeftOf, UnpaidInvoices(s)) >= 0
      <4>1. /\ IsFiniteSet(UnpaidInvoices(s))
            /\ \A i \in UnpaidInvoices(s) : LeftOf[i] \in Int /\ LeftOf[i] >= 0
        BY TablesFinite, RemainingInt, FS_Subset DEF UnpaidInvoices, LeftOf
      <4> QED
        BY <4>1, SumSign
    <3>3. SumFunctionOnSet(LeftOf, Overpaid(s)) <= 0 /\ SumFunctionOnSet(LeftOf, Overpaid(s)) \in Int
      <4>1. /\ IsFiniteSet(Overpaid(s))
            /\ \A i \in Overpaid(s) : LeftOf[i] \in Int /\ LeftOf[i] <= 0
        BY TablesFinite, RemainingInt, FS_Subset DEF Overpaid, LeftOf
      <4> QED
        BY <4>1, SumSign, SumInt
    <3>4. /\ SumFunctionOnSet(CreditOf, ReturnsOf(s)) >= 0
          /\ SumFunctionOnSet(CreditOf, ReturnsOf(s)) \in Int
      <4>1. /\ IsFiniteSet(ReturnsOf(s))
            /\ \A r \in ReturnsOf(s) : CreditOf[r] \in Int /\ CreditOf[r] >= 0
        BY TablesFinite, FS_Subset DEF ReturnsOf, CreditOf, ReturnsGiven
      <4> QED
        BY <4>1, SumSign, SumInt
    <3>5. opening[s] \in Nat
      BY OpeningNat
    <3>6. /\ Summary(s).balance \in Int /\ Open(s) \in Int /\ Loose(s) \in Int
          /\ Open(s) = SumFunctionOnSet(LeftOf, UnpaidInvoices(s)) + opening[s]
      BY BalanceExplained
    <3>7. SumFunctionOnSet(LeftOf, UnpaidInvoices(s)) \in Int
      BY TablesFinite, FS_Subset, SumInt DEF UnpaidInvoices
    <3>8. Summary(s).balance <= Open(s)
      BY <1>1, <1>2, <3>3, <3>4, <3>6
    <3>9. 0 <= Open(s)
      BY <3>2, <3>5, <3>6, <3>7
    <3>10. owed[s] = Max({0, Summary(s).balance}) /\ open[s] = Open(s)
      OBVIOUS
    <3> QED
      BY <3>1, <3>6, <3>8, <3>9, <3>10
  <2>2. IsFiniteSet(suppliers)
    BY PurchasesAssumption, FS_Subset DEF TypeOK
  <2>3. DOMAIN owed = suppliers /\ DOMAIN open = suppliers
    OBVIOUS
  <2>4. GrandTotalOwed = SumFunction(owed)
    BY DEF GrandTotalOwed
  <2>5. SumFunctionOnSet(owed, suppliers) <= SumFunctionOnSet(open, suppliers)
    <3> HIDE DEF owed, open
    <3> QED
      BY <2>1, <2>2, SumAtMost
  <2> QED
    BY <2>3, <2>4, <2>5 DEF SumFunction
<1> QED
  BY <1>1, <1>2
     DEF SummaryExplained, LeftOf, AmountOf, CreditOf, General, Overpaid, Loose, Open, ReturnsOf

\* What a supplier is owed and what the page shows as open differ by the overpaid
\* invoices, the payments on no invoice and the credits; the total owed is no more than the open
\* amounts unless such payments come to less than nothing (SupplierService).
THEOREM ReportCorrect == Spec => []SummaryExplained
<1>1. BooksInv => SummaryExplained
  BY ReportExplained DEF BooksInv
<1> QED
  BY <1>1, BooksAlways, PTL

=============================================================================
