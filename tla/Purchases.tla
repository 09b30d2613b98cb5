----------------------------- MODULE Purchases -----------------------------
(***************************************************************************)
(* What the shop buys: supplier invoices, what is paid on them, the goods  *)
(* that come in and go back, the voids and the reversals, and what each of *)
(* them moves in the drawer, on the shelf and in the average cost.         *)
(*                                                                         *)
(* Every service call is one SQLite transaction, so it is one step, and a  *)
(* refused or rolled-back call is a stuttering step.  Rows are appended    *)
(* and never edited; a correction is a negative row that names the row it  *)
(* cancels.  The forms are modal and no device writes in these tables, so  *)
(* what a form reads when it opens is still true when it is saved.         *)
(*                                                                         *)
(* There is one product, and an invoice has one line of it.                *)
(***************************************************************************)
EXTENDS Integers, FiniteSets, Sequences, FiniteSetsExt

CONSTANTS
    Suppliers,    \* suppliers on file when the run begins
    MaxRows,      \* bound: invoices, payments, returns and pieces sold, together
    Quantities,   \* quantities a line can have
    UnitPrices,   \* unit prices a line can have
    Vats,         \* VAT of an invoice
    Openings,     \* opening balances an administrator types
    ShelfStock,   \* pieces on the shelf when the run begins
    FirstCost     \* their average cost

ASSUME PurchasesAssumption ==
    /\ MaxRows \in Nat
    /\ Quantities \subseteq Nat \ {0}
    /\ UnitPrices \subseteq Nat \ {0}
    /\ Vats \subseteq Nat
    /\ Openings \subseteq Nat /\ 0 \in Openings
    /\ ShelfStock \in Int
    /\ FirstCost \in Int
    /\ IsFiniteSet(Suppliers)

VARIABLES
    suppliers,   \* the suppliers on file
    opening,     \* suppliers.opening_balance_cents
    invoices,    \* purchases with their line
    payments,    \* supplier_payments
    returns,     \* supplier_returns with their line
    stock,       \* stock_movements
    shelf,       \* products.quantity, which the trigger keeps
    cost,        \* products.cost_price_cents
    drawer       \* the cash movements these services write

booksVars == <<suppliers, opening, invoices, payments, returns>>
goodsVars == <<stock, shelf, cost>>
vars == <<suppliers, opening, invoices, payments, returns, stock, shelf, cost, drawer>>

\* Credit and Bank behave alike: neither reaches the drawer.
Methods == {"cash", "account"}

\* "voids" and "reverses" are the reversed_id columns; 0 on an ordinary row.
Invoice == [who : Suppliers, qty : Int, price : Int, total : Int, paid : Nat,
            stocked : BOOLEAN, voids : Nat]
Payment == [who : Suppliers, invoice : Nat, amount : Int, method : Methods,
            reverses : Nat, initial : BOOLEAN]
Return == [who : Suppliers, invoice : Nat, qty : Nat, amount : Int]
Movement == [delta : Int, reason : {"purchase", "void", "return", "sale"}, invoice : Nat]
CashMove == [amount : Int, ref : {"purchase", "supplier_payment"}, id : Nat]

----------------------------------------------------------------------------
(* What the services and the pages read. *)

PaymentsOf(i) == {p \in DOMAIN payments : payments[p].invoice = i}
Settled(i) ==
    SumFunctionOnSet([p \in DOMAIN payments |-> payments[p].amount], PaymentsOf(i))
Remaining(i) == invoices[i].total - Settled(i)

\* Every row counts, the negative ones included.
Entries(s) ==
    LET billed == [i \in DOMAIN invoices |-> IF invoices[i].who = s THEN invoices[i].total ELSE 0]
        paid == [p \in DOMAIN payments |-> IF payments[p].who = s THEN payments[p].amount ELSE 0]
        credited == [r \in DOMAIN returns |-> IF returns[r].who = s THEN returns[r].amount ELSE 0]
    IN  SumFunction(billed) - SumFunction(paid) - SumFunction(credited)
Balance(s) == opening[s] + Entries(s)

\* Bug: the open invoices of every supplier.
UnpaidOfAll(s) == {i \in DOMAIN invoices : Remaining(i) > 0}

\* A voided invoice is among them: the void is a row of its own.
UnpaidInvoices(s) == {i \in DOMAIN invoices : invoices[i].who = s /\ Remaining(i) > 0}

\* One row of the suppliers' report.
Summary(s) ==
    [balance |-> Balance(s),
     purchases |-> Cardinality({i \in DOMAIN invoices : invoices[i].who = s}),
     unpaid |-> Cardinality(UnpaidInvoices(s)),
     unpaidTotal |-> SumFunctionOnSet([i \in DOMAIN invoices |-> Remaining(i)],
                                      UnpaidInvoices(s))]

\* What the shop owes in all; what a supplier owes the shop is not set against it.
GrandTotalOwed ==
    SumFunction([s \in suppliers |-> Max({0, Summary(s).balance})])

\* The last movement the purchase itself made, or 0.
OwnMovement(i) ==
    LET Own == {n \in DOMAIN stock : stock[n].reason = "purchase" /\ stock[n].invoice = i}
    IN  IF Own = {} THEN 0 ELSE Max(Own)

----------------------------------------------------------------------------
(* Recording an invoice. *)

\* A bound of the model alone: the rows a step may still write.
Room(n) ==
    Len(invoices) + Len(payments) + Len(returns)
        + Cardinality({k \in DOMAIN stock : stock[k].reason = "sale"}) + n <= MaxRows

LineTotal(qty, price) == qty * price

NewInvoice(s, qty, price, vat, paid, stocked) ==
    [who |-> s, qty |-> qty, price |-> price, total |-> LineTotal(qty, price) + vat,
     paid |-> paid, stocked |-> stocked, voids |-> 0]

\* Division as C++ does it: towards zero.
Quotient(a, b) == IF a >= 0 THEN a \div b ELSE -((-a) \div b)

\* Bug: the level after the movement is weighed with the old cost.
AverageAfterMovement(qty, price) ==
    IF shelf + qty <= 0 THEN cost
    ELSE Quotient((shelf + qty) * cost + qty * price, shelf + qty)

AverageCost(qty, price) ==
    IF shelf + qty <= 0 THEN cost ELSE Quotient(shelf * cost + qty * price, shelf + qty)

MoveGoods(delta, reason, i) ==
    /\ stock' = Append(stock, [delta |-> delta, reason |-> reason, invoice |-> i])
    /\ shelf' = shelf + delta

\* Bug: an initial payment is thought to be settled on the account.
NoCash(method, amount, ref, id) ==
    IF method = "cash" /\ ref = "supplier_payment"
    THEN drawer' = Append(drawer, [amount |-> amount, ref |-> ref, id |-> id])
    ELSE UNCHANGED drawer

\* The drawer side of a payment row: only cash reaches it.  With no session open
\* the call is refused, a stuttering step; the sessions are ShopLedger's.
MoveCash(method, amount, ref, id) ==
    IF method = "cash"
    THEN drawer' = Append(drawer, [amount |-> amount, ref |-> ref, id |-> id])
    ELSE UNCHANGED drawer

PayInitially(i, s, paid, method) ==
    IF paid > 0
    THEN /\ Room(2)
         /\ payments' = Append(payments, [who |-> s, invoice |-> i, amount |-> paid,
                                          method |-> method, reverses |-> 0, initial |-> TRUE])
         /\ MoveCash(method, -paid, "purchase", i)
    ELSE UNCHANGED <<payments, drawer>>

StockIn(i, qty, price, stocked) ==
    IF stocked
    THEN MoveGoods(qty, "purchase", i) /\ cost' = AverageCost(qty, price)
    ELSE UNCHANGED goodsVars

\* Bug: more can be paid than the invoice is worth.
PaidUpTo(s, qty, price, vat, paid) == s \in suppliers /\ paid <= LineTotal(qty, price) + vat + 1

\* What the form and the service ask of an invoice.
Acceptable(s, qty, price, vat, paid) == s \in suppliers /\ paid <= LineTotal(qty, price) + vat

RecordPurchase(s, qty, price, vat, paid, method, stocked) ==
    /\ Acceptable(s, qty, price, vat, paid)
    /\ Room(1)
    /\ invoices' = Append(invoices, NewInvoice(s, qty, price, vat, paid, stocked))
    /\ StockIn(Len(invoices) + 1, qty, price, stocked)
    /\ PayInitially(Len(invoices) + 1, s, paid, method)
    /\ UNCHANGED <<suppliers, opening, returns>>

----------------------------------------------------------------------------
(* Voiding an invoice. *)

\* What the void reads of the row findById answers: its query selects neither
\* reversed_id nor the method, so every invoice reads as an ordinary one paid in cash.
Found(i) == [paid |-> invoices[i].paid, voids |-> 0, method |-> "cash"]

\* Bug: only the level is looked at, not what has moved since.
EnoughOnShelf(i) == invoices[i].stocked /\ OwnMovement(i) # 0 => shelf >= invoices[i].qty

\* Nothing has moved since the purchase's own movement, and the level allows it.
GoodsUntouched(i) ==
    invoices[i].stocked /\ OwnMovement(i) # 0
        => OwnMovement(i) = Len(stock) /\ shelf >= invoices[i].qty

InitialPayments(i) == {p \in PaymentsOf(i) : payments[p].initial /\ payments[p].reverses = 0}

\* A payment made later stops the void, reversed or not; a reversal does not.
NoLaterPayment(i) == \A p \in PaymentsOf(i) : payments[p].reverses # 0 \/ payments[p].initial

\* Bug: the amount paid is turned round with the rest.
NegatePaid(i) == [invoices[i] EXCEPT !.qty = -@, !.total = -@, !.paid = -@, !.voids = i]

VoidRow(i) == [invoices[i] EXCEPT !.qty = -@, !.total = -@, !.paid = 0, !.voids = i]

\* The first initial payment is mirrored with the method the header reads as.
ReturnInitialPayment(i) ==
    IF Found(i).paid > 0 /\ Found(i).method = "cash"
    THEN /\ InitialPayments(i) # {}
         /\ Room(2)
         /\ payments' = Append(payments, [who |-> invoices[i].who, invoice |-> i,
                                          amount |-> -invoices[i].paid, method |-> Found(i).method,
                                          reverses |-> Min(InitialPayments(i)), initial |-> FALSE])
         /\ MoveCash(Found(i).method, invoices[i].paid, "purchase", i)
    ELSE UNCHANGED <<payments, drawer>>

GoodsBack(i) ==
    IF invoices[i].stocked THEN MoveGoods(-invoices[i].qty, "void", i) ELSE UNCHANGED <<stock, shelf>>

VoidPurchase(i) ==
    /\ Found(i).voids = 0
    /\ GoodsUntouched(i)
    /\ NoLaterPayment(i)
    /\ Room(1)
    /\ invoices' = Append(invoices, VoidRow(i))
    /\ GoodsBack(i)
    /\ ReturnInitialPayment(i)
    /\ UNCHANGED <<suppliers, opening, returns, cost>>

----------------------------------------------------------------------------
(* Paying a supplier, and taking a payment back. *)

\* Bug: what was already paid is not taken off.
WholeInvoice(s, i, amount) ==
    /\ s \in suppliers
    /\ amount > 0 /\ amount <= Balance(s)
    /\ i # 0 => invoices[i].who = s /\ amount <= invoices[i].total

\* The form holds the amount against the balance and lists the open invoices; the
\* service holds it against what is left of the invoice.
Payable(s, i, amount) ==
    /\ s \in suppliers
    /\ amount > 0 /\ amount <= Balance(s)
    /\ i # 0 => i \in UnpaidInvoices(s) /\ amount <= Remaining(i)

RecordPayment(s, i, amount, method) ==
    /\ Payable(s, i, amount)
    /\ Room(1)
    /\ payments' = Append(payments, [who |-> s, invoice |-> i, amount |-> amount,
                                     method |-> method, reverses |-> 0, initial |-> FALSE])
    /\ MoveCash(method, -amount, "supplier_payment", Len(payments) + 1)
    /\ UNCHANGED <<suppliers, opening, invoices, returns, stock, shelf, cost>>

\* The guard asks whether the row is itself a reversal, never whether it has one.
Reversible(p) == p \in DOMAIN payments /\ payments[p].reverses = 0

ReversePayment(p) ==
    /\ Reversible(p)
    /\ Room(1)
    /\ payments' = Append(payments, [who |-> payments[p].who, invoice |-> payments[p].invoice,
                                     amount |-> -payments[p].amount, method |-> payments[p].method,
                                     reverses |-> p, initial |-> FALSE])
    /\ MoveCash(payments[p].method, payments[p].amount, "supplier_payment", p)
    /\ UNCHANGED <<suppliers, opening, invoices, returns, stock, shelf, cost>>

----------------------------------------------------------------------------
(* Sending goods back. *)

\* The form lists the supplier's own invoices, and its grid offers up to the
\* quantity the invoice says was bought, whatever went back before.
Returnable(s, i, qty) == s \in suppliers /\ invoices[i].who = s /\ qty <= invoices[i].qty

LinkedReturn(s, i, qty) ==
    /\ Returnable(s, i, qty) /\ qty > 0
    /\ Room(1)
    /\ returns' = Append(returns, [who |-> s, invoice |-> i, qty |-> qty,
                                   amount |-> LineTotal(qty, invoices[i].price)])
    /\ MoveGoods(-qty, "return", i)
    /\ UNCHANGED <<suppliers, opening, invoices, payments, cost, drawer>>

GeneralReturn(s, amount) ==
    /\ s \in suppliers
    /\ amount > 0
    /\ Room(1)
    /\ returns' = Append(returns, [who |-> s, invoice |-> 0, qty |-> 0, amount |-> amount])
    /\ UNCHANGED <<suppliers, opening, invoices, payments, stock, shelf, cost, drawer>>

----------------------------------------------------------------------------
(* The supplier's card, and a sale of the goods. *)

Untouched(s) ==
    /\ \A i \in DOMAIN invoices : invoices[i].who # s
    /\ \A p \in DOMAIN payments : payments[p].who # s
    /\ \A r \in DOMAIN returns : returns[r].who # s

\* An administrator types a new opening balance on the supplier's card.
SaveCard(s, amount) ==
    /\ s \in suppliers
    /\ opening' = [opening EXCEPT ![s] = amount]
    /\ UNCHANGED <<suppliers, invoices, payments, returns, goodsVars, drawer>>

DeleteSupplier(s) ==
    /\ s \in suppliers /\ Untouched(s)
    /\ suppliers' = suppliers \ {s}
    /\ UNCHANGED <<opening, invoices, payments, returns, goodsVars, drawer>>

SellPiece ==
    /\ shelf > 0
    /\ Room(1)
    /\ MoveGoods(-1, "sale", 0)
    /\ UNCHANGED <<booksVars, cost, drawer>>

----------------------------------------------------------------------------
Init ==
    /\ suppliers = Suppliers
    /\ opening = [s \in Suppliers |-> 0]
    /\ invoices = << >> /\ payments = << >> /\ returns = << >>
    /\ stock = << >> /\ shelf = ShelfStock /\ cost = FirstCost
    /\ drawer = << >>

\* What is typed as the first payment: nothing, the whole, or too much.
InitialPaid(total) == {0, total, total + 1}

\* Amounts that pay: one unit, or all that is left.
Amounts == {1} \cup {Remaining(i) : i \in DOMAIN invoices}

Next ==
    \/ \E s \in Suppliers, qty \in Quantities, price \in UnitPrices, vat \in Vats,
          method \in Methods, stocked \in BOOLEAN :
          \E paid \in InitialPaid(LineTotal(qty, price) + vat) :
              RecordPurchase(s, qty, price, vat, paid, method, stocked)
    \/ \E i \in DOMAIN invoices : VoidPurchase(i)
    \/ \E s \in Suppliers, i \in DOMAIN invoices \cup {0}, method \in Methods :
          \E amount \in Amounts : RecordPayment(s, i, amount, method)
    \/ \E p \in DOMAIN payments : ReversePayment(p)
    \/ \E s \in Suppliers, i \in DOMAIN invoices, qty \in Quantities : LinkedReturn(s, i, qty)
    \/ \E s \in Suppliers : GeneralReturn(s, 1)
    \/ \E s \in Suppliers, amount \in Openings : SaveCard(s, amount)
    \/ \E s \in Suppliers : DeleteSupplier(s)
    \/ SellPiece

Spec == Init /\ [][Next]_vars

----------------------------------------------------------------------------
(* What must hold. *)

\* Every variable keeps its type.
TypeOK ==
    /\ suppliers \subseteq Suppliers
    /\ opening \in [Suppliers -> Openings]
    /\ invoices \in Seq(Invoice)
    /\ payments \in Seq(Payment)
    /\ returns \in Seq(Return)
    /\ stock \in Seq(Movement)
    /\ shelf \in Int /\ cost \in Int
    /\ drawer \in Seq(CashMove)

\* What the three services took from the drawer and put back is what the payment
\* rows marked cash say.
DrawerFollowsPayments ==
    LET cash == [p \in DOMAIN payments |->
                    IF payments[p].method = "cash" THEN payments[p].amount ELSE 0]
        moved == [d \in DOMAIN drawer |-> drawer[d].amount]
    IN  SumFunction(moved) = -SumFunction(cash)

\* What the report says is left on a supplier's invoices explains their balance: the
\* rest of it is the opening balance, the voids and overpaid invoices, the payments
\* that name no invoice and the returns.  No payment of one supplier is hidden on an
\* invoice of another, and what is owed in all is no more than is left unpaid and
\* carried in, unless a payment that names no invoice was reversed beyond itself.
SummaryExplained ==
    LET left == [i \in DOMAIN invoices |-> Remaining(i)]
        amount == [p \in DOMAIN payments |-> payments[p].amount]
        credit == [r \in DOMAIN returns |-> returns[r].amount]
        General(s) == {p \in PaymentsOf(0) : payments[p].who = s}
        Overpaid(s) == {i \in DOMAIN invoices : invoices[i].who = s /\ Remaining(i) < 0}
        Loose(s) == SumFunctionOnSet(amount, General(s))
        Open(s) == Summary(s).unpaidTotal + opening[s]
    IN  /\ \A s \in suppliers :
              Summary(s).balance =
                  Open(s) + SumFunctionOnSet(left, Overpaid(s)) - Loose(s)
                  - SumFunctionOnSet(credit, {r \in DOMAIN returns : returns[r].who = s})
        /\ (\A s \in suppliers : Loose(s) >= 0) =>
              GrandTotalOwed <= SumFunction([s \in suppliers |-> Open(s)])

\* No invoice is paid beyond its total, by its first payment, the later ones and
\* the reversals together.
InvoiceNotOverpaid == \A i \in DOMAIN invoices : invoices[i].total > 0 => Remaining(i) >= 0

\* The void has no guard of its own that stops a second one, yet goods that came
\* in on an invoice are taken off the shelf once: the first void's own movement
\* stands in the way of the next.
GoodsVoidedOnce ==
    \A n, k \in DOMAIN stock :
        /\ stock[n].reason = "void" /\ stock[k].reason = "void"
        /\ stock[n].invoice = stock[k].invoice
        /\ invoices[stock[n].invoice].voids = 0
        => n = k

\* As long as the shelf is not below zero, goods that come in move the average
\* cost no further than their own price.
CostMoves ==
    shelf >= 0 /\ cost' # cost =>
        LET price == invoices'[Len(invoices')].price
        IN  cost' \in Min({cost, price}) .. Max({cost, price})
CostStaysBetween == [][CostMoves]_vars

----------------------------------------------------------------------------
(* What the repository says and the code does not do. *)

\* "A second reversal is prevented by the service guard above and by the partial
\* unique index on reversed_id (migration 3)" (supplier_payment_service.cpp:206).
PaymentReversedOnce ==
    \A p, q \in DOMAIN payments :
        payments[p].reverses # 0 /\ payments[p].reverses = payments[q].reverses => p = q
=============================================================================
