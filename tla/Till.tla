-------------------------------- MODULE Till --------------------------------
(***************************************************************************)
(* The register: the invoice a cashier puts together on the screen, and    *)
(* the sale that is written from it.  The screen keeps copies: the price   *)
(* of a line from when it was added, the weighed product from when the     *)
(* scale was asked, an adjustment and a customer from whenever they were   *)
(* entered.  The product page writes under it, and sale_service reads the  *)
(* product again when the sale is recorded.                                *)
(*                                                                         *)
(* A call of SaleService is one transaction and one step; a refused call   *)
(* changes nothing.  With no cash session open a cash sale and a refund    *)
(* are refused; the sessions are ShopLedger's.                             *)
(***************************************************************************)
EXTENDS Integers, Sequences, FiniteSets, SequencesExt, FiniteSetsExt

CONSTANTS
    Products,        \* every product there can be
    Weighed,         \* those sold by weight, at a price per 1000 grams
    AtStart,         \* those on file when the run begins
    Prices,          \* sale prices
    PackSizes,       \* pieces in a carton
    Quantities,      \* quantities typed over a line's
    Weights,         \* grams on the scale
    Corrections,     \* what an adjustment takes off or adds
    Customers,       \* customers who can buy on account
    Years,           \* years the clock can show
    FirstShelf,      \* pieces or grams of a product when the run begins
    MaxSteps         \* bound: entries, edits and sales of one run

ASSUME TillAssumption ==
    /\ Weighed \subseteq Products /\ AtStart \subseteq Products
    /\ Prices \subseteq Nat \ {0} /\ PackSizes \subseteq Nat \ {0}
    /\ Quantities \subseteq Nat \ {0} /\ Weights \subseteq Nat \ {0}
    /\ Prices # {} /\ PackSizes # {}
    /\ Corrections \subseteq Nat /\ FirstShelf \in Nat /\ MaxSteps \in Nat
    /\ Years \subseteq Nat /\ Years # {}

VARIABLES
    file,         \* the products on file
    gone,         \* the products removed: their ids are not given again
    price,        \* products.sale_price_cents
    pack,         \* products.pieces_per_package
    shelf,        \* products.quantity
    counted,      \* what the other stock movements of the product add up to
    cart,         \* m_lines
    adjustment,   \* the adjustment field: the number it holds, {} when unreadable
    account,      \* m_creditCustomerId, {} when the sale is for the till
    weighing,     \* m_weightProduct, {} when there is none
    sales,        \* sales and customer_transactions with their lines
    drawer,       \* what these sales put into the drawer
    counter,      \* receipt_sequences
    year,         \* what the clock says
    entered,      \* what the cashier entered since the last recorded sale
    steps         \* how many steps were taken

screen == <<cart, adjustment, account, weighing, entered>>
catalogue == <<file, gone, price, pack>>
goods == <<shelf, counted>>
books == <<sales, drawer, counter>>
vars == <<file, gone, price, pack, shelf, counted, cart, adjustment, account, weighing, sales,
          drawer, counter, year, entered, steps>>

Kinds == {"piece", "package", "weight"}

Line == [product : Products, kind : Kinds, qty : Nat \ {0}, price : Nat, base : Nat]

\* A row that reverses another has no receipt; "pieces" is pieces_consumed.
Sold == [product : Products, kind : Kinds, qty : Int, price : Nat, pieces : Nat,
         override : BOOLEAN]
Sale == [lines : Seq(Sold), total : Int, adjust : Int, account : SUBSET Customers,
         receipt : Seq(Nat), reverses : Nat]

Step == steps < MaxSteps /\ steps' = steps + 1

----------------------------------------------------------------------------
(* What sale_rules.h computes. *)

\* What the shop asks: the page never passes on the price a line has.
UnitPrice(p, kind) == IF kind = "package" THEN price[p] * pack[p] ELSE price[p]

Pieces(p, kind, qty) == IF kind = "package" THEN qty * pack[p] ELSE qty

Cents(l) == IF l.kind = "weight" THEN (l.price * l.qty) \div 1000 ELSE l.price * l.qty
LinesTotal(lines) == SumFunction([i \in DOMAIN lines |-> Cents(lines[i])])

\* Line by line, each against the whole shelf.
InStock(l) == Pieces(l.product, l.kind, l.qty) <= shelf[l.product]

----------------------------------------------------------------------------
(* Putting the invoice together. *)

LinesOf(p, kind) == {i \in DOMAIN cart : cart[i].product = p /\ cart[i].kind = kind}

NewLine(p, kind, qty, base) ==
    [product |-> p, kind |-> kind, qty |-> qty, price |-> UnitPrice(p, kind),
     base |-> base]

\* A line that cannot be priced is not added.
AddToCart(p, kind, qty, base) ==
    cart' = IF LinesOf(p, kind) # {}
            THEN [cart EXCEPT ![Min(LinesOf(p, kind))].qty = @ + qty]
            ELSE IF p \in file THEN Append(cart, NewLine(p, kind, qty, base)) ELSE cart

\* The line a code asks for: a weighed product has no carton, whatever the code.
FindProduct(p, carton) ==
    IF p \in file THEN {IF carton /\ p \notin Weighed THEN "package" ELSE "piece"} ELSE {}

StartWeightEntry(p) == weighing' = {[product |-> p, price |-> price[p]]}

Scan(p, carton) ==
    /\ Step
    /\ \E kind \in FindProduct(p, carton) :
           IF p \in Weighed
           THEN StartWeightEntry(p) /\ UNCHANGED cart
           ELSE AddToCart(p, kind, 1, price[p]) /\ UNCHANGED weighing
    /\ UNCHANGED <<catalogue, goods, books, year, adjustment, account, entered>>

\* A card of the strip adds one of whatever the product is counted in.
QuickClick(p) ==
    /\ Step /\ p \in file
    /\ AddToCart(p, "piece", 1, price[p])
    /\ UNCHANGED <<catalogue, goods, books, year, adjustment, account, weighing, entered>>

SubmitWeight(w, grams) ==
    /\ Step /\ w \in weighing
    /\ AddToCart(w.product, "weight", grams, w.price)
    /\ weighing' = {}
    /\ UNCHANGED <<catalogue, goods, books, year, adjustment, account, entered>>

\* A product some document names keeps its row for ever.
Referenced(p) ==
    \E s \in DOMAIN sales : \E i \in DOMAIN sales[s].lines : sales[s].lines[i].product = p

SaveProduct(p, cents, n) ==
    /\ file' = file \cup {p} /\ UNCHANGED gone
    /\ price' = [price EXCEPT ![p] = cents]
    /\ pack' = [pack EXCEPT ![p] = n]

\* The form that registers a product from the till.  Only an unknown code that was
\* scanned writes the opening count, and asks whether to sell it; the card of the
\* strip forgets the count and does not ask.
NewProduct(p, cents, n, count, scanned, sell) ==
    /\ Step /\ p \notin file \cup gone /\ (sell \/ scanned)
    /\ SaveProduct(p, cents, n)
    /\ shelf' = [shelf EXCEPT ![p] = IF scanned THEN count ELSE 0]
    /\ counted' = [counted EXCEPT ![p] = IF scanned THEN count ELSE 0]
    /\ cart' = IF sell
               THEN Append(cart, [product |-> p, kind |-> "piece", qty |-> 1, price |-> cents,
                                  base |-> cents])
               ELSE cart
    /\ UNCHANGED <<books, year, adjustment, account, weighing, entered>>

RemoveLine(i) ==
    /\ Step /\ i \in DOMAIN cart
    /\ cart' = RemoveAt(cart, i)
    /\ UNCHANGED <<catalogue, goods, books, year, adjustment, account, weighing, entered>>

\* The lines only: the adjustment and the customer stay.
ClearCart ==
    /\ Step /\ cart # <<>>
    /\ cart' = <<>>
    /\ UNCHANGED <<catalogue, goods, books, year, adjustment, account, weighing, entered>>

SetQuantity(i, qty) ==
    /\ Step /\ i \in DOMAIN cart
    /\ cart' = [cart EXCEPT ![i].qty = qty]
    /\ UNCHANGED <<catalogue, goods, books, year, adjustment, account, weighing, entered>>

TypePrice(i, cents) ==
    /\ Step /\ i \in DOMAIN cart
    /\ cart' = [cart EXCEPT ![i].price = cents]
    /\ UNCHANGED <<catalogue, goods, books, year, adjustment, account, weighing, entered>>

\* The drop-down of a line; a change that cannot be priced is undone.
ChangeUnit(i, kind) ==
    /\ Step /\ i \in DOMAIN cart
    /\ kind \in {"piece", "package"} \ {cart[i].kind} /\ cart[i].kind # "weight"
    /\ cart[i].product \in file
    /\ LET p == cart[i].product
           asks == UnitPrice(p, kind)
       IN  cart' = [cart EXCEPT ![i].kind = kind, ![i].price = asks, ![i].base = asks]
    /\ UNCHANGED <<catalogue, goods, books, year, adjustment, account, weighing, entered>>

TypeAdjustment(text) ==
    /\ Step /\ adjustment' = text /\ text # adjustment
    /\ entered' = entered \cup {"adjustment"}
    /\ UNCHANGED <<catalogue, goods, books, year, cart, account, weighing>>

\* The C button of the window, pressed again for another customer.
EnterCreditMode(c) ==
    /\ Step /\ account' = {c}
    /\ entered' = entered \cup {"account"}
    /\ UNCHANGED <<catalogue, goods, books, year, cart, adjustment, weighing>>

\* The cross of the bar that names the customer: back to the till, with the invoice.
ClearCreditMode ==
    /\ Step /\ account # {}
    /\ account' = {}
    /\ entered' = entered \ {"account"}
    /\ UNCHANGED <<catalogue, goods, books, year, cart, adjustment, weighing>>

----------------------------------------------------------------------------
(* Recording it. *)

\* What the big figure of the page says: text that is no number counts as none.
ScreenTotal == LinesTotal(cart) + (IF adjustment = {} THEN 0 ELSE Max(adjustment))

\* Bug: the number follows the last receipt of any year.
FollowsLastReceipt(y) == Max({counter[z] : z \in Years}) + 1

NextReceipt(y) == counter[y] + 1

\* The page calls it an override when the price is not the line's base price.
Overridden(l) == l.price # l.base

\* A line still without a price takes the product's when the sale is recorded.
Resolved(l) ==
    [l EXCEPT !.price = IF l.price > 0 THEN l.price ELSE UnitPrice(l.product, l.kind)]

SoldLine(l) ==
    [product |-> l.product, kind |-> l.kind, qty |-> l.qty, price |-> Resolved(l).price,
     pieces |-> Pieces(l.product, l.kind, l.qty), override |-> Overridden(l)]

\* Bug: the lines are priced again from the product.
PricedAgain(lines, adjust) ==
    LinesTotal([i \in DOMAIN lines |->
        [lines[i] EXCEPT !.price = UnitPrice(lines[i].product, lines[i].kind)]]) + adjust

SaleTotal(lines, adjust) == LinesTotal([i \in DOMAIN lines |-> Resolved(lines[i])]) + adjust

PiecesOf(p, lines) ==
    SumFunction([i \in DOMAIN lines |-> IF lines[i].product = p THEN lines[i].pieces ELSE 0])

\* Bug: the account is written on the next invoice too.
KeepAccount == adjustment' = {0} /\ UNCHANGED account

\* The field is cleared, and the sale mode goes back to the till.
CleanScreen == adjustment' = {0} /\ account' = {}

\* To the till, or to the ledger of the customer named above the scan field.
CompleteSale ==
    /\ Step /\ cart # <<>> /\ adjustment # {}
    /\ \A i \in DOMAIN cart : cart[i].product \in file /\ InStock(cart[i])
    /\ LET lines == [i \in DOMAIN cart |-> SoldLine(cart[i])]
           total == SaleTotal(cart, Max(adjustment))
           number == NextReceipt(year)
       IN  /\ account = {} => total > 0
           /\ sales' = Append(sales, [lines |-> lines, total |-> total,
                                      adjust |-> Max(adjustment), account |-> account,
                                      receipt |-> <<year, number>>, reverses |-> 0])
           /\ counter' = [counter EXCEPT ![year] = number]
           /\ shelf' = [p \in Products |-> shelf[p] - PiecesOf(p, lines)]
           /\ drawer' = IF account = {} THEN drawer + total ELSE drawer
    /\ cart' = <<>> /\ CleanScreen /\ entered' = {}
    /\ UNCHANGED <<catalogue, counted, weighing, year>>

\* Bug: the pieces change sign with the quantity.
NegativePieces(s) ==
    [s EXCEPT !.lines = [i \in DOMAIN s.lines |->
                            [s.lines[i] EXCEPT !.qty = -@, !.pieces = -@, !.override = FALSE]],
              !.total = -@, !.adjust = -@, !.receipt = <<>>]

\* Bug: the goods that come back are counted with the carton of today.
RepackedMirror(s) ==
    [s EXCEPT !.lines = [i \in DOMAIN s.lines |->
        [s.lines[i] EXCEPT !.qty = -@, !.override = FALSE,
                           !.pieces = Pieces(s.lines[i].product, s.lines[i].kind, s.lines[i].qty)]],
     !.total = -@, !.adjust = -@, !.receipt = <<>>]

\* The row that cancels a sale: money and quantity change sign, pieces do not.
Mirror(s) ==
    [s EXCEPT !.lines = [i \in DOMAIN s.lines |-> [s.lines[i] EXCEPT !.qty = -@, !.override = FALSE]],
              !.total = -@, !.adjust = -@, !.receipt = <<>>]

\* The refund of a cash sale and the cancelling of one on account.  Neither row
\* may be a mirror: the drawer and the ledger both ask for a positive amount.  The
\* page of refunds lists the sales of the day only.
ReverseSale(k) ==
    /\ Step /\ k \in DOMAIN sales
    /\ \A s \in DOMAIN sales : sales[s].reverses # k
    /\ sales[k].total > 0
    /\ sales[k].account = {} => sales[k].receipt[1] = year
    /\ LET mirror == [Mirror(sales[k]) EXCEPT !.reverses = k]
       IN  /\ sales' = Append(sales, mirror)
           /\ shelf' = [p \in Products |-> shelf[p] + PiecesOf(p, mirror.lines)]
           /\ drawer' = IF sales[k].account = {} THEN drawer + mirror.total ELSE drawer
    /\ UNCHANGED <<catalogue, screen, counted, counter, year>>

----------------------------------------------------------------------------
(* What happens on the other pages, with the invoice still on the screen. *)

EditProduct(p, cents, n) ==
    /\ Step /\ p \in file
    /\ SaveProduct(p, cents, n)
    /\ <<price', pack'>> # <<price, pack>>
    /\ UNCHANGED <<goods, books, year, screen>>

\* The cells of the product page: a price of nothing is accepted there, and a count
\* is written as a movement from what the shelf holds at that moment.
EditPriceCell(p, cents) ==
    /\ Step /\ p \in file /\ cents # price[p]
    /\ SaveProduct(p, cents, pack[p])
    /\ UNCHANGED <<goods, books, year, screen>>

EditQuantityCell(p, n) ==
    /\ Step /\ p \in file /\ n # shelf[p]
    /\ shelf' = [shelf EXCEPT ![p] = n]
    /\ counted' = [counted EXCEPT ![p] = @ + n - shelf[p]]
    /\ UNCHANGED <<catalogue, books, year, screen>>

\* Only a product no document names; any other is deactivated, and a code still
\* finds it.
RemoveProduct(p) ==
    /\ Step /\ p \in file /\ ~Referenced(p)
    /\ file' = file \ {p} /\ gone' = gone \cup {p}
    /\ shelf' = [shelf EXCEPT ![p] = 0]
    /\ counted' = [counted EXCEPT ![p] = 0]
    /\ UNCHANGED <<price, pack, books, year, screen>>

TurnYear(y) ==
    /\ Step /\ y # year
    /\ year' = y
    /\ UNCHANGED <<catalogue, goods, books, screen>>

----------------------------------------------------------------------------
Init ==
    /\ file = AtStart /\ gone = {}
    /\ price = [p \in Products |-> Min(Prices)]
    /\ pack = [p \in Products |-> Min(PackSizes)]
    /\ shelf = [p \in Products |-> IF p \in AtStart THEN FirstShelf ELSE 0]
    /\ counted = shelf
    /\ cart = <<>> /\ adjustment = {0} /\ account = {} /\ weighing = {} /\ entered = {}
    /\ sales = <<>> /\ drawer = 0 /\ counter = [y \in Years |-> 0]
    /\ year = Min(Years) /\ steps = 0

Next ==
    \/ \E p \in Products, carton \in BOOLEAN : Scan(p, carton)
    \/ \E p \in Products : QuickClick(p) \/ RemoveProduct(p)
    \/ \E w \in weighing, grams \in Weights : SubmitWeight(w, grams)
    \/ \E p \in Products, scanned, sell \in BOOLEAN :
           NewProduct(p, Min(Prices), Min(PackSizes), FirstShelf, scanned, sell)
    \/ \E i \in DOMAIN cart : RemoveLine(i)
    \/ ClearCart
    \/ \E i \in DOMAIN cart, qty \in Quantities : SetQuantity(i, qty)
    \/ \E i \in DOMAIN cart, cents \in Prices : TypePrice(i, cents)
    \/ \E i \in DOMAIN cart, kind \in Kinds : ChangeUnit(i, kind)
    \/ \E text \in {{}} \cup {{a} : a \in Corrections \cup {0}} \cup {{-a} : a \in Corrections} : TypeAdjustment(text)
    \/ \E c \in Customers : EnterCreditMode(c)
    \/ ClearCreditMode
    \/ CompleteSale
    \/ \E k \in DOMAIN sales : ReverseSale(k)
    \/ \E p \in Products, cents \in Prices, n \in PackSizes : EditProduct(p, cents, n)
    \/ \E p \in Products : EditPriceCell(p, 0) \/ EditQuantityCell(p, FirstShelf)
    \/ \E y \in Years : TurnYear(y)

Spec == Init /\ [][Next]_vars

----------------------------------------------------------------------------
(* Properties. *)

AtMostOne(S) == IsFiniteSet(S) /\ Cardinality(S) <= 1

TypeOK ==
    /\ file \subseteq Products /\ gone \subseteq Products
    /\ price \in [Products -> Prices \cup {0}] /\ pack \in [Products -> PackSizes]
    /\ shelf \in [Products -> Int] /\ counted \in [Products -> Int]
    /\ cart \in Seq(Line)
    /\ adjustment \subseteq Int /\ AtMostOne(adjustment)
    /\ account \subseteq Customers /\ AtMostOne(account)
    /\ weighing \subseteq [product : Weighed, price : Nat] /\ AtMostOne(weighing)
    /\ sales \in Seq(Sale) /\ drawer \in Int /\ counter \in [Years -> Nat]
    /\ year \in Years /\ entered \subseteq {"adjustment", "account"} /\ steps \in 0 .. MaxSteps

Cancelled(k) == \E s \in DOMAIN sales : sales[s].reverses = k
Standing == {k \in DOMAIN sales : sales[k].reverses = 0 /\ ~Cancelled(k)}

\* The shelf holds what was counted in, less the pieces of the sales that stand,
\* however the carton was redefined between a sale and its refund.
ShelfFollowsSales ==
    \A p \in file :
        LET taken == [k \in DOMAIN sales |-> PiecesOf(p, sales[k].lines)]
        IN  shelf[p] = counted[p] - SumFunctionOnSet(taken, Standing)

\* The receipts of a year are numbered from one without a gap and without a number
\* given twice, whatever the clock did, sales on account and cash sales together.
ReceiptsRunOn ==
    \A y \in Years :
        LET Issued == {s \in DOMAIN sales : sales[s].reverses = 0 /\ sales[s].receipt[1] = y}
        IN  /\ {sales[s].receipt[2] : s \in Issued} = 1 .. Cardinality(Issued)
            /\ counter[y] = Cardinality(Issued)

\* The sale that is written is the one on the screen: what the cashier read out is
\* the total of the row, whatever was edited on other pages since, unless a line
\* was put on it while its product had no price.
PricedScreenIsRecorded ==
    [][Len(sales') > Len(sales) /\ Last(sales').reverses = 0
           /\ (\A i \in DOMAIN cart : cart[i].price > 0)
       => Last(sales').total = ScreenTotal]_vars

\* An adjustment or a customer entered for one invoice is not applied to another:
\* what a sale carries was entered after the sale before it.
NothingCarriedOver ==
    [][Len(sales') > Len(sales) /\ Last(sales').reverses = 0 =>
           /\ Last(sales').adjust # 0 => "adjustment" \in entered
           /\ Last(sales').account # {} => "account" \in entered]_vars
=============================================================================
