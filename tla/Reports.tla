------------------------------ MODULE Reports -------------------------------
(***************************************************************************)
(* The reports over what the register wrote: ReportService::build, which   *)
(* the report page and the zakat dialog show, and DailyReportService,      *)
(* which no page shows yet.  They read the rows back and add them up; the  *)
(* window of time is the whole run here, and a customer pays nothing.      *)
(***************************************************************************)
EXTENDS Till

CONSTANT
    Cost             \* what a line freezes as unit_cost_cents: per piece, or per 1000 grams

ASSUME ReportsAssumption == Cost \in [Products -> Nat]

\* Bug: the units of a line, whatever they hold, as DailyReportService adds them up.
CostOfUnits(l) ==
    LET cost == (Cost[l.product] * (IF l.qty < 0 THEN -l.qty ELSE l.qty))
                    \div (IF l.kind = "weight" THEN 1000 ELSE 1)
    IN  IF l.qty < 0 THEN -cost ELSE cost

\* What the goods of a line cost: so much a piece, in the direction of its quantity.
CostOfLine(l) ==
    LET cost == (Cost[l.product] * l.pieces) \div (IF l.kind = "weight" THEN 1000 ELSE 1)
    IN  IF l.qty < 0 THEN -cost ELSE cost

CostOfRow(s) ==
    SumFunction([i \in DOMAIN s.lines |-> CostOfLine(s.lines[i])])

\* The same of a row of a customer's account.
CostOnAccount(s) == CostOfRow(s)

SaleRows == {k \in DOMAIN sales : sales[k].account = {}}
AccountRows == DOMAIN sales \ SaleRows

Revenue ==
    LET total == [k \in DOMAIN sales |-> sales[k].total]
    IN  SumFunctionOnSet(total, SaleRows) + SumFunctionOnSet(total, AccountRows)

Cogs ==
    SumFunction([k \in SaleRows |-> CostOfRow(sales[k])])
        + SumFunction([k \in AccountRows |-> CostOnAccount(sales[k])])

\* A row that undoes a sale takes one off the count.  One to the till is known by
\* what it reverses, one on account by an amount that is not positive.
SalesCount ==
    LET toTheTill == [k \in SaleRows |-> IF sales[k].reverses = 0 THEN 1 ELSE -1]
        onAccount == [k \in AccountRows |-> IF sales[k].total > 0 THEN 1 ELSE -1]
    IN  Max({0, SumFunction(toTheTill) + SumFunction(onAccount)})

\* What customers owe: balances above nothing, one customer at a time.
OutstandingDebt ==
    LET total == [k \in DOMAIN sales |-> sales[k].total]
        Balance(c) == SumFunctionOnSet(total, {k \in AccountRows : sales[k].account = {c}})
    IN  SumFunction([c \in Customers |-> Max({0, Balance(c)})])

GrossProfit == Revenue - Cogs

----------------------------------------------------------------------------
(* DailyReportService::forDay, but for the figures it takes from the drawer and  *)
(* from the tables of expenses and drawings.                                     *)

\* Division as SQL does it: towards zero.
Quotient(a, b) == IF a >= 0 THEN a \div b ELSE -((-a) \div b)

ToTheTill == UNION {{k} \X DOMAIN sales[k].lines : k \in SaleRows}
At(r) == sales[r[1]].lines[r[2]]

DailyTakings == SumFunction([k \in SaleRows |-> sales[k].total])

\* The frozen cost times the units of the line: of a carton, one piece of it.
DailyCogs ==
    SumFunction([r \in ToTheTill |->
        LET whole == Cost[At(r).product] * At(r).qty
        IN  IF At(r).kind = "weight" THEN Quotient(whole, 1000) ELSE whole])

LinesSold(p) == {r \in ToTheTill : At(r).product = p}
UnitsSold(p) == SumFunction([r \in LinesSold(p) |-> At(r).qty])
RevenueOf(p) ==
    SumFunction([r \in LinesSold(p) |->
        LET whole == At(r).price * At(r).qty
        IN  IF At(r).kind = "weight" THEN Quotient(whole, 1000) ELSE whole])

\* Those with a row whom fewer than five outsell.  A product whose sales were all
\* refunded is among them, with nothing sold.
BestSellers ==
    LET Listed == {p \in file : LinesSold(p) # {}}
    IN  {p \in Listed : Cardinality({q \in Listed : UnitsSold(q) > UnitsSold(p)}) < 5}

\* Bug: a cancellation is taken for a payment and left out.
PositiveDebts == {[who |-> sales[k].account, amount |-> sales[k].total, row |-> k] :
                     k \in {a \in AccountRows : sales[a].total > 0}}

\* Every row of the ledger, cancellations included.
NewDebts == {[who |-> sales[k].account, amount |-> sales[k].total, row |-> k] : k \in AccountRows}

----------------------------------------------------------------------------
(* Properties. *)

Taken(k) == LinesTotal(sales[k].lines) + sales[k].adjust

\* The report of a period: revenue, profit, debt and count are those of the sales
\* that stand, on account and to the till, adjustments included, with the cost of
\* the pieces that really went out, however the carton was redefined between a sale
\* and its refund.  The count is right only while every sale on account came to
\* something: one of nothing counts as a cancellation.
PeriodNetsOut ==
    LET taken == [k \in DOMAIN sales |-> Taken(k)]
        Piecewise(l) == IF l.kind = "weight" THEN (Cost[l.product] * l.qty) \div 1000
                        ELSE Cost[l.product] * l.pieces
        costs == [k \in DOMAIN sales |->
                     SumFunction([i \in DOMAIN sales[k].lines |-> Piecewise(sales[k].lines[i])])]
        Owes(c) == Max({0, SumFunctionOnSet(taken, {k \in Standing : sales[k].account = {c}})})
    IN  /\ Revenue = SumFunctionOnSet(taken, Standing)
        /\ GrossProfit = Revenue - SumFunctionOnSet(costs, Standing)
        /\ OutstandingDebt = SumFunction([c \in Customers |-> Owes(c)])
        /\ (\A k \in Standing \cap AccountRows : sales[k].total > 0) =>
               SalesCount = Cardinality(Standing)

\* The report of the day: its takings are what these sales put into the drawer, a
\* product's units and revenue those of its standing lines, a customer's new debts
\* add up to what stands on account, and as long as no carton was sold the cost is
\* the one the other report gives.
DayNetsOut ==
    LET Stands == {r \in ToTheTill : r[1] \in Standing}
    IN  /\ DailyTakings = drawer
        /\ \A p \in BestSellers :
              LET mine == {r \in Stands : At(r).product = p}
              IN  /\ UnitsSold(p) = SumFunction([r \in mine |-> At(r).qty])
                  /\ RevenueOf(p) = SumFunction([r \in mine |-> Cents(At(r))])
        /\ \A c \in Customers :
              SumFunction([d \in {n \in NewDebts : n.who = {c}} |-> d.amount])
                = SumFunction([k \in {n \in Standing : sales[n].account = {c}} |-> Taken(k)])
        /\ (\A r \in ToTheTill : At(r).kind # "package") =>
              DailyCogs = SumFunction([k \in SaleRows |-> CostOfRow(sales[k])])

\* A sale that was undone is nowhere in either report, whatever was edited between
\* the sale and its refund.
ReportNetsOut == PeriodNetsOut /\ DayNetsOut
=============================================================================
