----------------------------- MODULE ShopLedger -----------------------------
(***************************************************************************)
(* The books of the shop: sales, credit sales, payments, expenses and      *)
(* drawings, what each of them moves in the drawer and on the shelf, the   *)
(* days the drawer is open, and the corrections.  Rows are never edited: a *)
(* correction is a mirrored row that names what it cancels.  Every service *)
(* call is one SQLite transaction, so it is one step, and a refused or     *)
(* rolled-back call is a stuttering step.                                  *)
(*                                                                         *)
(* The desktop has one thread, but a modal dialog runs its own event loop, *)
(* and the synchronisation server keeps serving devices in it: whatever an *)
(* operator's dialog has read may be old when it is confirmed.             *)
(*                                                                         *)
(* The rows of all document tables share one numbering here, which is a    *)
(* renaming of the (ref_type, ref_id) pairs of the code.  There is one     *)
(* product and a sale takes one piece of it; amounts are small numbers.    *)
(***************************************************************************)
EXTENDS Integers, FiniteSets, Sequences, FiniteSetsExt

CONSTANTS
    Customers,     \* customers on file when the run begins
    MaxDocs,       \* bound: document rows written
    MaxSessions,   \* bound: days the drawer is opened
    Amounts,       \* amounts of sales, payments, expenses and drawings
    DebtAmounts,   \* totals of credit sales: an adjustment may make one negative
    Opening,       \* customers.opening_balance_cents, the same for each
    Floats,        \* opening floats
    ShelfStock,    \* pieces on the shelf when the run begins
    NoOne          \* the customer of a row that has none

Ids == 1..MaxDocs
Days == 1..MaxSessions

ASSUME ShopAssumption ==
    /\ NoOne \notin Customers
    /\ MaxDocs \in Nat
    /\ MaxSessions \in Nat
    /\ Amounts \subseteq Nat \ {0}
    /\ DebtAmounts \subseteq Int
    /\ Opening \in Int
    /\ Floats \subseteq Nat \ {0}
    /\ ShelfStock \in Nat

VARIABLES
    sessions,    \* cash_sessions, by id
    expected,    \* cash_sessions.expected_cents of the closed days
    docs,        \* the document rows on file, by id
    lastId,      \* the last id given out; AUTOINCREMENT never gives one again
    moves,       \* cash_movements, in the order they were written
    shelf,       \* products.quantity
    customers,   \* customers on file
    dialog       \* the dialog the operator has open, and what it has read

vars == <<sessions, expected, docs, lastId, moves, shelf, customers, dialog>>

CashKinds == {"sale", "payment", "expense", "drawing"}
Kinds == CashKinds \cup {"debt"}

\* A document row; "of" is the row it cancels, or 0.
Doc == [kind : Kinds, who : Customers \cup {NoOne}, amount : Int, of : 0..MaxDocs]
Session == [float : Floats, status : {"open", "closed"}]
Move == [session : Days, doc : Ids, amount : Int]

NoDialog == [asks |-> "nothing", who |-> NoOne, limit |-> 0]
Dialog == [asks : {"delete", "settle"}, who : Customers, limit : Int]

----------------------------------------------------------------------------
(* What the services read. *)

IsOpen(s) == s \in DOMAIN sessions /\ sessions[s].status = "open"

ReversalsOf(i) == {j \in DOMAIN docs : docs[j].of = i}

\* What a document puts into the drawer: recordMoneyIn or recordMoneyOut.
Signed(kind, amount) == IF kind \in {"sale", "payment"} THEN amount ELSE -amount

MovesOf(s) == {n \in DOMAIN moves : moves[n].session = s}
MovesFor(i) == {n \in DOMAIN moves : moves[n].doc = i}
SumOf(S) == SumFunctionOnSet([n \in DOMAIN moves |-> moves[n].amount], S)
Expected(s) == sessions[s].float + SumOf(MovesOf(s))

\* A correction is a negative row, so neither sum looks at the sign.
Owed(i) == IF docs[i].kind = "debt" THEN docs[i].amount ELSE -docs[i].amount
Ledger(c) == {i \in DOMAIN docs : docs[i].who = c}
Balance(c) == Opening + SumFunctionOnSet([i \in DOMAIN docs |-> Owed(i)], Ledger(c))

\* The sales the audit at the close of day s looks at, and those it reports:
\* a row that cancels nothing must have moved its total, the others nothing.
Concerns(s, i) ==
    \E n \in MovesOf(s) :
        \/ moves[n].doc = i
        \/ docs[i].of # 0 /\ moves[n].doc = docs[i].of /\ moves[n].amount < 0
Reported(s) ==
    {i \in DOMAIN docs :
        /\ docs[i].kind = "sale"
        /\ Concerns(s, i)
        /\ SumOf(MovesFor(i)) # IF docs[i].of = 0 THEN docs[i].amount ELSE 0}

----------------------------------------------------------------------------
(* What the services write. *)

NewRow(kind, who, amount) == [kind |-> kind, who |-> who, amount |-> amount, of |-> 0]
Mirror(i) == [kind |-> docs[i].kind, who |-> docs[i].who, amount |-> -docs[i].amount, of |-> i]

\* One row, under the next number of its table.
File(row) ==
    /\ lastId < MaxDocs
    /\ lastId' = lastId + 1
    /\ docs' = [i \in DOMAIN docs \cup {lastId + 1} |-> IF i = lastId + 1 THEN row ELSE docs[i]]

\* One movement of the drawer, naming the document it stands for.
BookMove(s, i, amount) == moves' = Append(moves, [session |-> s, doc |-> i, amount |-> amount])

\* A new document that moves cash, in an open day.
FileWithCash(s, kind, who, amount) ==
    /\ IsOpen(s)
    /\ File(NewRow(kind, who, amount))
    /\ BookMove(s, lastId + 1, Signed(kind, amount))

\* Bug: the correction's movement names the correction.
ReverseNamesItself(s, i, kind) ==
    /\ i \in DOMAIN docs
    /\ docs[i].kind = kind
    /\ docs[i].amount > 0
    /\ ReversalsOf(i) = {}
    /\ IsOpen(s)
    /\ File(Mirror(i))
    /\ BookMove(s, lastId + 1, -Signed(kind, docs[i].amount))

\* Bug: the money goes back in the day it came from.
ReverseInItsDay(s, i, kind) ==
    /\ i \in DOMAIN docs
    /\ docs[i].kind = kind
    /\ docs[i].amount > 0
    /\ ReversalsOf(i) = {}
    /\ IsOpen(s)
    /\ File(Mirror(i))
    /\ \E n \in MovesFor(i) : BookMove(moves[n].session, i, -Signed(kind, docs[i].amount))

\* A correction of one that did: the movement names the original.
ReverseWithCash(s, i, kind) ==
    /\ i \in DOMAIN docs
    /\ docs[i].kind = kind
    /\ docs[i].amount > 0
    /\ docs[i].of = 0
    /\ ReversalsOf(i) = {}
    /\ IsOpen(s)
    /\ File(Mirror(i))
    /\ BookMove(s, i, -Signed(kind, docs[i].amount))

----------------------------------------------------------------------------
(* The day. *)

AtDesk == dialog = NoDialog

\* Bug: the page does not look for an open session.
OpenUnguarded(float) ==
    /\ AtDesk
    /\ Len(sessions) < MaxSessions
    /\ sessions' = Append(sessions, [float |-> float, status |-> "open"])
    /\ UNCHANGED <<expected, docs, lastId, moves, shelf, customers, dialog>>

\* CashSessionPage::openSession.
OpenSession(float) ==
    /\ AtDesk
    /\ Len(sessions) < MaxSessions
    /\ \A s \in DOMAIN sessions : ~IsOpen(s)
    /\ sessions' = Append(sessions, [float |-> float, status |-> "open"])
    /\ UNCHANGED <<expected, docs, lastId, moves, shelf, customers, dialog>>

\* Bug: what the drawer took, without what it held in the morning.
CloseWithoutFloat(s) ==
    /\ AtDesk
    /\ IsOpen(s)
    /\ sessions' = [sessions EXCEPT ![s] = [float |-> sessions[s].float, status |-> "closed"]]
    /\ expected' = [d \in DOMAIN expected \cup {s} |-> IF d = s THEN SumOf(MovesOf(s)) ELSE expected[d]]
    /\ UNCHANGED <<docs, lastId, moves, shelf, customers, dialog>>

\* CashSessionPage::closeSession: the audit reports and never blocks.
CloseSession(s) ==
    /\ AtDesk
    /\ IsOpen(s)
    /\ sessions' = [sessions EXCEPT ![s] = [float |-> sessions[s].float, status |-> "closed"]]
    /\ expected' = [d \in DOMAIN expected \cup {s} |-> IF d = s THEN Expected(s) ELSE expected[d]]
    /\ UNCHANGED <<docs, lastId, moves, shelf, customers, dialog>>

----------------------------------------------------------------------------
(* What both the desk and a device's operation record. *)

\* Bug: the shelf is not looked at.
RecordOversold(s, amount) ==
    /\ FileWithCash(s, "sale", NoOne, amount)
    /\ shelf' = shelf - 1
    /\ UNCHANGED <<sessions, expected, customers, dialog>>

\* Bug: the sale is written without its stock movement.
RecordUnmoved(s, amount) ==
    /\ shelf > 0
    /\ FileWithCash(s, "sale", NoOne, amount)
    /\ UNCHANGED <<sessions, expected, shelf, customers, dialog>>

RecordSale(s, amount) ==
    /\ shelf > 0
    /\ FileWithCash(s, "sale", NoOne, amount)
    /\ shelf' = shelf - 1
    /\ UNCHANGED <<sessions, expected, customers, dialog>>

\* On account: no session is needed and no cash moves.
RecordDebt(c, amount) ==
    /\ c \in customers
    /\ shelf > 0
    /\ File(NewRow("debt", c, amount))
    /\ shelf' = shelf - 1
    /\ UNCHANGED <<sessions, expected, moves, customers, dialog>>

RecordPayment(s, c, amount) ==
    /\ c \in customers
    /\ FileWithCash(s, "payment", c, amount)
    /\ UNCHANGED <<sessions, expected, shelf, customers, dialog>>

----------------------------------------------------------------------------
(* What only the desk does. *)

RecordEntry(s, kind, amount) ==
    /\ AtDesk
    /\ FileWithCash(s, kind, NoOne, amount)
    /\ UNCHANGED <<sessions, expected, shelf, customers, dialog>>
RecordExpense(s, amount) == RecordEntry(s, "expense", amount)
RecordDrawing(s, amount) == RecordEntry(s, "drawing", amount)

ReverseSale(s, i) ==
    /\ AtDesk
    /\ ReverseWithCash(s, i, "sale")
    /\ shelf' = shelf + 1
    /\ UNCHANGED <<sessions, expected, customers, dialog>>

ReverseDebt(i) ==
    /\ AtDesk
    /\ i \in DOMAIN docs
    /\ docs[i].kind = "debt"
    /\ docs[i].amount > 0
    /\ ReversalsOf(i) = {}
    /\ File(Mirror(i))
    /\ shelf' = shelf + 1
    /\ UNCHANGED <<sessions, expected, moves, customers, dialog>>

\* The rows the card offers to cancel.  The list is read before the operator is
\* asked; what devices add meanwhile is not in it, and nothing leaves it.
Cancellable(c) ==
    {i \in Ledger(c) : docs[i].kind = "debt" /\ docs[i].amount > 0 /\ ReversalsOf(i) = {}}

CancelDebt(c, i) == i \in Cancellable(c) /\ ReverseDebt(i)

RefundPayment(s, i) ==
    /\ AtDesk
    /\ ReverseWithCash(s, i, "payment")
    /\ UNCHANGED <<sessions, expected, shelf, customers, dialog>>

ReverseExpense(s, i) ==
    /\ AtDesk
    /\ ReverseWithCash(s, i, "expense")
    /\ UNCHANGED <<sessions, expected, shelf, customers, dialog>>

ReverseDrawing(s, i) ==
    /\ AtDesk
    /\ ReverseWithCash(s, i, "drawing")
    /\ UNCHANGED <<sessions, expected, shelf, customers, dialog>>

\* The form for a new customer, whom no row names, and the opening balance that the
\* card then gives them.
AddCustomer(c) ==
    /\ AtDesk
    /\ c \notin customers /\ Ledger(c) = {}
    /\ customers' = customers \cup {c}
    /\ UNCHANGED <<sessions, expected, docs, lastId, moves, shelf, dialog>>

----------------------------------------------------------------------------
(* The two dialogs that act on a balance they read before they asked. *)

Books == <<sessions, expected, docs, lastId, moves, shelf, customers>>

Ask(what, c) ==
    /\ AtDesk
    /\ c \in customers
    /\ dialog' = [asks |-> what, who |-> c, limit |-> Balance(c)]
    /\ UNCHANGED Books

\* The delete button: refused while the customer owes something.
AskDelete(c) == Balance(c) <= 0 /\ Ask("delete", c)

\* Bug: the corrections are left behind.
DeleteOriginals ==
    /\ dialog.asks = "delete"
    /\ docs' = [i \in {j \in DOMAIN docs : docs[j].who # dialog.who \/ docs[j].of # 0} |-> docs[i]]
    /\ customers' = customers \ {dialog.who}
    /\ dialog' = NoDialog
    /\ UNCHANGED <<sessions, expected, lastId, moves, shelf>>

\* The answer is yes: the customer goes, and every row that names them.
ConfirmDelete ==
    /\ dialog.asks = "delete"
    /\ docs' = [i \in DOMAIN docs \ Ledger(dialog.who) |-> docs[i]]
    /\ customers' = customers \ {dialog.who}
    /\ dialog' = NoDialog
    /\ UNCHANGED <<sessions, expected, lastId, moves, shelf>>

AskSettle(c) == Ask("settle", c)

\* The amount is held against the balance the dialog was opened with.
ConfirmSettle(s, amount) ==
    /\ dialog.asks = "settle"
    /\ amount <= dialog.limit
    /\ FileWithCash(s, "payment", dialog.who, amount)
    /\ dialog' = NoDialog
    /\ UNCHANGED <<sessions, expected, shelf, customers>>

\* The operator says no, or a service refuses, or the application dies.
CloseDialog ==
    /\ ~AtDesk
    /\ dialog' = NoDialog
    /\ UNCHANGED Books

----------------------------------------------------------------------------
Init ==
    /\ sessions = <<>>
    /\ expected = <<>>
    /\ docs = <<>>
    /\ lastId = 0
    /\ moves = <<>>
    /\ shelf = ShelfStock
    /\ customers = Customers
    /\ dialog = NoDialog

\* A device's operation is served whatever dialog is open.
Record ==
    \/ \E c \in Customers, a \in DebtAmounts : RecordDebt(c, a)
    \/ \E s \in Days, a \in Amounts :
          RecordSale(s, a) \/ \E c \in Customers : RecordPayment(s, c, a)

DeskDay ==
    \/ \E f \in Floats : OpenSession(f)
    \/ \E s \in Days : CloseSession(s)
    \/ \E c \in Customers : AddCustomer(c)
    \/ \E s \in Days, a \in Amounts : RecordExpense(s, a) \/ RecordDrawing(s, a)

Correct ==
    \E i \in Ids :
        \/ \E c \in Customers : CancelDebt(c, i)
        \/ \E s \in Days :
              ReverseSale(s, i) \/ RefundPayment(s, i) \/ ReverseExpense(s, i) \/ ReverseDrawing(s, i)

Dialogs ==
    \/ \E c \in Customers : AskDelete(c) \/ AskSettle(c)
    \/ ConfirmDelete
    \/ \E s \in Days, a \in Amounts : ConfirmSettle(s, a)
    \/ CloseDialog

Next == Record \/ DeskDay \/ Correct \/ Dialogs

Spec == Init /\ [][Next]_vars

----------------------------------------------------------------------------
(* Properties. *)

\* Every variable stays in its set.
BooksTyped ==
    /\ sessions \in Seq(Session)
    /\ lastId \in 0..MaxDocs
    /\ DOMAIN docs \subseteq 1..lastId
    /\ \A i \in DOMAIN docs : docs[i] \in Doc
    /\ moves \in Seq(Move)
    /\ \A n \in DOMAIN moves : moves[n].doc <= lastId
    /\ shelf \in Nat
    /\ customers \subseteq Customers
    /\ DOMAIN expected = {s \in DOMAIN sessions : ~IsOpen(s)}
    /\ dialog.who \in Customers \cup {NoOne}
SumsTyped ==
    /\ expected \in [DOMAIN expected -> Int]
    /\ dialog \in Dialog \cup {NoDialog}
TypeOK == BooksTyped /\ SumsTyped

\* Never two open days: findOpen has no ORDER BY, so a second open row would
\* make the current session a coin toss (cash_session_repository.cpp).
OneOpenSession == \A s, t \in DOMAIN sessions : IsOpen(s) /\ IsOpen(t) => s = t

\* What a settled day was expected to hold still is what its movements say,
\* whatever is sold, refunded, reversed or deleted afterwards.
ClosedDayAddsUp == \A s \in DOMAIN expected : expected[s] = Expected(s)

\* No step moves cash in a closed day, or touches its row: a refund of an old
\* sale belongs to the day the money is handed back.
ClosedDaysKept ==
    \A s \in DOMAIN sessions :
        ~IsOpen(s) =>
            /\ sessions'[s] = sessions[s]
            /\ expected'[s] = expected[s]
            /\ MovesOf(s)' = MovesOf(s)
            /\ \A n \in MovesOf(s) : moves'[n] = moves[n]
ClosedDaysFrozen == [][ClosedDaysKept]_vars

\* The drawer and the documents tell one story: an original that moves cash
\* has the movement of its amount, and the opposite one exactly when it has
\* been corrected; corrections and debts have none of their own.
MoneyFollowsDocuments ==
    \A i \in DOMAIN docs :
        IF docs[i].kind = "debt" \/ docs[i].of # 0
        THEN MovesFor(i) = {}
        ELSE \E n \in MovesFor(i) :
                /\ moves[n].amount = Signed(docs[i].kind, docs[i].amount)
                /\ IF ReversalsOf(i) = {}
                   THEN MovesFor(i) = {n}
                   ELSE \E m \in MovesFor(i) :
                           /\ n < m
                           /\ moves[m].amount = -moves[n].amount
                           /\ MovesFor(i) = {n, m}

\* A document is corrected once, by the exact mirror of an original that is
\* still on file: deleting a customer never takes one of the two away.
ReversedOnce ==
    \A i, j \in DOMAIN docs :
        /\ docs[i].of # 0 =>
              /\ docs[i].of \in DOMAIN docs
              /\ docs[docs[i].of].of = 0
              /\ docs[i] = Mirror(docs[i].of)
        /\ docs[i].of # 0 /\ docs[i].of = docs[j].of => i = j

\* Goods come back to the shelf at most once for what was sold: the shelf and
\* the sales still standing never hold more than the shop had.
Standing == {i \in DOMAIN docs : docs[i].kind \in {"sale", "debt"} /\ docs[i].of = 0
                                   /\ ReversalsOf(i) = {}}
NoGoodsFromNowhere == shelf + Cardinality(Standing) <= ShelfStock

\* What validateForClose promises (cash_session_repository.h): of a voided sale
\* it asks that the net of its movements is 0, so it reports no other.
VoidedSalesBalance ==
    \A s \in DOMAIN sessions : \A i \in Reported(s) :
        ReversalsOf(i) # {} => SumOf(MovesFor(i)) # 0
=============================================================================
