---------------------------- MODULE SchemaUpgrade ----------------------------
(* Opening the shop's database: the constructor of Database (data/database.cpp) *)
(* and the versioned migrations it ends with (data/schema_migrations.cpp).      *)
(*                                                                            *)
(* An opening is a program of SQL statements that commit one by one: `todo` is  *)
(* what is left of it, and a power cut throws it away together with everything  *)
(* the program kept in memory, while what was committed stays.  A statement     *)
(* that fails for want of disk is not modelled: the database refuses only the   *)
(* two kinds of index the code expects to be refused.  Indexes that only make a *)
(* report faster are left out, and one column stands for several that one loop  *)
(* adds to a table in the same way.                                            *)
EXTENDS Integers, Sequences, FiniteSets

CONSTANTS
    OldDatabases,   \* the databases the first opening may find
    Years,          \* calendar years
    MaxCuts,        \* bound: power cuts
    MaxRows         \* bound: rows of a ledger

ASSUME BoundsAssumption == Years \subseteq Nat \ {0} /\ MaxCuts \in Nat /\ MaxRows \in Nat

VARIABLES
    found,          \* history: what the first opening found
    version,        \* PRAGMA user_version
    tables,         \* the tables there are
    columns,        \* the columns there are, of those the upgrades look for
    indexes,        \* the unique indexes there are
    stockTrigger,   \* trg_stock_after_insert is there
    blankRefused,   \* products.barcode is still declared NOT NULL
    ledger,         \* the rows of sales and customer_transactions with their lines
    counters,       \* receipt_sequences: the last number of a year, 0 without a row
    payments,       \* supplier_payments
    products,
    settings,       \* key/value rows, None without a row
    zakat,          \* the rows of zakat_settings
    sessions,       \* open rows of cash_sessions
    phase,          \* "closed", "opening" or "running"
    todo,           \* the statements the opening has still to execute
    perYear,        \* migrateReceiptNumbering's counts, in memory only
    cuts,           \* power cuts so far
    torn            \* history: what a power cut has left half done

shape == <<tables, columns, indexes, stockTrigger, blankRefused>>
books == <<ledger, counters, payments, products>>
options == <<settings, zakat>>
program == <<phase, todo, perYear, cuts, torn>>
vars == <<found, version, shape, books, options, sessions, program>>

----------------------------------------------------------------------------
(* What a database consists of.                                               *)

kSchemaVersion == 16
None == "none"

Ledgers == {"sales", "customer_transactions"}
Keys == {"enabled", "device_prefix"}

\* createSchema: the tables in the order it creates them.
TableOrder ==
    <<"products", "sales", "customers", "customer_transactions", "suppliers", "stock_movements",
      "cash_movements", "users", "settings", "purchases", "purchase_items", "supplier_payments",
      "receipt_sequences">>
Tables == {TableOrder[i] : i \in DOMAIN TableOrder}

\* The columns every opening looks for, whatever the version.
UserColumns == << <<"users", "pin">>, <<"users", "active">>, <<"users", "created_at">> >>
CustomerColumns == << <<"customers", "opening_balance_cents">>, <<"customers", "active">> >>
SupplierColumns == << <<"suppliers", "phone">>, <<"suppliers", "opening_balance_cents">> >>
MovementColumns == << <<"stock_movements", "reference">> >>
OccasionColumns == << <<"sales", "occasion_id">> >>
EveryOpening ==
    UserColumns \o CustomerColumns \o SupplierColumns \o MovementColumns \o OccasionColumns
Weight == <<"products", "sold_by_weight">>
Marker == <<"supplier_payments", "is_purchase_initial_payment">>

\* The columns a version adds when they are absent.
PaymentMethod == << <<"supplier_payments", "method">> >>
PaymentReversal == << <<"supplier_payments", "reversed_id">> >>
PurchaseMethod == << <<"purchases", "method">> >>
PurchaseReversal == << <<"purchases", "reversed_id">> >>
PurchaseItemReversal == << <<"purchase_items", "reversed_id">> >>
CashReference == << <<"cash_movements", "ref_type">>, <<"cash_movements", "ref_id">> >>
Adjustments == << <<"sales", "adjustment_cents">>, <<"customer_transactions", "adjustment_cents">> >>
Packages == << <<"products", "pieces_per_package">>, <<"sales", "pieces_consumed">>,
               <<"customer_transactions", "pieces_consumed">> >>
Receipts == << <<"sales", "receipt_number">>, <<"customer_transactions", "receipt_number">> >>

ColumnsOf(v) ==
    CASE v = 2 -> PaymentMethod
      [] v = 3 -> PaymentReversal
      [] v = 5 -> PurchaseMethod
      [] v = 6 -> PurchaseReversal
      [] v = 7 -> PurchaseItemReversal
      [] v = 9 -> CashReference
      [] v = 12 -> Adjustments
      [] v = 13 -> Packages
      [] v = 15 -> Receipts
      [] OTHER -> <<>>

Listed(s) == {s[i] : i \in DOMAIN s}
Columns ==
    Listed(EveryOpening) \cup {Weight, Marker} \cup UNION {Listed(ColumnsOf(v)) : v \in 2..kSchemaVersion}

\* CREATE TABLE has every column already, but for the customers'.
CreatedWith(t) == {c \in Columns \ Listed(CustomerColumns) : c[1] = t}

ReversalIndex(l) == <<"uq_one_reversal", l>>
SessionIndex == <<"uq_single_open", "cash_sessions">>

\* A row of a ledger with its one line: a mirror has a negative quantity.
\* number 0 is NULL; pieces 0 is the default of a row older than the column.
\* doubled: the row mirrors one that has another mirror.
Row(year, quantity, doubled) ==
    [year |-> year, quantity |-> quantity, doubled |-> doubled, number |-> 0, pieces |-> 0]

\* Rows of the tables, as far as the upgrades look at them.
LedgerRows == [year : Years, quantity : Int, doubled : BOOLEAN, number : Nat, pieces : Int]
PaymentRows == [purchase : Nat, noted : BOOLEAN, agrees : BOOLEAN, initial : BOOLEAN]
ProductRows == [packageSize : Int, perPackage : Int, weighed : BOOLEAN]

Doubled(l) == \E i \in DOMAIN ledger[l] : ledger[l][i].doubled

----------------------------------------------------------------------------
(* The files the first opening may find: nothing yet, or what an earlier        *)
(* release left when it had stamped its version.                               *)

Indexes == {SessionIndex} \cup {ReversalIndex(l) : l \in Ledgers}

\* The tables, columns and rows are some of those there are.
Readable(d) ==
    /\ d.version \in 0..kSchemaVersion
    /\ d.tables \subseteq Tables /\ d.columns \subseteq Columns /\ d.indexes \subseteq Indexes
    /\ d.stockTrigger \in BOOLEAN /\ d.blankRefused \in BOOLEAN
    /\ d.ledger \in [Ledgers -> Seq(LedgerRows)]
    /\ \A l \in Ledgers : Len(d.ledger[l]) <= MaxRows
    /\ d.counters \in [Years -> Nat]
    /\ d.payments \in Seq(PaymentRows) /\ d.products \in Seq(ProductRows)
    /\ DOMAIN d.settings = Keys /\ DOMAIN d.zakat = Keys
    /\ d.sessions \in Nat

\* A stamp stands for the work of its version.  Every release that knows packages
\* (13) looked for the NOT NULL of the barcode first.
StampedAfterwards(d) ==
    /\ \A v \in 2..d.version : Listed(ColumnsOf(v)) \subseteq d.columns
    /\ Marker \in d.columns <=> d.version >= 11
    /\ d.blankRefused => d.version < 13

\* What no release wrote yet has the default of its column.
DefaultsBefore(d) ==
    /\ \A l \in Ledgers : \A i \in DOMAIN d.ledger[l] :
          /\ d.version < 13 => d.ledger[l][i].pieces = 0
          /\ d.version < 15 => d.ledger[l][i].number = 0
    /\ d.version < 15 => \A y \in Years : d.counters[y] = 0
    /\ d.version < 11 => \A i \in DOMAIN d.payments : ~d.payments[i].initial
    /\ "supplier_payments" \notin d.tables => d.payments = <<>>
    /\ \A p \in DOMAIN d.products :
          /\ d.version < 13 => d.products[p].perPackage = 1
          /\ d.blankRefused => ~d.products[p].weighed

\* Numbers that were issued are below the counters of their years, and differ.
NumbersIssued(d) ==
    /\ \A l \in Ledgers : \A i \in DOMAIN d.ledger[l] :
          d.ledger[l][i].number <= d.counters[d.ledger[l][i].year]
    /\ \A l, m \in Ledgers : \A i \in DOMAIN d.ledger[l], j \in DOMAIN d.ledger[m] :
          /\ d.ledger[l][i].number > 0 /\ d.ledger[l][i].number = d.ledger[m][j].number
          /\ d.ledger[l][i].year = d.ledger[m][j].year
          => l = m /\ i = j

ASSUME DatabasesAssumption ==
    \A d \in OldDatabases :
        Readable(d) /\ StampedAfterwards(d) /\ DefaultsBefore(d) /\ NumbersIssued(d)

----------------------------------------------------------------------------
(* The program of an opening.                                                 *)

Each(kind, s) == [i \in DOMAIN s |-> <<kind, s[i]>>]
PerLedger(kind) == << <<kind, "sales">>, <<kind, "customer_transactions">> >>

\* kMigrations: what a version does.
MigrationOf(v) ==
    CASE v = 4 -> PerLedger("reversalIndex")
      [] v = 11 -> << <<"marker">> >>
      [] v = 13 -> Each("column", ColumnsOf(13)) \o PerLedger("pieces")
      [] v = 14 -> << <<"trays">> >>
      [] v = 15 -> << <<"table", "receipt_sequences">> >> \o Each("column", ColumnsOf(15))
                      \o << <<"prefix">>, <<"number">> >>
      [] v = 16 -> << <<"weighed">> >>
      [] OTHER -> Each("column", ColumnsOf(v))

\* The versions after `from`, in the order of kMigrations.
VersionsAfter(from) == [n \in 1..kSchemaVersion - from |-> <<"version", from + n>>]

\* Bug: the version is stamped before the work it stands for.
StampFirst(from) == << <<"stamp">> >> \o VersionsAfter(from)

\* runSchemaMigrations: the versions after `from`, and the stamp at the very end.
WorkAfter(from) == VersionsAfter(from) \o << <<"stamp">> >>

\* Bug: the rows are dropped with their table before they are copied.
DropFirst == << <<"dropZakat">>, <<"copyZakat">> >>

\* migrateZakatSettingsIntoSettings.
FoldZakat == << <<"copyZakat">>, <<"dropZakat">> >>

\* The constructor: createSchema, the migrations of every opening, the versioned ones.
Opening ==
    Each("table", TableOrder) \o << <<"trigger">>, <<"sessionIndex">> >> \o FoldZakat
        \o Each("column", EveryOpening) \o << <<"products">>, <<"migrate">> >>

\* The statement at hand.
At(kind) == phase = "opening" /\ todo # <<>> /\ todo[1][1] = kind
Arg == todo[1][2]
Then(more) ==
    /\ todo' = more \o Tail(todo)
    /\ UNCHANGED <<phase, cuts, torn, found>>
Done == Then(<<>>) /\ UNCHANGED perYear

----------------------------------------------------------------------------
(* createSchema and the upgrades of every opening.                            *)

Open ==
    /\ phase = "closed"
    /\ phase' = "opening" /\ todo' = Opening /\ perYear' = [y \in Years |-> 0]
    /\ UNCHANGED <<found, version, shape, books, options, sessions, cuts, torn>>

\* CREATE TABLE IF NOT EXISTS: a new table has its columns from the start.
CreateTable ==
    /\ At("table") /\ Done
    /\ tables' = tables \cup {Arg}
    /\ columns' = IF Arg \in tables THEN columns ELSE columns \cup CreatedWith(Arg)
    /\ UNCHANGED <<version, indexes, stockTrigger, blankRefused, books, options, sessions>>

CreateTrigger ==
    /\ At("trigger") /\ Done
    /\ stockTrigger' = TRUE
    /\ UNCHANGED <<version, tables, columns, indexes, blankRefused, books, options, sessions>>

\* A unique index over the open sessions cannot be made while there are two.
SessionIndexFits == sessions <= 1

\* createSingleOpenSessionIndex: on every opening, and only a warning when it fails.
CreateSessionIndex ==
    /\ At("sessionIndex") /\ Done
    /\ indexes' = IF SessionIndexFits THEN indexes \cup {SessionIndex} ELSE indexes
    /\ UNCHANGED <<version, tables, columns, stockTrigger, blankRefused, books, options, sessions>>

\* INSERT OR IGNORE ... SELECT: a key that settings has already wins.
CopyZakat ==
    /\ At("copyZakat") /\ Done
    /\ settings' = [k \in Keys |-> IF settings[k] = None THEN zakat[k] ELSE settings[k]]
    /\ UNCHANGED <<version, shape, books, zakat, sessions>>

DropZakat ==
    /\ At("dropZakat") /\ Done
    /\ zakat' = [k \in Keys |-> None]
    /\ UNCHANGED <<version, shape, books, settings, sessions>>

\* ALTER TABLE ... ADD COLUMN unless the column is there.
AddColumn ==
    /\ At("column") /\ Done
    /\ columns' = columns \cup {Arg}
    /\ UNCHANGED <<version, tables, indexes, stockTrigger, blankRefused, books, options, sessions>>

\* Bug: the triggers that were dropped around the swap are not made again.
NotReplayed == <<>>

\* The triggers that name products, dropped around the swap and made again after it.
Replayed == IF stockTrigger THEN << <<"trigger">> >> ELSE <<>>

\* migrateProductsTable: nothing, a column, or the whole table swapped in one
\* transaction, which forgets every column but the ten it lists.
SwapProducts ==
    /\ At("products")
    /\ IF ~blankRefused
       THEN /\ columns' = columns \cup {Weight}
            /\ Done
            /\ UNCHANGED <<stockTrigger, blankRefused, products>>
       ELSE /\ columns' = {c \in columns : c[1] # "products"} \cup {Weight}
            /\ blankRefused' = FALSE
            /\ stockTrigger' = FALSE
            /\ products' = [p \in DOMAIN products |->
                               [products[p] EXCEPT !.perPackage = 1, !.weighed = FALSE]]
            /\ Then(Replayed) /\ UNCHANGED perYear
    /\ UNCHANGED <<version, tables, indexes, ledger, counters, payments, options, sessions>>

----------------------------------------------------------------------------
(* The versioned migrations.                                                  *)

\* readSchemaVersion decides what is replayed.
StartMigrations ==
    /\ At("migrate")
    /\ Then(IF version >= kSchemaVersion THEN <<>> ELSE WorkAfter(version))
    /\ UNCHANGED <<perYear, version, shape, books, options, sessions>>

\* migration.apply(db) for the next version of the loop.
ApplyMigration ==
    /\ At("version") /\ Then(MigrationOf(Arg))
    /\ UNCHANGED <<perYear, version, shape, books, options, sessions>>

\* 4: no index over a ledger that holds two mirrors of one row.
CreateReversalIndex ==
    /\ At("reversalIndex") /\ Done
    /\ indexes' = IF Doubled(Arg) THEN indexes ELSE indexes \cup {ReversalIndex(Arg)}
    /\ UNCHANGED <<version, tables, columns, stockTrigger, blankRefused, books, options, sessions>>

\* 11: the column, and only when it was added the rows that were paid on the invoice.
AddMarker ==
    /\ At("marker")
    /\ Then(IF Marker \in columns THEN <<>> ELSE << <<"mark">> >>)
    /\ columns' = columns \cup {Marker}
    /\ UNCHANGED <<perYear, version, tables, indexes, stockTrigger, blankRefused, books, options,
                   sessions>>

\* The first row with the invoice's note, when it agrees with it in amount and time.
PaidOnInvoice(i) ==
    /\ payments[i].noted /\ payments[i].agrees
    /\ \A j \in 1..i - 1 : payments[j].purchase = payments[i].purchase => ~payments[j].noted

MarkPayments ==
    /\ At("mark") /\ Done
    /\ payments' = [i \in DOMAIN payments |->
                       IF PaidOnInvoice(i) THEN [payments[i] EXCEPT !.initial = TRUE]
                       ELSE payments[i]]
    /\ UNCHANGED <<version, shape, ledger, counters, products, options, sessions>>

\* Bug: only goods that left the shop are counted.
SalesOnly(row) == IF row.pieces = 0 /\ row.quantity > 0 THEN row.quantity ELSE row.pieces

\* Bug: every row, and on top of what it has.
AddedPieces(row) == row.pieces + row.quantity

\* 13: UPDATE ... SET pieces = quantity WHERE pieces = 0, the mirrors' sign included.
BackfilledPieces(row) == IF row.pieces = 0 THEN row.quantity ELSE row.pieces

BackfillPieces ==
    /\ At("pieces") /\ Done
    /\ ledger' = [ledger EXCEPT ![Arg] =
                     [i \in DOMAIN ledger[Arg] |->
                        [ledger[Arg][i] EXCEPT !.pieces = BackfilledPieces(ledger[Arg][i])]]]
    /\ UNCHANGED <<version, shape, counters, payments, products, options, sessions>>

\* 14: the old carton size, where the new one still has its default.
BackfillTrays ==
    /\ At("trays") /\ Done
    /\ products' = [p \in DOMAIN products |->
                       IF products[p].packageSize > 1 /\ products[p].perPackage = 1
                       THEN [products[p] EXCEPT !.perPackage = products[p].packageSize]
                       ELSE products[p]]
    /\ UNCHANGED <<version, shape, ledger, counters, payments, options, sessions>>

\* 15: INSERT OR IGNORE of the prefix.
SeedPrefix ==
    /\ At("prefix") /\ Done
    /\ settings' = [settings EXCEPT !["device_prefix"] = IF @ = None THEN "A" ELSE @]
    /\ UNCHANGED <<version, shape, books, zakat, sessions>>

\* Numbers are issued only while no year has a counter.
StartNumbering ==
    /\ At("number")
    /\ Then(IF \E y \in Years : counters[y] > 0 THEN <<>>
            ELSE PerLedger("assign") \o << <<"seed">> >>)
    /\ UNCHANGED <<perYear, version, shape, books, options, sessions>>

\* Bug: rows that have a number are numbered again.
EveryRow(l) == DOMAIN ledger[l]

\* SELECT ... WHERE receipt_number IS NULL; nothing else writes while they are numbered.
Unnumbered(l) == {i \in DOMAIN ledger[l] : ledger[l][i].number = 0}

\* Bug: each ledger counts from one.
CountPerLedger(l, i, y) ==
    1 + Cardinality({j \in DOMAIN ledger[l] : j < i /\ ledger[l][j].year = y})

\* ++perYear[row.year]: one count for both ledgers.
NextNumber(l, i, y) == perYear[y] + 1

\* ORDER BY created_at, id: rows are kept in the order they were written, and only
\* those of one year are compared.
AssignNumber ==
    /\ At("assign")
    /\ \/ \E i \in Unnumbered(Arg) :
             /\ \A j \in Unnumbered(Arg) : i <= j
             /\ LET y == ledger[Arg][i].year
                IN /\ perYear' = [perYear EXCEPT ![y] = @ + 1]
                   /\ ledger' = [ledger EXCEPT ![Arg][i].number = NextNumber(Arg, i, y)]
             /\ UNCHANGED <<found, phase, todo, cuts, torn>>
       \/ /\ Unnumbered(Arg) = {}
          /\ Done
          /\ UNCHANGED ledger
    /\ UNCHANGED <<version, shape, counters, payments, products, options, sessions>>

\* INSERT OR REPLACE, one year at a time and in the order of a hash.
SeedCounter ==
    /\ At("seed")
    /\ \/ \E y \in Years :
             /\ perYear[y] > 0
             /\ counters' = [counters EXCEPT ![y] = perYear[y]]
             /\ perYear' = [perYear EXCEPT ![y] = 0]
             /\ UNCHANGED <<found, phase, todo, cuts, torn>>
       \/ /\ \A y \in Years : perYear[y] = 0
          /\ Done
          /\ UNCHANGED counters
    /\ UNCHANGED <<version, shape, ledger, payments, products, options, sessions>>

\* 16: a product sold by weight has no carton.
ClearWeighed ==
    /\ At("weighed") /\ Done
    /\ products' = [p \in DOMAIN products |->
                       IF products[p].weighed THEN [products[p] EXCEPT !.perPackage = 1]
                       ELSE products[p]]
    /\ UNCHANGED <<version, shape, ledger, counters, payments, options, sessions>>

Stamp ==
    /\ At("stamp") /\ Done
    /\ version' = kSchemaVersion
    /\ UNCHANGED <<shape, books, options, sessions>>

FinishOpening ==
    /\ phase = "opening" /\ todo = <<>>
    /\ phase' = "running"
    /\ UNCHANGED <<found, version, shape, books, options, sessions, todo, perYear, cuts, torn>>

----------------------------------------------------------------------------
(* The running program, as far as it meets what the upgrades left.            *)

\* mintReceiptNumber inside the sale's own transaction.
Sell(l, y) ==
    /\ phase = "running" /\ Len(ledger[l]) < MaxRows
    /\ counters' = [counters EXCEPT ![y] = @ + 1]
    /\ ledger' = [ledger EXCEPT ![l] =
                     Append(@, [Row(y, 1, FALSE) EXCEPT !.number = counters[y] + 1, !.pieces = 1])]
    /\ UNCHANGED <<found, version, shape, payments, products, options, sessions, program>>

\* Day's end: a spare open session is closed; a new one is opened only beside none.
CloseSession ==
    /\ phase = "running" /\ sessions > 0
    /\ sessions' = sessions - 1
    /\ UNCHANGED <<found, version, shape, books, options, program>>

OpenSession ==
    /\ phase = "running" /\ sessions = 0
    /\ sessions' = 1
    /\ UNCHANGED <<found, version, shape, books, options, program>>

Quit ==
    /\ phase = "running"
    /\ phase' = "closed"
    /\ UNCHANGED <<found, version, shape, books, options, sessions, todo, perYear, cuts, torn>>

\* The rest of the program is lost, and whatever it had in memory with it.
PowerCut ==
    /\ phase # "closed" /\ cuts < MaxCuts
    /\ cuts' = cuts + 1
    /\ torn' = torn \cup (IF \E y \in Years : perYear[y] > 0 THEN {"numbers"} ELSE {})
                    \cup (IF At("mark") THEN {"marks"} ELSE {})
    /\ phase' = "closed" /\ todo' = <<>> /\ perYear' = [y \in Years |-> 0]
    /\ UNCHANGED <<found, version, shape, books, options, sessions>>

----------------------------------------------------------------------------
Init ==
    /\ found \in OldDatabases
    /\ version = found.version /\ tables = found.tables /\ columns = found.columns
    /\ indexes = found.indexes /\ stockTrigger = found.stockTrigger
    /\ blankRefused = found.blankRefused
    /\ ledger = found.ledger /\ counters = found.counters /\ payments = found.payments
    /\ products = found.products /\ settings = found.settings /\ zakat = found.zakat
    /\ sessions = found.sessions
    /\ phase = "closed" /\ todo = <<>> /\ perYear = [y \in Years |-> 0]
    /\ cuts = 0 /\ torn = {}

Next ==
    \/ Open \/ CreateTable \/ CreateTrigger \/ CreateSessionIndex \/ CopyZakat \/ DropZakat
    \/ AddColumn \/ SwapProducts \/ StartMigrations \/ ApplyMigration \/ CreateReversalIndex
    \/ AddMarker \/ MarkPayments \/ BackfillPieces \/ BackfillTrays \/ SeedPrefix \/ StartNumbering
    \/ AssignNumber \/ SeedCounter \/ ClearWeighed \/ Stamp \/ FinishOpening
    \/ \E l \in Ledgers, y \in Years : Sell(l, y)
    \/ CloseSession \/ OpenSession \/ Quit \/ PowerCut

Spec == Init /\ [][Next]_vars

----------------------------------------------------------------------------
(* What an opening promises.                                                  *)

Statements == {"table", "trigger", "sessionIndex", "copyZakat", "dropZakat", "column", "products",
               "migrate", "reversalIndex", "marker", "mark", "pieces", "trays", "prefix", "number",
               "version", "assign", "seed", "weighed", "stamp"}

\* The most numbers a year may have: those it had, and one per row.
MostNumbers(y) == found.counters[y] + 2 * MaxRows

\* Every variable keeps its kind of value, and no year counts more papers than it
\* had and than there are rows, however often the numbering is begun again.
TypeOK ==
    /\ version \in 0..kSchemaVersion
    /\ tables \subseteq Tables /\ columns \subseteq Columns /\ indexes \subseteq Indexes
    /\ stockTrigger \in BOOLEAN /\ blankRefused \in BOOLEAN
    /\ ledger \in [Ledgers -> Seq(LedgerRows)]
    /\ \A l \in Ledgers : Len(ledger[l]) <= MaxRows /\ \A i \in DOMAIN ledger[l] :
          ledger[l][i].number <= MostNumbers(ledger[l][i].year)
    /\ counters \in [Years -> Nat] /\ perYear \in [Years -> Nat]
    /\ \A y \in Years : counters[y] <= MostNumbers(y) /\ perYear[y] <= 2 * MaxRows
    /\ payments \in Seq(PaymentRows) /\ products \in Seq(ProductRows)
    /\ sessions \in Nat /\ phase \in {"closed", "opening", "running"}
    /\ \A n \in DOMAIN todo : todo[n][1] \in Statements
    /\ cuts \in 0..MaxCuts /\ torn \subseteq {"numbers", "marks"}

\* Whatever the file was and however often the power failed, the program never
\* runs without a table, a column or the stock trigger its statements count on:
\* the version is stamped last (runSchemaMigrations) and every entry looks first.
SchemaComplete ==
    phase = "running" =>
        /\ version = kSchemaVersion
        /\ tables = Tables /\ columns = Columns
        /\ stockTrigger /\ ~blankRefused

\* The place of an old row among the papers of its year: sales first, then credit.
PaperOrder(l, i) ==
    LET OfYear(m, before) == {j \in before : found.ledger[m][j].year = found.ledger[l][i].year}
    IN IF l = "sales" THEN Cardinality(OfYear(l, 1..i))
       ELSE Cardinality(OfYear("sales", DOMAIN found.ledger["sales"])) + Cardinality(OfYear(l, 1..i))

\* The upgrade of the books, said at once: what a row comes to have.
NumberOf(l, i) ==
    IF found.version < 15 THEN PaperOrder(l, i) ELSE found.ledger[l][i].number
PiecesOf(was) == IF found.version < 13 THEN was.quantity ELSE was.pieces
MarkOf(i) ==
    IF found.version < 11 THEN PaidOnInvoice(i) ELSE found.payments[i].initial
CartonOf(was) ==
    IF found.version < 16 /\ was.weighed THEN 1
    ELSE IF found.version < 14 /\ was.packageSize > 1 /\ was.perPackage = 1
         THEN was.packageSize ELSE was.perPackage

\* An upgrade leaves in the old rows what one uninterrupted pass over the file it
\* found would have written, cuts before or after the numbering included: nothing
\* is done twice, skipped, or overwritten where the shop had set it by hand.
UpgradedAsWritten ==
    phase = "running" /\ torn = {} =>
        /\ \A l \in Ledgers : \A i \in DOMAIN found.ledger[l] :
              /\ ledger[l][i].number = NumberOf(l, i)
              /\ ledger[l][i].pieces = PiecesOf(found.ledger[l][i])
        /\ \A i \in DOMAIN payments : payments[i].initial = MarkOf(i)
        /\ \A p \in DOMAIN products : products[p].perPackage = CartonOf(found.products[p])

Numbered(l) == {i \in DOMAIN ledger[l] : ledger[l][i].number > 0}

NumbersUnique ==
    \A l, m \in Ledgers : \A i \in Numbered(l), j \in Numbered(m) :
        /\ ledger[l][i].year = ledger[m][j].year /\ ledger[l][i].number = ledger[m][j].number
        => l = m /\ i = j

\* One paper has one number of its year, in both ledgers and across the upgrade,
\* unless the power failed within the numbering: the counters are seeded from the
\* highest number issued (migrateReceiptNumbering, mintReceiptNumber).
NumbersDiffer == phase = "running" /\ "numbers" \notin torn => NumbersUnique

\* What the reader of a key is told, as long as it may still be in either table.
ValueOf(k) == IF settings[k] # None THEN settings[k] ELSE zakat[k]

\* No step of an opening, and no power cut in it, loses a setting or puts another
\* value in its place (migrateZakatSettingsIntoSettings, the prefix of version 15).
NoSettingLost == [][\A k \in Keys : ValueOf(k) # None => ValueOf(k)' = ValueOf(k)]_vars
=============================================================================
