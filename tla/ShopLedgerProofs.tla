-------------------------- MODULE ShopLedgerProofs --------------------------
(***************************************************************************)
(* What the books keep for any number of documents, days and customers.    *)
(*                                                                         *)
(* Every step writes the documents in one of four ways: a new original, a  *)
(* mirror of an original that has none, a removal of all of one customer,  *)
(* or nothing; and appends at most one movement.  Each part of the         *)
(* inductive invariant has one lemma per way, and the actions only say     *)
(* which way is theirs.                                                    *)
(***************************************************************************)
EXTENDS ShopLedger, SumTheorems

\* A correction is negative, which is how every service tells it from an
\* original without looking at the column that names what it cancels.
CorrectionsNegative == \A i \in DOMAIN docs : docs[i].of # 0 => docs[i].amount < 0

\* The inductive invariant of the documents, the drawer movements and the goods.
BooksInv ==
    /\ BooksTyped
    /\ ReversedOnce
    /\ CorrectionsNegative
    /\ MoneyFollowsDocuments

\* The four ways of writing.
NewOriginal(row) == File(row) /\ row \in Doc /\ row.of = 0
NewMirror(i) ==
    /\ i \in DOMAIN docs
    /\ docs[i].amount > 0
    /\ ReversalsOf(i) = {}
    /\ File(Mirror(i))
Removal == \E c : docs' = [i \in DOMAIN docs \ Ledger(c) |-> docs[i]]

\* Each of them with what it does to the drawer and to the shelf.
Goods(kind) == IF kind \in {"sale", "debt"} THEN 1 ELSE 0
Booked(i, kind, amount) ==
    IF kind = "debt" THEN moves' = moves
    ELSE \E s \in Days : IsOpen(s) /\ BookMove(s, i, Signed(kind, amount))

Files == \E row :
    /\ NewOriginal(row)
    /\ Booked(lastId + 1, row.kind, row.amount)
    /\ shelf' = shelf - Goods(row.kind)
    /\ shelf' \in Nat
Mirrors == \E i :
    /\ NewMirror(i)
    /\ Booked(i, docs[i].kind, -docs[i].amount)
    /\ shelf' = shelf + Goods(docs[i].kind)
Removes == Removal /\ UNCHANGED <<lastId, moves, shelf>>
Rests == UNCHANGED <<docs, lastId, moves, shelf>>

\* The next number is free.
LEMMA NextIsFree ==
    ASSUME BooksTyped
    PROVE  /\ lastId \in Nat
           /\ lastId + 1 \notin DOMAIN docs
           /\ \A i \in DOMAIN docs : i \in Nat /\ i # 0 /\ i <= lastId /\ i # lastId + 1
           /\ lastId + 1 # 0
           /\ \A n \in DOMAIN moves : moves[n].doc # lastId + 1
BY ShopAssumption DEF BooksTyped, Move, Ids

\* Filing one row adds it and changes no other.
LEMMA FileAdds ==
    ASSUME NEW row, BooksTyped, File(row)
    PROVE  /\ DOMAIN docs' = DOMAIN docs \cup {lastId + 1}
           /\ docs'[lastId + 1] = row
           /\ \A i \in DOMAIN docs : docs'[i] = docs[i]
           /\ lastId' = lastId + 1
           /\ lastId' \in 0..MaxDocs
           /\ DOMAIN docs' \subseteq 1..lastId'
BY NextIsFree, ShopAssumption DEF File, BooksTyped

\* A correction is never negative enough to be corrected itself.
LEMMA OriginalsOnly ==
    ASSUME BooksInv, NEW i \in DOMAIN docs, docs[i].amount > 0
    PROVE  docs[i].of = 0
BY DEF BooksInv, CorrectionsNegative, BooksTyped, Doc

----------------------------------------------------------------------------
(* Corrections. *)

\* The mirror of a row that has number i.
MirrorOf(row, i) == [kind |-> row.kind, who |-> row.who, amount |-> -row.amount, of |-> i]

\* A new original reverses nothing and nothing reverses it.
LEMMA MirrorsAfterOriginal ==
    ASSUME BooksInv, NEW row, NewOriginal(row)
    PROVE  /\ ReversedOnce' /\ CorrectionsNegative'
           /\ \A i \in DOMAIN docs : ReversalsOf(i)' = ReversalsOf(i)
           /\ \A i \in DOMAIN docs' \ DOMAIN docs : ReversalsOf(i)' = {}
<1> USE DEF BooksInv, NewOriginal
<1>1. \A i \in DOMAIN docs' : docs'[i].of # 0 => i \in DOMAIN docs /\ docs'[i] = docs[i]
  BY FileAdds
<1>2. /\ \A i \in DOMAIN docs : ReversalsOf(i)' = ReversalsOf(i)
      /\ \A i \in DOMAIN docs' \ DOMAIN docs : ReversalsOf(i)' = {}
  BY FileAdds, NextIsFree, <1>1 DEF ReversalsOf, ReversedOnce
<1>3. CorrectionsNegative'
  BY <1>1, FileAdds DEF CorrectionsNegative
<1>4. ReversedOnce'
  BY <1>1, FileAdds, NextIsFree DEF ReversedOnce, Mirror
<1> QED BY <1>2, <1>3, <1>4

\* A reversal is the only one of its document and touches no other.
LEMMA MirrorsAfterMirror ==
    ASSUME BooksInv, NEW i, NewMirror(i)
    PROVE  /\ ReversedOnce' /\ CorrectionsNegative'
           /\ \A j \in DOMAIN docs \ {i} : ReversalsOf(j)' = ReversalsOf(j)
           /\ ReversalsOf(i)' = {lastId + 1}
           /\ docs[i].of = 0
<1> USE DEF BooksInv, NewMirror
<1>0. docs[i].of = 0 /\ i # 0 /\ i \in DOMAIN docs /\ docs[i].amount \in Int
  BY OriginalsOnly, NextIsFree DEF BooksTyped, Doc
<1>1. /\ DOMAIN docs' = DOMAIN docs \cup {lastId + 1}
      /\ docs'[lastId + 1] = Mirror(i)
      /\ \A j \in DOMAIN docs : docs'[j] = docs[j]
  BY FileAdds
<1>2. Mirror(i).of = i /\ Mirror(i).amount = -docs[i].amount
  BY DEF Mirror
<1>3. /\ \A j \in DOMAIN docs \ {i} : ReversalsOf(j)' = ReversalsOf(j)
      /\ ReversalsOf(i)' = {lastId + 1}
  BY <1>1, <1>2, NextIsFree DEF ReversalsOf
<1>4. CorrectionsNegative'
  BY <1>0, <1>1, <1>2 DEF CorrectionsNegative
<1>5. \A j \in DOMAIN docs : Mirror(j) = MirrorOf(docs'[j], j)
  BY <1>1 DEF Mirror, MirrorOf
<1>6. \A j \in DOMAIN docs : docs[j].of # i
  BY DEF ReversalsOf
<1>7. ReversedOnce'
  <2> SUFFICES ASSUME NEW j \in DOMAIN docs', NEW k \in DOMAIN docs'
               PROVE  /\ docs'[j].of # 0 =>
                            /\ docs'[j].of \in DOMAIN docs'
                            /\ docs'[docs'[j].of].of = 0
                            /\ docs'[j] = MirrorOf(docs'[docs'[j].of], docs'[j].of)
                      /\ docs'[j].of # 0 /\ docs'[j].of = docs'[k].of => j = k
    BY DEF ReversedOnce, Mirror, MirrorOf
  <2>1. CASE j = lastId + 1
    BY <2>1, <1>0, <1>1, <1>2, <1>5, <1>6
  <2>2. CASE j \in DOMAIN docs
    BY <2>2, <1>0, <1>1, <1>2, <1>5, <1>6 DEF ReversedOnce
  <2> QED BY <2>1, <2>2, <1>1
<1> QED BY <1>0, <1>3, <1>4, <1>7

\* Deleting a customer takes documents away with their reversals, so what is left is
\* paired as before.
LEMMA MirrorsAfterRemoval ==
    ASSUME BooksInv, Removal
    PROVE  /\ ReversedOnce' /\ CorrectionsNegative'
           /\ \A i \in DOMAIN docs' : ReversalsOf(i)' = ReversalsOf(i)
           /\ \A i \in DOMAIN docs' : i \in DOMAIN docs /\ docs'[i] = docs[i]
<1> USE DEF BooksInv
<1> PICK c : docs' = [i \in DOMAIN docs \ Ledger(c) |-> docs[i]]
  BY DEF Removal
<1>1. \A i \in DOMAIN docs' : i \in DOMAIN docs /\ docs'[i] = docs[i]
  OBVIOUS
<1>2. \A i \in DOMAIN docs : i \in DOMAIN docs' <=> docs[i].who # c
  BY DEF Ledger
<1>3. \A i \in DOMAIN docs : docs[i].of # 0 => docs[docs[i].of].who = docs[i].who
  BY DEF ReversedOnce, Mirror
<1>4. \A i \in DOMAIN docs' : ReversalsOf(i)' = ReversalsOf(i)
  BY <1>1, <1>2, <1>3, NextIsFree DEF ReversalsOf
<1>5. CorrectionsNegative'
  BY <1>1 DEF CorrectionsNegative
<1>6. \A i \in DOMAIN docs' : Mirror(i)' = Mirror(i)
  BY <1>1 DEF Mirror
<1>7. ReversedOnce'
  BY <1>1, <1>2, <1>3, <1>6 DEF ReversedOnce
<1> QED BY <1>1, <1>4, <1>5, <1>7

----------------------------------------------------------------------------
(* Money. *)

\* MoneyFollowsDocuments for one document.
Told(i) ==
    IF docs[i].kind = "debt" \/ docs[i].of # 0
    THEN MovesFor(i) = {}
    ELSE \E n \in MovesFor(i) :
            /\ moves[n].amount = Signed(docs[i].kind, docs[i].amount)
            /\ IF ReversalsOf(i) = {}
               THEN MovesFor(i) = {n}
               ELSE \E m \in MovesFor(i) :
                       /\ n < m
                       /\ moves[m].amount = -moves[n].amount
                       /\ MovesFor(i) = {n, m}

\* The invariant of the money is a fact of each document by itself.
LEMMA MoneyIsTold == MoneyFollowsDocuments <=> \A i \in DOMAIN docs : Told(i)
BY DEF MoneyFollowsDocuments, Told

\* A document whose row, movements and corrections are as before is told as
\* before.
LEMMA ToldStays ==
    ASSUME NEW i, Told(i),
           docs'[i] = docs[i],
           MovesFor(i)' = MovesFor(i),
           \A n \in MovesFor(i) : moves'[n] = moves[n],
           ReversalsOf(i)' = ReversalsOf(i)
    PROVE  Told(i)'
BY DEF Told

\* One movement more belongs to the document it names and to no other.
LEMMA OneMoreMove ==
    ASSUME NEW s, NEW i, NEW a, moves \in Seq(Move), BookMove(s, i, a)
    PROVE  /\ MovesFor(i)' = MovesFor(i) \cup {Len(moves) + 1}
           /\ \A j : j # i => MovesFor(j)' = MovesFor(j)
           /\ moves'[Len(moves) + 1].amount = a
           /\ \A n \in DOMAIN moves : n < Len(moves) + 1 /\ moves'[n] = moves[n]
<1>1. /\ DOMAIN moves' = DOMAIN moves \cup {Len(moves) + 1}
      /\ \A n \in DOMAIN moves : n < Len(moves) + 1 /\ moves'[n] = moves[n]
      /\ moves'[Len(moves) + 1] = [session |-> s, doc |-> i, amount |-> a]
  BY DEF BookMove, Move
<1>2. moves'[Len(moves) + 1].doc = i /\ moves'[Len(moves) + 1].amount = a
  BY <1>1
<1>3. \A j : MovesFor(j)' = {n \in DOMAIN moves \cup {Len(moves) + 1} : moves'[n].doc = j}
  BY <1>1 DEF MovesFor
<1>4. \A j : MovesFor(j)' = MovesFor(j) \cup {n \in {Len(moves) + 1} : moves'[n].doc = j}
  BY <1>1, <1>3 DEF MovesFor
<1> QED BY <1>1, <1>2, <1>4

\* What a document moves is an amount of money.
LEMMA SignedIsAmount ==
    ASSUME NEW kind, NEW amount \in Int
    PROVE  Signed(kind, amount) \in Int
BY DEF Signed

\* A debt leaves the drawer as it was.
LEMMA MoneyAfterSilentOriginal ==
    ASSUME BooksInv, NEW row, NewOriginal(row), row.kind = "debt", moves' = moves
    PROVE  MoneyFollowsDocuments'
<1>1. \A i \in DOMAIN docs : Told(i)'
  <2> TAKE i \in DOMAIN docs
  <2>1. Told(i)
    BY MoneyIsTold DEF BooksInv
  <2>2. docs'[i] = docs[i] /\ ReversalsOf(i)' = ReversalsOf(i)
    BY FileAdds, MirrorsAfterOriginal DEF BooksInv, NewOriginal
  <2> QED BY <2>1, <2>2, ToldStays DEF MovesFor
<1>3. MovesFor(lastId + 1) = {}
  BY NextIsFree DEF MovesFor, BooksInv
<1>4. \A i \in DOMAIN docs' \ DOMAIN docs : i = lastId + 1 /\ docs'[i].kind = "debt"
  BY FileAdds DEF BooksInv, NewOriginal
<1>5. \A i \in DOMAIN docs' \ DOMAIN docs : MovesFor(i)' = {}
  BY <1>3, <1>4 DEF MovesFor
<1>6. \A i \in DOMAIN docs' \ DOMAIN docs : Told(i)'
  BY <1>4, <1>5 DEF Told
<1>7. \A i \in DOMAIN docs' : Told(i)'
  BY <1>1, <1>6
<1> QED BY <1>7 DEF MoneyFollowsDocuments, Told

\* A document with cash gets the one movement its amount asks for.
LEMMA MoneyAfterCashOriginal ==
    ASSUME BooksInv, NEW row, NewOriginal(row), row.kind # "debt",
           NEW s, BookMove(s, lastId + 1, Signed(row.kind, row.amount))
    PROVE  MoneyFollowsDocuments'
<1>0. moves \in Seq(Move)
  BY DEF BooksInv, BooksTyped
<1>1. \A i \in DOMAIN docs : Told(i)'
  <2> TAKE i \in DOMAIN docs
  <2>1. Told(i)
    BY MoneyIsTold DEF BooksInv
  <2>2. docs'[i] = docs[i] /\ ReversalsOf(i)' = ReversalsOf(i) /\ i # lastId + 1
    BY FileAdds, NextIsFree, MirrorsAfterOriginal DEF BooksInv, NewOriginal
  <2>3. MovesFor(i)' = MovesFor(i) /\ \A n \in DOMAIN moves : moves'[n] = moves[n]
    BY <1>0, <2>2, OneMoreMove
  <2> QED BY <2>1, <2>2, <2>3, ToldStays DEF MovesFor
<1>2. MovesFor(lastId + 1) = {}
  BY NextIsFree DEF MovesFor, BooksInv
<1>3. \A i \in DOMAIN docs' \ DOMAIN docs :
         /\ i = lastId + 1
         /\ docs'[i] = row
         /\ ReversalsOf(i)' = {}
  BY FileAdds, MirrorsAfterOriginal DEF BooksInv, NewOriginal
<1>4. ASSUME NEW i \in DOMAIN docs' \ DOMAIN docs
      PROVE  Told(i)'
  <2>1. MovesFor(i)' = {Len(moves) + 1}
    BY <1>0, <1>2, <1>3, OneMoreMove
  <2>2. moves'[Len(moves) + 1].amount = Signed(row.kind, row.amount)
    BY <1>0, OneMoreMove
  <2>3. Signed(docs[i].kind, docs[i].amount)' = Signed(row.kind, row.amount)
    BY <1>3 DEF Signed
  <2>4. row.of = 0
    BY DEF NewOriginal
  <2> QED BY <1>3, <2>1, <2>2, <2>3, <2>4 DEF Told
<1>5. \A i \in DOMAIN docs' : Told(i)'
  BY <1>1, <1>4
<1> QED BY <1>5 DEF MoneyFollowsDocuments, Told

\* A correction has no movement of its own, and leaves every other document
\* as it was told.
LEMMA OthersAfterMirror ==
    ASSUME BooksInv, NEW i, NewMirror(i),
           \A j : j # i => MovesFor(j)' = MovesFor(j),
           \A n \in DOMAIN moves : moves'[n] = moves[n]
    PROVE  \A j \in DOMAIN docs' \ {i} : Told(j)'
<1>1. ASSUME NEW j \in DOMAIN docs \ {i}
      PROVE  Told(j)'
  <2>1. Told(j)
    BY MoneyIsTold DEF BooksInv
  <2>2. docs'[j] = docs[j] /\ ReversalsOf(j)' = ReversalsOf(j)
    BY FileAdds, MirrorsAfterMirror DEF BooksInv, NewMirror
  <2>3. MovesFor(j)' = MovesFor(j) /\ \A n \in MovesFor(j) : moves'[n] = moves[n]
    BY DEF MovesFor
  <2> QED BY <2>1, <2>2, <2>3, ToldStays
<1>2. MovesFor(lastId + 1) = {}
  BY NextIsFree DEF MovesFor, BooksInv
<1>3. ASSUME NEW j \in DOMAIN docs' \ DOMAIN docs
      PROVE  Told(j)'
  <2>1. j = lastId + 1 /\ docs'[j].of = i /\ i # 0 /\ j # i
    BY FileAdds, NextIsFree DEF BooksInv, NewMirror, Mirror
  <2>2. MovesFor(j)' = {}
    BY <2>1, <1>2
  <2> QED BY <2>1, <2>2 DEF Told
<1> QED BY <1>1, <1>3

\* Reversing a debt leaves the drawer as it was.
LEMMA MoneyAfterSilentMirror ==
    ASSUME BooksInv, NEW i, NewMirror(i), docs[i].kind = "debt", moves' = moves
    PROVE  MoneyFollowsDocuments'
<1>1. \A j : MovesFor(j)' = MovesFor(j)
  BY DEF MovesFor
<1>2. \A j \in DOMAIN docs' \ {i} : Told(j)'
  BY <1>1, OthersAfterMirror
<1>3. i \in DOMAIN docs /\ docs'[i] = docs[i]
  BY FileAdds DEF BooksInv, NewMirror
<1>4. MovesFor(i) = {}
  BY <1>3 DEF BooksInv, MoneyFollowsDocuments
<1>5. Told(i)'
  BY <1>1, <1>3, <1>4 DEF Told
<1>6. \A j \in DOMAIN docs' : Told(j)'
  BY <1>2, <1>5
<1> QED BY <1>6 DEF MoneyFollowsDocuments, Told

\* Reversing a document with cash books the opposite of its movement, after it.
LEMMA MoneyAfterCashMirror ==
    ASSUME BooksInv, NEW i, NewMirror(i), docs[i].kind # "debt",
           NEW s, BookMove(s, i, -Signed(docs[i].kind, docs[i].amount))
    PROVE  MoneyFollowsDocuments'
<1>0. moves \in Seq(Move)
  BY DEF BooksInv, BooksTyped
<1>1. /\ MovesFor(i)' = MovesFor(i) \cup {Len(moves) + 1}
      /\ \A j : j # i => MovesFor(j)' = MovesFor(j)
      /\ moves'[Len(moves) + 1].amount = -Signed(docs[i].kind, docs[i].amount)
      /\ \A n \in DOMAIN moves : n < Len(moves) + 1 /\ moves'[n] = moves[n]
  BY <1>0, OneMoreMove
<1>2. \A j \in DOMAIN docs' \ {i} : Told(j)'
  BY <1>1, OthersAfterMirror
<1>3. i \in DOMAIN docs /\ docs'[i] = docs[i] /\ docs[i].of = 0
  BY FileAdds, MirrorsAfterMirror DEF BooksInv, NewMirror
<1>4. ReversalsOf(i) = {} /\ ReversalsOf(i)' # {}
  BY MirrorsAfterMirror DEF NewMirror
<1>5. PICK n \in MovesFor(i) :
         /\ moves[n].amount = Signed(docs[i].kind, docs[i].amount)
         /\ MovesFor(i) = {n}
  BY <1>3, <1>4 DEF BooksInv, MoneyFollowsDocuments
<1>6. n \in DOMAIN moves
  BY DEF MovesFor
<1>7. /\ n < Len(moves) + 1
      /\ moves'[Len(moves) + 1].amount = -moves'[n].amount
      /\ MovesFor(i)' = {n, Len(moves) + 1}
  BY <1>1, <1>5, <1>6
<1>8. moves'[n].amount = Signed(docs'[i].kind, docs'[i].amount)
  BY <1>1, <1>3, <1>5, <1>6
<1>9. Told(i)'
  <2> DEFINE m == Len(moves) + 1
  <2>1. n < m /\ moves'[m].amount = -moves'[n].amount /\ MovesFor(i)' = {n, m}
    BY <1>7
  <2> HIDE DEF m
  <2>2. docs'[i].kind # "debt" /\ docs'[i].of = 0
    BY <1>3
  <2> QED BY <2>1, <2>2, <1>4, <1>8 DEF Told, Signed
<1>10. \A j \in DOMAIN docs' : Told(j)'
  BY <1>2, <1>9
<1> QED BY <1>10 DEF MoneyFollowsDocuments, Told

\* Deleting a customer leaves the drawer, and the documents that stay keep their movements.
LEMMA MoneyAfterRemoval ==
    ASSUME BooksInv, Removal, moves' = moves
    PROVE  MoneyFollowsDocuments'
<1>1. ASSUME NEW i \in DOMAIN docs'
      PROVE  Told(i)'
  <2>1. i \in DOMAIN docs /\ docs'[i] = docs[i] /\ ReversalsOf(i)' = ReversalsOf(i)
    BY MirrorsAfterRemoval
  <2>2. Told(i)
    BY <2>1, MoneyIsTold DEF BooksInv
  <2> QED BY <2>1, <2>2, ToldStays DEF MovesFor
<1> QED BY <1>1 DEF MoneyFollowsDocuments, Told

----------------------------------------------------------------------------
(* Which way each action writes. *)

\* The operations that file a document with its movement file one and book it.
LEMMA FilesWithCash ==
    ASSUME BooksTyped, NEW s \in Days, NEW who \in Customers \cup {NoOne}, NEW amount \in Amounts,
           NEW kind \in CashKinds, FileWithCash(s, kind, who, amount),
           shelf' = shelf - Goods(kind), shelf' \in Nat
    PROVE  Files
<1> DEFINE row == NewRow(kind, who, amount)
<1>1. row \in Doc /\ row.kind = kind /\ row.of = 0 /\ row.amount = amount
  BY ShopAssumption DEF NewRow, Doc, Kinds
<1>2. NewOriginal(row)
  BY <1>1 DEF FileWithCash, NewOriginal
<1>3. Booked(lastId + 1, kind, amount)
  BY DEF Booked, FileWithCash, CashKinds
<1>4. Booked(lastId + 1, row.kind, row.amount)
  BY <1>1, <1>3
<1>5. shelf' = shelf - Goods(row.kind)
  BY <1>1
<1> QED BY <1>2, <1>4, <1>5 DEF Files

\* The opposite amount moves the opposite money.
LEMMA SignedIsOdd ==
    ASSUME NEW kind, NEW amount \in Int
    PROVE  Signed(kind, -amount) = -Signed(kind, amount)
BY DEF Signed

\* The operations that reverse a document with its movement mirror it and book it back.
LEMMA MirrorsWithCash ==
    ASSUME BooksTyped, NEW s \in Days, NEW i, NEW kind \in CashKinds,
           ReverseWithCash(s, i, kind),
           shelf' = shelf + Goods(kind)
    PROVE  Mirrors
<1>1. NewMirror(i) /\ docs[i].kind = kind /\ docs[i].amount \in Int
  BY DEF ReverseWithCash, NewMirror, BooksTyped, Doc
<1>2. BookMove(s, i, -Signed(kind, docs[i].amount)) /\ IsOpen(s)
  BY DEF ReverseWithCash
<1>3. -Signed(kind, docs[i].amount) = Signed(kind, -docs[i].amount)
  BY <1>1, SignedIsOdd
<1>4. BookMove(s, i, Signed(kind, -docs[i].amount))
  BY <1>2, <1>3
<1>5. Booked(i, docs[i].kind, -docs[i].amount)
  BY <1>1, <1>2, <1>4 DEF Booked, CashKinds
<1> QED BY <1>1, <1>5 DEF Mirrors

\* Every step files one original, mirrors one document, deletes a ledger, or leaves the
\* books alone.
LEMMA EveryWay ==
    ASSUME BooksTyped, [Next]_vars
    PROVE  Files \/ Mirrors \/ Removes \/ Rests
<1>0. shelf \in Nat /\ lastId \in Nat
  BY NextIsFree DEF BooksTyped
<1>a. Goods("sale") = 1 /\ Goods("debt") = 1 /\ Goods("payment") = 0 /\ Goods("expense") = 0
      /\ Goods("drawing") = 0
  BY DEF Goods
<1>1. CASE Record
  <2>1. ASSUME NEW c \in Customers, NEW a \in DebtAmounts, RecordDebt(c, a)
        PROVE  Files
    <3> DEFINE row == NewRow("debt", c, a)
    <3>1. row \in Doc /\ row.kind = "debt" /\ row.of = 0
      BY ShopAssumption DEF NewRow, Doc, Kinds
    <3>2. NewOriginal(row) /\ shelf' = shelf - 1 /\ shelf' \in Nat /\ moves' = moves
      BY <2>1, <3>1, <1>0 DEF RecordDebt, NewOriginal
    <3>3. Booked(lastId + 1, row.kind, row.amount)
      BY <3>1, <3>2 DEF Booked
    <3>4. shelf' = shelf - Goods(row.kind)
      BY <3>1, <3>2, <1>a
    <3> QED BY <3>2, <3>3, <3>4 DEF Files
  <2>2. ASSUME NEW d \in Days, NEW a \in Amounts, RecordSale(d, a)
        PROVE  Files
    <3>1. FileWithCash(d, "sale", NoOne, a) /\ shelf' = shelf - 1 /\ shelf' \in Nat
      BY <2>2, <1>0 DEF RecordSale
    <3>2. shelf' = shelf - Goods("sale")
      BY <3>1, <1>a
    <3> QED BY <3>1, <3>2, FilesWithCash DEF CashKinds
  <2>3. ASSUME NEW d \in Days, NEW a \in Amounts, NEW c \in Customers, RecordPayment(d, c, a)
        PROVE  Files
    BY <2>3, <1>0, <1>a, FilesWithCash DEF RecordPayment, CashKinds
  <2> QED BY <1>1, <2>1, <2>2, <2>3 DEF Record
<1>2. CASE DeskDay
  <2>1. ASSUME NEW f \in Floats, OpenSession(f) PROVE Rests
    BY <2>1 DEF OpenSession, Rests
  <2>2. ASSUME NEW d \in Days, CloseSession(d) PROVE Rests
    BY <2>2 DEF CloseSession, Rests
  <2>3. ASSUME NEW d \in Days, NEW a \in Amounts, RecordExpense(d, a) PROVE Files
    BY <2>3, <1>0, <1>a, FilesWithCash DEF RecordExpense, RecordEntry, CashKinds
  <2>4. ASSUME NEW d \in Days, NEW a \in Amounts, RecordDrawing(d, a) PROVE Files
    BY <2>4, <1>0, <1>a, FilesWithCash DEF RecordDrawing, RecordEntry, CashKinds
  <2>5. ASSUME NEW c \in Customers, AddCustomer(c) PROVE Rests
    BY <2>5 DEF AddCustomer, Rests
  <2> QED BY <1>2, <2>1, <2>2, <2>3, <2>4, <2>5 DEF DeskDay
<1>3. CASE Correct
  <2>1. ASSUME NEW i \in Ids, NEW c \in Customers, CancelDebt(c, i) PROVE Mirrors
    <3>1. NewMirror(i) /\ docs[i].kind = "debt" /\ shelf' = shelf + 1 /\ moves' = moves
      BY <2>1 DEF CancelDebt, ReverseDebt, NewMirror
    <3>2. Booked(i, docs[i].kind, -docs[i].amount) /\ Goods(docs[i].kind) = 1
      BY <3>1, <1>a DEF Booked
    <3> QED BY <3>1, <3>2 DEF Mirrors
  <2>2. ASSUME NEW i \in Ids, NEW d \in Days, ReverseSale(d, i) PROVE Mirrors
    BY <2>2, <1>0, <1>a, MirrorsWithCash DEF ReverseSale, CashKinds
  <2>3. ASSUME NEW i \in Ids, NEW d \in Days, RefundPayment(d, i) PROVE Mirrors
    BY <2>3, <1>0, <1>a, MirrorsWithCash DEF RefundPayment, CashKinds
  <2>4. ASSUME NEW i \in Ids, NEW d \in Days, ReverseExpense(d, i) PROVE Mirrors
    BY <2>4, <1>0, <1>a, MirrorsWithCash DEF ReverseExpense, CashKinds
  <2>5. ASSUME NEW i \in Ids, NEW d \in Days, ReverseDrawing(d, i) PROVE Mirrors
    BY <2>5, <1>0, <1>a, MirrorsWithCash DEF ReverseDrawing, CashKinds
  <2> QED BY <1>3, <2>1, <2>2, <2>3, <2>4, <2>5 DEF Correct
<1>4. CASE Dialogs
  <2>1. ASSUME NEW c \in Customers, AskDelete(c) \/ AskSettle(c) PROVE Rests
    BY <2>1 DEF AskDelete, AskSettle, Ask, Books, Rests
  <2>2. ASSUME ConfirmDelete PROVE Removes
    BY <2>2 DEF ConfirmDelete, Removes, Removal
  <2>3. ASSUME NEW d \in Days, NEW a \in Amounts, ConfirmSettle(d, a) PROVE Files
    <3>1. dialog.who \in Customers \cup {NoOne}
      BY DEF BooksTyped
    <3> QED BY <2>3, <3>1, <1>0, <1>a, FilesWithCash DEF ConfirmSettle, CashKinds
  <2>4. ASSUME CloseDialog PROVE Rests
    BY <2>4 DEF CloseDialog, Books, Rests
  <2> QED BY <1>4, <2>1, <2>2, <2>3, <2>4 DEF Dialogs
<1>5. CASE UNCHANGED vars
  BY <1>5 DEF vars, Rests
<1> QED BY <1>1, <1>2, <1>3, <1>4, <1>5 DEF Next

----------------------------------------------------------------------------
(* The inductive invariant. *)

\* What the drawer is booked, if anything, is one movement of an open day.
LEMMA BookedIsOneMove ==
    ASSUME BooksTyped, NEW i \in Ids, NEW kind, NEW amount \in Int, Booked(i, kind, amount)
    PROVE  \/ moves' = moves
           \/ \E s \in Days : /\ IsOpen(s)
                              /\ moves' = Append(moves, [session |-> s, doc |-> i,
                                                         amount |-> Signed(kind, amount)])
                              /\ [session |-> s, doc |-> i, amount |-> Signed(kind, amount)] \in Move
BY SignedIsAmount DEF Booked, BookMove, Move

\* A movement refers to a document that has a number.
LEMMA MovesTypedAfterBooking ==
    ASSUME BooksTyped, NEW i \in Ids, i <= lastId', lastId <= lastId', lastId' \in Nat,
           NEW kind, NEW amount \in Int, Booked(i, kind, amount)
    PROVE  moves' \in Seq(Move) /\ \A n \in DOMAIN moves' : moves'[n].doc <= lastId'
<1>0. moves \in Seq(Move) /\ lastId \in Nat /\ \A n \in DOMAIN moves : moves[n] \in Move
  BY NextIsFree DEF BooksTyped
<1>1. \A n \in DOMAIN moves : moves[n].doc <= lastId'
  BY <1>0 DEF BooksTyped, Move, Ids
<1>2. CASE moves' = moves
  BY <1>0, <1>1, <1>2
<1>3. CASE moves' # moves
  <2>0. PICK s \in Days :
           /\ moves' = Append(moves, [session |-> s, doc |-> i, amount |-> Signed(kind, amount)])
           /\ [session |-> s, doc |-> i, amount |-> Signed(kind, amount)] \in Move
    BY <1>3, BookedIsOneMove
  <2> DEFINE row == [session |-> s, doc |-> i, amount |-> Signed(kind, amount)]
  <2>1. row \in Move /\ moves' = Append(moves, row) /\ row.doc = i
    BY <2>0
  <2> HIDE DEF row
  <2>2. moves' \in Seq(Move)
    BY <1>0, <2>1
  <2>3. \A n \in DOMAIN moves' : (n \in DOMAIN moves /\ moves'[n] = moves[n]) \/ moves'[n] = row
    BY <1>0, <2>1
  <2>4. row.doc <= lastId'
    BY <2>1
  <2>5. \A n \in DOMAIN moves' : moves'[n].doc <= lastId'
    BY <1>1, <2>3, <2>4
  <2> QED BY <2>2, <2>5
<1> QED BY <1>2, <1>3

\* The part of BooksTyped the four ways can disturb.
RowsTyped ==
    /\ lastId \in 0..MaxDocs
    /\ DOMAIN docs \subseteq 1..lastId
    /\ \A i \in DOMAIN docs : docs[i] \in Doc
    /\ moves \in Seq(Move)
    /\ \A n \in DOMAIN moves : moves[n].doc <= lastId
    /\ shelf \in Nat

\* What a step of the books has to keep.
BooksKept == RowsTyped /\ ReversedOnce /\ CorrectionsNegative /\ MoneyFollowsDocuments

\* Filing a document keeps the books.
LEMMA FilesKeep ==
    ASSUME BooksInv, Files
    PROVE  BooksKept'
<1>1. PICK row : /\ NewOriginal(row)
                 /\ Booked(lastId + 1, row.kind, row.amount)
                 /\ shelf' \in Nat
  BY DEF Files
<1>2. row \in Doc /\ row.amount \in Int
  BY <1>1 DEF NewOriginal, Doc
<1>3. /\ DOMAIN docs' = DOMAIN docs \cup {lastId + 1}
      /\ docs'[lastId + 1] = row
      /\ \A i \in DOMAIN docs : docs'[i] = docs[i]
      /\ lastId' = lastId + 1
      /\ lastId' \in 0..MaxDocs
      /\ DOMAIN docs' \subseteq 1..lastId'
  BY <1>1, FileAdds DEF NewOriginal, BooksInv
<1>4. \A i \in DOMAIN docs' : docs'[i] \in Doc
  BY <1>2, <1>3 DEF BooksInv, BooksTyped
<1>5. lastId + 1 \in Ids /\ lastId + 1 <= lastId' /\ lastId <= lastId' /\ lastId' \in Nat
  BY <1>3, NextIsFree, ShopAssumption DEF BooksInv, Ids
<1>6. moves' \in Seq(Move) /\ \A n \in DOMAIN moves' : moves'[n].doc <= lastId'
  BY <1>1, <1>2, <1>5, MovesTypedAfterBooking DEF BooksInv
<1>7. RowsTyped'
  BY <1>1, <1>3, <1>4, <1>6 DEF RowsTyped
<1>8. ReversedOnce' /\ CorrectionsNegative'
  BY <1>1, MirrorsAfterOriginal
<1>9. MoneyFollowsDocuments'
  BY <1>1, MoneyAfterSilentOriginal, MoneyAfterCashOriginal DEF Booked
<1> QED BY <1>7, <1>8, <1>9 DEF BooksKept

\* Reversing a document keeps the books.
LEMMA MirrorsKeep ==
    ASSUME BooksInv, Mirrors
    PROVE  BooksKept'
<1>1. PICK i : /\ NewMirror(i)
               /\ Booked(i, docs[i].kind, -docs[i].amount)
               /\ shelf' = shelf + Goods(docs[i].kind)
  BY DEF Mirrors
<1>2. i \in DOMAIN docs /\ docs[i] \in Doc /\ docs[i].amount \in Int /\ docs[i].of = 0
  BY <1>1, OriginalsOnly DEF NewMirror, BooksInv, BooksTyped, Doc
<1>3. /\ DOMAIN docs' = DOMAIN docs \cup {lastId + 1}
      /\ docs'[lastId + 1] = Mirror(i)
      /\ \A j \in DOMAIN docs : docs'[j] = docs[j]
      /\ lastId' = lastId + 1
      /\ lastId' \in 0..MaxDocs
      /\ DOMAIN docs' \subseteq 1..lastId'
  BY <1>1, FileAdds DEF NewMirror, BooksInv
<1>4. i \in Ids /\ i <= lastId' /\ lastId <= lastId' /\ lastId' \in Nat /\ i \in 0..MaxDocs
  BY <1>2, <1>3, NextIsFree, ShopAssumption DEF BooksInv, Ids
<1>5. Mirror(i) \in Doc
  BY <1>2, <1>4 DEF Mirror, Doc
<1>6. \A j \in DOMAIN docs' : docs'[j] \in Doc
  BY <1>3, <1>5 DEF BooksInv, BooksTyped
<1>7. -docs[i].amount \in Int
  BY <1>2
<1>8. moves' \in Seq(Move) /\ \A n \in DOMAIN moves' : moves'[n].doc <= lastId'
  BY <1>1, <1>4, <1>7, MovesTypedAfterBooking DEF BooksInv
<1>9. shelf' \in Nat
  BY <1>1 DEF Goods, BooksInv, BooksTyped
<1>10. RowsTyped'
  BY <1>3, <1>6, <1>8, <1>9 DEF RowsTyped
<1>11. ReversedOnce' /\ CorrectionsNegative'
  BY <1>1, MirrorsAfterMirror
<1>12. Signed(docs[i].kind, -docs[i].amount) = -Signed(docs[i].kind, docs[i].amount)
  BY <1>2, SignedIsOdd
<1>13. MoneyFollowsDocuments'
  <2>1. CASE docs[i].kind = "debt"
    BY <1>1, <2>1, MoneyAfterSilentMirror DEF Booked
  <2>2. CASE docs[i].kind # "debt"
    <3>1. PICK s \in Days : BookMove(s, i, Signed(docs[i].kind, -docs[i].amount))
      BY <1>1, <2>2 DEF Booked
    <3>2. BookMove(s, i, -Signed(docs[i].kind, docs[i].amount))
      BY <3>1, <1>12
    <3> QED BY <1>1, <2>2, <3>2, MoneyAfterCashMirror
  <2> QED BY <2>1, <2>2
<1> QED BY <1>10, <1>11, <1>13 DEF BooksKept

\* Deleting a customer keeps the books.
LEMMA RemovesKeep ==
    ASSUME BooksInv, Removes
    PROVE  BooksKept'
<1>1. Removal /\ lastId' = lastId /\ moves' = moves /\ shelf' = shelf
  BY DEF Removes
<1>2. \A i \in DOMAIN docs' : i \in DOMAIN docs /\ docs'[i] = docs[i]
  BY <1>1, MirrorsAfterRemoval
<1>3. RowsTyped'
  BY <1>1, <1>2 DEF RowsTyped, BooksInv, BooksTyped
<1> QED BY <1>1, <1>3, MirrorsAfterRemoval, MoneyAfterRemoval DEF BooksKept

\* A step outside the books keeps them.
LEMMA RestsKeep ==
    ASSUME BooksInv, Rests
    PROVE  BooksKept'
<1>1. docs' = docs /\ lastId' = lastId /\ moves' = moves /\ shelf' = shelf
  BY DEF Rests
<1>2. RowsTyped'
  BY <1>1 DEF RowsTyped, BooksInv, BooksTyped
<1>3. ReversedOnce' /\ CorrectionsNegative'
  BY <1>1 DEF ReversedOnce, CorrectionsNegative, Mirror, BooksInv
<1>4. MoneyFollowsDocuments'
  BY <1>1 DEF BooksInv, MoneyFollowsDocuments, MovesFor, ReversalsOf, Signed
<1> QED BY <1>2, <1>3, <1>4 DEF BooksKept

----------------------------------------------------------------------------
(* The days. *)

\* The part of BooksTyped that follows the days and the operator's dialog.
DaysTyped ==
    /\ sessions \in Seq(Session)
    /\ customers \subseteq Customers
    /\ DOMAIN expected = {s \in DOMAIN sessions : ~IsOpen(s)}
    /\ dialog.who \in Customers \cup {NoOne}

\* What a step may do to the days: nothing, open one, or close one.
Opens == \E f \in Floats :
    /\ \A s \in DOMAIN sessions : ~IsOpen(s)
    /\ sessions' = Append(sessions, [float |-> f, status |-> "open"])
    /\ UNCHANGED <<expected, moves>>
\* A session is closed.
Closes == \E s : CloseSession(s)
SameDays == UNCHANGED <<sessions, expected>>

\* Every step opens a session, closes one, or leaves all of them alone.
LEMMA EveryDay ==
    ASSUME [Next]_vars
    PROVE  Opens \/ Closes \/ SameDays
<1>1. CASE Record
  BY <1>1 DEF Record, RecordDebt, RecordSale, RecordPayment, SameDays
<1>2. CASE DeskDay
  <2>1. ASSUME NEW f \in Floats, OpenSession(f) PROVE Opens
    BY <2>1 DEF OpenSession, Opens
  <2>2. ASSUME NEW s, CloseSession(s) PROVE Closes
    BY <2>2 DEF Closes
  <2>3. ASSUME NEW d \in Days, NEW a \in Amounts, RecordExpense(d, a) \/ RecordDrawing(d, a)
        PROVE  SameDays
    BY <2>3 DEF RecordExpense, RecordDrawing, RecordEntry, SameDays
  <2>4. ASSUME NEW c \in Customers, AddCustomer(c) PROVE SameDays
    BY <2>4 DEF AddCustomer, SameDays
  <2> QED BY <1>2, <2>1, <2>2, <2>3, <2>4 DEF DeskDay
<1>3. CASE Correct
  BY <1>3 DEF Correct, CancelDebt, ReverseDebt, ReverseSale, RefundPayment, ReverseExpense,
              ReverseDrawing, SameDays
<1>4. CASE Dialogs
  BY <1>4 DEF Dialogs, AskDelete, AskSettle, Ask, ConfirmDelete, ConfirmSettle, CloseDialog,
              Books, SameDays
<1>5. CASE UNCHANGED vars
  BY <1>5 DEF vars, SameDays
<1> QED BY <1>1, <1>2, <1>3, <1>4, <1>5 DEF Next

\* After a step a day is open or closed as this says.
LEMMA DaysMove ==
    ASSUME BooksTyped, [Next]_vars
    PROVE  /\ sessions' \in Seq(Session)
           /\ DOMAIN expected' = {s \in DOMAIN sessions' : ~IsOpen(s)'}
           /\ \A s \in DOMAIN sessions :
                 /\ s \in DOMAIN sessions'
                 /\ ~IsOpen(s) => /\ ~IsOpen(s)'
                                  /\ sessions'[s] = sessions[s]
                                  /\ expected'[s] = expected[s]
           /\ \A s \in DOMAIN sessions' \ DOMAIN sessions :
                 \A t \in DOMAIN sessions' \ {s} : ~IsOpen(t)'
<1>0. sessions \in Seq(Session) /\ DOMAIN expected = {s \in DOMAIN sessions : ~IsOpen(s)}
  BY DEF BooksTyped
<1>1. CASE Opens
  <2>1. PICK f \in Floats :
           /\ \A s \in DOMAIN sessions : ~IsOpen(s)
           /\ sessions' = Append(sessions, [float |-> f, status |-> "open"])
           /\ expected' = expected
    BY <1>1 DEF Opens
  <2>2. [float |-> f, status |-> "open"] \in Session
    BY DEF Session
  <2>3. /\ sessions' \in Seq(Session)
        /\ DOMAIN sessions' = DOMAIN sessions \cup {Len(sessions) + 1}
        /\ Len(sessions) + 1 \notin DOMAIN sessions
        /\ \A s \in DOMAIN sessions : sessions'[s] = sessions[s]
        /\ sessions'[Len(sessions) + 1] = [float |-> f, status |-> "open"]
    BY <1>0, <2>1, <2>2
  <2>4. \A s \in DOMAIN sessions : ~IsOpen(s)'
    BY <2>1, <2>3 DEF IsOpen
  <2>5. \A s \in DOMAIN sessions' \ DOMAIN sessions : IsOpen(s)' /\ s = Len(sessions) + 1
    BY <2>3 DEF IsOpen
  <2> QED BY <1>0, <2>1, <2>3, <2>4, <2>5
<1>2. CASE Closes
  <2>1. PICK d : CloseSession(d)
    BY <1>2 DEF Closes
  <2>2. /\ d \in DOMAIN sessions /\ IsOpen(d)
        /\ sessions' = [sessions EXCEPT ![d] = [float |-> sessions[d].float, status |-> "closed"]]
        /\ DOMAIN expected' = DOMAIN expected \cup {d}
        /\ \A s \in DOMAIN expected \ {d} : expected'[s] = expected[s]
    BY <2>1 DEF CloseSession, IsOpen
  <2>3. sessions[d] \in Session
    BY <1>0, <2>2
  <2>4. [float |-> sessions[d].float, status |-> "closed"] \in Session
    BY <2>3 DEF Session
  <2>5. /\ sessions' \in Seq(Session)
        /\ DOMAIN sessions' = DOMAIN sessions
        /\ \A s \in DOMAIN sessions \ {d} : sessions'[s] = sessions[s]
        /\ sessions'[d].status = "closed"
    BY <1>0, <2>2, <2>4
  <2>6. \A s \in DOMAIN sessions : IsOpen(s)' <=> IsOpen(s) /\ s # d
    BY <2>5 DEF IsOpen
  <2> QED BY <1>0, <2>2, <2>5, <2>6
<1>3. CASE SameDays
  BY <1>0, <1>3 DEF SameDays, IsOpen
<1> QED BY <1>1, <1>2, <1>3, EveryDay

\* Every step keeps the sessions typed, with a sum expected for each closed one.
LEMMA DaysKeep ==
    ASSUME BooksTyped, [Next]_vars
    PROVE  DaysTyped'
<1>1. customers' \subseteq Customers /\ dialog'.who \in Customers \cup {NoOne}
  <2>0. customers \subseteq Customers /\ dialog.who \in Customers \cup {NoOne} /\ NoDialog.who = NoOne
    BY DEF BooksTyped, NoDialog
  <2>1. CASE Record
    BY <2>0, <2>1 DEF Record, RecordDebt, RecordSale, RecordPayment
  <2>2. CASE DeskDay
    BY <2>0, <2>2 DEF DeskDay, OpenSession, CloseSession, RecordExpense, RecordDrawing, RecordEntry,
                        AddCustomer
  <2>3. CASE Correct
    BY <2>0, <2>3 DEF Correct, CancelDebt, ReverseDebt, ReverseSale, RefundPayment, ReverseExpense,
                        ReverseDrawing
  <2>4. CASE Dialogs
    <3>1. ASSUME NEW c \in Customers, AskDelete(c) \/ AskSettle(c)
          PROVE  customers' = customers /\ dialog'.who = c
      BY <3>1 DEF AskDelete, AskSettle, Ask, Books
    <3>2. ASSUME ConfirmDelete \/ CloseDialog \/ \E s \in Days, a \in Amounts : ConfirmSettle(s, a)
          PROVE  customers' \subseteq customers /\ dialog' = NoDialog
      BY <3>2 DEF ConfirmDelete, CloseDialog, ConfirmSettle, Books
    <3> QED BY <2>0, <2>4, <3>1, <3>2 DEF Dialogs
  <2>5. CASE UNCHANGED vars
    BY <2>0, <2>5 DEF vars
  <2> QED BY <2>1, <2>2, <2>3, <2>4, <2>5 DEF Next
<1> QED BY <1>1, DaysMove DEF DaysTyped

----------------------------------------------------------------------------
(* The shelf. *)

\* Only finitely many documents are filed.
LEMMA RowsFinite ==
    ASSUME BooksTyped
    PROVE  IsFiniteSet(DOMAIN docs) /\ IsFiniteSet(Standing)
<1>1. IsFiniteSet(1..lastId)
  BY FS_Interval, NextIsFree
<1>2. IsFiniteSet(DOMAIN docs)
  BY <1>1, FS_Subset DEF BooksTyped
<1> QED BY <1>2, FS_Subset DEF Standing

\* Every step keeps the shelf in step with the standing documents.
LEMMA GoodsKept ==
    ASSUME BooksInv, NoGoodsFromNowhere, [Next]_vars
    PROVE  NoGoodsFromNowhere'
<1>0. shelf \in Nat /\ ShelfStock \in Nat /\ IsFiniteSet(Standing) /\ Cardinality(Standing) \in Nat
  BY ShopAssumption, RowsFinite, FS_CardinalityType DEF BooksInv, BooksTyped
<1>1. CASE Files
  <2>1. PICK row : NewOriginal(row) /\ shelf' = shelf - Goods(row.kind)
    BY <1>1 DEF Files
  <2>2. /\ lastId + 1 \notin DOMAIN docs
        /\ DOMAIN docs' = DOMAIN docs \cup {lastId + 1}
        /\ docs'[lastId + 1] = row
        /\ \A i \in DOMAIN docs : docs'[i] = docs[i]
        /\ row.of = 0
    BY <2>1, NextIsFree, FileAdds DEF BooksInv, NewOriginal
  <2>3. /\ \A i \in DOMAIN docs : ReversalsOf(i)' = ReversalsOf(i)
        /\ \A i \in DOMAIN docs' \ DOMAIN docs : ReversalsOf(i)' = {}
    BY <2>1, MirrorsAfterOriginal
  <2>4. CASE row.kind \in {"sale", "debt"}
    <3>1. Standing' = Standing \cup {lastId + 1} /\ lastId + 1 \notin Standing
      BY <2>2, <2>3, <2>4 DEF Standing
    <3>2. Cardinality(Standing') = Cardinality(Standing) + 1
      BY <1>0, <3>1, FS_AddElement
    <3>3. shelf' = shelf - 1
      BY <2>1, <2>4 DEF Goods
    <3> QED BY <1>0, <3>2, <3>3 DEF NoGoodsFromNowhere
  <2>5. CASE row.kind \notin {"sale", "debt"}
    <3>1. Standing' = Standing
      BY <2>2, <2>3, <2>5 DEF Standing
    <3>2. shelf' = shelf
      BY <1>0, <2>1, <2>5 DEF Goods
    <3> QED BY <1>0, <3>1, <3>2 DEF NoGoodsFromNowhere
  <2> QED BY <2>4, <2>5
<1>2. CASE Mirrors
  <2>1. PICK i : NewMirror(i) /\ shelf' = shelf + Goods(docs[i].kind)
    BY <1>2 DEF Mirrors
  <2>2. /\ lastId + 1 \notin DOMAIN docs
        /\ DOMAIN docs' = DOMAIN docs \cup {lastId + 1}
        /\ docs'[lastId + 1] = Mirror(i)
        /\ \A j \in DOMAIN docs : docs'[j] = docs[j]
        /\ i \in DOMAIN docs /\ i # 0 /\ ReversalsOf(i) = {}
    BY <2>1, NextIsFree, FileAdds DEF BooksInv, NewMirror
  <2>3. /\ \A j \in DOMAIN docs \ {i} : ReversalsOf(j)' = ReversalsOf(j)
        /\ ReversalsOf(i)' # {}
        /\ docs[i].of = 0
    BY <2>1, MirrorsAfterMirror
  <2>4. docs'[lastId + 1].of = i
    BY <2>2 DEF Mirror
  <2>5. Standing' = Standing \ {i}
    BY <2>2, <2>3, <2>4 DEF Standing
  <2>6. CASE docs[i].kind \in {"sale", "debt"}
    <3>1. i \in Standing
      BY <2>2, <2>3, <2>6 DEF Standing
    <3>2. Cardinality(Standing') = Cardinality(Standing) - 1
      BY <1>0, <2>5, <3>1, FS_RemoveElement
    <3>3. shelf' = shelf + 1
      BY <2>1, <2>6 DEF Goods
    <3> QED BY <1>0, <3>2, <3>3 DEF NoGoodsFromNowhere
  <2>7. CASE docs[i].kind \notin {"sale", "debt"}
    <3>1. Standing' = Standing
      BY <2>5, <2>7 DEF Standing
    <3>2. shelf' = shelf
      BY <1>0, <2>1, <2>7 DEF Goods
    <3> QED BY <1>0, <3>1, <3>2 DEF NoGoodsFromNowhere
  <2> QED BY <2>6, <2>7
<1>3. CASE Removes
  <2>1. /\ \A i \in DOMAIN docs' : ReversalsOf(i)' = ReversalsOf(i)
        /\ \A i \in DOMAIN docs' : i \in DOMAIN docs /\ docs'[i] = docs[i]
    BY <1>3, MirrorsAfterRemoval DEF Removes
  <2>2. Standing' \subseteq Standing
    BY <2>1 DEF Standing
  <2>3. Cardinality(Standing') <= Cardinality(Standing) /\ Cardinality(Standing') \in Nat
    BY <1>0, <2>2, FS_Subset, FS_CardinalityType
  <2> QED BY <1>0, <1>3, <2>3 DEF Removes, NoGoodsFromNowhere
<1>4. CASE Rests
  BY <1>4 DEF Rests, NoGoodsFromNowhere, Standing, ReversalsOf
<1> QED BY <1>1, <1>2, <1>3, <1>4, EveryWay DEF BooksInv

----------------------------------------------------------------------------
(* The theorems. *)

\* The invariant holds of empty books.
LEMMA InvInit == Init => BooksInv /\ OneOpenSession /\ NoGoodsFromNowhere
<1> SUFFICES ASSUME Init PROVE BooksInv /\ OneOpenSession /\ NoGoodsFromNowhere
  OBVIOUS
<1>1. DOMAIN docs = {} /\ DOMAIN moves = {} /\ DOMAIN sessions = {} /\ DOMAIN expected = {}
  BY DEF Init
<1>2. /\ sessions \in Seq(Session) /\ moves \in Seq(Move)
      /\ lastId = 0 /\ shelf = ShelfStock /\ customers = Customers /\ dialog.who = NoOne
  BY DEF Init, NoDialog
<1>3. BooksTyped
  BY <1>1, <1>2, ShopAssumption DEF BooksTyped
<1>4. ReversedOnce /\ CorrectionsNegative /\ MoneyFollowsDocuments
  BY <1>1 DEF ReversedOnce, CorrectionsNegative, MoneyFollowsDocuments
<1>5. Cardinality(Standing) = 0
  BY <1>1, FS_EmptySet DEF Standing
<1> QED BY <1>1, <1>2, <1>3, <1>4, <1>5, ShopAssumption
        DEF BooksInv, OneOpenSession, NoGoodsFromNowhere

\* Every step keeps the invariant.
LEMMA InvNext == BooksInv /\ [Next]_vars => BooksInv'
<1> SUFFICES ASSUME BooksInv, [Next]_vars PROVE BooksInv'
  OBVIOUS
<1>1. BooksKept'
  BY EveryWay, FilesKeep, MirrorsKeep, RemovesKeep, RestsKeep DEF BooksInv
<1>2. DaysTyped'
  BY DaysKeep DEF BooksInv
<1> QED BY <1>1, <1>2 DEF BooksInv, BooksTyped, BooksKept, RowsTyped, DaysTyped

\* The inductive invariant of the books: well-typed rows, each correction the
\* one mirror of its original, and the movements of the drawer that go with
\* them.
THEOREM BooksCorrect == Spec => []BooksInv
BY InvInit, InvNext, PTL DEF Spec

\* The rows, the movements, the shelf and the days stay in their sets.
THEOREM BooksTypedCorrect == Spec => []BooksTyped
<1>1. BooksInv => BooksTyped
  BY DEF BooksInv
<1> QED BY <1>1, BooksCorrect, PTL

\* No document is corrected twice, and every correction mirrors an original
\* that is on file.
THEOREM ReversedOnceCorrect == Spec => []ReversedOnce
<1>1. BooksInv => ReversedOnce
  BY DEF BooksInv
<1> QED BY <1>1, BooksCorrect, PTL

\* The drawer's movements are those of the documents on file.
THEOREM MoneyCorrect == Spec => []MoneyFollowsDocuments
<1>1. BooksInv => MoneyFollowsDocuments
  BY DEF BooksInv
<1> QED BY <1>1, BooksCorrect, PTL

\* The shelf never holds more than what was there and came back.
THEOREM GoodsCorrect == Spec => []NoGoodsFromNowhere
<1>1. BooksInv /\ NoGoodsFromNowhere /\ [Next]_vars => NoGoodsFromNowhere'
  BY GoodsKept
<1> QED BY <1>1, InvInit, BooksCorrect, PTL DEF Spec

\* There are never two open days.
THEOREM OneOpenCorrect == Spec => []OneOpenSession
<1>1. BooksInv /\ OneOpenSession /\ [Next]_vars => OneOpenSession'
  <2> SUFFICES ASSUME BooksInv, OneOpenSession, [Next]_vars,
                      NEW s \in DOMAIN sessions', NEW t \in DOMAIN sessions',
                      IsOpen(s)', IsOpen(t)'
               PROVE  s = t
    BY DEF OneOpenSession
  <2>1. CASE s \in DOMAIN sessions /\ t \in DOMAIN sessions
    BY <2>1, DaysMove DEF OneOpenSession, BooksInv
  <2>2. CASE ~(s \in DOMAIN sessions /\ t \in DOMAIN sessions)
    BY <2>2, DaysMove DEF BooksInv
  <2> QED BY <2>1, <2>2
<1> QED BY <1>1, InvInit, BooksCorrect, PTL DEF Spec

\* No step books, or removes, a movement of a closed day or rewrites its row.
LEMMA ClosedStays ==
    ASSUME BooksInv, [Next]_vars
    PROVE  ClosedDaysKept
<1>1. ASSUME NEW s \in DOMAIN sessions, ~IsOpen(s)
      PROVE  /\ sessions'[s] = sessions[s]
             /\ expected'[s] = expected[s]
             /\ MovesOf(s)' = MovesOf(s)
             /\ \A n \in MovesOf(s) : moves'[n] = moves[n]
  <2>1. sessions'[s] = sessions[s] /\ expected'[s] = expected[s]
    BY <1>1, DaysMove DEF BooksInv
  <2>2. moves \in Seq(Move)
    BY <1>1 DEF BooksInv, BooksTyped
  <2>3. moves' = moves \/ \E d, i, a : IsOpen(d) /\ BookMove(d, i, a)
    BY <1>1, EveryWay DEF BooksInv, Files, Mirrors, Removes, Rests, Booked
  <2>4. MovesOf(s)' = MovesOf(s) /\ \A n \in MovesOf(s) : moves'[n] = moves[n]
    <3>1. CASE moves' = moves
      BY <3>1 DEF MovesOf
    <3>2. CASE \E d, i, a : IsOpen(d) /\ BookMove(d, i, a)
      <4>1. PICK d, i, a : IsOpen(d) /\ BookMove(d, i, a)
        BY <3>2
      <4>2. d # s
        BY <1>1, <4>1
      <4>3. /\ DOMAIN moves' = DOMAIN moves \cup {Len(moves) + 1}
            /\ \A n \in DOMAIN moves : n # Len(moves) + 1 /\ moves'[n] = moves[n]
            /\ moves'[Len(moves) + 1].session = d
        BY <2>2, <4>1 DEF BookMove, Move
      <4> QED BY <4>2, <4>3 DEF MovesOf
    <3> QED BY <2>3, <3>1, <3>2
  <2> QED BY <2>1, <2>4
<1> QED BY <1>1 DEF ClosedDaysKept

\* The figures of a closed day stay as they are, whatever the desk and the devices do.
THEOREM ClosedDaysCorrect == Spec => ClosedDaysFrozen
<1>1. BooksInv /\ [Next]_vars => [ClosedDaysKept]_vars
  BY ClosedStays
<1> QED BY <1>1, BooksCorrect, PTL DEF Spec, ClosedDaysFrozen

----------------------------------------------------------------------------
(* The sums: what a day was expected to hold, and what a dialog has read. *)

\* What the drawer should hold is a number of cents.
LEMMA ExpectedInt ==
    ASSUME BooksTyped, NEW s \in DOMAIN sessions
    PROVE  Expected(s) \in Int
<1> DEFINE amount == [n \in DOMAIN moves |-> moves[n].amount]
<1>1. moves \in Seq(Move) /\ sessions[s] \in Session
  <2>1. sessions \in Seq(Session)
    BY DEF BooksTyped
  <2> QED BY <2>1 DEF BooksTyped
<1>2. IsFiniteSet(DOMAIN moves)
  BY <1>1, RowsAppended
<1>3. IsFiniteSet(MovesOf(s)) /\ MovesOf(s) \subseteq DOMAIN moves
  BY <1>2, FS_Subset DEF MovesOf
<1>4. \A n \in MovesOf(s) : amount[n] \in Int
  <2>1. \A n \in DOMAIN moves : moves[n] \in Move
    BY <1>1
  <2> QED BY <1>3, <2>1 DEF Move
<1>5. SumOf(MovesOf(s)) = SumFunctionOnSet(amount, MovesOf(s))
  BY DEF SumOf
<1>6. SumFunctionOnSet(amount, MovesOf(s)) \in Int
  <2> HIDE DEF amount
  <2> QED BY <1>3, <1>4, SumInt
<1>7. sessions[s].float \in Int
  <2>1. sessions[s].float \in Floats
    BY <1>1 DEF Session
  <2>2. \A f \in Floats : f \in Int
    BY ShopAssumption
  <2> QED BY <2>1, <2>2
<1> QED BY <1>5, <1>6, <1>7 DEF Expected

\* And so is what a customer owes.
LEMMA BalanceInt ==
    ASSUME BooksTyped, NEW c
    PROVE  Balance(c) \in Int
<1> DEFINE owed == [i \in DOMAIN docs |-> Owed(i)]
<1>1. IsFiniteSet(Ledger(c)) /\ Ledger(c) \subseteq DOMAIN docs
  BY RowsFinite, FS_Subset DEF Ledger
<1>2. \A i \in Ledger(c) : owed[i] \in Int
  BY <1>1 DEF BooksTyped, Doc, Owed
<1>3. SumFunctionOnSet(owed, Ledger(c)) \in Int
  <2> HIDE DEF owed
  <2> QED BY <1>1, <1>2, SumInt
<1> QED BY <1>3, ShopAssumption DEF Balance

\* A dialog is opened with the balance of that moment, kept, or closed.
LEMMA EveryDialog ==
    ASSUME [Next]_vars
    PROVE  \/ dialog' \in {dialog, NoDialog}
           \/ \E what \in {"delete", "settle"}, c \in Customers :
                 dialog' = [asks |-> what, who |-> c, limit |-> Balance(c)]
<1>1. CASE Record
  BY <1>1 DEF Record, RecordDebt, RecordSale, RecordPayment
<1>2. CASE DeskDay
  BY <1>2 DEF DeskDay, OpenSession, CloseSession, RecordExpense, RecordDrawing, RecordEntry,
              AddCustomer
<1>3. CASE Correct
  BY <1>3 DEF Correct, CancelDebt, ReverseDebt, ReverseSale, RefundPayment, ReverseExpense,
              ReverseDrawing
<1>4. CASE Dialogs
  BY <1>4 DEF Dialogs, AskDelete, AskSettle, Ask, ConfirmDelete, ConfirmSettle, CloseDialog
<1>5. CASE UNCHANGED vars
  BY <1>5 DEF vars
<1> QED BY <1>1, <1>2, <1>3, <1>4, <1>5 DEF Next

\* Every step keeps what is expected and what a dialog shows amounts of money.
LEMMA SumsKept ==
    ASSUME BooksTyped, SumsTyped, [Next]_vars
    PROVE  SumsTyped'
<1>1. dialog' \in Dialog \cup {NoDialog}
  <2>1. ASSUME NEW what \in {"delete", "settle"}, NEW c \in Customers,
               dialog' = [asks |-> what, who |-> c, limit |-> Balance(c)]
        PROVE  dialog' \in Dialog
    BY <2>1, BalanceInt DEF Dialog
  <2> QED BY <2>1, EveryDialog DEF SumsTyped
<1>2. expected' \in [DOMAIN expected' -> Int]
  <2>1. CASE Opens \/ SameDays
    BY <2>1 DEF Opens, SameDays, SumsTyped
  <2>2. CASE Closes
    <3>1. PICK d : CloseSession(d)
      BY <2>2 DEF Closes
    <3>2. d \in DOMAIN sessions
      BY <3>1 DEF CloseSession, IsOpen
    <3>3. PICK e \in Int : e = Expected(d)
      BY <3>2, ExpectedInt
    <3>4. expected' = [s \in DOMAIN expected \cup {d} |-> IF s = d THEN e ELSE expected[s]]
      BY <3>1, <3>3 DEF CloseSession
    <3>5. \A s \in DOMAIN expected : expected[s] \in Int
      BY DEF SumsTyped
    <3> QED BY <3>3, <3>4, <3>5
  <2> QED BY <2>1, <2>2, EveryDay
<1> QED BY <1>1, <1>2 DEF SumsTyped

\* Every variable stays in its set, the sums kept in expected and the balance a dialog
\* has read included, for any amounts, floats and openings.
THEOREM TypeCorrect == Spec => []TypeOK
<1>1. Init => SumsTyped
  BY DEF Init, SumsTyped
<1>2. BooksInv /\ SumsTyped /\ [Next]_vars => SumsTyped'
  BY SumsKept DEF BooksInv
<1>3. BooksInv /\ SumsTyped => TypeOK
  BY DEF BooksInv, TypeOK
<1> QED BY <1>1, <1>2, <1>3, BooksCorrect, PTL DEF Spec

\* A step that keeps a day's row, and the movements of the day, keeps what it should hold.
LEMMA SameExpected ==
    ASSUME BooksTyped, NEW s \in DOMAIN sessions,
           sessions'[s].float = sessions[s].float,
           MovesOf(s)' = MovesOf(s),
           \A n \in MovesOf(s) : moves'[n] = moves[n]
    PROVE  Expected(s)' = Expected(s)
<1> DEFINE before == [n \in DOMAIN moves |-> moves[n].amount]
           after == [n \in DOMAIN moves' |-> moves'[n].amount]
<1>1. moves \in Seq(Move)
  BY DEF BooksTyped
<1>2. IsFiniteSet(MovesOf(s)) /\ MovesOf(s) \subseteq DOMAIN moves
  <2>1. IsFiniteSet(DOMAIN moves)
    BY <1>1, RowsAppended
  <2> QED BY <2>1, FS_Subset DEF MovesOf
<1>3. MovesOf(s) \subseteq DOMAIN moves'
  BY DEF MovesOf
<1>4. \A n \in MovesOf(s) : before[n] = after[n]
  BY <1>2, <1>3
<1>5. SumFunctionOnSet(before, MovesOf(s)) = SumFunctionOnSet(after, MovesOf(s))
  <2> HIDE DEF before, after
  <2> QED BY <1>2, <1>4, SumSame
<1>6. /\ Expected(s) = sessions[s].float + SumFunctionOnSet(before, MovesOf(s))
      /\ Expected(s)' = sessions'[s].float + SumFunctionOnSet(after, MovesOf(s)')
  BY DEF Expected, SumOf
<1> QED BY <1>5, <1>6

\* Closing a session writes the sum of its movements, and no later step adds one to it.
LEMMA AddsUpNext ==
    ASSUME BooksInv, ClosedDayAddsUp, [Next]_vars
    PROVE  ClosedDayAddsUp'
<1>1. DOMAIN expected = {s \in DOMAIN sessions : ~IsOpen(s)}
  BY DEF BooksInv, BooksTyped
<1>2. ASSUME NEW s \in DOMAIN expected
      PROVE  expected'[s] = Expected(s)'
  <2>1. /\ s \in DOMAIN sessions /\ sessions'[s] = sessions[s] /\ expected'[s] = expected[s]
        /\ MovesOf(s)' = MovesOf(s) /\ \A n \in MovesOf(s) : moves'[n] = moves[n]
    BY <1>1, ClosedStays DEF ClosedDaysKept
  <2>2. Expected(s)' = Expected(s)
    BY <2>1, SameExpected DEF BooksInv
  <2> QED BY <2>1, <2>2 DEF ClosedDayAddsUp
<1>3. CASE Opens \/ SameDays
  BY <1>2, <1>3 DEF Opens, SameDays, ClosedDayAddsUp
<1>4. CASE Closes
  <2>1. PICK d : CloseSession(d)
    BY <1>4 DEF Closes
  <2>2. /\ d \in DOMAIN sessions /\ moves' = moves
        /\ sessions' = [sessions EXCEPT ![d] = [float |-> sessions[d].float, status |-> "closed"]]
        /\ DOMAIN expected' = DOMAIN expected \cup {d}
        /\ expected'[d] = Expected(d)
    BY <2>1 DEF CloseSession, IsOpen
  <2>3. sessions'[d].float = sessions[d].float
    BY <2>2
  <2>4. MovesOf(d)' = MovesOf(d) /\ \A n \in MovesOf(d) : moves'[n] = moves[n]
    BY <2>2 DEF MovesOf
  <2>5. Expected(d)' = Expected(d)
    BY <2>2, <2>3, <2>4, SameExpected DEF BooksInv
  <2> QED BY <1>2, <2>2, <2>5 DEF ClosedDayAddsUp
<1> QED BY <1>3, <1>4, EveryDay

\* What a closed day was expected to hold goes on being its float and its movements,
\* whatever is sold, refunded, corrected or deleted later: the sums of the report and
\* the figure CashSessionPage::closeSession wrote never part.
THEOREM ClosedDayCorrect == Spec => []ClosedDayAddsUp
<1>1. Init => ClosedDayAddsUp
  BY DEF Init, ClosedDayAddsUp
<1>2. BooksInv /\ ClosedDayAddsUp /\ [Next]_vars => ClosedDayAddsUp'
  BY AddsUpNext
<1> QED BY <1>1, <1>2, BooksCorrect, PTL DEF Spec
=============================================================================
