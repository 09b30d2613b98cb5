----------------------------- MODULE MahaliSync -----------------------------
(***************************************************************************)
(* Offline-first synchronisation, end to end.  A device commits each       *)
(* operation to its ledger and its outbox in one transaction, drains the   *)
(* outbox in batches over HTTP, and writes the server's verdict on every   *)
(* row; the server books each operation with its exactly-once journal row  *)
(* in one transaction.  Requests may be lost, delayed past the client that *)
(* sent them and overtaken; either machine may lose power between any two  *)
(* transactions; and because SyncClient::sendBatch waits in a nested event *)
(* loop, a second drain may start inside the first.                        *)
(*                                                                         *)
(* Quantities, prices and totals are left out: every sale or debt takes    *)
(* one piece from the shelf.  An operation is known by its device and its  *)
(* opId.  An outbox row has the order of its opId, since both are minted   *)
(* in the same transaction.                                                *)
(***************************************************************************)
EXTENDS Integers, FiniteSets

CONSTANTS
    Devices,        \* devices with an outbox
    Paired,         \* those whose copy of sync_hmac_key equals the server's
    MaxOps,         \* bound: operations one device records
    BatchMax,       \* SyncClient::kMaxBatchSize
    MaxNested,      \* bound: drains stacked on one device's event loops
    ShelfStock,     \* pieces on a device's own shelf when the run begins
    StoreStock,     \* pieces on the server's shelf when the run begins
    MaxStock,       \* bound: pieces on the server's shelf
    ServerMayFail,  \* whether a transaction of the server may fail by itself
    MaxForgotten,   \* bound: times retention drops a row that can come again
    NoJob           \* the server is not processing a request

OpIds == 1..MaxOps
Levels == 1..MaxNested

\* Level 0 marks a request whose client no longer waits for the answer.
Request == [dev : Devices, level : 0..MaxNested, batch : SUBSET OpIds]
Job == [dev : Devices, level : 0..MaxNested, todo : SUBSET OpIds,
        ok : SUBSET OpIds, bad : SUBSET OpIds]

ASSUME SyncAssumption ==
    /\ NoJob \notin Job
    /\ Paired \subseteq Devices
    /\ MaxOps \in Nat
    /\ BatchMax \in Nat \ {0}
    /\ MaxNested \in Nat \ {0}
    /\ ShelfStock \in Nat
    /\ StoreStock \in 0..MaxStock
    /\ MaxStock \in Nat
    /\ ServerMayFail \in BOOLEAN
    /\ MaxForgotten \in Nat

VARIABLES
    till,     \* device: whether its cash session is open
    seq,      \* device: sync_sequence.value, the last opId it minted
    kind,     \* device: type of the operation in each outbox row
    status,   \* device: sync_outbox.status of each row
    calls,    \* device: its drainOnce frames, the outermost at level 1
    wire,     \* requests sent and not yet read by the server
    job,      \* server: the request it is processing
    session,  \* server: whether a cash session is open
    stock,    \* server: products.quantity
    ledger,   \* server: the financial rows booked for devices
    journal,  \* server: the keys of applied_ops
    forgotten \* history: how often retention dropped an operation that could come again

deviceVars == <<till, seq, kind, status>>
serverVars == <<session, stock, ledger, journal, forgotten>>
vars == <<till, seq, kind, status, calls, wire, job, session, stock, ledger, journal, forgotten>>

Kinds == {"sale", "customer_debt", "customer_payment"}
Statuses == {"none", "pending", "applied", "permanent_failed", "deleted"}

NeedsSession(k) == k \in {"sale", "customer_payment"}
TakesPiece(k) == k \in {"sale", "customer_debt"}

\* A frame of drainOnce: rows still to reconcile, and the acks that came back.
Frame == [phase : {"waiting", "answered"}, todo : SUBSET OpIds,
          ok : SUBSET OpIds, bad : SUBSET OpIds]
NoFrame == [phase |-> "idle", todo |-> {}, ok |-> {}, bad |-> {}]

Row == [op : Devices \X OpIds, entity : Nat, kind : Kinds \cup {"none"}]

Least(S) == CHOOSE i \in S : \A j \in S : i <= j

----------------------------------------------------------------------------
(* The device. *)

Idle == job = NoJob

\* A call that waits for its reply runs an event loop of its own, so the
\* device does nothing else only while its innermost frame is reconciling.
Open(d) == {l \in Levels : calls[d][l].phase # "idle"}
Innermost(d, l) == l \in Open(d) /\ \A m \in Open(d) : m <= l
InEventLoop(d) == \A l \in Levels : Innermost(d, l) => calls[d][l].phase = "waiting"

\* Bug: a drain also picks up the rows the server has refused.
PendingOrRefused(d) == {i \in OpIds : status[d][i] \in {"pending", "permanent_failed"}}
Pending(d) == {i \in OpIds : status[d][i] = "pending"}

\* Pieces left on the device's own shelf.
Shelf(d) == ShelfStock - Cardinality({i \in 1..seq[d] : TakesPiece(kind[d][i])})

SetTill(d) ==
    /\ InEventLoop(d)
    /\ till' = [till EXCEPT ![d] = ~@]
    /\ UNCHANGED <<seq, kind, status, calls, wire, job, serverVars>>

\* mintAndEnqueue, in the transaction of the operation: the ledger rows, the
\* opId and the pending outbox row commit together or not at all.  A refused or
\* rolled-back call leaves nothing behind, so it is a stuttering step.
Record(d, k) ==
    /\ InEventLoop(d)
    /\ seq[d] < MaxOps
    /\ seq' = [seq EXCEPT ![d] = @ + 1]
    /\ kind' = [kind EXCEPT ![d][seq[d] + 1] = k]
    /\ status' = [status EXCEPT ![d][seq[d] + 1] = "pending"]
    /\ UNCHANGED <<till, calls, wire, job, serverVars>>

\* The operations of DeviceLedgerService, with the device's own guards.
RecordSale(d) == till[d] /\ Shelf(d) >= 1 /\ Record(d, "sale")
RecordCustomerDebt(d) == Shelf(d) >= 1 /\ Record(d, "customer_debt")
RecordCustomerPayment(d) == till[d] /\ Record(d, "customer_payment")

\* findPending(kMaxBatchSize): the oldest pending rows.
OldestPending(d) ==
    {i \in Pending(d) : Cardinality({j \in Pending(d) : j <= i}) <= BatchMax}

\* drainOnce up to the wait in sendBatch.
DrainBegin(d) ==
    /\ InEventLoop(d)
    /\ Pending(d) # {}
    /\ \E l \in Levels :
        /\ Open(d) = 1..(l - 1)
        /\ calls' = [calls EXCEPT ![d][l] =
                [phase |-> "waiting", todo |-> OldestPending(d), ok |-> {}, bad |-> {}]]
        /\ wire' = wire \cup {[dev |-> d, level |-> l, batch |-> OldestPending(d)]}
    /\ UNCHANGED <<deviceVars, job, serverVars>>

Answered(f, ok, bad) == [phase |-> "answered", todo |-> f.todo, ok |-> ok, bad |-> bad]

\* What is left of a request or a job once nobody waits for its answer.
Orphan(m, d, l) ==
    IF m.dev = d /\ m.level = l THEN [m EXCEPT !.level = 0] ELSE m

\* The connection breaks: sendBatch returns a Network error without acks,
\* whatever the server did or will still do with the request.
GiveUp(d, l) ==
    /\ calls[d][l].phase = "waiting"
    /\ calls' = [calls EXCEPT ![d][l] = Answered(@, {}, {})]
    /\ wire' = {Orphan(r, d, l) : r \in wire}
    /\ job' = IF Idle THEN job ELSE Orphan(job, d, l)
    /\ UNCHANGED <<deviceVars, serverVars>>

\* Bugs in reading the acks: a row without an ack taken for applied, an error
\* ack that cannot be matched to its row, an attempt that queues the row again.
VerdictTrusting(f, i, old) ==
    CASE old = "deleted" -> old
      [] i \in f.bad -> "permanent_failed"
      [] OTHER -> "applied"
VerdictUnmatched(f, i, old) ==
    CASE old = "deleted" -> old
      [] i \in f.ok -> "applied"
      [] OTHER -> old
VerdictRequeueing(f, i, old) ==
    CASE old = "deleted" -> old
      [] i \in f.ok -> "applied"
      [] i \in f.bad -> "permanent_failed"
      [] OTHER -> "pending"

\* The verdict the acks of a frame hold for a row, else the status it has:
\* applied acks come first, and a row nobody mentioned stays for another round.
\* The UPDATE names the row by id alone, and does nothing to a deleted one.
Verdict(f, i, old) ==
    CASE old = "deleted" -> old
      [] i \in f.ok -> "applied"
      [] i \in f.bad -> "permanent_failed"
      [] OTHER -> old

\* One turn of the reconciliation loop of drainOnce: one autocommitted UPDATE.
Reconcile(d, l) ==
    LET f == calls[d][l]
        i == Least(f.todo)
    IN  /\ Innermost(d, l)
        /\ f.phase = "answered"
        /\ status' = [status EXCEPT ![d][i] = Verdict(f, i, @)]
        /\ calls' = [calls EXCEPT ![d][l] =
                IF f.todo = {i} THEN NoFrame ELSE [f EXCEPT !.todo = @ \ {i}]]
        /\ UNCHANGED <<till, seq, kind, wire, job, serverVars>>

\* Bug: the clean-up looks at the age of a row and not at its status.
PruneByAge(d, i) ==
    /\ InEventLoop(d)
    /\ status[d][i] \notin {"none", "deleted"}
    /\ status' = [status EXCEPT ![d][i] = "deleted"]
    /\ UNCHANGED <<till, seq, kind, calls, wire, job, serverVars>>

\* pruneAppliedOlderThan, one row.
PruneOutbox(d, i) ==
    /\ InEventLoop(d)
    /\ status[d][i] = "applied"
    /\ status' = [status EXCEPT ![d][i] = "deleted"]
    /\ UNCHANGED <<till, seq, kind, calls, wire, job, serverVars>>

\* Power cut on the device: its frames are gone, its database is not.
DeviceCrash(d) ==
    /\ Open(d) # {}
    /\ calls' = [calls EXCEPT ![d] = [l \in Levels |-> NoFrame]]
    /\ wire' = {IF r.dev = d THEN [r EXCEPT !.level = 0] ELSE r : r \in wire}
    /\ job' = IF ~Idle /\ job.dev = d THEN [job EXCEPT !.level = 0] ELSE job
    /\ UNCHANGED <<deviceVars, serverVars>>

----------------------------------------------------------------------------
(* The server.  One Qt thread: a request runs to its end before the till,  *)
(* the stock page or the next request is served.                           *)

\* The HTTP answer, if the frame that sent the request still waits for it.
Answer(d, l, ok, bad) ==
    IF l = 0 THEN calls ELSE [calls EXCEPT ![d][l] = Answered(@, ok, bad)]

\* The wire once the server has read a request.  Every connection that breaks
\* is followed by another drain, so a request nobody waits for may be one of
\* several alike: taking one of them may leave another.
After(r) == {wire \ {r}} \cup (IF r.level = 0 THEN {wire} ELSE {})

\* A valid signature: process() starts on the first operation.
Accept(r) ==
    /\ Idle
    /\ r \in wire
    /\ r.dev \in Paired
    /\ job' = [dev |-> r.dev, level |-> r.level, todo |-> r.batch, ok |-> {}, bad |-> {}]
    /\ wire' \in After(r)
    /\ UNCHANGED <<deviceVars, calls, serverVars>>

\* Bug: the class of the response, 403 being Permanent, applied to each row.
RefuseEach(r) ==
    /\ Idle
    /\ r \in wire
    /\ r.dev \notin Paired
    /\ wire' \in After(r)
    /\ calls' = Answer(r.dev, r.level, {}, r.batch)
    /\ UNCHANGED <<deviceVars, job, serverVars>>

\* Another key: 403 without acks.
RefuseBatch(r) ==
    /\ Idle
    /\ r \in wire
    /\ r.dev \notin Paired
    /\ wire' \in After(r)
    /\ calls' = Answer(r.dev, r.level, {}, {})
    /\ UNCHANGED <<deviceVars, job, serverVars>>

Lose(r) ==
    /\ r \in wire
    /\ wire' = wire \ {r}
    /\ UNCHANGED <<deviceVars, calls, job, serverVars>>

NextOp == Least(job.todo)
NextKey == <<job.dev, NextOp>>
NextKind == kind[job.dev][NextOp]

\* One operation of the batch done, with an applied ack, an error ack or none.
Done(ok, bad) ==
    [job EXCEPT !.todo = @ \ {NextOp}, !.ok = @ \cup ok, !.bad = @ \cup bad]

\* The journal knows the key: the stored ack again, session or no session.
Replay ==
    /\ ~Idle /\ job.todo # {}
    /\ NextKey \in journal
    /\ job' = Done({NextOp}, {})
    /\ UNCHANGED <<deviceVars, calls, wire, serverVars>>

\* "no open cash session": class Retry, which leaves the row pending.
Defer ==
    /\ ~Idle /\ job.todo # {}
    /\ NextKey \notin journal
    /\ NeedsSession(NextKind) /\ ~session
    /\ job' = Done({}, {})
    /\ UNCHANGED <<deviceVars, calls, wire, serverVars>>

MayApply ==
    /\ ~Idle /\ job.todo # {}
    /\ NextKey \notin journal
    /\ NeedsSession(NextKind) => session

\* The row of the operation, whose id the journal row keeps for the replay.
NextRow == [op |-> NextKey, entity |-> Cardinality(ledger) + 1, kind |-> NextKind]

\* Bugs: the sale is booked without its journal row, or without a look at the
\* shelf.
BookUnjournalled ==
    /\ MayApply
    /\ TakesPiece(NextKind) => stock >= 1
    /\ stock' = IF TakesPiece(NextKind) THEN stock - 1 ELSE stock
    /\ ledger' = ledger \cup {NextRow}
    /\ job' = Done({NextOp}, {})
    /\ UNCHANGED <<deviceVars, calls, wire, session, journal, forgotten>>
BookOversold ==
    /\ MayApply
    /\ stock' = IF TakesPiece(NextKind) THEN stock - 1 ELSE stock
    /\ ledger' = ledger \cup {NextRow}
    /\ journal' = journal \cup {NextKey}
    /\ job' = Done({NextOp}, {})
    /\ UNCHANGED <<deviceVars, calls, wire, session, forgotten>>

\* recordSale, recordCustomerDebt or recordCustomerPayment with a token: the
\* financial rows, the stock movement and the journal row in one transaction.
Book ==
    /\ MayApply
    /\ TakesPiece(NextKind) => stock >= 1
    /\ stock' = IF TakesPiece(NextKind) THEN stock - 1 ELSE stock
    /\ ledger' = ledger \cup {NextRow}
    /\ journal' = journal \cup {NextKey}
    /\ job' = Done({NextOp}, {})
    /\ UNCHANGED <<deviceVars, calls, wire, session, forgotten>>

\* Bug: a failure in the middle of the transaction leaves the sale behind.
RefuseHalfDone ==
    /\ MayApply
    /\ \/ TakesPiece(NextKind) /\ stock < 1
       \/ ServerMayFail
    /\ ledger' = ledger \cup {NextRow}
    /\ job' = Done({}, {NextOp})
    /\ UNCHANGED <<deviceVars, calls, wire, session, stock, journal, forgotten>>

\* Not enough stock, or a transaction that fails: rolled back, class Permanent.
Refuse ==
    /\ MayApply
    /\ \/ TakesPiece(NextKind) /\ stock < 1
       \/ ServerMayFail
    /\ job' = Done({}, {NextOp})
    /\ UNCHANGED <<deviceVars, calls, wire, serverVars>>

Respond ==
    /\ ~Idle /\ job.todo = {}
    /\ calls' = Answer(job.dev, job.level, job.ok, job.bad)
    /\ job' = NoJob
    /\ UNCHANGED <<deviceVars, wire, serverVars>>

\* Power cut on the server: what is committed stays, the request does not.
ServerCrash ==
    /\ ~Idle
    /\ job' = NoJob
    /\ UNCHANGED <<deviceVars, calls, wire, serverVars>>

SetSession ==
    /\ Idle
    /\ session' = ~session
    /\ UNCHANGED <<deviceVars, calls, wire, job, stock, ledger, journal, forgotten>>

\* Sales and purchases at the desktop till itself.
MoveStock ==
    /\ Idle
    /\ stock' \in {stock - 1, stock + 1} \cap 0..MaxStock
    /\ UNCHANGED <<deviceVars, calls, wire, job, session, ledger, journal, forgotten>>

\* The server may meet the operation again: it is pending on its device, in a
\* request, or in what is left of the batch being processed.
MayArrive(d, i) ==
    \/ status[d][i] = "pending"
    \/ \E r \in wire : r.dev = d /\ i \in r.batch
    \/ ~Idle /\ job.dev = d /\ i \in job.todo

\* runRetention: an old row leaves the journal.  Its age is all that is asked, and
\* a device that was away for as long can still send the operation.
PruneJournal(d, i) ==
    /\ Idle
    /\ <<d, i>> \in journal
    /\ MayArrive(d, i) => forgotten[d][i] < MaxForgotten
    /\ journal' = journal \ {<<d, i>>}
    /\ forgotten' = [forgotten EXCEPT ![d][i] = IF MayArrive(d, i) THEN @ + 1 ELSE @]
    /\ UNCHANGED <<deviceVars, calls, wire, job, session, stock, ledger>>

----------------------------------------------------------------------------

Init ==
    /\ till = [d \in Devices |-> FALSE]
    /\ seq = [d \in Devices |-> 0]
    /\ kind = [d \in Devices |-> [i \in OpIds |-> "none"]]
    /\ status = [d \in Devices |-> [i \in OpIds |-> "none"]]
    /\ calls = [d \in Devices |-> [l \in Levels |-> NoFrame]]
    /\ wire = {}
    /\ job = NoJob
    /\ session = FALSE
    /\ stock = StoreStock
    /\ ledger = {}
    /\ journal = {}
    /\ forgotten = [d \in Devices |-> [i \in OpIds |-> 0]]

DeviceStep(d) ==
    \/ SetTill(d)
    \/ RecordSale(d) \/ RecordCustomerDebt(d) \/ RecordCustomerPayment(d)
    \/ DrainBegin(d)
    \/ \E l \in Levels : GiveUp(d, l) \/ Reconcile(d, l)
    \/ \E i \in OpIds : PruneOutbox(d, i)
    \/ DeviceCrash(d)

RequestStep(r) == Accept(r) \/ RefuseBatch(r) \/ Lose(r)

ServerStep ==
    \/ Replay \/ Defer \/ Book \/ Refuse \/ Respond
    \/ ServerCrash \/ SetSession \/ MoveStock
    \/ \E d \in Devices, i \in OpIds : PruneJournal(d, i)

Next ==
    \/ \E d \in Devices : DeviceStep(d)
    \/ \E r \in wire : RequestStep(r)
    \/ ServerStep

Spec == Init /\ [][Next]_vars

\* The server takes a request somebody still waits for.
Serve(d) == \E r \in wire : r.dev = d /\ r.level # 0 /\ (Accept(r) \/ RefuseBatch(r))
Process == Replay \/ Defer \/ Book \/ Refuse \/ Respond

\* No copy of the request of a waiting frame is left to be answered.
Dead(d, l) ==
    /\ \A r \in wire : ~(r.dev = d /\ r.level = l)
    /\ ~Idle => job.dev # d \/ job.level # l

\* SyncScheduler re-arms its timer after every drain, so a device with pending
\* rows drains again; both machines run their own loops to the end; the server
\* reads the connections it holds, where a delayed request may come in between
\* (strong fairness).  Nobody has to sell, open a session or prune, and nothing
\* ends the wait of sendBatch, which has no timeout, when the peer is gone.
Fairness ==
    /\ \A d \in Devices :
        /\ WF_vars(DrainBegin(d))
        /\ WF_vars(\E l \in Levels : Reconcile(d, l))
        /\ SF_vars(Serve(d))
    /\ WF_vars(Process)

LiveSpec == Spec /\ Fairness

----------------------------------------------------------------------------
(* What must hold. *)

TypeOK ==
    /\ till \in [Devices -> BOOLEAN]
    /\ seq \in [Devices -> 0..MaxOps]
    /\ kind \in [Devices -> [OpIds -> Kinds \cup {"none"}]]
    /\ status \in [Devices -> [OpIds -> Statuses]]
    /\ calls \in [Devices -> [Levels -> Frame \cup {NoFrame}]]
    /\ wire \subseteq Request
    /\ job \in Job \cup {NoJob}
    /\ session \in BOOLEAN
    /\ stock \in 0..MaxStock
    /\ ledger \subseteq Row /\ IsFiniteSet(ledger)
    /\ journal \subseteq Devices \X OpIds
    /\ forgotten \in [Devices -> [OpIds -> 0..MaxForgotten]]

\* The central ledger's rows of an operation.
RowsOf(d, i) == {r \in ledger : r.op = <<d, i>>}

\* core/applied_op.h: an ACK loss or a retry can never double-apply money or
\* stock.  However requests are lost, delayed, overtaken or sent again, the
\* central ledger takes an operation of a device once, and once more only for each
\* time retention dropped its journal row while the device could still send it.
OnceUnlessForgotten ==
    \A d \in Devices, i \in OpIds : Cardinality(RowsOf(d, i)) <= 1 + forgotten[d][i]

\* data/applied_op_repository.h, of pruneOlderThan: "without weakening dedup of
\* anything that could actually arrive".  The ledger takes an operation once,
\* whatever retention drops.
AtMostOnce == \A r, s \in ledger : r.op = s.op => r = s

\* The central ledger holds the operation, as the kind of operation it was.
OnServer(d, i) == \E r \in ledger : r.op = <<d, i>> /\ r.kind = kind[d][i]

\* SyncCoordinator: a row is marked applied only on the server's word.  When a
\* device stops sending an operation as applied, and even after it has deleted
\* the row, the central ledger holds it.
AppliedIsOnServer ==
    \A d \in Devices, i \in OpIds :
        status[d][i] \in {"applied", "deleted"} => OnServer(d, i)

\* DeviceLedgerService and pruneAppliedOlderThan: an operation booked on the
\* device keeps its outbox row until the server has it, so no power cut, lost
\* answer or clean-up leaves money on the device that is never sent.
NothingLost ==
    \A d \in Devices : \A i \in 1..seq[d] :
        \/ status[d][i] \in {"pending", "applied", "permanent_failed"}
        \/ status[d][i] = "deleted" /\ OnServer(d, i)

\* drainOnce: once any verdict is written the operation is never queued again,
\* whatever an older drain still learns about it.
NeverRequeued ==
    [][\A d \in Devices, i \in OpIds :
         status'[d][i] = "pending" => status[d][i] \in {"pending", "none"}]_status

\* A row still has a verdict, or was deleted with it.
Keeps(d, i, v) ==
    \/ status[d][i] = v
    \/ v = "applied" /\ status[d][i] = "deleted"

\* The row says v, or was deleted with it, and no drain has it to reconcile.
Stands(d, i, v) ==
    /\ Keeps(d, i, v)
    /\ \A l \in Levels : i \notin calls[d][l].todo

\* SyncOutboxRepository: two nested drains may write over each other's verdicts, but
\* once none of them has the row left to reconcile, what it says it says for good: an
\* applied row is only ever deleted, a refused one is never sent again.
VerdictsStand ==
    [][\A d \in Devices, i \in OpIds, v \in {"applied", "permanent_failed"} :
         Stands(d, i, v) => Stands(d, i, v)']_vars

\* drainOnce: a batch refused as a whole (another key) says nothing of any one
\* operation, so a device that holds the wrong key keeps every row, and none
\* of its operations reaches the ledger.
WrongKeyKeepsAll ==
    \A d \in Devices \ Paired :
        /\ \A i \in OpIds : status[d][i] \in {"none", "pending"}
        /\ \A r \in ledger : r.op[1] # d

\* Both ends stay up and the network carries what is sent.  A crash just after
\* the last row was reconciled changes what that last turn of the loop changes,
\* and is no disturbance.
Disturb ==
    \/ ServerCrash
    \/ \E r \in wire : Lose(r)
    \/ \E d \in Devices :
        \/ DeviceCrash(d) /\ ~\E l \in Levels : Reconcile(d, l)
        \/ \E l \in Levels : ~Dead(d, l) /\ GiveUp(d, l)
Calm == <>[][~Disturb]_vars

\* The wait for an answer that cannot come does not last: each request is answered,
\* or its connection ends.
NeverHung ==
    \A d \in Devices, l \in Levels : []<>~(calls[d][l].phase = "waiting" /\ Dead(d, l))

\* SyncScheduler ("simply catch up when the server returns"): once the two ends
\* can talk and a cash session stays open, every pending operation of a device
\* with the right key gets its verdict, however much waits in front of it, unless
\* a drain hangs on a silent peer.
EverythingSettles ==
    (Calm /\ <>[]session /\ NeverHung) =>
        \A d \in Paired, i \in OpIds :
            (status[d][i] = "pending") ~> (status[d][i] # "pending")

\* The identities the devices have committed, and what they say of each.
Recorded == {o \in Devices \X OpIds : o[2] <= seq[o[1]]}
VerdictOf(d, i) ==
    CASE status[d][i] \in {"applied", "deleted"} -> "applied"
      [] status[d][i] = "permanent_failed" -> "refused"
      [] OTHER -> "open"

EO == INSTANCE ExactlyOnce
          WITH Ops <- Devices \X OpIds,
               recorded <- Recorded,
               booked <- ledger,
               forgotten <- [o \in Devices \X OpIds |-> forgotten[o[1]][o[2]]],
               verdict <- [o \in Devices \X OpIds |-> VerdictOf(o[1], o[2])]

\* The whole protocol implements the promise of exactly-once booking.
ImplementsExactlyOnce == EO!Spec

----------------------------------------------------------------------------
(* The inductive invariant behind OnceUnlessForgotten and AppliedIsOnServer. *)

\* A request under way with a level is the only one of the frame at that level,
\* and the frame waits for it.
FramesWait ==
    /\ \A r \in wire : r.level # 0 =>
        /\ calls[r.dev][r.level].phase = "waiting"
        /\ \A s \in wire : s.dev = r.dev /\ s.level = r.level => s = r
        /\ ~Idle => job.dev # r.dev \/ job.level # r.level
    /\ ~Idle /\ job.level # 0 => calls[job.dev][job.level].phase = "waiting"

\* Only committed operations are in the outbox, in a drain, on their way or
\* booked, and a drain that goes on has a row to go on with.
Committed ==
    /\ \A d \in Devices, i \in OpIds :
        IF i <= seq[d] THEN status[d][i] # "none" /\ kind[d][i] \in Kinds
                       ELSE status[d][i] = "none"
    /\ \A d \in Devices, l \in Levels :
        /\ \A i \in calls[d][l].todo : i <= seq[d]
        /\ calls[d][l].phase # "idle" => calls[d][l].todo # {}
    /\ \A r \in wire : \A i \in r.batch : i <= seq[r.dev]
    /\ ~Idle => \A i \in job.todo : i <= seq[job.dev]
    /\ \A r \in ledger : r.op[2] <= seq[r.op[1]]

\* Every applied ack, in the journal or under way, is true.
AcksTrue ==
    /\ \A d \in Devices, i \in OpIds : <<d, i>> \in journal => OnServer(d, i)
    /\ ~Idle => \A i \in job.ok : OnServer(job.dev, i)
    /\ \A d \in Devices, l \in Levels : \A i \in calls[d][l].ok : OnServer(d, i)

\* The journal knows every booked operation that may come again, except what
\* retention has forgotten.
JournalGuards ==
    \A d \in Devices, i \in OpIds :
        \/ <<d, i>> \in journal
        \/ ~MayArrive(d, i)
        \/ Cardinality(RowsOf(d, i)) <= forgotten[d][i]

=============================================================================
