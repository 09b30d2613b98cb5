-------------------------- MODULE MahaliSyncProofs --------------------------
(***************************************************************************)
(* Proofs about MahaliSync for any number of devices, operations, nested   *)
(* drains and pieces: the type invariant, that the ledger takes an         *)
(* operation again only after retention dropped its journal row, that an   *)
(* applied mark is true, that a verdict stands once no drain is open, and  *)
(* that the protocol implements ExactlyOnce.                               *)
(***************************************************************************)
EXTENDS MahaliSync, FiniteSetTheorems, WellFoundedInduction, TLAPS

----------------------------------------------------------------------------
(* Lemmas about the operators of the model. *)

\* Least picks a member of every non-empty set of operation numbers: the server
\* and the reconciliation loop always have a row to go on with.
LEMMA LeastIn ==
    ASSUME NEW S \in SUBSET OpIds, S # {}
    PROVE  Least(S) \in S /\ \A j \in S : Least(S) <= j
<1> DEFINE R == OpToRel(<, Nat)
<1>1. S \subseteq Nat
  BY SyncAssumption DEF OpIds
<1>2. PICK i \in S : \A j \in S : <<j, i>> \notin R
  BY <1>1, NatLessThanWellFounded, WFMin
<1>3. \A j \in S : ~(j < i)
  BY <1>1, <1>2 DEF OpToRel
<1>4. \A j \in S : i <= j
  BY <1>1, <1>3
<1> QED
  BY <1>4 DEF Least

----------------------------------------------------------------------------
(* Type correctness. *)

\* A frame, idle or not, has its four fields.
LEMMA FrameFields ==
    ASSUME TypeOK, NEW d \in Devices, NEW l \in Levels
    PROVE  /\ calls[d][l].todo \in SUBSET OpIds
           /\ calls[d][l].ok \in SUBSET OpIds
           /\ calls[d][l].bad \in SUBSET OpIds
           /\ calls[d][l].phase # "idle" => calls[d][l] \in Frame
  BY DEF TypeOK, Frame, NoFrame

\* The operation the server turns to is one of its device's.
LEMMA NextOpType ==
    ASSUME TypeOK, job # NoJob, job.todo # {}
    PROVE  /\ job \in Job
           /\ NextOp \in OpIds /\ NextOp \in job.todo
           /\ NextKey \in Devices \X OpIds
           /\ NextKind \in Kinds \cup {"none"}
<1>1. job \in Job
  BY DEF TypeOK
<1>2. NextOp \in job.todo /\ job.todo \subseteq OpIds /\ job.dev \in Devices
  BY <1>1, LeastIn DEF Job, NextOp
<1> QED
  BY <1>1, <1>2 DEF NextKey, NextKind, TypeOK

\* Marking an operation of the batch as done leaves a job.
LEMMA DoneType ==
    ASSUME TypeOK, job # NoJob, job.todo # {},
           NEW ok \in SUBSET {NextOp}, NEW bad \in SUBSET {NextOp}
    PROVE  Done(ok, bad) \in Job
  BY NextOpType DEF Done, Job

\* Answering a frame leaves the frames well formed.
LEMMA AnswerType ==
    ASSUME TypeOK, NEW d \in Devices, NEW l \in 0..MaxNested,
           NEW ok \in SUBSET OpIds, NEW bad \in SUBSET OpIds
    PROVE  Answer(d, l, ok, bad) \in [Devices -> [Levels -> Frame \cup {NoFrame}]]
<1>1. CASE l = 0
  BY <1>1 DEF Answer, TypeOK
<1>2. CASE l # 0
  <2>1. l \in Levels
    BY <1>2, SyncAssumption DEF Levels
  <2>2. Answered(calls[d][l], ok, bad) \in Frame
    BY <2>1, FrameFields DEF Answered, Frame
  <2> QED
    BY <1>2, <2>1, <2>2 DEF Answer, TypeOK
<1> QED
  BY <1>1, <1>2

\* The three operations of a device commit one operation of their kind.
LEMMA RecordKinds ==
    ASSUME NEW d \in Devices,
           RecordSale(d) \/ RecordCustomerDebt(d) \/ RecordCustomerPayment(d)
    PROVE  \E k \in Kinds : Record(d, k)
  BY DEF RecordSale, RecordCustomerDebt, RecordCustomerPayment, Kinds

\* A device and a server that start from their databases are well typed.
LEMMA TypeInit == Init => TypeOK
<1> SUFFICES ASSUME Init PROVE TypeOK
  OBVIOUS
<1>1. calls \in [Devices -> [Levels -> Frame \cup {NoFrame}]]
  BY DEF Init
<1>2. stock \in 0..MaxStock
  BY SyncAssumption DEF Init
<1>3. ledger \subseteq Row /\ IsFiniteSet(ledger)
  BY FS_EmptySet DEF Init
<1>4. seq \in [Devices -> 0..MaxOps] /\ job \in Job \cup {NoJob}
  BY SyncAssumption DEF Init
<1>5. /\ status \in [Devices -> [OpIds -> Statuses]]
      /\ kind \in [Devices -> [OpIds -> Kinds \cup {"none"}]]
  BY DEF Init, Statuses
<1>6. forgotten \in [Devices -> [OpIds -> 0..MaxForgotten]]
  BY SyncAssumption DEF Init
<1> QED
  BY <1>6, <1>1, <1>2, <1>3, <1>4, <1>5, SyncAssumption DEF Init, TypeOK

\* Every step keeps every variable to its values.
LEMMA TypeStep == TypeOK /\ [Next]_vars => TypeOK'
<1> SUFFICES ASSUME TypeOK, [Next]_vars PROVE TypeOK'
  OBVIOUS
<1> USE DEF deviceVars, serverVars
<1>1. ASSUME NEW d \in Devices, SetTill(d) PROVE TypeOK'
  BY <1>1 DEF SetTill, TypeOK
<1>2. ASSUME NEW d \in Devices, NEW k \in Kinds, Record(d, k) PROVE TypeOK'
  <2>1. seq[d] \in 0..MaxOps /\ seq[d] < MaxOps
    BY <1>2 DEF Record, TypeOK
  <2>2. seq' \in [Devices -> 0..MaxOps]
    BY <1>2, <2>1, SyncAssumption DEF Record, TypeOK
  <2>3. kind' \in [Devices -> [OpIds -> Kinds \cup {"none"}]]
    BY <1>2 DEF Record, TypeOK
  <2>4. status' \in [Devices -> [OpIds -> Statuses]]
    BY <1>2 DEF Record, TypeOK, Statuses
  <2> QED
    BY <1>2, <2>2, <2>3, <2>4 DEF Record, TypeOK
<1>3. ASSUME NEW d \in Devices, DrainBegin(d) PROVE TypeOK'
  <2>1. OldestPending(d) \in SUBSET OpIds
    BY DEF OldestPending, Pending
  <2>2. PICK l \in Levels :
            /\ calls' = [calls EXCEPT ![d][l] =
                    [phase |-> "waiting", todo |-> OldestPending(d), ok |-> {}, bad |-> {}]]
            /\ wire' = wire \cup {[dev |-> d, level |-> l, batch |-> OldestPending(d)]}
    BY <1>3 DEF DrainBegin
  <2>3. [phase |-> "waiting", todo |-> OldestPending(d), ok |-> {}, bad |-> {}] \in Frame
    BY <2>1 DEF Frame
  <2>4. calls' \in [Devices -> [Levels -> Frame \cup {NoFrame}]]
    BY <2>2, <2>3 DEF TypeOK
  <2>5. l \in 0..MaxNested
    BY SyncAssumption DEF Levels
  <2>6. wire' \subseteq Request
    BY <2>1, <2>2, <2>5 DEF TypeOK, Request
  <2> QED
    BY <1>3, <2>4, <2>6 DEF DrainBegin, TypeOK
<1>4. ASSUME NEW d \in Devices, NEW l \in Levels, GiveUp(d, l) PROVE TypeOK'
  <2>1. \A r \in Request : Orphan(r, d, l) \in Request
    BY SyncAssumption DEF Orphan, Request
  <2>2. wire' \subseteq Request
    BY <1>4, <2>1 DEF GiveUp, TypeOK
  <2>3. \A m \in Job : Orphan(m, d, l) \in Job
    BY SyncAssumption DEF Orphan, Job
  <2>4. job' \in Job \cup {NoJob}
    BY <1>4, <2>3 DEF GiveUp, TypeOK, Idle
  <2>5. Answered(calls[d][l], {}, {}) \in Frame
    BY FrameFields DEF Answered, Frame
  <2>6. calls' \in [Devices -> [Levels -> Frame \cup {NoFrame}]]
    BY <1>4, <2>5 DEF GiveUp, TypeOK
  <2> QED
    BY <1>4, <2>2, <2>4, <2>6 DEF GiveUp, TypeOK
<1>5. ASSUME NEW d \in Devices, NEW l \in Levels, Reconcile(d, l) PROVE TypeOK'
  <2> DEFINE f == calls[d][l]
             i == Least(f.todo)
  <2>1. /\ f.phase = "answered"
        /\ status' = [status EXCEPT ![d][i] = Verdict(f, i, @)]
        /\ calls' = [calls EXCEPT ![d][l] =
                IF f.todo = {i} THEN NoFrame ELSE [f EXCEPT !.todo = @ \ {i}]]
    BY <1>5 DEF Reconcile
  <2>2. f \in Frame
    BY <2>1, FrameFields
  <2>3. [f EXCEPT !.todo = @ \ {i}] \in Frame
    BY <2>2 DEF Frame
  <2>4. calls' \in [Devices -> [Levels -> Frame \cup {NoFrame}]]
    BY <2>1, <2>3 DEF TypeOK
  <2>5. \A j, old : old \in Statuses => Verdict(f, j, old) \in Statuses
    BY DEF Verdict, Statuses
  <2>6. status' \in [Devices -> [OpIds -> Statuses]]
    BY <2>1, <2>5 DEF TypeOK
  <2> QED
    BY <1>5, <2>4, <2>6 DEF Reconcile, TypeOK
<1>6. ASSUME NEW d \in Devices, NEW i \in OpIds, PruneOutbox(d, i) PROVE TypeOK'
  BY <1>6 DEF PruneOutbox, TypeOK, Statuses
<1>7. ASSUME NEW d \in Devices, DeviceCrash(d) PROVE TypeOK'
  <2>1. calls' \in [Devices -> [Levels -> Frame \cup {NoFrame}]]
    BY <1>7 DEF DeviceCrash, TypeOK
  <2>2. \A r \in Request : [r EXCEPT !.level = 0] \in Request
    BY SyncAssumption DEF Request
  <2>3. wire' \subseteq Request
    BY <1>7, <2>2 DEF DeviceCrash, TypeOK
  <2>4. \A m \in Job : [m EXCEPT !.level = 0] \in Job
    BY SyncAssumption DEF Job
  <2>5. job' \in Job \cup {NoJob}
    BY <1>7, <2>4 DEF DeviceCrash, TypeOK, Idle
  <2> QED
    BY <1>7, <2>1, <2>3, <2>5 DEF DeviceCrash, TypeOK
<1>8. ASSUME NEW r \in wire, RequestStep(r) PROVE TypeOK'
  <2>1. r \in Request
    BY DEF TypeOK
  <2>2. wire' \subseteq Request
    BY <1>8 DEF RequestStep, Accept, RefuseBatch, Lose, After, TypeOK
  <2>3. CASE Accept(r)
    <3>1. job' \in Job
      BY <2>1, <2>3 DEF Accept, Request, Job
    <3> QED
      BY <2>2, <2>3, <3>1 DEF Accept, TypeOK
  <2>4. CASE RefuseBatch(r)
    <3>1. calls' \in [Devices -> [Levels -> Frame \cup {NoFrame}]]
      BY <2>1, <2>4, AnswerType DEF RefuseBatch, Request
    <3> QED
      BY <2>2, <2>4, <3>1 DEF RefuseBatch, TypeOK
  <2>5. CASE Lose(r)
    BY <2>2, <2>5 DEF Lose, TypeOK
  <2> QED
    BY <1>8, <2>3, <2>4, <2>5 DEF RequestStep
<1>9. CASE Replay
  BY <1>9, DoneType DEF Replay, TypeOK, Idle
<1>10. CASE Defer
  BY <1>10, DoneType DEF Defer, TypeOK, Idle
<1>11. CASE Book
  <2>1. job # NoJob /\ job.todo # {}
    BY <1>11 DEF Book, MayApply, Idle
  <2>2. job' \in Job
    BY <1>11, <2>1, DoneType DEF Book
  <2>3. stock' \in 0..MaxStock
    BY <1>11, SyncAssumption DEF Book, TypeOK
  <2>4. NextKey \in Devices \X OpIds /\ journal' \subseteq Devices \X OpIds
    BY <1>11, <2>1, NextOpType DEF Book, TypeOK
  <2>5. Cardinality(ledger) + 1 \in Nat
    BY FS_CardinalityType DEF TypeOK
  <2> DEFINE row == NextRow
  <2>6. row \in Row
    BY <2>1, <2>4, <2>5, NextOpType DEF Row, NextRow
  <2>7. ledger' = ledger \cup {row}
    BY <1>11 DEF Book
  <2>8. ledger' \subseteq Row /\ IsFiniteSet(ledger')
    <3> HIDE DEF row
    <3> QED
      BY <2>6, <2>7, FS_AddElement DEF TypeOK
  <2> QED
    BY <1>11, <2>2, <2>3, <2>4, <2>8 DEF Book, TypeOK
<1>12. CASE Refuse
  BY <1>12, DoneType DEF Refuse, MayApply, TypeOK, Idle
<1>13. CASE Respond
  <2>1. job \in Job
    BY <1>13 DEF Respond, TypeOK, Idle
  <2>2. calls' \in [Devices -> [Levels -> Frame \cup {NoFrame}]]
    BY <1>13, <2>1, AnswerType DEF Respond, Job
  <2> QED
    BY <1>13, <2>2 DEF Respond, TypeOK
<1>14. CASE ServerCrash
  BY <1>14 DEF ServerCrash, TypeOK
<1>15. CASE SetSession
  BY <1>15 DEF SetSession, TypeOK
<1>16. CASE MoveStock
  BY <1>16 DEF MoveStock, TypeOK
<1>17. ASSUME NEW d \in Devices, NEW i \in OpIds, PruneJournal(d, i) PROVE TypeOK'
  <2>1. forgotten[d][i] \in 0..MaxForgotten /\ MaxForgotten \in Nat
    BY SyncAssumption DEF TypeOK
  <2>2. (IF MayArrive(d, i) THEN forgotten[d][i] + 1 ELSE forgotten[d][i]) \in 0..MaxForgotten
    BY <1>17, <2>1 DEF PruneJournal
  <2>3. forgotten' \in [Devices -> [OpIds -> 0..MaxForgotten]]
    BY <1>17, <2>2 DEF PruneJournal, TypeOK
  <2> QED
    BY <1>17, <2>3 DEF PruneJournal, TypeOK
<1>18. CASE UNCHANGED vars
  BY <1>18 DEF vars, TypeOK
<1> QED
  BY <1>1, <1>2, <1>3, <1>4, <1>5, <1>6, <1>7, <1>8, <1>9, <1>10, <1>11, <1>12,
     <1>13, <1>14, <1>15, <1>16, <1>17, <1>18, RecordKinds
     DEF Next, DeviceStep, ServerStep

\* Type correctness: every variable keeps to its values; in particular the
\* server's shelf never goes negative and the ledger stays finite.
THEOREM TypeCorrect == Spec => []TypeOK
  BY TypeInit, TypeStep, PTL DEF Spec

----------------------------------------------------------------------------
(* What steps never undo. *)

\* Only Record mints identities, and it mints the next one.
LEMMA OnlyRecordMints ==
    ASSUME [Next]_vars, ~ \E d \in Devices, k \in Kinds : Record(d, k)
    PROVE  UNCHANGED <<seq, kind>>
  BY RecordKinds DEF Next, DeviceStep, RequestStep, ServerStep, vars, deviceVars, serverVars,
         SetTill, DrainBegin, GiveUp, Reconcile, PruneOutbox, DeviceCrash, Accept,
         RefuseBatch, Lose, Replay, Defer, Book, Refuse, Respond, ServerCrash,
         SetSession, MoveStock, PruneJournal

\* Only Book writes to the ledger.
LEMMA OnlyBookBooks ==
    ASSUME [Next]_vars, ~ Book
    PROVE  UNCHANGED ledger
  BY RecordKinds DEF Next, DeviceStep, RequestStep, ServerStep, vars, deviceVars, serverVars,
         SetTill, Record, DrainBegin, GiveUp, Reconcile, PruneOutbox, DeviceCrash,
         Accept, RefuseBatch, Lose, Replay, Defer, Refuse, Respond, ServerCrash,
         SetSession, MoveStock, PruneJournal

\* A committed operation keeps its identity and its kind.
LEMMA CommittedStays ==
    ASSUME TypeOK, [Next]_vars, NEW d \in Devices, NEW i \in OpIds, i <= seq[d]
    PROVE  i <= seq'[d] /\ kind'[d][i] = kind[d][i]
<1>1. CASE \E e \in Devices, k \in Kinds : Record(e, k)
  <2>1. PICK e \in Devices, k \in Kinds : Record(e, k)
    BY <1>1
  <2>2. seq \in [Devices -> 0..MaxOps] /\ i \in Nat /\ MaxOps \in Nat
    BY SyncAssumption DEF TypeOK, OpIds
  <2> QED
    BY <2>1, <2>2 DEF Record, TypeOK
<1>2. CASE ~ \E e \in Devices, k \in Kinds : Record(e, k)
  BY <1>2, OnlyRecordMints
<1> QED
  BY <1>1, <1>2

\* The ledger only grows.
LEMMA LedgerGrows ==
    ASSUME [Next]_vars
    PROVE  ledger \subseteq ledger'
<1>1. CASE Book
  BY <1>1 DEF Book
<1>2. CASE ~ Book
  BY <1>2, OnlyBookBooks
<1> QED
  BY <1>1, <1>2

\* What the server holds it keeps.
LEMMA OnServerStays ==
    ASSUME TypeOK, Committed, [Next]_vars,
           NEW d \in Devices, NEW i \in OpIds, OnServer(d, i)
    PROVE  OnServer(d, i)'
<1>1. PICK r \in ledger : r.op = <<d, i>> /\ r.kind = kind[d][i]
  BY DEF OnServer
<1>2. i <= seq[d]
  BY <1>1 DEF Committed
<1>3. r \in ledger' /\ kind'[d][i] = kind[d][i]
  BY <1>2, LedgerGrows, CommittedStays
<1> QED
  BY <1>1, <1>3 DEF OnServer

\* A request on the wire was there before, or brings pending rows.
LEMMA WireStep ==
    ASSUME TypeOK, [Next]_vars, NEW r \in wire'
    PROVE  \/ \E q \in wire : r.dev = q.dev /\ r.batch = q.batch
           \/ r.dev \in Devices /\ r.batch \subseteq Pending(r.dev)
<1> DEFINE G == \/ \E q \in wire : r.dev = q.dev /\ r.batch = q.batch
                \/ r.dev \in Devices /\ r.batch \subseteq Pending(r.dev)
<1>1. ASSUME NEW d \in Devices, DrainBegin(d) PROVE G
  <2>1. OldestPending(d) \subseteq Pending(d)
    BY DEF OldestPending
  <2> QED
    BY <1>1, <2>1 DEF DrainBegin
<1>2. ASSUME NEW d \in Devices, NEW l \in Levels, GiveUp(d, l) PROVE G
  <2>1. \A q \in Request : Orphan(q, d, l).dev = q.dev /\ Orphan(q, d, l).batch = q.batch
    BY DEF Orphan, Request
  <2> QED
    BY <1>2, <2>1 DEF GiveUp, TypeOK
<1>3. ASSUME NEW d \in Devices, DeviceCrash(d) PROVE G
  <2>1. \E q \in wire : r = q \/ r = [q EXCEPT !.level = 0]
    BY <1>3 DEF DeviceCrash
  <2>2. \A q \in Request : LET m == [q EXCEPT !.level = 0]
                           IN  m.dev = q.dev /\ m.batch = q.batch
    BY DEF Request
  <2> QED
    BY <2>1, <2>2 DEF TypeOK
<1>4. CASE wire' \subseteq wire
  BY <1>4
<1>5. \/ \E d \in Devices : \/ DrainBegin(d) \/ DeviceCrash(d)
                            \/ \E l \in Levels : GiveUp(d, l)
      \/ wire' \subseteq wire
  BY RecordKinds DEF Next, DeviceStep, RequestStep, ServerStep, vars, SetTill, Record, Reconcile,
         PruneOutbox, Accept, RefuseBatch, Lose, After, Replay, Defer, Book, Refuse,
         Respond, ServerCrash, SetSession, MoveStock, PruneJournal
<1> QED
  BY <1>1, <1>2, <1>3, <1>4, <1>5

\* What the server still has to process it had before, or takes from the wire.
LEMMA JobStep ==
    ASSUME TypeOK, [Next]_vars, ~Idle'
    PROVE  \/ ~Idle /\ job'.dev = job.dev /\ job'.todo \subseteq job.todo
           \/ \E r \in wire : job'.dev = r.dev /\ job'.todo = r.batch
<1> DEFINE Old == ~Idle /\ job'.dev = job.dev /\ job'.todo \subseteq job.todo
<1>1. CASE UNCHANGED job
  BY <1>1 DEF Idle
<1>2. ASSUME NEW d \in Devices, NEW l \in Levels, GiveUp(d, l) PROVE Old
  <2>1. job' = job \/ (~Idle /\ job'.dev = job.dev /\ job'.todo = job.todo)
    BY <1>2 DEF GiveUp, Orphan, Idle, TypeOK, Job
  <2> QED
    BY <2>1 DEF Idle
<1>3. ASSUME NEW d \in Devices, DeviceCrash(d) PROVE Old
  <2>1. job' = job \/ (~Idle /\ job'.dev = job.dev /\ job'.todo = job.todo)
    BY <1>3 DEF DeviceCrash, Idle, TypeOK, Job
  <2> QED
    BY <2>1 DEF Idle
<1>4. ASSUME NEW r \in wire, Accept(r)
      PROVE  job'.dev = r.dev /\ job'.todo = r.batch
  BY <1>4 DEF Accept
<1>5. ASSUME ~Idle, NEW ok, NEW bad, job' = Done(ok, bad) PROVE Old
  BY <1>5 DEF Done, Idle, TypeOK, Job
<1>6. \/ \E d \in Devices : DeviceCrash(d) \/ \E l \in Levels : GiveUp(d, l)
      \/ \E r \in wire : Accept(r)
      \/ ~Idle /\ \E ok, bad : job' = Done(ok, bad)
      \/ UNCHANGED job
  <2>1. Replay \/ Defer \/ Book \/ Refuse => ~Idle /\ \E ok, bad : job' = Done(ok, bad)
    BY DEF Replay, Defer, Book, Refuse, MayApply
  <2>2. job' # NoJob
    BY DEF Idle
  <2> QED
    BY <2>1, <2>2, RecordKinds
       DEF Next, DeviceStep, RequestStep, ServerStep, vars, SetTill, Record,
           DrainBegin, Reconcile, PruneOutbox, RefuseBatch, Lose, Respond,
           ServerCrash, SetSession, MoveStock, PruneJournal
<1> QED
  BY <1>1, <1>2, <1>3, <1>4, <1>5, <1>6

----------------------------------------------------------------------------
(* An answer goes to the frame that waits for it. *)

\* Nothing is on the wire at the start.
LEMMA FramesWaitInit == Init => FramesWait
  BY DEF Init, FramesWait, Idle

\* Requests and the frames that wait for them stay paired, one to one.
LEMMA FramesWaitStep ==
    ASSUME TypeOK, FramesWait, [Next]_vars
    PROVE  FramesWait'
<1>0. /\ \A r \in wire : r.dev \in Devices /\ (r.level # 0 => r.level \in Levels)
      /\ ~Idle => job.dev \in Devices /\ (job.level # 0 => job.level \in Levels)
  BY SyncAssumption DEF TypeOK, Request, Job, Idle, Levels
<1>1. ASSUME NEW d \in Devices, DrainBegin(d) PROVE FramesWait'
  <2>1. PICK l \in Levels :
            /\ Open(d) = 1..(l - 1)
            /\ calls' = [calls EXCEPT ![d][l] =
                    [phase |-> "waiting", todo |-> OldestPending(d), ok |-> {}, bad |-> {}]]
            /\ wire' = wire \cup {[dev |-> d, level |-> l, batch |-> OldestPending(d)]}
            /\ job' = job
    BY <1>1 DEF DrainBegin
  <2>2. calls[d][l].phase = "idle"
    <3>1. l \notin Open(d)
      BY <2>1, SyncAssumption DEF Levels
    <3> QED
      BY <3>1 DEF Open
  <2>3. \A r \in wire : r.level # 0 => r.dev # d \/ r.level # l
    BY <2>2 DEF FramesWait
  <2>4. ~Idle => job.dev # d \/ job.level # l
    BY <2>2, SyncAssumption DEF FramesWait, Levels
  <2>5. calls'[d][l].phase = "waiting"
    BY <2>1 DEF TypeOK
  <2>6. \A e \in Devices, m \in Levels : e # d \/ m # l => calls'[e][m] = calls[e][m]
    BY <2>1 DEF TypeOK
  <2>7. \A r \in wire : r.level # 0 => calls'[r.dev][r.level].phase = "waiting"
    BY <1>0, <2>3, <2>6 DEF FramesWait
  <2>8. ~Idle /\ job.level # 0 => calls'[job.dev][job.level].phase = "waiting"
    BY <1>0, <2>4, <2>6 DEF FramesWait
  <2>9. \A r \in wire' : r.level # 0 =>
            \A s \in wire' : s.dev = r.dev /\ s.level = r.level => s = r
    BY <2>1, <2>3 DEF FramesWait
  <2>10. \A r \in wire' : r.level # 0 =>
            (~Idle => job.dev # r.dev \/ job.level # r.level)
    BY <2>1, <2>4 DEF FramesWait
  <2> QED
    BY <2>1, <2>5, <2>7, <2>8, <2>9, <2>10 DEF FramesWait, Idle
<1>2. ASSUME NEW d \in Devices, NEW l \in Levels, GiveUp(d, l) PROVE FramesWait'
  <2>1. \A e \in Devices, m \in Levels : e # d \/ m # l => calls'[e][m] = calls[e][m]
    BY <1>2 DEF GiveUp, TypeOK
  <2>2. \A r \in wire' : r.level # 0 => r \in wire /\ (r.dev # d \/ r.level # l)
    BY <1>2, SyncAssumption DEF GiveUp, Orphan, TypeOK, Request
  <2>3. ~Idle' /\ job'.level # 0 => ~Idle /\ job' = job /\ (job.dev # d \/ job.level # l)
    BY <1>2, SyncAssumption DEF GiveUp, Orphan, TypeOK, Job, Idle
  <2>4. ~Idle' => /\ ~Idle /\ job'.dev = job.dev
                  /\ job'.level = job.level \/ job'.level = 0
    BY <1>2 DEF GiveUp, Orphan, TypeOK, Job, Idle
  <2>5. \A r \in wire' : r.level # 0 => calls'[r.dev][r.level].phase = "waiting"
    BY <1>0, <2>1, <2>2 DEF FramesWait
  <2>6. \A r \in wire' : r.level # 0 =>
            \A s \in wire' : s.dev = r.dev /\ s.level = r.level => s = r
    BY <2>2 DEF FramesWait
  <2>7. \A r \in wire' : r.level # 0 =>
            (~Idle' => job'.dev # r.dev \/ job'.level # r.level)
    BY <2>2, <2>4 DEF FramesWait
  <2>8. ~Idle' /\ job'.level # 0 => calls'[job'.dev][job'.level].phase = "waiting"
    BY <1>0, <2>1, <2>3 DEF FramesWait
  <2> QED
    BY <2>5, <2>6, <2>7, <2>8 DEF FramesWait
<1>3. ASSUME NEW d \in Devices, NEW l \in Levels, Reconcile(d, l) PROVE FramesWait'
  <2>1. /\ calls[d][l].phase = "answered"
        /\ wire' = wire /\ job' = job
    BY <1>3 DEF Reconcile
  <2>2. \A e \in Devices, m \in Levels : e # d \/ m # l => calls'[e][m] = calls[e][m]
    BY <1>3 DEF Reconcile, TypeOK
  <2>3. \A r \in wire : r.level # 0 => calls'[r.dev][r.level].phase = "waiting"
    BY <1>0, <2>1, <2>2 DEF FramesWait
  <2>4. ~Idle /\ job.level # 0 => calls'[job.dev][job.level].phase = "waiting"
    BY <1>0, <2>1, <2>2 DEF FramesWait
  <2> QED
    BY <2>1, <2>3, <2>4 DEF FramesWait, Idle
<1>4. ASSUME NEW d \in Devices, DeviceCrash(d) PROVE FramesWait'
  <2>1. \A e \in Devices \ {d} : calls'[e] = calls[e]
    BY <1>4 DEF DeviceCrash, TypeOK
  <2>2. \A r \in wire' : r.level # 0 => r \in wire /\ r.dev # d
    BY <1>4 DEF DeviceCrash, TypeOK, Request
  <2>3. ~Idle' /\ job'.level # 0 => ~Idle /\ job' = job /\ job.dev # d
    BY <1>4 DEF DeviceCrash, TypeOK, Job, Idle
  <2>4. ~Idle' => ~Idle /\ job'.dev = job.dev /\ (job.dev # d => job' = job)
    BY <1>4 DEF DeviceCrash, TypeOK, Job, Idle
  <2>5. \A r \in wire' : r.level # 0 => calls'[r.dev][r.level].phase = "waiting"
    BY <1>0, <2>1, <2>2 DEF FramesWait
  <2>6. \A r \in wire' : r.level # 0 =>
            \A s \in wire' : s.dev = r.dev /\ s.level = r.level => s = r
    BY <2>2 DEF FramesWait
  <2>7. \A r \in wire' : r.level # 0 =>
            (~Idle' => job'.dev # r.dev \/ job'.level # r.level)
    BY <2>2, <2>4 DEF FramesWait
  <2>8. ~Idle' /\ job'.level # 0 => calls'[job'.dev][job'.level].phase = "waiting"
    BY <1>0, <2>1, <2>3 DEF FramesWait
  <2> QED
    BY <2>5, <2>6, <2>7, <2>8 DEF FramesWait
<1>5. ASSUME NEW r \in wire, Accept(r) PROVE FramesWait'
  <2>1. /\ wire' \subseteq wire /\ (r.level # 0 => wire' = wire \ {r})
        /\ job' = [dev |-> r.dev, level |-> r.level, todo |-> r.batch, ok |-> {}, bad |-> {}]
        /\ calls' = calls
    BY <1>5 DEF Accept, After
  <2> QED
    BY <2>1, SyncAssumption DEF FramesWait, Idle, TypeOK, Request, Job
<1>6. ASSUME NEW r \in wire, RefuseBatch(r) PROVE FramesWait'
  <2>1. /\ wire' \subseteq wire /\ (r.level # 0 => wire' = wire \ {r})
        /\ Idle /\ job' = job
        /\ calls' = Answer(r.dev, r.level, {}, {})
    BY <1>6 DEF RefuseBatch, After
  <2>2. \A s \in wire' : s.level # 0 => s.dev # r.dev \/ s.level # r.level
    BY <2>1 DEF FramesWait
  <2>3. \A e \in Devices, m \in Levels :
            e # r.dev \/ m # r.level => calls'[e][m] = calls[e][m]
    BY <2>1 DEF Answer, TypeOK
  <2>4. \A s \in wire' : s.level # 0 => calls'[s.dev][s.level].phase = "waiting"
    BY <1>0, <2>1, <2>2, <2>3 DEF FramesWait
  <2> QED
    BY <2>1, <2>4 DEF FramesWait, Idle
<1>7. ASSUME NEW r \in wire, Lose(r) PROVE FramesWait'
  BY <1>7 DEF Lose, FramesWait, Idle, serverVars, deviceVars
<1>8. ASSUME ~Idle, NEW ok, NEW bad, job' = Done(ok, bad), calls' = calls, wire' = wire
      PROVE  FramesWait'
  <2>1. job \in Job
    BY <1>8 DEF TypeOK, Idle
  <2>2. job'.dev = job.dev /\ job'.level = job.level
    BY <1>8, <2>1 DEF Done, Job
  <2> QED
    BY <1>8, <2>2 DEF FramesWait, Idle
<1>9. CASE Respond
  <2>1. /\ ~Idle /\ job' = NoJob /\ wire' = wire
        /\ calls' = Answer(job.dev, job.level, job.ok, job.bad)
    BY <1>9 DEF Respond
  <2>2. \A s \in wire : s.level # 0 => s.dev # job.dev \/ s.level # job.level
    BY <2>1 DEF FramesWait
  <2>3. \A e \in Devices, m \in Levels :
            e # job.dev \/ m # job.level => calls'[e][m] = calls[e][m]
    BY <2>1 DEF Answer, TypeOK
  <2>4. \A s \in wire : s.level # 0 => calls'[s.dev][s.level].phase = "waiting"
    BY <1>0, <2>2, <2>3 DEF FramesWait
  <2> QED
    BY <2>1, <2>4 DEF FramesWait, Idle
<1>10. CASE ServerCrash
  BY <1>10 DEF ServerCrash, FramesWait, Idle
<1>11. CASE UNCHANGED <<calls, wire, job>>
  BY <1>11 DEF FramesWait, Idle
<1>12. CASE Replay
  BY <1>8, <1>12 DEF Replay
<1>13. CASE Defer
  BY <1>8, <1>13 DEF Defer
<1>14. CASE Book
  BY <1>8, <1>14 DEF Book, MayApply
<1>15. CASE Refuse
  BY <1>8, <1>15 DEF Refuse, MayApply
<1> QED
  BY <1>1, <1>2, <1>3, <1>4, <1>5, <1>6, <1>7, <1>9, <1>10, <1>11, <1>12, <1>13,
     <1>14, <1>15, RecordKinds
     DEF Next, DeviceStep, RequestStep, ServerStep, vars, SetTill, Record,
         PruneOutbox, SetSession, MoveStock, PruneJournal

----------------------------------------------------------------------------
(* Only committed operations are in the outbox, in a drain, on their way or *)
(* booked.                                                                  *)

\* Nothing is committed at the start.
LEMMA CommittedInit == Init => Committed
<1> SUFFICES ASSUME Init PROVE Committed
  OBVIOUS
<1>1. \A d \in Devices, i \in OpIds : ~(i <= seq[d]) /\ status[d][i] = "none"
  BY SyncAssumption DEF Init, OpIds
<1>2. \A d \in Devices, l \in Levels : calls[d][l] = NoFrame
  BY DEF Init
<1> QED
  BY <1>1, <1>2 DEF Init, Committed, Idle, NoFrame

\* A drain sends pending rows, and those are committed.
LEMMA PendingCommitted ==
    ASSUME TypeOK, Committed, NEW d \in Devices, NEW i \in Pending(d)
    PROVE  i \in OpIds /\ i <= seq[d]
  BY DEF Pending, Committed

\* An outbox row exists exactly when its operation is committed.
LEMMA OutboxCommitted ==
    ASSUME TypeOK, Committed, [Next]_vars, NEW d \in Devices, NEW i \in OpIds
    PROVE  IF i <= seq'[d] THEN status'[d][i] # "none" /\ kind'[d][i] \in Kinds
                           ELSE status'[d][i] = "none"
<1> DEFINE G == IF i <= seq'[d] THEN status'[d][i] # "none" /\ kind'[d][i] \in Kinds
                                ELSE status'[d][i] = "none"
<1>0. IF i <= seq[d] THEN status[d][i] # "none" /\ kind[d][i] \in Kinds
                     ELSE status[d][i] = "none"
  BY DEF Committed
<1>1. ASSUME NEW e \in Devices, NEW k \in Kinds, Record(e, k) PROVE G
  <2>1. seq \in [Devices -> 0..MaxOps] /\ i \in Nat /\ MaxOps \in Nat
    BY SyncAssumption DEF TypeOK, OpIds
  <2>2. CASE e = d /\ i = seq[d] + 1
    BY <1>1, <2>1, <2>2 DEF Record, TypeOK
  <2>3. CASE ~(e = d /\ i = seq[d] + 1)
    <3>1. status'[d][i] = status[d][i] /\ kind'[d][i] = kind[d][i]
      BY <1>1, <2>1, <2>3 DEF Record, TypeOK
    <3>2. i <= seq'[d] <=> i <= seq[d]
      BY <1>1, <2>1, <2>3 DEF Record
    <3> QED
      BY <1>0, <3>1, <3>2
  <2> QED
    BY <2>2, <2>3
<1>2. ASSUME NEW e \in Devices, NEW l \in Levels, Reconcile(e, l) PROVE G
  <2> DEFINE f == calls[e][l]
             j == Least(f.todo)
  <2>1. /\ f.phase = "answered"
        /\ status' = [status EXCEPT ![e][j] = Verdict(f, j, @)]
        /\ seq' = seq /\ kind' = kind
    BY <1>2 DEF Reconcile
  <2>2. j \in OpIds /\ j <= seq[e]
    BY <2>1, FrameFields, LeastIn DEF Committed
  <2>3. CASE d = e /\ i = j
    <3>1. status[d][i] # "none"
      BY <1>0, <2>2, <2>3
    <3>2. status'[d][i] = Verdict(f, i, status[d][i])
      BY <2>1, <2>3 DEF TypeOK
    <3>3. status'[d][i] # "none"
      BY <3>1, <3>2 DEF Verdict
    <3> QED
      BY <1>0, <2>1, <2>2, <2>3, <3>3
  <2>4. CASE ~(d = e /\ i = j)
    <3>1. status'[d][i] = status[d][i]
      BY <2>1, <2>4 DEF TypeOK
    <3> QED
      BY <1>0, <2>1, <3>1
  <2> QED
    BY <2>3, <2>4
<1>3. ASSUME NEW e \in Devices, NEW j \in OpIds, PruneOutbox(e, j) PROVE G
  BY <1>0, <1>3 DEF PruneOutbox, TypeOK
<1>4. CASE UNCHANGED <<seq, kind, status>>
  BY <1>0, <1>4
<1> QED
  BY <1>1, <1>2, <1>3, <1>4, RecordKinds
     DEF Next, DeviceStep, RequestStep, ServerStep, vars, deviceVars, serverVars,
         SetTill, DrainBegin, GiveUp, DeviceCrash, Accept, RefuseBatch, Lose,
         Replay, Defer, Book, Refuse, Respond, ServerCrash, SetSession, MoveStock,
         PruneJournal

\* A drain of an outbox with pending rows sends at least the oldest of them.
LEMMA OldestNotEmpty ==
    ASSUME NEW d \in Devices, Pending(d) # {}
    PROVE  OldestPending(d) # {}
<1> DEFINE i == Least(Pending(d))
<1>1. i \in Pending(d) /\ \A j \in Pending(d) : i <= j
  BY LeastIn DEF Pending
<1>2. {j \in Pending(d) : j <= i} = {i}
  BY <1>1, SyncAssumption DEF Pending, OpIds
<1>3. Cardinality({j \in Pending(d) : j <= i}) = 1
  BY <1>2, FS_Singleton
<1> QED
  BY <1>1, <1>3, SyncAssumption DEF OldestPending

\* A drain holds committed rows only, and never runs out before it ends.
LEMMA FramesCommitted ==
    ASSUME TypeOK, FramesWait, Committed, [Next]_vars, NEW d \in Devices, NEW l \in Levels
    PROVE  /\ \A i \in calls'[d][l].todo : i <= seq'[d]
           /\ calls'[d][l].phase # "idle" => calls'[d][l].todo # {}
<1> DEFINE Good(f) == /\ \A i \in f.todo : i \in OpIds /\ i <= seq[d]
                      /\ f.phase # "idle" => f.todo # {}
<1>0. Good(calls[d][l])
  BY FrameFields DEF Committed
<1> SUFFICES Good(calls'[d][l])
  BY CommittedStays
<1>1. ASSUME NEW e \in Devices, DrainBegin(e) PROVE Good(calls'[d][l])
  <2>1. PICK m \in Levels : calls' = [calls EXCEPT ![e][m] =
            [phase |-> "waiting", todo |-> OldestPending(e), ok |-> {}, bad |-> {}]]
    BY <1>1 DEF DrainBegin
  <2>2. OldestPending(e) \subseteq Pending(e)
    BY DEF OldestPending
  <2>3. CASE d = e /\ l = m
    <3>1. calls'[d][l].todo = OldestPending(d)
      BY <2>1, <2>3 DEF TypeOK
    <3>2. OldestPending(d) # {}
      BY <1>1, <2>3, OldestNotEmpty DEF DrainBegin
    <3> QED
      BY <2>2, <2>3, <3>1, <3>2, PendingCommitted
  <2>4. CASE ~(d = e /\ l = m)
    BY <1>0, <2>1, <2>4 DEF TypeOK
  <2> QED
    BY <2>3, <2>4
<1>2. ASSUME NEW e \in Devices, NEW m \in Levels, GiveUp(e, m) PROVE Good(calls'[d][l])
  BY <1>0, <1>2 DEF GiveUp, Answered, TypeOK
<1>3. ASSUME NEW e \in Devices, NEW m \in Levels, Reconcile(e, m) PROVE Good(calls'[d][l])
  <2> DEFINE f == calls[e][m]
             j == Least(f.todo)
  <2>1. /\ f.phase = "answered"
        /\ calls' = [calls EXCEPT ![e][m] =
               IF f.todo = {j} THEN NoFrame ELSE [f EXCEPT !.todo = @ \ {j}]]
    BY <1>3 DEF Reconcile
  <2>2. f \in Frame /\ j \in f.todo
    BY <2>1, FrameFields, LeastIn DEF Committed
  <2>3. CASE d = e /\ l = m
    <3>1. [f EXCEPT !.todo = @ \ {j}].todo = f.todo \ {j}
      BY <2>2 DEF Frame
    <3>2. CASE f.todo = {j}
      BY <2>1, <2>3, <3>2 DEF TypeOK, NoFrame
    <3>3. CASE f.todo # {j}
      <4>1. calls'[d][l].todo = f.todo \ {j}
        BY <2>1, <2>3, <3>1, <3>3 DEF TypeOK
      <4> QED
        BY <1>0, <2>2, <2>3, <3>3, <4>1
    <3> QED
      BY <3>2, <3>3
  <2>4. CASE ~(d = e /\ l = m)
    BY <1>0, <2>1, <2>4 DEF TypeOK
  <2> QED
    BY <2>3, <2>4
<1>4. ASSUME NEW e \in Devices, DeviceCrash(e) PROVE Good(calls'[d][l])
  BY <1>0, <1>4 DEF DeviceCrash, NoFrame, TypeOK
<1>5. ASSUME NEW e \in Devices, NEW m \in 0..MaxNested, NEW ok, NEW bad,
             m # 0 => calls[e][m].phase = "waiting",
             calls' = Answer(e, m, ok, bad)
      PROVE  Good(calls'[d][l])
  <2>1. CASE d = e /\ l = m /\ m # 0
    <3>1. Good(Answered(calls[d][l], ok, bad))
      BY <1>0, <1>5, <2>1 DEF Answered
    <3>2. calls'[d][l] = Answered(calls[d][l], ok, bad)
      BY <1>5, <2>1 DEF Answer, TypeOK
    <3> QED
      BY <3>1, <3>2
  <2>2. CASE ~(d = e /\ l = m /\ m # 0)
    <3>1. calls'[d][l] = calls[d][l]
      BY <1>5, <2>2 DEF Answer, TypeOK
    <3> QED
      BY <1>0, <3>1
  <2> QED
    BY <2>1, <2>2
<1>6. ASSUME NEW r \in wire, RefuseBatch(r) PROVE Good(calls'[d][l])
  BY <1>5, <1>6 DEF RefuseBatch, FramesWait, TypeOK, Request
<1>7. CASE Respond
  BY <1>5, <1>7 DEF Respond, FramesWait, TypeOK, Job, Idle
<1>8. CASE UNCHANGED calls
  BY <1>0, <1>8
<1> QED
  BY <1>1, <1>2, <1>3, <1>4, <1>6, <1>7, <1>8, RecordKinds
     DEF Next, DeviceStep, RequestStep, ServerStep, vars, deviceVars, serverVars,
         SetTill, Record, PruneOutbox, Accept, Lose, Replay, Defer, Book, Refuse,
         ServerCrash, SetSession, MoveStock, PruneJournal

\* Every request carries committed operations only.
LEMMA WireCommitted ==
    ASSUME TypeOK, Committed, [Next]_vars
    PROVE  \A r \in wire' : \A i \in r.batch : i <= seq'[r.dev]
<1>1. \A r \in wire : r.dev \in Devices /\ r.batch \subseteq OpIds
  BY DEF TypeOK, Request
<1>2. \A r \in wire : \A i \in r.batch : i <= seq'[r.dev]
  BY <1>1, CommittedStays DEF Committed
<1>3. \A d \in Devices : \A i \in Pending(d) : i <= seq'[d]
  BY PendingCommitted, CommittedStays
<1> QED
  BY <1>2, <1>3, WireStep

\* So does the batch the server is processing.
LEMMA JobCommitted ==
    ASSUME TypeOK, Committed, [Next]_vars
    PROVE  ~Idle' => \A i \in job'.todo : i <= seq'[job'.dev]
<1>1. ~Idle => job.dev \in Devices /\ job.todo \subseteq OpIds
  BY DEF TypeOK, Job, Idle
<1>2. \A r \in wire : r.dev \in Devices /\ r.batch \subseteq OpIds
  BY DEF TypeOK, Request
<1>3. ~Idle => \A i \in job.todo : i <= seq'[job.dev]
  BY <1>1, CommittedStays DEF Committed
<1>4. \A r \in wire : \A i \in r.batch : i <= seq'[r.dev]
  BY <1>2, CommittedStays DEF Committed
<1> QED
  BY <1>3, <1>4, JobStep

\* So does the ledger.
LEMMA LedgerCommitted ==
    ASSUME TypeOK, Committed, [Next]_vars
    PROVE  \A r \in ledger' : r.op[2] <= seq'[r.op[1]]
<1>1. \A r \in ledger : r.op[2] <= seq'[r.op[1]]
  <2>1. \A r \in ledger : r.op[1] \in Devices /\ r.op[2] \in OpIds
    BY DEF TypeOK, Row
  <2> QED
    BY <2>1, CommittedStays DEF Committed
<1>2. CASE Book
  <2>1. job # NoJob /\ job.todo # {} /\ seq' = seq
    BY <1>2 DEF Book, MayApply, Idle, deviceVars
  <2>2. NextOp <= seq[job.dev]
    BY <2>1, NextOpType DEF Committed, Idle
  <2> QED
    BY <1>1, <1>2, <2>1, <2>2 DEF Book, NextRow, NextKey
<1>3. CASE ~ Book
  BY <1>1, <1>3, OnlyBookBooks
<1> QED
  BY <1>2, <1>3

\* The four lemmas together.
LEMMA CommittedStep ==
    ASSUME TypeOK, FramesWait, Committed, [Next]_vars
    PROVE  Committed'
  BY OutboxCommitted, FramesCommitted, WireCommitted, JobCommitted, LedgerCommitted
     DEF Committed

----------------------------------------------------------------------------
(* An applied ack is true, and so is what a device writes because of it. *)

\* Booking puts the operation the job is at on the server.
LEMMA BookOnServer ==
    ASSUME TypeOK, Book, NEW d \in Devices, NEW i \in OpIds, <<d, i>> = NextKey
    PROVE  OnServer(d, i)'
<1>1. kind' = kind /\ d = job.dev /\ i = NextOp
  BY DEF Book, MayApply, deviceVars, NextKey
<1> DEFINE row == [op |-> <<d, i>>, entity |-> Cardinality(ledger) + 1, kind |-> kind[d][i]]
<1>2. row \in ledger'
  BY <1>1 DEF Book, NextRow, NextKey, NextKind
<1>3. row.op = <<d, i>> /\ row.kind = kind'[d][i]
  BY <1>1
<1> QED
  BY <1>2, <1>3 DEF OnServer

\* A key in the journal stands for a booked operation.
LEMMA JournalTrue ==
    ASSUME TypeOK, Committed, AcksTrue, [Next]_vars,
           NEW d \in Devices, NEW i \in OpIds, <<d, i>> \in journal'
    PROVE  OnServer(d, i)'
<1>1. <<d, i>> \in journal => OnServer(d, i)'
  BY OnServerStays DEF AcksTrue
<1>2. CASE Book
  BY <1>1, <1>2, BookOnServer DEF Book
<1>3. CASE ~Book
  <2>1. journal' \subseteq journal
    BY <1>3, RecordKinds
       DEF Next, DeviceStep, RequestStep, ServerStep, vars, deviceVars, serverVars,
           SetTill, Record, DrainBegin, GiveUp, Reconcile, PruneOutbox, DeviceCrash,
           Accept, RefuseBatch, Lose, Replay, Defer, Refuse, Respond, ServerCrash,
           SetSession, MoveStock, PruneJournal
  <2> QED
    BY <1>1, <2>1
<1> QED
  BY <1>2, <1>3

\* The acks gathered for a batch, with the job in a state the last step led to.
LEMMA JobAcksTrue ==
    ASSUME TypeOK, Committed, AcksTrue, [Next]_vars, ~Idle',
           NEW d \in Devices, d = job'.dev, NEW i \in job'.ok
    PROVE  i \in OpIds /\ OnServer(d, i)'
<1> DEFINE G == OnServer(d, i)'
<1>0. i \in OpIds
  BY TypeStep DEF TypeOK, Job, Idle
<1> SUFFICES G
  BY <1>0
<1>1. ASSUME ~Idle, job.dev = d, i \in job.ok PROVE G
  BY <1>0, <1>1, OnServerStays DEF AcksTrue
<1>2. CASE UNCHANGED job
  BY <1>1, <1>2 DEF Idle
<1>3. ASSUME NEW e \in Devices, NEW l \in Levels, GiveUp(e, l) PROVE G
  <2>1. job' = job \/ (~Idle /\ job'.dev = job.dev /\ job'.ok = job.ok)
    BY <1>3 DEF GiveUp, Orphan, Idle, TypeOK, Job
  <2> QED
    BY <1>1, <1>2, <2>1
<1>4. ASSUME NEW e \in Devices, DeviceCrash(e) PROVE G
  <2>1. job' = job \/ (~Idle /\ job'.dev = job.dev /\ job'.ok = job.ok)
    BY <1>4 DEF DeviceCrash, Idle, TypeOK, Job
  <2> QED
    BY <1>1, <1>2, <2>1
<1>5. ASSUME NEW r \in wire, Accept(r) PROVE G
  BY <1>5 DEF Accept
<1>6. ASSUME ~Idle, NEW ok, NEW bad, job' = Done(ok, bad),
             d = job.dev /\ i \in ok => G
      PROVE  G
  <2>1. job'.dev = job.dev /\ job'.ok = job.ok \cup ok
    BY <1>6 DEF Done, Idle, TypeOK, Job
  <2> QED
    BY <1>1, <1>6, <2>1
<1>7. CASE Replay
  <2>1. ~Idle /\ NextKey \in journal /\ job' = Done({NextOp}, {})
    BY <1>7 DEF Replay
  <2>2. <<job.dev, NextOp>> \in journal
    BY <2>1 DEF NextKey
  <2>3. d = job.dev /\ i \in {NextOp} => G
    BY <1>0, <2>2, OnServerStays DEF AcksTrue
  <2> QED
    BY <1>6, <2>1, <2>3
<1>8. CASE Defer \/ Refuse
  BY <1>6, <1>8 DEF Defer, Refuse, MayApply
<1>9. CASE Book
  <2>1. d = job.dev /\ i \in {NextOp} => G
    BY <1>0, <1>9, BookOnServer DEF NextKey
  <2>2. ~Idle /\ job' = Done({NextOp}, {})
    BY <1>9 DEF Book, MayApply
  <2> QED
    BY <1>6, <2>1, <2>2
<1>10. \/ \E e \in Devices : DeviceCrash(e) \/ \E l \in Levels : GiveUp(e, l)
       \/ \E r \in wire : Accept(r)
       \/ Replay \/ Defer \/ Book \/ Refuse
       \/ UNCHANGED job
  <2>1. job' # NoJob
    BY DEF Idle
  <2> QED
    BY <2>1, RecordKinds
       DEF Next, DeviceStep, RequestStep, ServerStep, vars, SetTill, Record,
           DrainBegin, Reconcile, PruneOutbox, RefuseBatch, Lose, Respond,
           ServerCrash, SetSession, MoveStock, PruneJournal
<1> QED
  BY <1>0, <1>2, <1>3, <1>4, <1>5, <1>7, <1>8, <1>9, <1>10

\* The acks a drain holds.
LEMMA FrameAcksTrue ==
    ASSUME TypeOK, Committed, AcksTrue, [Next]_vars,
           NEW d \in Devices, NEW l \in Levels, NEW i \in calls'[d][l].ok
    PROVE  i \in OpIds /\ OnServer(d, i)'
<1> DEFINE G == OnServer(d, i)'
<1>0. i \in OpIds
  <2>1. calls'[d][l] \in Frame \cup {NoFrame}
    BY TypeStep DEF TypeOK
  <2> QED
    BY <2>1 DEF Frame, NoFrame
<1> SUFFICES G
  BY <1>0
<1>1. CASE i \in calls[d][l].ok
  BY <1>0, <1>1, OnServerStays DEF AcksTrue
<1>2. ASSUME NEW e \in Devices, NEW m \in 0..MaxNested, NEW ok, NEW bad,
             calls' = Answer(e, m, ok, bad),
             d = e /\ i \in ok => G
      PROVE  G
  <2>1. CASE d = e /\ l = m /\ m # 0
    <3>1. calls'[d][l] = Answered(calls[d][l], ok, bad)
      BY <1>2, <2>1 DEF Answer, TypeOK
    <3> QED
      BY <1>2, <2>1, <3>1 DEF Answered
  <2>2. CASE ~(d = e /\ l = m /\ m # 0)
    <3>1. calls'[d][l] = calls[d][l]
      BY <1>2, <2>2 DEF Answer, TypeOK
    <3> QED
      BY <1>1, <3>1
  <2> QED
    BY <2>1, <2>2
<1>3. ASSUME NEW e \in Devices, DrainBegin(e) PROVE G
  BY <1>1, <1>3 DEF DrainBegin, TypeOK
<1>4. ASSUME NEW e \in Devices, NEW m \in Levels, GiveUp(e, m) PROVE G
  BY <1>1, <1>4 DEF GiveUp, Answered, TypeOK
<1>5. ASSUME NEW e \in Devices, NEW m \in Levels, Reconcile(e, m) PROVE G
  <2> DEFINE f == calls[e][m]
             j == Least(f.todo)
  <2>1. /\ f.phase = "answered"
        /\ calls' = [calls EXCEPT ![e][m] =
               IF f.todo = {j} THEN NoFrame ELSE [f EXCEPT !.todo = @ \ {j}]]
    BY <1>5 DEF Reconcile
  <2>2. f \in Frame
    BY <2>1, FrameFields
  <2>3. [f EXCEPT !.todo = @ \ {j}].ok = f.ok /\ NoFrame.ok = {}
    BY <2>2 DEF Frame, NoFrame
  <2> QED
    BY <1>1, <2>1, <2>3 DEF TypeOK
<1>6. ASSUME NEW e \in Devices, DeviceCrash(e) PROVE G
  BY <1>1, <1>6 DEF DeviceCrash, NoFrame, TypeOK
<1>7. ASSUME NEW r \in wire, RefuseBatch(r) PROVE G
  BY <1>2, <1>7 DEF RefuseBatch, TypeOK, Request
<1>8. CASE Respond
  <2>1. ~Idle /\ calls' = Answer(job.dev, job.level, job.ok, job.bad)
    BY <1>8 DEF Respond
  <2>2. job.dev \in Devices /\ job.level \in 0..MaxNested
    BY <2>1 DEF TypeOK, Job, Idle
  <2>3. d = job.dev /\ i \in job.ok => G
    BY <1>0, <2>1, OnServerStays DEF AcksTrue
  <2> QED
    BY <1>2, <2>1, <2>2, <2>3
<1>9. \/ \E e \in Devices : \/ DrainBegin(e) \/ DeviceCrash(e)
                            \/ \E m \in Levels : GiveUp(e, m) \/ Reconcile(e, m)
      \/ \E r \in wire : RefuseBatch(r)
      \/ Respond
      \/ UNCHANGED calls
  BY RecordKinds DEF Next, DeviceStep, RequestStep, ServerStep, vars, SetTill, Record,
         PruneOutbox, Accept, Lose, Replay, Defer, Book, Refuse, ServerCrash,
         SetSession, MoveStock, PruneJournal
<1> QED
  BY <1>0, <1>1, <1>3, <1>4, <1>5, <1>6, <1>7, <1>8, <1>9

\* Every ack, wherever it is, stays true.
LEMMA AcksTrueStep ==
    ASSUME TypeOK, Committed, AcksTrue, [Next]_vars
    PROVE  AcksTrue'
<1>1. ~Idle' => job'.dev \in Devices
  BY TypeStep DEF TypeOK, Job, Idle
<1> QED
  BY <1>1, JournalTrue, JobAcksTrue, FrameAcksTrue DEF AcksTrue, OnServer

----------------------------------------------------------------------------
(* The status of an outbox row. *)

\* A row is queued once, when its operation is committed; after that it only
\* takes the verdict of a drain that holds it, or is deleted as applied.
LEMMA StatusStep ==
    ASSUME TypeOK, Committed, [Next]_vars, NEW d \in Devices, NEW i \in OpIds
    PROVE  \/ status'[d][i] = status[d][i]
           \/ status'[d][i] = "pending" /\ status[d][i] = "none"
           \/ status'[d][i] = "deleted" /\ status[d][i] = "applied"
           \/ \E l \in Levels : /\ i \in calls[d][l].todo
                               /\ status'[d][i] = Verdict(calls[d][l], i, status[d][i])
<1> DEFINE G == \/ status'[d][i] = status[d][i]
                \/ status'[d][i] = "pending" /\ status[d][i] = "none"
                \/ status'[d][i] = "deleted" /\ status[d][i] = "applied"
                \/ \E l \in Levels : /\ i \in calls[d][l].todo
                                    /\ status'[d][i] = Verdict(calls[d][l], i, status[d][i])
<1>1. ASSUME NEW e \in Devices, NEW k \in Kinds, Record(e, k) PROVE G
  <2>1. i = seq[d] + 1 => status[d][i] = "none"
    BY SyncAssumption DEF Committed, TypeOK, OpIds
  <2> QED
    BY <1>1, <2>1 DEF Record, TypeOK
<1>2. ASSUME NEW e \in Devices, NEW l \in Levels, Reconcile(e, l) PROVE G
  <2> DEFINE f == calls[e][l]
             j == Least(f.todo)
  <2>1. f.phase = "answered" /\ status' = [status EXCEPT ![e][j] = Verdict(f, j, @)]
    BY <1>2 DEF Reconcile
  <2>2. CASE d = e /\ i = j
    <3>1. j \in f.todo
      BY <2>1, FrameFields, LeastIn DEF Committed
    <3> QED
      BY <2>1, <2>2, <3>1 DEF TypeOK
  <2>3. CASE ~(d = e /\ i = j)
    BY <2>1, <2>3 DEF TypeOK
  <2> QED
    BY <2>2, <2>3
<1>3. ASSUME NEW e \in Devices, NEW j \in OpIds, PruneOutbox(e, j) PROVE G
  BY <1>3 DEF PruneOutbox, TypeOK
<1>4. CASE UNCHANGED status
  BY <1>4
<1>5. \/ \E e \in Devices : \/ \E k \in Kinds : Record(e, k)
                            \/ \E l \in Levels : Reconcile(e, l)
                            \/ \E j \in OpIds : PruneOutbox(e, j)
      \/ UNCHANGED status
  BY RecordKinds DEF Next, DeviceStep, RequestStep, ServerStep, vars, deviceVars, SetTill,
         DrainBegin, GiveUp, DeviceCrash, Accept, RefuseBatch, Lose, Replay, Defer,
         Book, Refuse, Respond, ServerCrash, SetSession, MoveStock, PruneJournal
<1> QED
  BY <1>1, <1>2, <1>3, <1>4, <1>5

\* A device writes applied only where an ack says so.
LEMMA AppliedStep ==
    ASSUME TypeOK, Committed, AcksTrue, AppliedIsOnServer, [Next]_vars
    PROVE  AppliedIsOnServer'
<1> SUFFICES ASSUME NEW d \in Devices, NEW i \in OpIds,
                    status'[d][i] \in {"applied", "deleted"}
             PROVE  OnServer(d, i)'
  BY DEF AppliedIsOnServer, OnServer
<1>1. status[d][i] \in {"applied", "deleted"} \/ \E l \in Levels : i \in calls[d][l].ok
  BY StatusStep DEF Verdict
<1>2. OnServer(d, i)
  BY <1>1 DEF AppliedIsOnServer, AcksTrue
<1> QED
  BY <1>2, OnServerStays

----------------------------------------------------------------------------
(* The journal guards what may come again. *)

\* No step makes a committed operation arrive that could not arrive before.
LEMMA NoNewArrivals ==
    ASSUME TypeOK, Committed, [Next]_vars,
           NEW d \in Devices, NEW i \in OpIds, i <= seq[d], MayArrive(d, i)'
    PROVE  MayArrive(d, i)
<1>1. CASE status'[d][i] = "pending"
  <2>1. status[d][i] # "none"
    BY DEF Committed
  <2> QED
    BY <1>1, <2>1, StatusStep DEF Verdict, MayArrive
<1>2. CASE \E r \in wire' : r.dev = d /\ i \in r.batch
  BY <1>2, WireStep DEF MayArrive, Pending
<1>3. CASE ~Idle' /\ job'.dev = d /\ i \in job'.todo
  BY <1>3, JobStep DEF MayArrive
<1> QED
  BY <1>1, <1>2, <1>3 DEF MayArrive

\* The rows of an operation can be counted.
LEMMA RowsFinite ==
    ASSUME TypeOK, NEW d \in Devices, NEW i \in OpIds
    PROVE  IsFiniteSet(RowsOf(d, i)) /\ Cardinality(RowsOf(d, i)) \in Nat
<1>1. RowsOf(d, i) \subseteq ledger
  BY DEF RowsOf
<1> QED
  BY <1>1, FS_Subset, FS_CardinalityType DEF TypeOK

\* How often retention dropped an operation is a number.
LEMMA ForgottenType ==
    ASSUME TypeOK, NEW d \in Devices, NEW i \in OpIds
    PROVE  forgotten[d][i] \in Nat
  BY SyncAssumption DEF TypeOK

\* Booking adds one row to the operation it books and none to the others.
LEMMA BookRows ==
    ASSUME TypeOK, Book, NEW d \in Devices, NEW i \in OpIds
    PROVE  /\ <<d, i>> # NextKey => RowsOf(d, i)' = RowsOf(d, i)
           /\ Cardinality(RowsOf(d, i)') \in Nat
           /\ Cardinality(RowsOf(d, i)') <= Cardinality(RowsOf(d, i)) + 1
<1> DEFINE row == NextRow
<1>1. ledger' = ledger \cup {row} /\ row.op = NextKey
  BY DEF Book, NextRow
<1> HIDE DEF row
<1>2. <<d, i>> # NextKey => RowsOf(d, i)' = RowsOf(d, i)
  BY <1>1 DEF RowsOf
<1>3. RowsOf(d, i)' = RowsOf(d, i) \/ RowsOf(d, i)' = RowsOf(d, i) \cup {row}
  BY <1>1 DEF RowsOf
<1>4. /\ Cardinality(RowsOf(d, i)') \in Nat
      /\ Cardinality(RowsOf(d, i)') <= Cardinality(RowsOf(d, i)) + 1
  <2>1. IsFiniteSet(RowsOf(d, i)) /\ Cardinality(RowsOf(d, i)) \in Nat
    BY RowsFinite
  <2>2. Cardinality(RowsOf(d, i) \cup {row}) =
          IF row \in RowsOf(d, i) THEN Cardinality(RowsOf(d, i)) ELSE Cardinality(RowsOf(d, i)) + 1
    BY <2>1, FS_AddElement, Zenon
  <2> QED
    BY <1>3, <2>1, <2>2
<1> QED
  BY <1>2, <1>4

\* Retention counts what it drops while it can come again, and nothing else changes
\* the count.
LEMMA ForgottenStep ==
    ASSUME TypeOK, [Next]_vars, NEW d \in Devices, NEW i \in OpIds
    PROVE  \/ forgotten'[d][i] = forgotten[d][i]
           \/ PruneJournal(d, i) /\ forgotten'[d][i] = forgotten[d][i] + 1
<1>1. CASE \E e \in Devices, j \in OpIds : PruneJournal(e, j)
  <2>1. PICK e \in Devices, j \in OpIds : PruneJournal(e, j)
    BY <1>1
  <2>2. forgotten' = [forgotten EXCEPT ![e][j] = IF MayArrive(e, j) THEN @ + 1 ELSE @]
    BY <2>1 DEF PruneJournal
  <2>3. CASE e = d /\ j = i
    BY <2>1, <2>2, <2>3 DEF TypeOK
  <2>4. CASE ~(e = d /\ j = i)
    BY <2>2, <2>4 DEF TypeOK
  <2> QED
    BY <2>3, <2>4
<1>2. CASE ~ \E e \in Devices, j \in OpIds : PruneJournal(e, j)
  BY <1>2, RecordKinds
     DEF Next, DeviceStep, RequestStep, ServerStep, vars, deviceVars, serverVars, SetTill, Record,
         DrainBegin, GiveUp, Reconcile, PruneOutbox, DeviceCrash, Accept, RefuseBatch,
         Lose, Replay, Defer, Book, Refuse, Respond, ServerCrash, SetSession, MoveStock
<1> QED
  BY <1>1, <1>2

\* An operation that is not committed has no row, before a step and after it.
LEMMA NoRowsYet ==
    ASSUME TypeOK, Committed, [Next]_vars, NEW d \in Devices, NEW i \in OpIds, ~(i <= seq[d])
    PROVE  RowsOf(d, i)' = {}
<1>1. RowsOf(d, i) = {}
  BY DEF RowsOf, Committed
<1>2. CASE Book
  <2>1. ~Idle /\ job.todo # {}
    BY <1>2 DEF Book, MayApply
  <2>2. NextOp \in job.todo
    BY <2>1, NextOpType DEF Idle
  <2>3. <<d, i>> # NextKey
    BY <2>1, <2>2 DEF Committed, NextKey
  <2> QED
    BY <1>1, <1>2, <2>3, BookRows
<1>3. CASE ~Book
  BY <1>1, <1>3, OnlyBookBooks DEF RowsOf
<1> QED
  BY <1>2, <1>3

\* The journal keeps what may come again, or retention has counted it as forgotten.
LEMMA GuardsStep ==
    ASSUME TypeOK, Committed, JournalGuards, OnceUnlessForgotten, [Next]_vars, TypeOK'
    PROVE  JournalGuards'
<1> SUFFICES ASSUME NEW d \in Devices, NEW i \in OpIds,
                    <<d, i>> \notin journal', MayArrive(d, i)'
             PROVE  Cardinality(RowsOf(d, i)') <= forgotten'[d][i]
  BY DEF JournalGuards
<1>1. forgotten[d][i] \in Nat /\ forgotten'[d][i] \in Nat
  BY ForgottenType, SyncAssumption DEF TypeOK
<1>2. forgotten[d][i] <= forgotten'[d][i]
  BY <1>1, ForgottenStep
<1>3. Cardinality(RowsOf(d, i)) \in Nat
  BY RowsFinite
<1>4. CASE ~(i <= seq[d])
  BY <1>1, <1>4, NoRowsYet, FS_EmptySet
<1>5. CASE i <= seq[d]
  <2>1. MayArrive(d, i)
    BY <1>5, NoNewArrivals
  <2>2. CASE PruneJournal(d, i)
    <3>1. forgotten'[d][i] = forgotten[d][i] + 1
      BY <2>1, <2>2 DEF PruneJournal, TypeOK
    <3>2. RowsOf(d, i)' = RowsOf(d, i)
      BY <2>2 DEF PruneJournal, RowsOf
    <3>3. Cardinality(RowsOf(d, i)) <= 1 + forgotten[d][i]
      BY DEF OnceUnlessForgotten
    <3> QED
      BY <1>1, <1>3, <3>1, <3>2, <3>3
  <2>3. CASE Book
    <3>1. <<d, i>> # NextKey /\ <<d, i>> \notin journal
      BY <2>3 DEF Book
    <3>2. Cardinality(RowsOf(d, i)) <= forgotten[d][i]
      BY <2>1, <3>1 DEF JournalGuards
    <3> QED
      BY <1>1, <1>2, <1>3, <2>3, <3>1, <3>2, BookRows
  <2>4. CASE ~PruneJournal(d, i) /\ ~Book
    <3>1. <<d, i>> \notin journal
      <4>1. CASE \E e \in Devices, j \in OpIds : PruneJournal(e, j)
        BY <2>4, <4>1 DEF PruneJournal
      <4>2. CASE ~ \E e \in Devices, j \in OpIds : PruneJournal(e, j)
        BY <2>4, <4>2, RecordKinds
           DEF Next, DeviceStep, RequestStep, ServerStep, vars, deviceVars, serverVars, SetTill,
               Record, DrainBegin, GiveUp, Reconcile, PruneOutbox, DeviceCrash, Accept,
               RefuseBatch, Lose, Replay, Defer, Refuse, Respond, ServerCrash, SetSession, MoveStock
      <4> QED
        BY <4>1, <4>2
    <3>2. RowsOf(d, i)' = RowsOf(d, i)
      BY <2>4, OnlyBookBooks DEF RowsOf
    <3>3. Cardinality(RowsOf(d, i)) <= forgotten[d][i]
      BY <2>1, <3>1 DEF JournalGuards
    <3> QED
      BY <1>1, <1>2, <1>3, <3>2, <3>3
  <2> QED
    BY <2>2, <2>3, <2>4
<1> QED
  BY <1>4, <1>5

\* What the server books it has not booked, or has booked and forgotten since.
LEMMA BookedOnce ==
    ASSUME TypeOK, JournalGuards, Book
    PROVE  /\ job.dev \in Devices /\ NextOp \in OpIds
           /\ Cardinality(RowsOf(job.dev, NextOp)) <= forgotten[job.dev][NextOp]
<1>1. ~Idle /\ job.todo # {} /\ NextKey \notin journal
  BY DEF Book, MayApply
<1>2. job.dev \in Devices /\ NextOp \in OpIds /\ NextOp \in job.todo
  BY <1>1, NextOpType DEF Idle, Job
<1>3. MayArrive(job.dev, NextOp)
  BY <1>1, <1>2 DEF MayArrive
<1> QED
  BY <1>1, <1>2, <1>3 DEF JournalGuards, NextKey

\* The ledger gets no row more of an operation than retention has forgotten.
LEMMA OnceStep ==
    ASSUME TypeOK, TypeOK', JournalGuards, OnceUnlessForgotten, [Next]_vars
    PROVE  OnceUnlessForgotten'
<1> SUFFICES ASSUME NEW d \in Devices, NEW i \in OpIds
             PROVE  Cardinality(RowsOf(d, i)') <= 1 + forgotten'[d][i]
  BY DEF OnceUnlessForgotten
<1>0. forgotten[d][i] \in Nat /\ forgotten'[d][i] \in Nat
  BY SyncAssumption DEF TypeOK
<1>1. forgotten[d][i] <= forgotten'[d][i]
  BY <1>0, ForgottenStep
<1>2. Cardinality(RowsOf(d, i)) \in Nat /\ Cardinality(RowsOf(d, i)) <= 1 + forgotten[d][i]
  BY RowsFinite DEF OnceUnlessForgotten
<1>3. CASE Book /\ <<d, i>> = NextKey
  <2>1. Cardinality(RowsOf(d, i)) <= forgotten[d][i]
    BY <1>3, BookedOnce DEF NextKey
  <2> QED
    BY <1>0, <1>1, <1>2, <1>3, <2>1, BookRows
<1>4. CASE Book /\ <<d, i>> # NextKey
  BY <1>0, <1>1, <1>2, <1>4, BookRows
<1>5. CASE ~Book
  <2>1. RowsOf(d, i)' = RowsOf(d, i)
    BY <1>5, OnlyBookBooks DEF RowsOf
  <2> QED
    BY <1>0, <1>1, <1>2, <2>1
<1> QED
  BY <1>3, <1>4, <1>5

----------------------------------------------------------------------------
(* The theorems. *)

\* What holds whatever the clean-up does.
SyncInv == TypeOK /\ FramesWait /\ Committed /\ AcksTrue /\ AppliedIsOnServer

\* The invariant holds at the start.
LEMMA SyncInvInit == Init => SyncInv
<1> SUFFICES ASSUME Init PROVE SyncInv
  OBVIOUS
<1>1. AcksTrue
  BY DEF Init, AcksTrue, Idle, NoFrame
<1>2. AppliedIsOnServer
  BY DEF Init, AppliedIsOnServer
<1> QED
  BY <1>1, <1>2, TypeInit, FramesWaitInit, CommittedInit DEF SyncInv

\* Every step keeps the invariant.
LEMMA SyncInvStep == SyncInv /\ [Next]_vars => SyncInv'
  BY TypeStep, FramesWaitStep, CommittedStep, AcksTrueStep, AppliedStep DEF SyncInv

\* The invariant of the whole protocol, whatever is pruned from the journal.
THEOREM SyncInvCorrect == Spec => []SyncInv
  BY SyncInvInit, SyncInvStep, PTL DEF Spec

\* A row marked applied, or deleted as applied, is in the central ledger with
\* its kind: through lost answers, crashes, nested drains, and any clean-up.
THEOREM AppliedCorrect == Spec => []AppliedIsOnServer
  BY SyncInvCorrect, PTL DEF SyncInv

\* No committed operation disappears from its device before the server has it.
THEOREM NothingLostCorrect == Spec => []NothingLost
<1>1. SyncInv => NothingLost
  <2> SUFFICES ASSUME SyncInv, NEW d \in Devices, NEW i \in 1..seq[d]
               PROVE  \/ status[d][i] \in {"pending", "applied", "permanent_failed"}
                      \/ status[d][i] = "deleted" /\ OnServer(d, i)
    BY DEF NothingLost
  <2>1. i \in OpIds /\ i <= seq[d]
    BY SyncAssumption DEF SyncInv, TypeOK, OpIds
  <2>2. status[d][i] \in Statuses \ {"none"}
    BY <2>1 DEF SyncInv, TypeOK, Committed
  <2> QED
    BY <2>1, <2>2 DEF SyncInv, AppliedIsOnServer, Statuses
<1> QED
  BY <1>1, SyncInvCorrect, PTL

\* Once a verdict is written the operation is never queued again.
THEOREM NeverRequeuedCorrect == Spec => NeverRequeued
<1>1. SyncInv /\ [Next]_vars =>
        [\A d \in Devices, i \in OpIds :
            status'[d][i] = "pending" => status[d][i] \in {"pending", "none"}]_status
  BY StatusStep DEF SyncInv, Verdict
<1> QED
  BY <1>1, SyncInvCorrect, PTL DEF Spec, NeverRequeued

\* The invariant with the journal's part in it.
OnceInv == SyncInv /\ JournalGuards /\ OnceUnlessForgotten

\* It holds at the start, with an empty ledger, and every step keeps it.
LEMMA OnceInvCorrect == Spec => []OnceInv
<1>1. Init => JournalGuards /\ OnceUnlessForgotten
  <2> SUFFICES ASSUME Init, NEW d \in Devices, NEW i \in OpIds
               PROVE  /\ Cardinality(RowsOf(d, i)) <= forgotten[d][i]
                      /\ Cardinality(RowsOf(d, i)) <= 1 + forgotten[d][i]
    BY DEF JournalGuards, OnceUnlessForgotten
  <2>1. RowsOf(d, i) = {}
    BY DEF Init, RowsOf
  <2> QED
    BY <2>1, FS_EmptySet DEF Init
<1>2. OnceInv /\ [Next]_vars => OnceInv'
  BY SyncInvStep, GuardsStep, OnceStep DEF OnceInv, SyncInv
<1> QED
  BY <1>1, <1>2, SyncInvInit, PTL DEF Spec, OnceInv

\* The central ledger never holds an operation more often than once and once more
\* for each time retention dropped its journal row while it could still arrive, for
\* any number of devices, requests, drains and lapses of retention.
THEOREM OnceUnlessForgottenCorrect == Spec => []OnceUnlessForgotten
  BY OnceInvCorrect, PTL DEF OnceInv

----------------------------------------------------------------------------
(* The protocol implements ExactlyOnce. *)

\* What an outbox row says of its operation.
VerdictMap == [o \in Devices \X OpIds |-> VerdictOf(o[1], o[2])]

\* How often the server forgot each operation.
ForgottenMap == [o \in Devices \X OpIds |-> forgotten[o[1]][o[2]]]

\* The initial state promises nothing yet.
LEMMA RefinesInit == Init => EO!Init
<1> SUFFICES ASSUME Init PROVE EO!Init
  OBVIOUS
<1>1. Recorded = {}
  BY SyncAssumption DEF Init, Recorded, OpIds
<1>2. \A d \in Devices, i \in OpIds : VerdictOf(d, i) = "open"
  BY DEF Init, VerdictOf
<1>3. \A d \in Devices, i \in OpIds : forgotten[d][i] = 0
  BY DEF Init
<1> QED
  BY <1>1, <1>2, <1>3 DEF Init, EO!Init

\* A device that commits an operation takes an identity nobody had.
LEMMA RefinesRecord ==
    ASSUME SyncInv, NEW d \in Devices, NEW k \in Kinds, Record(d, k)
    PROVE  EO!Next
<1> DEFINE i == seq[d] + 1
           o == <<d, i>>
<1>1. seq \in [Devices -> 0..MaxOps] /\ MaxOps \in Nat /\ seq[d] < MaxOps
  BY SyncAssumption DEF Record, SyncInv, TypeOK
<1>2. i \in OpIds
  BY <1>1 DEF OpIds
<1>3. o \notin Recorded /\ Recorded' = Recorded \cup {o}
  BY <1>1, <1>2 DEF Record, Recorded, OpIds
<1>4. \A e \in Devices, j \in OpIds : VerdictOf(e, j)' = VerdictOf(e, j)
  <2>1. status[d][i] = "none"
    BY <1>1, <1>2 DEF SyncInv, Committed
  <2> QED
    BY <1>2, <2>1 DEF Record, VerdictOf, SyncInv, TypeOK
<1>5. VerdictMap' = VerdictMap /\ ForgottenMap' = ForgottenMap /\ ledger' = ledger
  BY <1>4 DEF VerdictMap, ForgottenMap, Record, serverVars
<1> QED
  BY <1>2, <1>3, <1>5 DEF EO!Next, EO!Record, VerdictMap, ForgottenMap

\* The instance counts the members of a set as the protocol's module does.
LEMMA SameCardinality == \A S : EO!Cardinality(S) = Cardinality(S)
  BY Zenon DEF EO!Cardinality, Cardinality

\* The server books a committed operation as often as it may.
LEMMA RefinesBook ==
    ASSUME SyncInv, JournalGuards, Book
    PROVE  EO!Next
<1>1. job # NoJob /\ job.todo # {}
  BY DEF Book, MayApply, Idle
<1>2. NextKey \in Devices \X OpIds /\ NextKey \in Recorded /\ NextKind \in Kinds
  <2>1. job.dev \in Devices /\ NextOp \in OpIds /\ NextOp <= seq[job.dev]
    BY <1>1, NextOpType DEF SyncInv, Committed, Idle, Job
  <2> QED
    BY <2>1 DEF NextKey, NextKind, Recorded, SyncInv, Committed
<1>3. EO!Cardinality(EO!RowsOf(NextKey)) <= ForgottenMap[NextKey]
  <2>1. EO!RowsOf(NextKey) = RowsOf(job.dev, NextOp)
    BY DEF EO!RowsOf, RowsOf, NextKey
  <2>2. ForgottenMap[NextKey] = forgotten[job.dev][NextOp]
    BY <1>2 DEF ForgottenMap, NextKey
  <2> QED
    BY <2>1, <2>2, SameCardinality, BookedOnce DEF SyncInv
<1> DEFINE row == NextRow
<1>4. ledger' = ledger \cup {row}
  BY DEF Book
<1>5. row.op = NextKey /\ row.kind \in Kinds /\ row \in ledger'
  BY <1>2, <1>4 DEF NextRow
<1>6. Recorded' = Recorded /\ VerdictMap' = VerdictMap /\ ForgottenMap' = ForgottenMap
  BY DEF Book, deviceVars, Recorded, VerdictMap, VerdictOf, ForgottenMap
<1> HIDE DEF row
<1> QED
  BY <1>2, <1>3, <1>4, <1>5, <1>6 DEF EO!Next, EO!Book, VerdictMap, ForgottenMap

\* Every other step leaves the promise alone or writes one verdict.
LEMMA RefinesVerdict ==
    ASSUME SyncInv, NEW d \in Devices, NEW l \in Levels, Reconcile(d, l)
    PROVE  EO!Next \/ UNCHANGED EO!avars
<1> DEFINE f == calls[d][l]
<1>1. PICK i : /\ i = Least(f.todo)
               /\ f.phase = "answered"
               /\ status' = [status EXCEPT ![d][i] = Verdict(f, i, @)]
               /\ seq' = seq /\ ledger' = ledger /\ kind' = kind
               /\ forgotten' = forgotten
  BY DEF Reconcile, serverVars
<1>2. i \in OpIds /\ i <= seq[d]
  BY <1>1, FrameFields, LeastIn DEF SyncInv, Committed
<1> DEFINE o == <<d, i>>
<1>3. Recorded' = Recorded /\ o \in Recorded
  BY <1>1, <1>2 DEF Recorded
<1>4. \A e \in Devices, j \in OpIds :
          ~(e = d /\ j = i) => VerdictOf(e, j)' = VerdictOf(e, j)
  BY <1>1 DEF VerdictOf, SyncInv, TypeOK
<1>5. status'[d][i] = Verdict(f, i, status[d][i])
  BY <1>1, <1>2 DEF SyncInv, TypeOK
<1>6. CASE status'[d][i] = status[d][i]
  <2>1. VerdictOf(d, i)' = VerdictOf(d, i)
    BY <1>6 DEF VerdictOf
  <2>2. \A e \in Devices, j \in OpIds : VerdictOf(e, j)' = VerdictOf(e, j)
    BY <1>4, <2>1
  <2>3. VerdictMap' = VerdictMap
    BY <2>2 DEF VerdictMap
  <2> QED
    BY <1>1, <1>3, <2>3 DEF EO!avars, VerdictMap, ForgottenMap
<1>7. CASE status'[d][i] # status[d][i]
  <2>1. \/ status'[d][i] = "applied" /\ i \in f.ok
        \/ status'[d][i] = "permanent_failed"
    BY <1>5, <1>7 DEF Verdict
  <2>2. PICK v \in {"applied", "refused"} :
            VerdictOf(d, i)' = v /\ (v = "applied" => i \in f.ok)
    BY <2>1 DEF VerdictOf
  <2>3. \A p \in Devices \X OpIds :
            VerdictOf(p[1], p[2])' = IF p = o THEN v ELSE VerdictOf(p[1], p[2])
    BY <1>4, <2>2
  <2>4. VerdictMap' = [VerdictMap EXCEPT ![o] = v]
    BY <1>2, <2>3 DEF VerdictMap
  <2>5. v = "applied" => o \in EO!BookedOps
    BY <1>2, <2>2 DEF SyncInv, AcksTrue, OnServer, EO!BookedOps
  <2> QED
    BY <1>1, <1>2, <1>3, <2>2, <2>4, <2>5 DEF EO!Next, EO!Settle, VerdictMap, ForgottenMap
<1> QED
  BY <1>6, <1>7

\* Deleting an applied row changes nothing that was promised.
LEMMA RefinesPrune ==
    ASSUME SyncInv, NEW d \in Devices, NEW i \in OpIds, PruneOutbox(d, i)
    PROVE  UNCHANGED EO!avars
<1>1. \A e \in Devices, j \in OpIds : VerdictOf(e, j)' = VerdictOf(e, j)
  BY DEF PruneOutbox, VerdictOf, SyncInv, TypeOK
<1>2. VerdictMap' = VerdictMap
  BY <1>1 DEF VerdictMap
<1> QED
  BY <1>2 DEF EO!avars, VerdictMap, ForgottenMap, Recorded, PruneOutbox, serverVars

\* Retention forgets what was booked, or drops what nobody will send again.
LEMMA RefinesForget ==
    ASSUME SyncInv, NEW d \in Devices, NEW i \in OpIds, PruneJournal(d, i)
    PROVE  EO!Next \/ UNCHANGED EO!avars
<1> DEFINE o == <<d, i>>
<1>1. o \in EO!BookedOps
  BY DEF PruneJournal, SyncInv, AcksTrue, OnServer, EO!BookedOps
<1>2. Recorded' = Recorded /\ VerdictMap' = VerdictMap /\ ledger' = ledger
  BY DEF PruneJournal, deviceVars, Recorded, VerdictMap, VerdictOf
<1>3. CASE MayArrive(d, i)
  <2>1. \A p \in Devices \X OpIds :
            forgotten'[p[1]][p[2]] = IF p = o THEN forgotten[d][i] + 1 ELSE forgotten[p[1]][p[2]]
    BY <1>3 DEF PruneJournal, SyncInv, TypeOK
  <2>2. ForgottenMap' = [ForgottenMap EXCEPT ![o] = @ + 1]
    BY <2>1 DEF ForgottenMap
  <2> QED
    BY <1>1, <1>2, <2>2 DEF EO!Next, EO!Forget, VerdictMap, ForgottenMap
<1>4. CASE ~MayArrive(d, i)
  <2>1. forgotten' = forgotten
    BY <1>4 DEF PruneJournal, SyncInv, TypeOK
  <2> QED
    BY <1>2, <2>1 DEF EO!avars, VerdictMap, ForgottenMap
<1> QED
  BY <1>3, <1>4

\* Each step is a step of ExactlyOnce or none.
LEMMA RefinesStep == OnceInv /\ [Next]_vars => [EO!Next]_EO!avars
<1> SUFFICES ASSUME OnceInv, [Next]_vars PROVE EO!Next \/ UNCHANGED EO!avars
  OBVIOUS
<1>0. SyncInv /\ JournalGuards
  BY DEF OnceInv
<1>1. ASSUME UNCHANGED <<seq, status, ledger, forgotten>> PROVE UNCHANGED EO!avars
  <2>1. VerdictMap' = VerdictMap
    BY <1>1 DEF VerdictMap, VerdictOf
  <2> QED
    BY <1>1, <2>1 DEF EO!avars, VerdictMap, ForgottenMap, Recorded
<1>2. \/ \E d \in Devices : \/ \E k \in Kinds : Record(d, k)
                            \/ \E l \in Levels : Reconcile(d, l)
                            \/ \E i \in OpIds : PruneOutbox(d, i) \/ PruneJournal(d, i)
      \/ Book
      \/ UNCHANGED <<seq, status, ledger, forgotten>>
  BY RecordKinds DEF Next, DeviceStep, RequestStep, ServerStep, vars, deviceVars, serverVars,
         SetTill, DrainBegin, GiveUp, DeviceCrash, Accept, RefuseBatch, Lose,
         Replay, Defer, Refuse, Respond, ServerCrash, SetSession, MoveStock
<1> QED
  BY <1>0, <1>1, <1>2, RefinesRecord, RefinesBook, RefinesVerdict, RefinesPrune,
     RefinesForget

\* Booking is exactly once end to end, for as long as the server remembers: the
\* protocol, with all its losses, delays, crashes, overlapping drains and its
\* retention by age, implements ExactlyOnce.
THEOREM Refinement == Spec => ImplementsExactlyOnce
  BY RefinesInit, RefinesStep, OnceInvCorrect, PTL
     DEF Spec, ImplementsExactlyOnce, EO!Spec

----------------------------------------------------------------------------
(* A device with another key. *)

\* The devices whose key is not the server's.
Strangers == Devices \ Paired

\* The server never works for a device whose signature it does not know, and no frame
\* of such a device holds an ack.
NothingHeard ==
    /\ ~Idle => job.dev \in Paired
    /\ \A d \in Strangers, l \in Levels : calls[d][l].ok = {} /\ calls[d][l].bad = {}

\* The server turns to another device's request only when that device is paired.
LEMMA JobIsPaired ==
    ASSUME TypeOK, NothingHeard, [Next]_vars
    PROVE  ~Idle' => job'.dev \in Paired
<1> USE DEF Idle
<1>1. ASSUME NEW d \in Devices, NEW l \in Levels, GiveUp(d, l) PROVE ~Idle' => job'.dev \in Paired
  BY <1>1 DEF GiveUp, Orphan, NothingHeard, TypeOK, Job
<1>2. ASSUME NEW d \in Devices, DeviceCrash(d) PROVE ~Idle' => job'.dev \in Paired
  BY <1>2 DEF DeviceCrash, NothingHeard, TypeOK, Job
<1>3. ASSUME NEW r \in wire, RequestStep(r) PROVE ~Idle' => job'.dev \in Paired
  BY <1>3 DEF RequestStep, Accept, RefuseBatch, Lose, NothingHeard
<1>4. CASE Replay \/ Defer \/ Book \/ Refuse
  <2>1. job \in Job /\ job.dev \in Paired
    BY <1>4, NextOpType DEF NothingHeard, Replay, Defer, Book, Refuse, MayApply
  <2>2. \E ok, bad : job' = Done(ok, bad)
    BY <1>4 DEF Replay, Defer, Book, Refuse
  <2> QED
    BY <2>1, <2>2 DEF Done, Job
<1>5. CASE UNCHANGED job \/ job' = NoJob
  BY <1>5 DEF NothingHeard
<1> QED
  BY <1>1, <1>2, <1>3, <1>4, <1>5, RecordKinds
     DEF Next, DeviceStep, ServerStep, vars, SetTill, Record, DrainBegin, Reconcile, PruneOutbox,
         Respond, ServerCrash, SetSession, MoveStock, PruneJournal

\* An answer to a paired device touches no frame of another.
LEMMA AnswerElsewhere ==
    ASSUME TypeOK, NEW d \in Devices, NEW level \in 0 .. MaxNested,
           NEW ok, NEW bad, calls' = Answer(d, level, ok, bad)
    PROVE  \A e \in Devices \ {d} : calls'[e] = calls[e]
  BY DEF Answer, TypeOK

\* A refused batch answers without acks.
LEMMA RefusalHasNoAcks ==
    ASSUME TypeOK, NothingHeard, NEW r \in wire, RefuseBatch(r)
    PROVE  \A d \in Strangers, l \in Levels : calls'[d][l].ok = {} /\ calls'[d][l].bad = {}
<1>1. r.dev \in Devices /\ r.level \in 0 .. MaxNested
  BY DEF TypeOK, Request
<1>2. CASE r.level = 0
  BY <1>2 DEF RefuseBatch, Answer, NothingHeard
<1>3. CASE r.level # 0
  <2>1. r.level \in Levels
    BY <1>1, <1>3, SyncAssumption DEF Levels
  <2>2. calls' = [calls EXCEPT ![r.dev][r.level] = Answered(@, {}, {})]
    BY <1>3 DEF RefuseBatch, Answer
  <2> QED
    BY <1>1, <2>1, <2>2 DEF Answered, NothingHeard, TypeOK, Strangers
<1> QED
  BY <1>2, <1>3

\* No frame of a device with another key comes to hold an ack.
LEMMA NoAckHeard ==
    ASSUME TypeOK, NothingHeard, [Next]_vars
    PROVE  \A d \in Strangers, l \in Levels : calls'[d][l].ok = {} /\ calls'[d][l].bad = {}
<1> DEFINE Deaf == \A d \in Strangers, l \in Levels :
                      calls'[d][l].ok = {} /\ calls'[d][l].bad = {}
<1>1. ASSUME NEW d \in Devices, DrainBegin(d) PROVE Deaf
  BY <1>1 DEF DrainBegin, NothingHeard, TypeOK, Strangers
<1>2. ASSUME NEW d \in Devices, NEW l \in Levels, GiveUp(d, l) PROVE Deaf
  BY <1>2 DEF GiveUp, Answered, NothingHeard, TypeOK, Strangers
<1>3. ASSUME NEW d \in Devices, NEW l \in Levels, Reconcile(d, l) PROVE Deaf
  <2>1. PICK i : calls' = [calls EXCEPT ![d][l] = IF calls[d][l].todo = {i} THEN NoFrame
                                ELSE [calls[d][l] EXCEPT !.todo = @ \ {i}]]
    BY <1>3 DEF Reconcile
  <2>2. calls[d][l] \in Frame \cup {NoFrame}
    BY DEF TypeOK
  <2>3. (calls[d][l].ok = {} /\ calls[d][l].bad = {}) \/ d \in Paired
    BY DEF NothingHeard, Strangers
  <2> QED
    BY <2>1, <2>2, <2>3 DEF NothingHeard, NoFrame, Frame, TypeOK, Strangers
<1>4. ASSUME NEW d \in Devices, DeviceCrash(d) PROVE Deaf
  BY <1>4 DEF DeviceCrash, NoFrame, NothingHeard, TypeOK, Strangers
<1>5. ASSUME NEW r \in wire, RequestStep(r) PROVE Deaf
  BY <1>5, RefusalHasNoAcks DEF RequestStep, Accept, Lose, NothingHeard
<1>6. ASSUME Respond PROVE Deaf
  <2>1. job \in Job /\ job.dev \in Paired
    BY <1>6 DEF Respond, Idle, TypeOK, NothingHeard
  <2>2. \A e \in Devices \ {job.dev} : calls'[e] = calls[e]
    BY <1>6, <2>1, AnswerElsewhere DEF Respond, Job
  <2> QED
    BY <2>1, <2>2 DEF NothingHeard, Strangers
<1>7. ASSUME UNCHANGED calls PROVE Deaf
  BY <1>7 DEF NothingHeard
<1> HIDE DEF Deaf
<1>8. Deaf
  BY <1>1, <1>2, <1>3, <1>4, <1>5, <1>6, <1>7, RecordKinds
     DEF Next, DeviceStep, ServerStep, vars, SetTill, Record, PruneOutbox, Replay, Defer, Book,
         Refuse, ServerCrash, SetSession, MoveStock, PruneJournal
<1> QED
  BY <1>8 DEF Deaf

\* Without an ack no verdict is written: the row stays as it was.
LEMMA RowsKept ==
    ASSUME TypeOK, NothingHeard, WrongKeyKeepsAll, [Next]_vars
    PROVE  \A d \in Strangers, i \in OpIds : status'[d][i] \in {"none", "pending"}
<1> DEFINE Kept == \A d \in Strangers, i \in OpIds : status'[d][i] \in {"none", "pending"}
<1>1. ASSUME NEW d \in Devices, NEW k \in Kinds, Record(d, k) PROVE Kept
  BY <1>1 DEF Record, WrongKeyKeepsAll, TypeOK, Strangers
<1>2. ASSUME NEW d \in Devices, NEW l \in Levels, Reconcile(d, l) PROVE Kept
  <2>1. PICK i : status' = [status EXCEPT ![d][i] = Verdict(calls[d][l], i, @)]
    BY <1>2 DEF Reconcile
  <2>2. \A old : d \in Strangers => Verdict(calls[d][l], i, old) = old
    BY DEF NothingHeard, Verdict
  <2> QED
    BY <2>1, <2>2 DEF WrongKeyKeepsAll, TypeOK, Strangers
<1>3. ASSUME NEW d \in Devices, NEW i \in OpIds, PruneOutbox(d, i) PROVE Kept
  BY <1>3 DEF PruneOutbox, WrongKeyKeepsAll, TypeOK, Strangers
<1>4. ASSUME UNCHANGED status PROVE Kept
  BY <1>4 DEF WrongKeyKeepsAll, Strangers
<1> HIDE DEF Kept
<1>5. Kept
  BY <1>1, <1>2, <1>3, <1>4, RecordKinds
     DEF Next, DeviceStep, RequestStep, ServerStep, vars, deviceVars, SetTill, DrainBegin, GiveUp,
         DeviceCrash, Accept, RefuseBatch, Lose, Replay, Defer, Book, Refuse, Respond,
         ServerCrash, SetSession, MoveStock, PruneJournal
<1> QED
  BY <1>5 DEF Kept

\* Only what a paired device sent is booked.
LEMMA NothingBooked ==
    ASSUME TypeOK, NothingHeard, WrongKeyKeepsAll, [Next]_vars
    PROVE  \A d \in Strangers : \A r \in ledger' : r.op[1] # d
<1>1. CASE Book
  <2>1. ledger' = ledger \cup {NextRow} /\ job.dev \in Paired
    BY <1>1 DEF Book, MayApply, NothingHeard
  <2>2. NextRow.op[1] = job.dev
    BY DEF NextRow, NextKey
  <2> QED
    BY <2>1, <2>2 DEF WrongKeyKeepsAll, Strangers
<1>2. CASE ~Book
  BY <1>2, OnlyBookBooks DEF WrongKeyKeepsAll, Strangers
<1> QED
  BY <1>1, <1>2

\* A device whose key is not the server's loses no row and gets none booked, however
\* often it drains, is refused, cut off or restarted: a refusal of the batch (403) is no
\* verdict on an operation, and the rows wait for the right key.
THEOREM WrongKeyCorrect == Spec => []WrongKeyKeepsAll
<1>1. Init => NothingHeard /\ WrongKeyKeepsAll
  BY DEF Init, NothingHeard, WrongKeyKeepsAll, Idle, NoFrame, Strangers
<1>2. TypeOK /\ NothingHeard /\ WrongKeyKeepsAll /\ [Next]_vars
        => NothingHeard' /\ WrongKeyKeepsAll'
  BY JobIsPaired, NoAckHeard, RowsKept, NothingBooked DEF NothingHeard, WrongKeyKeepsAll, Strangers
<1> QED
  BY <1>1, <1>2, TypeCorrect, PTL DEF Spec

----------------------------------------------------------------------------
(* Verdicts. *)

\* A step gives a drain nothing to reconcile but rows that are pending.
LEMMA TodoStep ==
    ASSUME TypeOK, FramesWait, [Next]_vars, NEW d \in Devices, NEW l \in Levels
    PROVE  calls'[d][l].todo \subseteq calls[d][l].todo \cup Pending(d)
<1> DEFINE Small == calls'[d][l].todo \subseteq calls[d][l].todo \cup Pending(d)
<1>1. ASSUME NEW e \in Devices, DrainBegin(e) PROVE Small
  <2>1. PICK m \in Levels : calls' = [calls EXCEPT ![e][m] =
            [phase |-> "waiting", todo |-> OldestPending(e), ok |-> {}, bad |-> {}]]
    BY <1>1 DEF DrainBegin
  <2>2. OldestPending(e) \subseteq Pending(e)
    BY DEF OldestPending
  <2> QED
    BY <2>1, <2>2 DEF TypeOK
<1>2. ASSUME NEW e \in Devices, NEW m \in Levels, GiveUp(e, m) PROVE Small
  BY <1>2 DEF GiveUp, Answered, TypeOK
<1>3. ASSUME NEW e \in Devices, NEW m \in Levels, Reconcile(e, m) PROVE Small
  <2>1. PICK j : calls' = [calls EXCEPT ![e][m] = IF calls[e][m].todo = {j} THEN NoFrame
                                ELSE [calls[e][m] EXCEPT !.todo = @ \ {j}]]
    BY <1>3 DEF Reconcile
  <2>2. calls[e][m] \in Frame \cup {NoFrame}
    BY DEF TypeOK
  <2> QED
    BY <2>1, <2>2 DEF NoFrame, Frame, TypeOK
<1>4. ASSUME NEW e \in Devices, DeviceCrash(e) PROVE Small
  BY <1>4 DEF DeviceCrash, NoFrame, TypeOK
<1>5. ASSUME NEW e \in Devices, NEW m \in 0..MaxNested, NEW ok, NEW bad,
             calls' = Answer(e, m, ok, bad)
      PROVE  Small
  <2>1. CASE d = e /\ l = m /\ m # 0
    BY <1>5, <2>1 DEF Answer, Answered, TypeOK
  <2>2. CASE ~(d = e /\ l = m /\ m # 0)
    BY <1>5, <2>2 DEF Answer, TypeOK
  <2> QED
    BY <2>1, <2>2
<1>6. ASSUME NEW r \in wire, RefuseBatch(r) PROVE Small
  BY <1>5, <1>6 DEF RefuseBatch, TypeOK, Request
<1>7. ASSUME Respond PROVE Small
  BY <1>5, <1>7 DEF Respond, TypeOK, Job, Idle
<1>8. ASSUME UNCHANGED calls PROVE Small
  BY <1>8
<1> HIDE DEF Small
<1>9. Small
  BY <1>1, <1>2, <1>3, <1>4, <1>6, <1>7, <1>8, RecordKinds
     DEF Next, DeviceStep, RequestStep, ServerStep, vars, deviceVars, serverVars,
         SetTill, Record, PruneOutbox, Accept, Lose, Replay, Defer, Book, Refuse,
         ServerCrash, SetSession, MoveStock, PruneJournal
<1> QED
  BY <1>9 DEF Small

\* No drain takes up a row that is not pending, and only a drain that has the row to
\* reconcile changes its verdict.
LEMMA StandsStep ==
    ASSUME SyncInv, [Next]_vars, NEW d \in Devices, NEW i \in OpIds,
           NEW v \in {"applied", "permanent_failed"}, Stands(d, i, v)
    PROVE  Stands(d, i, v)'
<1>1. status[d][i] \in {"applied", "permanent_failed", "deleted"}
  BY DEF Stands, Keeps
<1>2. ASSUME NEW l \in Levels PROVE i \notin calls'[d][l].todo
  BY <1>1, TodoStep DEF Stands, SyncInv, Pending
<1>3. \/ status'[d][i] = status[d][i]
      \/ status'[d][i] = "deleted" /\ status[d][i] = "applied"
  BY <1>1, StatusStep DEF Stands, SyncInv
<1>4. Keeps(d, i, v)'
  BY <1>3 DEF Stands, Keeps
<1> QED
  BY <1>2, <1>4 DEF Stands

\* What a row says once no drain has it left to reconcile it says for good, for any
\* number of drains that nest before and afterwards: an applied row is only ever
\* deleted, a refused one is never sent again.
THEOREM VerdictsStandCorrect == Spec => VerdictsStand
<1>1. SyncInv /\ [Next]_vars
        => [\A d \in Devices, i \in OpIds, v \in {"applied", "permanent_failed"} :
              Stands(d, i, v) => Stands(d, i, v)']_vars
  BY StandsStep
<1> QED
  BY <1>1, SyncInvCorrect, PTL DEF Spec, VerdictsStand
=============================================================================
