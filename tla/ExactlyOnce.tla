---------------------------- MODULE ExactlyOnce ----------------------------
(***************************************************************************)
(* What the offline journal promises its owner, with the network left out: *)
(* an operation a device recorded enters the central ledger at most once   *)
(* for as long as the server remembers it, nothing a device did not record *)
(* enters it, and a device that calls an operation applied is right.  What *)
(* the server forgets may enter once more.  The promise is quoted in       *)
(* core/applied_op.h ("an ACK loss / device retry can never double-apply   *)
(* money or stock") and network/sync_coordinator.h ("Exactly-once is       *)
(* preserved end to end").  MahaliSync implements this specification.      *)
(***************************************************************************)
EXTENDS Naturals, FiniteSets

CONSTANTS Ops,        \* identities of operations: one device and one opId each
          Kinds       \* what an operation is: a sale, a debt, a payment

VARIABLES recorded,   \* identities the devices have committed to their journals
          booked,     \* rows of the central ledger: [op, entity, kind]
          forgotten,  \* how often the server forgot an operation it had booked
          verdict     \* what the device has written on its row of the operation

avars == <<recorded, booked, forgotten, verdict>>

Verdicts == {"open", "applied", "refused"}

RowsOf(o) == {row \in booked : row.op = o}
BookedOps == {row.op : row \in booked}

Init ==
    /\ recorded = {}
    /\ booked = {}
    /\ forgotten = [o \in Ops |-> 0]
    /\ verdict = [o \in Ops |-> "open"]

\* A device commits an operation: an identity is taken at most once.
Record(o) ==
    /\ o \notin recorded
    /\ recorded' = recorded \cup {o}
    /\ UNCHANGED <<booked, forgotten, verdict>>

\* The server books a recorded operation in a row of its own choosing: once, and
\* once more for each time it forgot it.
Book(o) ==
    /\ o \in recorded
    /\ Cardinality(RowsOf(o)) <= forgotten[o]
    /\ \E row \in booked' :
           /\ row.op = o /\ row.kind \in Kinds
           /\ booked' = booked \cup {row}
    /\ UNCHANGED <<recorded, forgotten, verdict>>

\* Only what was booked can be forgotten.
Forget(o) ==
    /\ o \in BookedOps
    /\ forgotten' = [forgotten EXCEPT ![o] = @ + 1]
    /\ UNCHANGED <<recorded, booked, verdict>>

\* The device closes its row.  "applied" is only ever written for a booked
\* operation; a refusal may come first from one copy of the request while
\* another copy is still on its way, so it promises nothing about the ledger.
Settle(o, v) ==
    /\ o \in recorded
    /\ v = "applied" => o \in BookedOps
    /\ verdict' = [verdict EXCEPT ![o] = v]
    /\ UNCHANGED <<recorded, booked, forgotten>>

Next ==
    \E o \in Ops :
        \/ Record(o)
        \/ Book(o)
        \/ Forget(o)
        \/ \E v \in {"applied", "refused"} : Settle(o, v)

Spec == Init /\ [][Next]_avars
============================================================================
