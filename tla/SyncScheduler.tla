--------------------------- MODULE SyncScheduler ---------------------------
(***************************************************************************)
(* The device's own sync loop: a single-shot timer, a drain when it fires, *)
(* and a longer interval after a round that got stuck.  A drain waits for  *)
(* its reply in an event loop of its own, so while it waits the timer may  *)
(* fire, the owner may call start, stop, syncNow or the setters, and a     *)
(* second drain runs inside the first; only the innermost can return.      *)
(*                                                                         *)
(* What the batches do on the server is MahaliSync's business: here a      *)
(* reply gives some rows of the batch a verdict, and the others stay.      *)
(* Time is left out: an armed timer fires some time.                       *)
(***************************************************************************)
EXTENDS Integers, Sequences, FiniteSets

CONSTANTS
    MaxRows,      \* bound: rows the device records
    BatchMax,     \* SyncClient::kMaxBatchSize
    MaxNested,    \* bound: drains inside one another
    MaxAsked,     \* bound: calls that arm the timer while a drain waits
    BaseDefault,  \* m_baseInterval before any setter
    MaxDefault,   \* m_maxInterval before any setter
    Intervals     \* arguments of the setters

Rows == 1..MaxRows

ASSUME SchedulerAssumption ==
    /\ MaxRows \in Nat
    /\ BatchMax \in Nat \ {0}
    /\ MaxNested \in Nat \ {0}
    /\ MaxAsked \in Nat
    /\ BaseDefault \in Nat \ {0}
    /\ MaxDefault \in Nat \ {0}
    /\ Intervals \subseteq Int

VARIABLES
    recorded,   \* rows the device has written to its outbox: 1..recorded
    pending,    \* those without a verdict
    server,     \* out of reach, without an open session, or ready for anything
    timer,      \* m_timer.isActive()
    interval,   \* m_currentInterval
    base,       \* m_baseInterval
    max,        \* m_maxInterval
    drains,     \* drains in progress, the outermost first
    wanted,     \* the owner's last word: start and syncNow, or stop
    asked       \* times the timer was armed, or a drain begun, from outside
                \* since the outermost drain began

outbox == <<recorded, pending>>
vars == <<recorded, pending, server, timer, interval, base, max, drains, wanted, asked>>

\* A drain waits, has its reply and the rows it gives a verdict, or hangs.
Drain == [batch : SUBSET Rows, reply : {"awaited", "here", "never"}, acked : SUBSET Rows]

Larger(a, b) == IF a >= b THEN a ELSE b
Smaller(a, b) == IF a <= b THEN a ELSE b

----------------------------------------------------------------------------
(* The owner's calls.  They may come in any event loop. *)

Record ==
    /\ recorded < MaxRows
    /\ recorded' = recorded + 1
    /\ pending' = pending \cup {recorded + 1}
    /\ UNCHANGED <<server, timer, interval, base, max, drains, wanted, asked>>

\* The interval follows the base unless the timer is armed.
SetBaseInterval(msec) ==
    /\ base' = Larger(1, msec)
    /\ interval' = IF timer THEN interval ELSE base'
    /\ UNCHANGED <<outbox, server, timer, max, drains, wanted, asked>>

SetMaxInterval(msec) ==
    /\ max' = Larger(base, msec)
    /\ UNCHANGED <<outbox, server, timer, interval, base, drains, wanted, asked>>

Waiting == drains # <<>>

\* A call from outside that arms the timer, or drains, while a drain waits.
Asking ==
    /\ Waiting => asked < MaxAsked
    /\ asked' = IF Waiting THEN asked + 1 ELSE 0

Start ==
    /\ wanted' = TRUE
    /\ timer' = TRUE
    /\ IF timer THEN UNCHANGED asked ELSE Asking
    /\ UNCHANGED <<outbox, server, interval, base, max, drains>>

Stop ==
    /\ wanted' = FALSE
    /\ timer' = FALSE
    /\ UNCHANGED <<outbox, server, interval, base, max, drains, asked>>

----------------------------------------------------------------------------
(* The rounds. *)

OldestPending == {r \in pending : Cardinality({s \in pending : s <= r}) <= BatchMax}

\* Bug: a round with nothing to send returns before the timer is armed.
BeginUnarmed ==
    IF pending = {}
    THEN /\ interval' = base
         /\ timer' = FALSE
         /\ UNCHANGED drains
    ELSE /\ Len(drains) < MaxNested
         /\ drains' = Append(drains, [batch |-> OldestPending, reply |-> "awaited", acked |-> {}])
         /\ timer' = FALSE
         /\ UNCHANGED interval

\* runDrain up to the wait, with the timer off.  With nothing to send there is
\* none: the round is no stalled one, and arms the timer.
Begin ==
    IF pending = {}
    THEN /\ interval' = base
         /\ timer' = TRUE
         /\ UNCHANGED drains
    ELSE /\ Len(drains) < MaxNested
         /\ drains' = Append(drains, [batch |-> OldestPending, reply |-> "awaited", acked |-> {}])
         /\ timer' = FALSE
         /\ UNCHANGED interval

\* Bug: the timer is not a single-shot one.
TickRepeating ==
    /\ timer
    /\ pending # {}
    /\ Len(drains) < MaxNested
    /\ drains' = Append(drains, [batch |-> OldestPending, reply |-> "awaited", acked |-> {}])
    /\ UNCHANGED <<outbox, server, timer, interval, base, max, wanted, asked>>

\* onTick: the timer fires once.
Tick ==
    /\ timer
    /\ Begin
    /\ UNCHANGED <<outbox, server, base, max, wanted, asked>>

\* What follows runDrain in syncNow never arms a timer: runDrain always has.
SyncNow ==
    /\ wanted' = TRUE
    /\ IF timer THEN UNCHANGED asked ELSE Asking
    /\ Begin
    /\ UNCHANGED <<outbox, server, base, max>>

Innermost == drains[Len(drains)]

\* Some row of the batch is still pending for all the reply says; a reply
\* without acks, or none, leaves them all.
Stalled(d) == d.acked # d.batch

\* Bug: the interval stays where it is.
LongerNot(i) == Smaller(max, Larger(base, i))

Longer(i) == Smaller(max, Larger(base, i * 2))

\* Bug: only a stalled round arms the timer again.
ReturnRetrying ==
    /\ Waiting
    /\ Innermost.reply = "here"
    /\ pending' = pending \ Innermost.acked
    /\ interval' = IF Stalled(Innermost) THEN Longer(interval) ELSE base
    /\ timer' = Stalled(Innermost)
    /\ drains' = SubSeq(drains, 1, Len(drains) - 1)
    /\ asked' = IF Len(drains) = 1 THEN 0 ELSE asked
    /\ UNCHANGED <<recorded, server, base, max, wanted>>

\* The rest of drainOnce and of runDrain, once the innermost loop has quit:
\* the verdicts are written, the interval set, the timer armed.
Return ==
    /\ Waiting
    /\ Innermost.reply = "here"
    /\ pending' = pending \ Innermost.acked
    /\ interval' = IF Stalled(Innermost) THEN Longer(interval) ELSE base
    /\ timer' = TRUE
    /\ drains' = SubSeq(drains, 1, Len(drains) - 1)
    /\ asked' = IF Len(drains) = 1 THEN 0 ELSE asked
    /\ UNCHANGED <<recorded, server, base, max, wanted>>

----------------------------------------------------------------------------
(* The network and the server. *)

ReplyWith(n, reply, acked) ==
    /\ n \in DOMAIN drains
    /\ drains[n].reply = "awaited"
    /\ drains' = [drains EXCEPT ![n] =
           [batch |-> drains[n].batch, reply |-> reply, acked |-> acked]]
    /\ UNCHANGED <<outbox, server, timer, interval, base, max, wanted, asked>>

\* Without an open session some rows are deferred.
Answer(n) ==
    \E acked \in SUBSET Rows :
        /\ server \in {"ready", "closed"}
        /\ acked \subseteq drains[n].batch
        /\ server = "ready" => acked = drains[n].batch
        /\ ReplyWith(n, "here", acked)

\* The connection fails: class Network, no acks.
Break(n) == server = "away" /\ ReplyWith(n, "here", {})

\* The peer took the request and is gone: neither a reply nor an error comes,
\* and sendBatch has set no transfer timeout.
Hang(n) == server = "away" /\ ReplyWith(n, "never", {})

SetServer(s) ==
    /\ server' = s
    /\ UNCHANGED <<outbox, timer, interval, base, max, drains, wanted, asked>>

----------------------------------------------------------------------------
Init ==
    /\ recorded = 0
    /\ pending = {}
    /\ server = "away"
    /\ timer = FALSE
    /\ interval = BaseDefault
    /\ base = BaseDefault
    /\ max = MaxDefault
    /\ drains = <<>>
    /\ wanted = FALSE
    /\ asked = 0

Tune == \E msec \in Intervals : SetBaseInterval(msec) \/ SetMaxInterval(msec)
Owner == Record \/ Tune \/ Start \/ Stop \/ SyncNow
Loop == Tick \/ Return
Network ==
    \/ \E n \in DOMAIN drains : Answer(n) \/ Break(n) \/ Hang(n)
    \/ \E s \in {"away", "closed", "ready"} : SetServer(s)

Next == Owner \/ Loop \/ Network

Spec == Init /\ [][Next]_vars

\* The event loop serves an armed timer and a drain that has its reply; a
\* request that does not hang is answered or fails.  The owner need not act.
Fairness ==
    /\ WF_vars(Tick)
    /\ WF_vars(Return)
    /\ \A n \in 1..MaxNested : WF_vars(n \in DOMAIN drains /\ (Answer(n) \/ Break(n)))

LiveSpec == Spec /\ Fairness

----------------------------------------------------------------------------
(* Properties. *)

\* Every variable stays in its set, and the intervals are never below 1.
TypeOK ==
    /\ recorded \in 0..MaxRows
    /\ pending \subseteq 1..recorded
    /\ server \in {"away", "closed", "ready"}
    /\ timer \in BOOLEAN
    /\ interval \in Nat \ {0}
    /\ base \in Nat \ {0}
    /\ max \in Nat \ {0}
    /\ drains \in Seq(Drain) /\ Len(drains) <= MaxNested
    /\ wanted \in BOOLEAN
    /\ asked \in 0..MaxAsked

\* The loop is never dead: once started and not told to stop, either a drain
\* is in progress or the timer is armed for the next one, whatever was called
\* inside whichever drain.
LoopAlive == wanted /\ ~Waiting => timer

\* The single-shot timer keeps the loop from piling up: a second drain runs
\* inside a waiting one only if something from outside asked for it, and each
\* call adds one drain at most.
DrainsAskedFor == Waiting => Len(drains) + (IF timer THEN 1 ELSE 0) <= 1 + asked

\* sync_scheduler.h: a device "can sit in a dead LAN indefinitely and simply
\* catch up when the server returns".  With the loop running and the server
\* back for good, every row gets its verdict.  CatchesUpIfAnswered has it for the
\* behaviours in which every request ends: a drain whose peer fell silent holds the
\* loop for ever.
CatchesUp ==
    (<>[](server = "ready") /\ <>[]wanted) =>
        \A r \in Rows : (r \in pending) ~> (r \notin pending)

NeverHung == []~\E n \in DOMAIN drains : drains[n].reply = "never"

\* The same where every request ends: whatever the owner calls, and however
\* drains nest, the loop goes on until nothing is pending.
CatchesUpIfAnswered == NeverHung => CatchesUp

\* docs/SYNC_PROTOCOL.md, Backoff: while a server stays away the interval grows
\* to its maximum and stays there, drains inside drains included.
BacksOff ==
    (NeverHung /\ <>[](server = "away" /\ wanted /\ pending # {}) /\ <>[][~Tune]_vars)
        => <>[](interval = max)
=============================================================================
