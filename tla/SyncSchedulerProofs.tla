------------------------ MODULE SyncSchedulerProofs ------------------------
(***************************************************************************)
(* The loop is alive and does not pile up, for any batches, intervals and  *)
(* number of drains inside one another.  The invariant is TypeOK,          *)
(* LoopAlive and DrainsAskedFor: each of the last two needs only itself    *)
(* and the types.  A drain in progress keeps the loop alive because it     *)
(* arms the timer when it returns; a timer armed inside it is counted in   *)
(* "asked", or is the one an inner drain armed in the place of itself.     *)
(***************************************************************************)
EXTENDS SyncScheduler, SequenceTheorems, TLAPS

\* What is waiting is there to be returned from, and shorter without it.
LEMMA Pop ==
    ASSUME TypeOK, Waiting
    PROVE  /\ Len(drains) \in Nat \ {0}
           /\ Innermost \in Drain
           /\ SubSeq(drains, 1, Len(drains) - 1) \in Seq(Drain)
           /\ Len(SubSeq(drains, 1, Len(drains) - 1)) = Len(drains) - 1
           /\ (SubSeq(drains, 1, Len(drains) - 1) = <<>>) <=> (Len(drains) = 1)
<1>1. drains \in Seq(Drain) /\ drains # <<>>
  BY DEF TypeOK, Waiting
<1>2. Len(drains) \in Nat \ {0}
  BY <1>1
<1>3. Innermost \in Drain
  BY <1>1, <1>2 DEF Innermost
<1> DEFINE short == SubSeq(drains, 1, Len(drains) - 1)
<1>4. short \in Seq(Drain) /\ Len(short) = Len(drains) - 1
  <2>1. Len(drains) - 1 \in Int /\ \A i \in 1..(Len(drains) - 1) : drains[i] \in Drain
    BY <1>1, <1>2
  <2>2. /\ short \in Seq(Drain)
        /\ Len(short) = IF 1 <= Len(drains) - 1 THEN Len(drains) - 1 - 1 + 1 ELSE 0
    BY <1>1, <2>1, SubSeqProperties
  <2> HIDE DEF short
  <2>3. Len(short) = Len(drains) - 1
    <3>1. CASE Len(drains) = 1
      BY <2>2, <3>1
    <3>2. CASE Len(drains) > 1
      BY <1>2, <2>2, <3>2
    <3> QED BY <1>2, <3>1, <3>2
  <2> QED BY <2>2, <2>3
<1> HIDE DEF short
<1>5. (short = <<>>) <=> (Len(short) = 0)
  <2>1. Len(<<>>) = 0
    BY EmptySeq
  <2>2. short # <<>> => Len(short) \in Nat \ {0}
    BY <1>4, EmptySeq
  <2> QED BY <2>1, <2>2
<1>6. (short = <<>>) <=> (Len(drains) = 1)
  BY <1>2, <1>4, <1>5
<1> QED BY <1>2, <1>3, <1>4, <1>6 DEF short

\* A drain that begins is one more, and takes a batch of pending rows.
LEMMA Push ==
    ASSUME TypeOK, Begin, pending # {}
    PROVE  /\ drains' \in Seq(Drain)
           /\ Len(drains') = Len(drains) + 1
           /\ Len(drains') <= MaxNested
           /\ drains' # <<>>
           /\ timer' = FALSE
           /\ interval' = interval
<1> DEFINE new == [batch |-> OldestPending, reply |-> "awaited", acked |-> {}]
<1>1. new \in Drain
  <2>1. OldestPending \subseteq pending
    BY DEF OldestPending
  <2>2. 1..recorded \subseteq 1..MaxRows
    BY SchedulerAssumption DEF TypeOK
  <2>3. OldestPending \subseteq Rows
    BY <2>1, <2>2 DEF TypeOK, Rows
  <2> QED BY <2>3 DEF Drain
<1>2. drains' = Append(drains, new) /\ Len(drains) < MaxNested
  BY DEF Begin
<1> HIDE DEF new
<1>3. drains \in Seq(Drain) /\ Len(drains) \in Nat
  BY DEF TypeOK
<1>4. drains' \in Seq(Drain) /\ Len(drains') = Len(drains) + 1
  BY <1>1, <1>2, <1>3
<1>5. drains' # <<>>
  BY <1>3, <1>4
<1>6. Len(drains') <= MaxNested
  BY <1>2, <1>3, <1>4, SchedulerAssumption
<1> QED BY <1>4, <1>5, <1>6 DEF Begin

----------------------------------------------------------------------------

\* The scheduler starts well typed.
LEMMA TypeInit == Init => TypeOK
<1> SUFFICES ASSUME Init PROVE TypeOK
  OBVIOUS
<1>1. drains \in Seq(Drain) /\ Len(drains) = 0
  BY EmptySeq DEF Init
<1>2. recorded \in 0..MaxRows /\ asked \in 0..MaxAsked /\ Len(drains) <= MaxNested
  BY <1>1, SchedulerAssumption DEF Init
<1>3. pending \subseteq 1..recorded
  BY DEF Init
<1>4. interval \in Nat \ {0} /\ base \in Nat \ {0} /\ max \in Nat \ {0}
  BY SchedulerAssumption DEF Init
<1> QED BY <1>1, <1>2, <1>3, <1>4 DEF Init, TypeOK

\* A call or a tick that begins a round leaves the types alone.
LEMMA BeginTyped ==
    ASSUME TypeOK, Begin
    PROVE  /\ timer' \in BOOLEAN
           /\ interval' \in Nat \ {0}
           /\ drains' \in Seq(Drain) /\ Len(drains') <= MaxNested
<1>1. CASE pending = {}
  BY <1>1 DEF Begin, TypeOK
<1>2. CASE pending # {}
  BY <1>2, Push DEF TypeOK
<1> QED BY <1>1, <1>2

\* A reply keeps the stack of drains well typed and as deep as it was.
LEMMA ReplyTyped ==
    ASSUME TypeOK, NEW n, NEW reply \in {"awaited", "here", "never"},
           NEW acked \in SUBSET Rows, ReplyWith(n, reply, acked)
    PROVE  drains' \in Seq(Drain) /\ Len(drains') = Len(drains)
<1> DEFINE new == [batch |-> drains[n].batch, reply |-> reply, acked |-> acked]
<1>1. drains \in Seq(Drain) /\ n \in 1..Len(drains)
  BY DEF ReplyWith, TypeOK
<1>2. drains[n] \in Drain
  BY <1>1
<1>3. new \in Drain
  BY <1>2 DEF Drain
<1>4. drains' = [drains EXCEPT ![n] = new]
  BY DEF ReplyWith
<1> HIDE DEF new
<1> QED BY <1>1, <1>3, <1>4

\* The steps of the network change a reply, or the server, and nothing else.
LEMMA NetworkSteps ==
    ASSUME TypeOK, Network
    PROVE  /\ drains' \in Seq(Drain) /\ Len(drains') = Len(drains)
           /\ server' \in {"away", "closed", "ready"}
           /\ UNCHANGED <<outbox, timer, interval, base, max, wanted, asked>>
<1>1. ASSUME NEW n \in DOMAIN drains, Answer(n)
      PROVE  /\ drains' \in Seq(Drain) /\ Len(drains') = Len(drains)
             /\ server' = server
             /\ UNCHANGED <<outbox, timer, interval, base, max, wanted, asked>>
  <2>1. PICK acked \in SUBSET Rows : ReplyWith(n, "here", acked)
    BY <1>1 DEF Answer
  <2> QED BY <2>1, ReplyTyped DEF ReplyWith
<1>2. ASSUME NEW n \in DOMAIN drains, Break(n) \/ Hang(n)
      PROVE  /\ drains' \in Seq(Drain) /\ Len(drains') = Len(drains)
             /\ server' = server
             /\ UNCHANGED <<outbox, timer, interval, base, max, wanted, asked>>
  <2>1. PICK reply \in {"here", "never"} : ReplyWith(n, reply, {})
    BY <1>2 DEF Break, Hang
  <2>2. {} \in SUBSET Rows /\ reply \in {"awaited", "here", "never"}
    OBVIOUS
  <2> QED BY <2>1, <2>2, ReplyTyped DEF ReplyWith
<1>3. ASSUME NEW s \in {"away", "closed", "ready"}, SetServer(s)
      PROVE  /\ drains' \in Seq(Drain) /\ Len(drains') = Len(drains)
             /\ server' \in {"away", "closed", "ready"}
             /\ UNCHANGED <<outbox, timer, interval, base, max, wanted, asked>>
  BY <1>3 DEF SetServer, TypeOK
<1> QED BY <1>1, <1>2, <1>3 DEF Network, TypeOK

\* A longer interval is an interval.
LEMMA LongerTyped ==
    ASSUME TypeOK PROVE Longer(interval) \in Nat \ {0}
BY DEF TypeOK, Longer, Smaller, Larger

\* Every step keeps every variable to its values.
LEMMA TypeStep == TypeOK /\ [Next]_vars => TypeOK'
<1> SUFFICES ASSUME TypeOK, [Next]_vars PROVE TypeOK'
  OBVIOUS
<1> USE SchedulerAssumption
<1>1. CASE Record
  BY <1>1 DEF Record, TypeOK
<1>2. ASSUME NEW msec \in Intervals, SetBaseInterval(msec) PROVE TypeOK'
  BY <1>2 DEF SetBaseInterval, Larger, outbox, TypeOK
<1>3. ASSUME NEW msec \in Intervals, SetMaxInterval(msec) PROVE TypeOK'
  BY <1>3 DEF SetMaxInterval, Larger, outbox, TypeOK
<1>4. CASE Start
  BY <1>4 DEF Start, Asking, outbox, TypeOK
<1>5. CASE Stop
  BY <1>5 DEF Stop, outbox, TypeOK
<1>6. CASE SyncNow
  <2>1. asked' \in 0..MaxAsked
    <3>1. CASE timer
      BY <1>6, <3>1 DEF SyncNow, TypeOK
    <3>2. CASE ~timer
      BY <1>6, <3>2 DEF SyncNow, Asking, TypeOK
    <3> QED BY <3>1, <3>2
  <2> QED BY <1>6, <2>1, BeginTyped DEF SyncNow, outbox, TypeOK
<1>7. CASE Tick
  BY <1>7, BeginTyped DEF Tick, outbox, TypeOK
<1>8. CASE Return
  <2>0. Waiting /\ recorded' = recorded /\ pending' \subseteq pending
    BY <1>8 DEF Return
  <2>1. Waiting /\ asked' \in 0..MaxAsked /\ pending' \subseteq 1..recorded'
    <3>1. asked \in 0..MaxAsked /\ pending \subseteq 1..recorded /\ 0 \in 0..MaxAsked
      BY DEF TypeOK
    <3>2. asked' \in 0..MaxAsked
      BY <1>8, <3>1 DEF Return
    <3> QED BY <2>0, <3>1, <3>2
  <2>2. drains' \in Seq(Drain) /\ Len(drains') <= MaxNested
    BY <1>8, <2>1, Pop DEF Return, TypeOK
  <2>3. interval' \in Nat \ {0} /\ timer' \in BOOLEAN
    BY <1>8, LongerTyped DEF Return, TypeOK
  <2> QED BY <1>8, <2>1, <2>2, <2>3 DEF Return, TypeOK
<1>9. CASE Network
  BY <1>9, NetworkSteps DEF outbox, TypeOK
<1>10. CASE UNCHANGED vars
  BY <1>10 DEF vars, TypeOK
<1> QED
  BY <1>1, <1>2, <1>3, <1>4, <1>5, <1>6, <1>7, <1>8, <1>9, <1>10
     DEF Next, Owner, Tune, Loop

\* The loop's variables stay in their sets, whatever the owner calls and the
\* network does.
THEOREM TypeCorrect == Spec => []TypeOK
<1> QED BY TypeInit, TypeStep, PTL DEF Spec

----------------------------------------------------------------------------

\* No step leaves a started loop without a drain or a timer.
LEMMA AliveStep == TypeOK /\ LoopAlive /\ [Next]_vars => LoopAlive'
<1> SUFFICES ASSUME TypeOK, LoopAlive, [Next]_vars PROVE LoopAlive'
  OBVIOUS
<1>1. CASE Record
  BY <1>1 DEF Record, LoopAlive, Waiting
<1>2. ASSUME NEW msec \in Intervals, SetBaseInterval(msec) \/ SetMaxInterval(msec)
      PROVE  LoopAlive'
  BY <1>2 DEF SetBaseInterval, SetMaxInterval, LoopAlive, Waiting
<1>3. CASE Start
  BY <1>3 DEF Start, LoopAlive
<1>4. CASE Stop
  BY <1>4 DEF Stop, LoopAlive
<1>5. CASE SyncNow \/ Tick
  <2>1. Begin
    BY <1>5 DEF SyncNow, Tick
  <2>2. CASE pending = {}
    BY <2>1, <2>2 DEF Begin, LoopAlive
  <2>3. CASE pending # {}
    BY <2>1, <2>3, Push DEF LoopAlive, Waiting
  <2> QED BY <2>2, <2>3
<1>6. CASE Return
  BY <1>6 DEF Return, LoopAlive
<1>7. CASE Network
  <2>1. Len(drains') = Len(drains) /\ drains \in Seq(Drain) /\ drains' \in Seq(Drain)
    BY <1>7, NetworkSteps DEF TypeOK
  <2>2. (drains' = <<>>) <=> (drains = <<>>)
    BY <2>1
  <2> QED BY <1>7, <2>2, NetworkSteps DEF LoopAlive, Waiting
<1>8. CASE UNCHANGED vars
  BY <1>8 DEF vars, LoopAlive, Waiting
<1> QED
  BY <1>1, <1>2, <1>3, <1>4, <1>5, <1>6, <1>7, <1>8 DEF Next, Owner, Tune, Loop

\* Once started and not told to stop, the loop has a drain in progress or its
\* timer armed, in every interleaving of calls, ticks and replies.
THEOREM LoopAliveCorrect == Spec => []LoopAlive
<1>1. Init => LoopAlive
  BY DEF Init, LoopAlive
<1> QED BY <1>1, TypeCorrect, AliveStep, PTL DEF Spec

----------------------------------------------------------------------------

\* No step lets the drains outnumber the calls that asked for them.
LEMMA AskedStep == TypeOK /\ DrainsAskedFor /\ [Next]_vars => DrainsAskedFor'
<1> SUFFICES ASSUME TypeOK, DrainsAskedFor, [Next]_vars PROVE DrainsAskedFor'
  OBVIOUS
<1>0. Len(drains) \in Nat /\ asked \in Nat /\ (Waiting <=> Len(drains) # 0)
  BY SchedulerAssumption DEF TypeOK, Waiting
<1>1. CASE Record
  BY <1>1 DEF Record, DrainsAskedFor, Waiting
<1>2. ASSUME NEW msec \in Intervals, SetBaseInterval(msec) \/ SetMaxInterval(msec)
      PROVE  DrainsAskedFor'
  BY <1>2 DEF SetBaseInterval, SetMaxInterval, DrainsAskedFor, Waiting
<1>3. CASE Start
  BY <1>0, <1>3 DEF Start, Asking, DrainsAskedFor, Waiting, TypeOK
<1>4. CASE Stop
  BY <1>0, <1>4 DEF Stop, DrainsAskedFor, Waiting
<1>5. CASE SyncNow \/ Tick
  <2>1. Begin /\ asked' \in Nat
    BY <1>0, <1>5 DEF SyncNow, Tick, Asking
  <2>2. asked' = IF ~timer /\ Waiting THEN asked + 1 ELSE IF timer THEN asked ELSE 0
    BY <1>5 DEF SyncNow, Tick, Asking
  <2>3. CASE pending = {}
    BY <1>0, <2>1, <2>2, <2>3 DEF Begin, DrainsAskedFor, Waiting, TypeOK
  <2>4. CASE pending # {}
    <3>1. Len(drains') = Len(drains) + 1 /\ timer' = FALSE
      BY <2>1, <2>4, Push
    <3>2. CASE Waiting
      BY <1>0, <2>1, <2>2, <3>1, <3>2 DEF DrainsAskedFor, TypeOK
    <3>3. CASE ~Waiting
      BY <1>0, <2>1, <3>1, <3>3 DEF DrainsAskedFor
    <3> QED BY <3>2, <3>3
  <2> QED BY <2>3, <2>4
<1>6. CASE Return
  <2>1. Waiting /\ timer'
    BY <1>6 DEF Return
  <2>2. Len(drains') = Len(drains) - 1
    BY <1>6, <2>1, Pop DEF Return
  <2>3. CASE Len(drains) = 1
    <3>1. drains' = <<>>
      BY <1>6, <2>1, <2>3, Pop DEF Return
    <3> QED BY <3>1 DEF DrainsAskedFor, Waiting
  <2>4. CASE Len(drains) # 1
    BY <1>0, <1>6, <2>1, <2>2, <2>4 DEF Return, DrainsAskedFor
  <2> QED BY <2>3, <2>4
<1>7. CASE Network
  <2>1. Len(drains') = Len(drains) /\ drains' \in Seq(Drain)
    BY <1>7, NetworkSteps
  <2>2. Waiting' <=> Waiting
    BY <1>0, <2>1 DEF Waiting
  <2> QED BY <1>7, <2>1, <2>2, NetworkSteps DEF DrainsAskedFor
<1>8. CASE UNCHANGED vars
  BY <1>8 DEF vars, DrainsAskedFor, Waiting
<1> QED
  BY <1>1, <1>2, <1>3, <1>4, <1>5, <1>6, <1>7, <1>8 DEF Next, Owner, Tune, Loop

\* Drains pile up only as far as calls from outside asked for them.
THEOREM DrainsAskedForCorrect == Spec => []DrainsAskedFor
<1>1. Init => DrainsAskedFor
  BY DEF Init, DrainsAskedFor, Waiting
<1> QED BY <1>1, TypeCorrect, AskedStep, PTL DEF Spec
=============================================================================
