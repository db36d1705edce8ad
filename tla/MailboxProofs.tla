---------------------------- MODULE MailboxProofs ----------------------------
(***************************************************************************)
(* Proofs about Mailbox for any number of threads, any capacity and any    *)
(* number of messages: no wakeup and no signal is lost, and the engine     *)
(* lock is held by whom its owner's program counter says.                  *)
(***************************************************************************)
EXTENDS Mailbox, TLAPS

(* The queue never outgrows its capacity.                                  *)
QueueBounded == Len(queue) <= Capacity

(* Who has the engine lock, for every thread; a Writer::send caller never  *)
(* gets to the steps of send_with_unlock.                                  *)
SenderPcs == {"idle", "post", "wakeSent", "wakeFull"}
EngineInv ==
    /\ LockHandedBack
    /\ engine = "consumer" <=> cpc = "resetting"
    /\ \A p \in Senders : pc[p] \in SenderPcs

(* A thread asleep on not_full is at its wait.                             *)
WaitersAwait == \A p \in notFull : pc[p] = "await"

(* What makes NoLostWakeup inductive: it holds not only while the loop is  *)
(* parked, but from the moment a drain has emptied the queue.              *)
WakeOnItsWay == \E p \in Producers : pc[p] \in {"wakeSent", "wakeSlow"}
WakeInv ==
    /\ queue # <<>> /\ cpc \notin {"woken", "drain", "stopped"} =>
         notified \/ WakeOnItsWay
    /\ stop = "notified" => notified \/ cpc \in {"woken", "stopped"}

(* The loop holds a batch only on the way from its drain to its dispatch,  *)
(* so a drain overwrites nothing.                                          *)
BatchInv == batch # <<>> => cpc \in {"signal", "dispatch"}

(* The inductive invariant.                                                *)
IInv ==
    /\ MailboxTypeOK
    /\ QueueBounded
    /\ EngineInv
    /\ WaitersAwait
    /\ NoLostSignal
    /\ WakeInv
    /\ BatchInv

-----------------------------------------------------------------------------
(* The initial states satisfy the invariant.                               *)
LEMMA InitIInv == MailboxInit => IInv
  <1> SUFFICES ASSUME MailboxInit PROVE IInv
    OBVIOUS
  <1> USE DEF MailboxInit
  <1>1. MailboxTypeOK
    <2>1. pc \in [Producers -> PcValues] /\ cpc \in CpcValues
      BY DEF PcValues, CpcValues
    <2>2. posted \in [Producers -> Nat] /\ \A p \in Producers : posted[p] <= MaxPosts[p]
      BY MaxPostsAssumption
    <2>3. queue \in Seq(Message) /\ batch \in Seq(Message) /\ log \in Seq(Message)
      OBVIOUS
    <2> QED BY <2>1, <2>2, <2>3 DEF MailboxTypeOK
  <1>2. QueueBounded
    BY QueueAssumption DEF QueueBounded
  <1>3. EngineInv
    BY ProducersAssumption
    DEF EngineInv, LockHandedBack, Producers, SenderPcs
  <1>4. WaitersAwait /\ NoLostSignal /\ WakeInv /\ BatchInv
    BY DEF WaitersAwait, NoLostSignal, WakeInv, BatchInv
  <1> QED BY <1>1, <1>2, <1>3, <1>4 DEF IInv

(* What a thread posts is a message.                                       *)
LEMMA MsgType ==
    ASSUME MailboxTypeOK, NEW p \in Producers
    PROVE  Msg(p) \in Message
  <1>1. MaxPosts[p] \in Nat /\ posted[p] \in Nat /\ posted[p] <= MaxPosts[p]
    BY MaxPostsAssumption DEF MailboxTypeOK
  <1>2. Msg(p) \in [from : {p}, n : 0 .. MaxPosts[p]]
    BY <1>1 DEF Msg
  <1> QED BY <1>2 DEF Message

(* Where a thread goes to is a place of a program counter.                 *)
LEMMA GotoType ==
    ASSUME NEW p \in Producers, NEW l \in PcValues,
           pc \in [Producers -> PcValues], Goto(p, l)
    PROVE  pc' \in [Producers -> PcValues]
  BY DEF Goto

(* Every step keeps the types; that only an Unlocker sleeps on not_full is *)
(* one, so who is where matters.                                           *)
LEMMA NextTypeOK == MailboxTypeOK /\ EngineInv /\ [MailboxNext]_mailboxVars => MailboxTypeOK'
  <1> SUFFICES ASSUME MailboxTypeOK, EngineInv, [MailboxNext]_mailboxVars PROVE MailboxTypeOK'
    OBVIOUS
  <1> USE MaxPostsAssumption, ProducersAssumption
      DEF MailboxTypeOK, CpcValues, Goto, consVars, prodVars
  <1>1. ASSUME NEW p \in Producers, Begin(p) PROVE MailboxTypeOK'
    <2>1. pc' \in [Producers -> PcValues]
      BY <1>1, GotoType DEF Begin, PcValues
    <2>2. posted' \in [Producers -> Nat]
      BY <1>1 DEF Begin
    <2>3. \A q \in Producers : posted'[q] <= MaxPosts[q]
      BY <1>1 DEF Begin
    <2>4. engine' \in Unlockers \cup {"consumer", "free"}
      BY <1>1 DEF Begin
    <2> QED BY <1>1, <2>1, <2>2, <2>3, <2>4 DEF Begin
  <1>2. ASSUME NEW p \in Producers, Push(p) PROVE MailboxTypeOK'
    <2>1. Msg(p) \in Message
      BY MsgType
    <2>2. queue' \in Seq(Message)
      BY <1>2, <2>1 DEF Push
    <2>3. pc' \in [Producers -> PcValues]
      BY <1>2 DEF Push, PcValues
    <2> QED BY <1>2, <2>2, <2>3 DEF Push
  <1>3. ASSUME NEW p \in Producers, Refused(p) PROVE MailboxTypeOK'
    BY <1>3 DEF Refused, PcValues
  <1>4. ASSUME NEW p \in Producers, Wake(p) PROVE MailboxTypeOK'
    <2>1. pc' \in [Producers -> PcValues]
      BY <1>4 DEF Wake, PcValues
    <2> QED BY <1>4, <2>1 DEF Wake
  <1>5. ASSUME NEW p \in Producers, DropHeld(p) PROVE MailboxTypeOK'
    BY <1>5 DEF DropHeld, PcValues
  <1>6. ASSUME NEW p \in Producers, AwaitRoom(p) PROVE MailboxTypeOK'
    <2>1. p \in Unlockers
      BY <1>6 DEF AwaitRoom, EngineInv, SenderPcs, Producers
    <2> QED BY <1>6, <2>1 DEF AwaitRoom
  <1>7. ASSUME NEW p \in Producers, PushSlow(p) PROVE MailboxTypeOK'
    <2>1. Msg(p) \in Message
      BY MsgType
    <2>2. queue' \in Seq(Message)
      BY <1>7, <2>1 DEF PushSlow
    <2>3. pc' \in [Producers -> PcValues]
      BY <1>7 DEF PushSlow, PcValues
    <2> QED BY <1>7, <2>2, <2>3 DEF PushSlow
  <1>8. ASSUME NEW p \in Producers, SpuriousWake(p) PROVE MailboxTypeOK'
    BY <1>8 DEF SpuriousWake
  <1>9. ASSUME NEW p \in Producers, Relock(p) PROVE MailboxTypeOK'
    <2>1. p \in Unlockers
      BY <1>9 DEF Relock, EngineInv, SenderPcs, Producers
    <2> QED BY <1>9, <2>1 DEF Relock, PcValues
  <1>10. ASSUME NEW p \in Producers, HandBack(p) PROVE MailboxTypeOK'
    BY <1>10 DEF HandBack, PcValues
  <1>11. CASE CheckStop
    BY <1>11 DEF CheckStop
  <1>12. CASE WaitReturns
    BY <1>12 DEF WaitReturns
  <1>13. CASE WaitFails
    BY <1>13 DEF WaitFails
  <1>14. CASE Drain
    BY <1>14 DEF Drain
  <1>15. CASE SignalRoom
    BY <1>15 DEF SignalRoom
  <1>16. CASE Dispatch
    BY <1>16 DEF Dispatch
  <1>17. CASE FireTimers
    BY <1>17 DEF FireTimers
  <1>18. CASE LockEngine
    BY <1>18 DEF LockEngine
  <1>19. CASE UnlockEngine
    BY <1>19 DEF UnlockEngine
  <1>20. CASE SetStop
    BY <1>20 DEF SetStop
  <1>21. CASE NotifyStop
    BY <1>21 DEF NotifyStop
  <1>22. CASE UNCHANGED mailboxVars
    BY <1>22 DEF mailboxVars
  <1> QED BY <1>1, <1>2, <1>3, <1>4, <1>5, <1>6, <1>7, <1>8, <1>9, <1>10, <1>11, <1>12, <1>13, <1>14, <1>15, <1>16, <1>17, <1>18, <1>19, <1>20, <1>21, <1>22
      DEF MailboxNext, Produce, Consume

(* Only a push adds to the queue, and only when there is room.             *)
LEMMA NextQueueBounded == MailboxTypeOK /\ QueueBounded /\ [MailboxNext]_mailboxVars => QueueBounded'
  <1> SUFFICES ASSUME MailboxTypeOK, QueueBounded, [MailboxNext]_mailboxVars PROVE QueueBounded'
    OBVIOUS
  <1> USE QueueAssumption DEF MailboxTypeOK, QueueBounded, HasRoom
  <1>1. ASSUME NEW p \in Producers, Push(p) \/ PushSlow(p)
        PROVE  QueueBounded'
    <2>1. queue' = Append(queue, Msg(p)) /\ Len(queue) < Capacity
      BY <1>1 DEF Push, PushSlow
    <2>2. Msg(p) \in Message
      BY MsgType
    <2> QED BY <2>1, <2>2
  <1>2. CASE Drain
    BY <1>2 DEF Drain
  <1>3. CASE UNCHANGED queue
    BY <1>3
  <1> QED
    BY <1>1, <1>2, <1>3
    DEF MailboxNext, Produce, Consume, mailboxVars, Begin, Refused, Wake, DropHeld,
        AwaitRoom, SpuriousWake, Relock, HandBack, CheckStop, WaitReturns,
        WaitFails, SignalRoom, Dispatch, FireTimers, LockEngine, UnlockEngine,
        SetStop, NotifyStop

(* The engine lock changes hands only as the program counters say.         *)
LEMMA NextEngineInv == MailboxTypeOK /\ EngineInv /\ [MailboxNext]_mailboxVars => EngineInv'
  <1> SUFFICES ASSUME MailboxTypeOK, EngineInv, [MailboxNext]_mailboxVars PROVE EngineInv'
    OBVIOUS
  <1> USE ProducersAssumption
      DEF MailboxTypeOK, EngineInv, LockHandedBack, SenderPcs, Goto, Producers,
          consVars, prodVars
  <1>1. ASSUME NEW p \in Producers, Begin(p) PROVE EngineInv'
    BY <1>1 DEF Begin
  <1>2. ASSUME NEW p \in Producers, Push(p) PROVE EngineInv'
    BY <1>2 DEF Push
  <1>3. ASSUME NEW p \in Producers, Refused(p) PROVE EngineInv'
    BY <1>3 DEF Refused
  <1>4. ASSUME NEW p \in Producers, Wake(p) PROVE EngineInv'
    BY <1>4 DEF Wake
  <1>5. ASSUME NEW p \in Producers, DropHeld(p) PROVE EngineInv'
    BY <1>5 DEF DropHeld
  <1>6. ASSUME NEW p \in Producers, AwaitRoom(p) PROVE EngineInv'
    BY <1>6 DEF AwaitRoom
  <1>7. ASSUME NEW p \in Producers, PushSlow(p) PROVE EngineInv'
    BY <1>7 DEF PushSlow
  <1>8. ASSUME NEW p \in Producers, SpuriousWake(p) PROVE EngineInv'
    BY <1>8 DEF SpuriousWake
  <1>9. ASSUME NEW p \in Producers, Relock(p) PROVE EngineInv'
    BY <1>9 DEF Relock
  <1>10. ASSUME NEW p \in Producers, HandBack(p) PROVE EngineInv'
    BY <1>10 DEF HandBack
  <1>11. CASE CheckStop
    BY <1>11 DEF CheckStop
  <1>12. CASE WaitReturns
    BY <1>12 DEF WaitReturns
  <1>13. CASE WaitFails
    BY <1>13 DEF WaitFails
  <1>14. CASE Drain
    BY <1>14 DEF Drain
  <1>15. CASE SignalRoom
    BY <1>15 DEF SignalRoom
  <1>16. CASE Dispatch
    BY <1>16 DEF Dispatch
  <1>17. CASE FireTimers
    BY <1>17 DEF FireTimers
  <1>18. CASE LockEngine
    BY <1>18 DEF LockEngine
  <1>19. CASE UnlockEngine
    BY <1>19 DEF UnlockEngine
  <1>20. CASE SetStop
    BY <1>20 DEF SetStop
  <1>21. CASE NotifyStop
    BY <1>21 DEF NotifyStop
  <1>22. CASE UNCHANGED mailboxVars
    BY <1>22 DEF mailboxVars
  <1> QED BY <1>1, <1>2, <1>3, <1>4, <1>5, <1>6, <1>7, <1>8, <1>9, <1>10, <1>11, <1>12, <1>13, <1>14, <1>15, <1>16, <1>17, <1>18, <1>19, <1>20, <1>21, <1>22
      DEF MailboxNext, Produce, Consume

(* A thread that goes to sleep is at its wait, and leaves it awake.        *)
LEMMA NextWaitersAwait ==
    MailboxTypeOK /\ WaitersAwait /\ [MailboxNext]_mailboxVars => WaitersAwait'
  <1> SUFFICES ASSUME MailboxTypeOK, WaitersAwait, [MailboxNext]_mailboxVars PROVE WaitersAwait'
    OBVIOUS
  <1> USE DEF MailboxTypeOK, WaitersAwait, Goto, Producers, consVars, prodVars
  <1>1. ASSUME NEW p \in Producers,
               Begin(p) \/ Push(p) \/ Refused(p) \/ DropHeld(p)
                 \/ Relock(p) \/ HandBack(p)
        PROVE  WaitersAwait'
    <2>1. p \notin notFull
      BY <1>1 DEF Begin, Push, Refused, DropHeld, Relock, HandBack
    <2>2. notFull' = notFull /\ \A q \in notFull : pc'[q] = pc[q]
      BY <1>1, <2>1 DEF Begin, Push, Refused, DropHeld, Relock, HandBack
    <2> QED BY <2>2
  <1>2. ASSUME NEW p \in Producers, AwaitRoom(p) PROVE WaitersAwait'
    BY <1>2 DEF AwaitRoom
  <1>3. ASSUME NEW p \in Producers, PushSlow(p) PROVE WaitersAwait'
    BY <1>3 DEF PushSlow
  <1>4. ASSUME NEW p \in Producers, SpuriousWake(p) PROVE WaitersAwait'
    BY <1>4 DEF SpuriousWake
  <1>5. CASE SignalRoom
    BY <1>5 DEF SignalRoom
  <1>6. ASSUME NEW p \in Producers, Wake(p) PROVE WaitersAwait'
    BY <1>6 DEF Wake
  <1>7. CASE UNCHANGED <<notFull, pc>>
    BY <1>7
  <1> QED
    BY <1>1, <1>2, <1>3, <1>4, <1>5, <1>6, <1>7
    DEF MailboxNext, Produce, Consume, mailboxVars, CheckStop, WaitReturns, WaitFails, Drain,
        Dispatch, FireTimers, LockEngine, UnlockEngine, SetStop, NotifyStop

(* Nobody sleeps on not_full while there is room, except for the moment    *)
(* between a drain and its notify_all.                                     *)
LEMMA NextNoLostSignal ==
    MailboxTypeOK /\ QueueBounded /\ NoLostSignal /\ [MailboxNext]_mailboxVars => NoLostSignal'
  <1> SUFFICES ASSUME MailboxTypeOK, QueueBounded, NoLostSignal, [MailboxNext]_mailboxVars
               PROVE  NoLostSignal'
    OBVIOUS
  <1> USE QueueAssumption
      DEF MailboxTypeOK, QueueBounded, NoLostSignal, HasRoom, consVars, prodVars
  <1>1. ASSUME NEW p \in Producers, Push(p) \/ PushSlow(p)
        PROVE  NoLostSignal'
    <2>1. Len(queue) # Capacity /\ notFull' = notFull /\ cpc' = cpc
      BY <1>1 DEF Push, PushSlow
    <2> QED BY <2>1
  <1>2. ASSUME NEW p \in Producers, AwaitRoom(p) PROVE NoLostSignal'
    BY <1>2 DEF AwaitRoom
  <1>3. ASSUME NEW p \in Producers, SpuriousWake(p) PROVE NoLostSignal'
    BY <1>3 DEF SpuriousWake
  <1>4. CASE Drain
    BY <1>4 DEF Drain
  <1>5. CASE SignalRoom
    BY <1>5 DEF SignalRoom
  <1>6. CASE CheckStop \/ WaitReturns \/ WaitFails \/ Dispatch \/ FireTimers
               \/ LockEngine \/ UnlockEngine
    BY <1>6 DEF CheckStop, WaitReturns, WaitFails, Dispatch, FireTimers,
                LockEngine, UnlockEngine
  <1>7. CASE UNCHANGED <<notFull, queue, cpc>>
    BY <1>7
  <1> QED
    BY <1>1, <1>2, <1>3, <1>4, <1>5, <1>6, <1>7
    DEF MailboxNext, Produce, Consume, mailboxVars, Begin, Refused, Wake, DropHeld, Relock,
        HandBack, SetStop, NotifyStop

(* Whoever fills an empty queue, or asks the loop to stop, has a wakeup    *)
(* pending until the loop has seen it.                                     *)
LEMMA NextWakeInv == MailboxTypeOK /\ WakeInv /\ [MailboxNext]_mailboxVars => WakeInv'
  <1> SUFFICES ASSUME MailboxTypeOK, WakeInv, [MailboxNext]_mailboxVars PROVE WakeInv'
    OBVIOUS
  <1> USE DEF MailboxTypeOK, CpcValues, WakeInv, WakeOnItsWay, Goto, consVars, prodVars
  <1>1. ASSUME NEW p \in Producers, Begin(p) PROVE WakeInv'
    BY <1>1 DEF Begin
  <1>2. ASSUME NEW p \in Producers, Push(p) PROVE WakeInv'
    BY <1>2 DEF Push
  <1>3. ASSUME NEW p \in Producers, Refused(p) PROVE WakeInv'
    BY <1>3 DEF Refused
  <1>4. ASSUME NEW p \in Producers, Wake(p) PROVE WakeInv'
    BY <1>4 DEF Wake
  <1>5. ASSUME NEW p \in Producers, DropHeld(p) PROVE WakeInv'
    BY <1>5 DEF DropHeld
  <1>6. ASSUME NEW p \in Producers, AwaitRoom(p) PROVE WakeInv'
    BY <1>6 DEF AwaitRoom
  <1>7. ASSUME NEW p \in Producers, PushSlow(p) PROVE WakeInv'
    BY <1>7 DEF PushSlow
  <1>8. ASSUME NEW p \in Producers, SpuriousWake(p) PROVE WakeInv'
    BY <1>8 DEF SpuriousWake
  <1>9. ASSUME NEW p \in Producers, Relock(p) PROVE WakeInv'
    BY <1>9 DEF Relock
  <1>10. ASSUME NEW p \in Producers, HandBack(p) PROVE WakeInv'
    BY <1>10 DEF HandBack
  <1>11. CASE CheckStop
    BY <1>11 DEF CheckStop
  <1>12. CASE WaitReturns
    BY <1>12 DEF WaitReturns
  <1>13. CASE WaitFails
    BY <1>13 DEF WaitFails
  <1>14. CASE Drain
    BY <1>14 DEF Drain
  <1>15. CASE SignalRoom
    BY <1>15 DEF SignalRoom
  <1>16. CASE Dispatch
    BY <1>16 DEF Dispatch
  <1>17. CASE FireTimers
    BY <1>17 DEF FireTimers
  <1>18. CASE LockEngine
    BY <1>18 DEF LockEngine
  <1>19. CASE UnlockEngine
    BY <1>19 DEF UnlockEngine
  <1>20. CASE SetStop
    BY <1>20 DEF SetStop
  <1>21. CASE NotifyStop
    BY <1>21 DEF NotifyStop
  <1>22. CASE UNCHANGED mailboxVars
    BY <1>22 DEF mailboxVars
  <1> QED BY <1>1, <1>2, <1>3, <1>4, <1>5, <1>6, <1>7, <1>8, <1>9, <1>10, <1>11, <1>12, <1>13, <1>14, <1>15, <1>16, <1>17, <1>18, <1>19, <1>20, <1>21, <1>22
      DEF MailboxNext, Produce, Consume

(* A batch is made by a drain and gone after its dispatch.                 *)
LEMMA NextBatchInv == BatchInv /\ [MailboxNext]_mailboxVars => BatchInv'
  <1> SUFFICES ASSUME BatchInv, [MailboxNext]_mailboxVars PROVE BatchInv'
    OBVIOUS
  <1> USE DEF BatchInv, consVars
  <1>1. CASE Consume \/ WaitFails
    BY <1>1 DEF Consume, CheckStop, WaitReturns, WaitFails, Drain, SignalRoom,
                Dispatch, FireTimers, LockEngine, UnlockEngine
  <1>2. CASE UNCHANGED <<batch, cpc>>
    BY <1>2
  <1> QED
    BY <1>1, <1>2
    DEF MailboxNext, Produce, mailboxVars, Begin, Push, Refused, Wake, DropHeld, AwaitRoom,
        PushSlow, SpuriousWake, Relock, HandBack, SetStop, NotifyStop

-----------------------------------------------------------------------------
(* Every step keeps the invariant: the lemmas above, one per conjunct.     *)
LEMMA NextIInv == IInv /\ [MailboxNext]_mailboxVars => IInv'
  BY NextTypeOK, NextQueueBounded, NextEngineInv, NextWaitersAwait,
     NextNoLostSignal, NextWakeInv, NextBatchInv DEF IInv

(* The invariant holds of every reachable state.                           *)
THEOREM Invariance == MailboxSpec => []IInv
  <1>1. MailboxInit => IInv
    BY InitIInv
  <1>2. IInv /\ [MailboxNext]_mailboxVars => IInv'
    BY NextIInv
  <1> QED BY <1>1, <1>2, PTL DEF MailboxSpec

(* Every variable always has a value of its type.                          *)
THEOREM TypeCorrect == MailboxSpec => []MailboxTypeOK
  <1>1. IInv => MailboxTypeOK
    BY DEF IInv
  <1> QED BY Invariance, <1>1, PTL

(* The loop is never left parked with a message in the queue, or a stop    *)
(* request behind it, and no wakeup to come.                               *)
THEOREM WakeupsKept == MailboxSpec => []NoLostWakeup
  <1>1. IInv => NoLostWakeup
    BY DEF IInv, WakeInv, WakeOnItsWay, NoLostWakeup
  <1> QED BY Invariance, <1>1, PTL

(* A blocked sender is signalled once there is room.                       *)
THEOREM SignalsKept == MailboxSpec => []NoLostSignal
  <1>1. IInv => NoLostSignal
    BY DEF IInv
  <1> QED BY Invariance, <1>1, PTL

(* send_with_unlock waits without the engine lock and returns with it.     *)
THEOREM LockReturned == MailboxSpec => []LockHandedBack
  <1>1. IInv => LockHandedBack
    BY DEF IInv, EngineInv
  <1> QED BY Invariance, <1>1, PTL

-----------------------------------------------------------------------------
(* The refinement: what is in log, batch and queue has been accepted, what *)
(* is in log and batch has been taken.                                     *)
Accepted == log \o batch \o queue
Taken == Len(log) + Len(batch)

(* A message pushed to the queue is accepted last.                         *)
LEMMA AppendLast ==
    ASSUME NEW S, NEW a \in Seq(S), NEW b \in Seq(S), NEW c \in Seq(S), NEW m \in S
    PROVE  a \o b \o Append(c, m) = Append(a \o b \o c, m)
  OBVIOUS

(* What waits is what is in the queue.                                     *)
LEMMA WaitingIsQueue ==
    ASSUME MailboxTypeOK
    PROVE  /\ Len(Accepted) - Taken = Len(queue)
           /\ Taken \in Nat
           /\ Len(Accepted) = Taken + Len(queue)
  BY DEF MailboxTypeOK, Accepted, Taken

(* A push is an Accept; it has room because the code looked.               *)
LEMMA PushAccepts ==
    ASSUME MailboxTypeOK, NEW p \in Producers, Push(p) \/ PushSlow(p)
    PROVE  Channel!Next
  <1>1. queue' = Append(queue, Msg(p)) /\ Len(queue) < Capacity
        /\ UNCHANGED <<log, batch>>
    BY DEF Push, PushSlow, HasRoom, consVars
  <1>2. Msg(p) \in Message
    BY MsgType
  <1>3. Len(Accepted) - Taken < Capacity
    BY <1>1, WaitingIsQueue
  <1>4. Accepted' = Append(Accepted, Msg(p))
    <2>1. log \in Seq(Message) /\ batch \in Seq(Message) /\ queue \in Seq(Message)
      BY DEF MailboxTypeOK
    <2> QED BY <1>1, <1>2, <2>1, AppendLast DEF Accepted
  <1>5. Taken' = Taken
    BY <1>1 DEF Taken
  <1>6. Channel!Accept(Msg(p))
    BY <1>3, <1>4, <1>5 DEF Channel!Accept, Accepted, Taken
  <1> QED BY <1>2, <1>6 DEF Channel!Next

(* A drain of a queue that is not empty is a TakeAll; it overwrites no     *)
(* batch.                                                                  *)
LEMMA DrainTakesAll ==
    ASSUME MailboxTypeOK, BatchInv, Drain
    PROVE  Channel!Next \/ UNCHANGED Channel!vars
  <1>1. batch = <<>> /\ batch' = queue /\ queue' = <<>> /\ log' = log
    BY DEF Drain, BatchInv
  <1>2. log \in Seq(Message) /\ queue \in Seq(Message)
    BY DEF MailboxTypeOK
  <1>3. Accepted = log \o queue /\ Accepted' = log \o queue
    BY <1>1, <1>2 DEF Accepted
  <1>4. Taken = Len(log) /\ Taken' = Len(log) + Len(queue)
    BY <1>1, <1>2 DEF Taken
  <1>5. CASE queue = <<>>
    BY <1>2, <1>3, <1>4, <1>5 DEF Channel!vars, Accepted, Taken
  <1>6. CASE queue # <<>>
    <2>1. Len(queue) > 0 /\ Len(log) \in Nat
      BY <1>2, <1>6
    <2>2. Len(Accepted) = Len(log) + Len(queue)
      BY <1>2, <1>3
    <2>3. Taken < Len(Accepted) /\ Taken' = Len(Accepted)
      BY <1>4, <2>1, <2>2
    <2>4. Channel!TakeAll
      BY <1>3, <2>3 DEF Channel!TakeAll, Accepted, Taken
    <2> QED BY <2>4 DEF Channel!Next
  <1> QED BY <1>5, <1>6

(* A dispatch moves the batch to the log: nothing the channel sees.        *)
LEMMA DispatchStutters ==
    ASSUME MailboxTypeOK, Dispatch
    PROVE  UNCHANGED Channel!vars
  <1>1. log \in Seq(Message) /\ batch \in Seq(Message) /\ queue \in Seq(Message)
    BY DEF MailboxTypeOK
  <1>2. log' = log \o batch /\ batch' = <<>> /\ queue' = queue
    BY DEF Dispatch
  <1>3. Accepted' = Accepted
    BY <1>1, <1>2 DEF Accepted
  <1>4. Taken' = Taken
    BY <1>1, <1>2 DEF Taken
  <1> QED BY <1>3, <1>4 DEF Channel!vars, Accepted, Taken

(* Every step of the mailbox is a step of the channel or none.             *)
LEMMA StepRefines ==
    MailboxTypeOK /\ BatchInv /\ [MailboxNext]_mailboxVars => [Channel!Next]_(Channel!vars)
  <1> SUFFICES ASSUME MailboxTypeOK, BatchInv, [MailboxNext]_mailboxVars
               PROVE  Channel!Next \/ UNCHANGED Channel!vars
    OBVIOUS
  <1>1. ASSUME NEW p \in Producers, Push(p) \/ PushSlow(p)
        PROVE  Channel!Next
    BY <1>1, PushAccepts
  <1>2. CASE Drain
    BY <1>2, DrainTakesAll
  <1>3. CASE Dispatch
    BY <1>3, DispatchStutters
  <1>4. CASE UNCHANGED <<queue, batch, log>>
    BY <1>4 DEF Channel!vars
  <1> QED
    BY <1>1, <1>2, <1>3, <1>4
    DEF MailboxNext, Produce, Consume, mailboxVars, consVars, Begin, Refused, Wake, DropHeld,
        AwaitRoom, SpuriousWake, Relock, HandBack, CheckStop, WaitReturns,
        WaitFails, SignalRoom, FireTimers, LockEngine, UnlockEngine, SetStop,
        NotifyStop

(* The mailbox implements the channel: each accepted message is taken once *)
(* and in order, and no more than Capacity wait.                           *)
THEOREM ChannelImplemented == MailboxSpec => ChannelSpec
  <1>1. MailboxInit => Channel!Init
    BY DEF MailboxInit, Channel!Init
  <1>2. IInv => MailboxTypeOK /\ BatchInv
    BY DEF IInv
  <1>3. MailboxTypeOK /\ BatchInv /\ [MailboxNext]_mailboxVars => [Channel!Next]_(Channel!vars)
    BY StepRefines
  <1> QED BY Invariance, <1>1, <1>2, <1>3, PTL DEF MailboxSpec, ChannelSpec, Channel!Spec
=============================================================================
