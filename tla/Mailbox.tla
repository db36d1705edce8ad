------------------------------- MODULE Mailbox -------------------------------
(***************************************************************************)
(* The bounded mailbox of qwertty-term-termio (mailbox.rs) between its     *)
(* producers and the writer loop of hub.rs, its single consumer.           *)
(*                                                                         *)
(* A producer is a thread that posts with Writer::send (never blocks, the  *)
(* message is refused when the queue is full) or with send_with_unlock     *)
(* (called with the engine lock held; when the queue is full it releases   *)
(* that lock, waits for room and takes the lock again).  The consumer      *)
(* parks in Poller::wait, drains the queue in one critical section,        *)
(* signals the blocked producers afterwards, dispatches the batch and, when *)
(* the synchronized-output timer expires, takes the engine lock to reset   *)
(* mode 2026.  A critical section of the queue mutex is one step; the      *)
(* engine lock is a variable, since it is held across steps.               *)
(***************************************************************************)
EXTENDS Naturals, Sequences

CONSTANTS
    Senders,        \* threads posting with Writer::send
    Unlockers,      \* threads posting with send_with_unlock
    Capacity,       \* CAPACITY, 64 in the code
    SyncThreads,    \* the producers that post StartSynchronizedOutput
    MaxPosts        \* bound: how many messages each thread posts, by thread

Producers == Senders \cup Unlockers

ASSUME QueueAssumption == Capacity \in Nat \ {0}
ASSUME MaxPostsAssumption == MaxPosts \in [Producers -> Nat]
ASSUME ProducersAssumption ==
    /\ Senders \cap Unlockers = {}
    /\ {"consumer", "free"} \cap Producers = {}
    /\ SyncThreads \subseteq Producers

VARIABLES
    queue,          \* Inner::queue
    notFull,        \* the threads waiting on Inner::not_full
    notified,       \* Poller::notify was called since the last wait returned
    engine,         \* who holds the engine lock: a thread, "consumer", "free"
    pc,             \* where each producer is
    posted,         \* how many messages each producer has begun to post
    cpc,            \* where the consumer is
    batch,          \* the messages drained and not yet dispatched
    syncArmed,      \* sync_deadline is Some
    log,            \* history: every message dispatched, in order
    stop            \* the stop flag of the loop and its notification

prodVars == <<pc, posted>>
consVars == <<cpc, batch, syncArmed, log>>
mailboxVars == <<queue, notFull, notified, engine, pc, posted, cpc, batch,
          syncArmed, log, stop>>

(* Messages are told apart by who posted them and when.                    *)
Message == UNION {[from : {p}, n : 0 .. MaxPosts[p]] : p \in Producers}
Msg(p) == [from |-> p, n |-> posted[p]]

(* Mutant of HasRoom: one message too many is let in.                      *)
HasRoomOffByOne == Len(queue) <= Capacity

HasRoom == Len(queue) < Capacity

-----------------------------------------------------------------------------
MailboxInit ==
    /\ queue = <<>>
    /\ notFull = {}
    /\ notified = FALSE
    /\ engine = "free"
    /\ pc = [p \in Producers |-> "idle"]
    /\ posted = [p \in Producers |-> 0]
    /\ cpc = "check"
    /\ batch = <<>>
    /\ syncArmed = FALSE
    /\ log = <<>>
    /\ stop = "running"

-----------------------------------------------------------------------------
(* Producers.                                                              *)

Goto(p, l) == pc' = [pc EXCEPT ![p] = l]

(* A thread starts to post; an Unlocker has taken the engine lock first.   *)
Begin(p) ==
    /\ pc[p] = "idle"
    /\ posted[p] < MaxPosts[p]
    /\ IF p \in Unlockers
         THEN engine = "free" /\ engine' = p
         ELSE UNCHANGED engine
    /\ posted' = [posted EXCEPT ![p] = @ + 1]
    /\ Goto(p, "post")
    /\ UNCHANGED <<queue, notFull, notified, consVars, stop>>

(* try_send, and the fast path of send_with_unlock: there is room.         *)
Push(p) ==
    /\ pc[p] = "post"
    /\ HasRoom
    /\ queue' = Append(queue, Msg(p))
    /\ Goto(p, "wakeSent")
    /\ UNCHANGED <<notFull, notified, engine, posted, consVars, stop>>

(* The queue is full.                                                      *)
Refused(p) ==
    /\ pc[p] = "post"
    /\ ~HasRoom
    /\ Goto(p, "wakeFull")
    /\ UNCHANGED <<queue, notFull, notified, engine, posted, consVars, stop>>

(* Mutant of Wake: Writer::send goes on to wait when the queue is full.    *)
WakeThenBlock(p) ==
    /\ notified' = TRUE
    /\ \/ pc[p] = "wakeSent" /\ p \in Senders /\ Goto(p, "idle")
       \/ pc[p] = "wakeSent" /\ p \in Unlockers /\ Goto(p, "return")
       \/ pc[p] = "wakeFull" /\ Goto(p, "unlock")
       \/ pc[p] = "wakeSlow" /\ Goto(p, "relock")
    /\ UNCHANGED <<queue, notFull, engine, posted, consVars, stop>>

(* Sender::notify.  After a push the sender is done, after a refusal       *)
(* Writer::send gives the message up; send_with_unlock goes on.            *)
Wake(p) ==
    /\ notified' = TRUE
    /\ \/ pc[p] \in {"wakeSent", "wakeFull"} /\ p \in Senders /\ Goto(p, "idle")
       \/ pc[p] = "wakeSent" /\ p \in Unlockers /\ Goto(p, "return")
       \/ pc[p] = "wakeFull" /\ p \in Unlockers /\ Goto(p, "unlock")
       \/ pc[p] = "wakeSlow" /\ Goto(p, "relock")
    /\ UNCHANGED <<queue, notFull, engine, posted, consVars, stop>>

(* Mutant of DropHeld: the engine lock is kept during the wait.            *)
KeepHeld(p) ==
    /\ pc[p] = "unlock"
    /\ Goto(p, "await")
    /\ UNCHANGED <<queue, notFull, notified, engine, posted, consVars, stop>>

(* drop(held)                                                              *)
DropHeld(p) ==
    /\ pc[p] = "unlock"
    /\ engine' = "free"
    /\ Goto(p, "await")
    /\ UNCHANGED <<queue, notFull, notified, posted, consVars, stop>>

(* while q.len() >= CAPACITY { wait on not_full }                          *)
AwaitRoom(p) ==
    /\ pc[p] = "await"
    /\ p \notin notFull
    /\ ~HasRoom
    /\ notFull' = notFull \cup {p}
    /\ UNCHANGED <<queue, notified, engine, prodVars, consVars, stop>>

(* Mutant of PushSlow: the loop is not notified of a push after a wait.    *)
PushSlowSilently(p) ==
    /\ pc[p] = "await"
    /\ p \notin notFull
    /\ HasRoom
    /\ queue' = Append(queue, Msg(p))
    /\ Goto(p, "relock")
    /\ UNCHANGED <<notFull, notified, engine, posted, consVars, stop>>

PushSlow(p) ==
    /\ pc[p] = "await"
    /\ p \notin notFull
    /\ HasRoom
    /\ queue' = Append(queue, Msg(p))
    /\ Goto(p, "wakeSlow")
    /\ UNCHANGED <<notFull, notified, engine, posted, consVars, stop>>

(* A condition variable may wake a waiter for no reason.                   *)
SpuriousWake(p) ==
    /\ p \in notFull
    /\ notFull' = notFull \ {p}
    /\ UNCHANGED <<queue, notified, engine, prodVars, consVars, stop>>

(* lock.lock(): the guard send_with_unlock hands back.                     *)
Relock(p) ==
    /\ pc[p] = "relock"
    /\ engine = "free"
    /\ engine' = p
    /\ Goto(p, "return")
    /\ UNCHANGED <<queue, notFull, notified, posted, consVars, stop>>

(* The caller of send_with_unlock is done with the guard.                  *)
HandBack(p) ==
    /\ pc[p] = "return"
    /\ engine' = "free"
    /\ Goto(p, "idle")
    /\ UNCHANGED <<queue, notFull, notified, posted, consVars, stop>>

-----------------------------------------------------------------------------
(* The consumer: Thread::run.                                              *)

(* Both loads of the stop flag, before and after the wait.                 *)
CheckStop ==
    /\ cpc \in {"check", "woken"}
    /\ cpc' = IF stop # "running" THEN "stopped"
              ELSE IF cpc = "check" THEN "parked" ELSE "drain"
    /\ UNCHANGED <<queue, notFull, notified, engine, prodVars, batch,
                   syncArmed, log, stop>>

(* poller.wait returns, on a notification or because a timer is due (the   *)
(* termios timer is always armed).                                         *)
WaitReturns ==
    /\ cpc = "parked"
    /\ notified' = FALSE
    /\ cpc' = "woken"
    /\ UNCHANGED <<queue, notFull, engine, prodVars, batch, syncArmed, log,
                   stop>>

(* poller.wait fails: the loop ends.                                       *)
WaitFails ==
    /\ cpc = "parked"
    /\ cpc' = "stopped"
    /\ UNCHANGED <<queue, notFull, notified, engine, prodVars, batch,
                   syncArmed, log, stop>>

(* Receiver::drain up to drop(q).                                          *)
Drain ==
    /\ cpc = "drain"
    /\ batch' = queue
    /\ queue' = <<>>
    /\ cpc' = IF queue = <<>> THEN "timers" ELSE "signal"
    /\ UNCHANGED <<notFull, notified, engine, prodVars, syncArmed, log, stop>>

(* Mutants of SignalRoom: notify_one for notify_all, and no signal at all. *)
SignalRoomOne ==
    /\ cpc = "signal"
    /\ IF notFull = {} THEN UNCHANGED notFull
                       ELSE \E p \in notFull : notFull' = notFull \ {p}
    /\ cpc' = "dispatch"
    /\ UNCHANGED <<queue, notified, engine, prodVars, batch, syncArmed, log,
                   stop>>

SignalNobody ==
    /\ cpc = "signal"
    /\ cpc' = "dispatch"
    /\ UNCHANGED <<queue, notFull, notified, engine, prodVars, batch, syncArmed,
                   log, stop>>

(* not_full.notify_all(), after the queue lock is released.                *)
SignalRoom ==
    /\ cpc = "signal"
    /\ notFull' = {}
    /\ cpc' = "dispatch"
    /\ UNCHANGED <<queue, notified, engine, prodVars, batch, syncArmed, log,
                   stop>>

Dispatch ==
    /\ cpc = "dispatch"
    /\ log' = log \o batch
    /\ syncArmed' = (syncArmed \/ \E i \in DOMAIN batch : batch[i].from \in SyncThreads)
    /\ batch' = <<>>
    /\ cpc' = "timers"
    /\ UNCHANGED <<queue, notFull, notified, engine, prodVars, stop>>

(* fire_timers: the synchronized-output deadline may have passed.          *)
FireTimers ==
    /\ cpc = "timers"
    /\ \/ /\ syncArmed
          /\ syncArmed' = FALSE
          /\ cpc' = "reset"
       \/ /\ cpc' = "check"
          /\ UNCHANGED syncArmed
    /\ UNCHANGED <<queue, notFull, notified, engine, prodVars, batch, log,
                   stop>>

(* HubHandler::on_sync_reset takes the engine lock ...                     *)
LockEngine ==
    /\ cpc = "reset"
    /\ engine = "free"
    /\ engine' = "consumer"
    /\ cpc' = "resetting"
    /\ UNCHANGED <<queue, notFull, notified, prodVars, batch, syncArmed, log,
                   stop>>

(* ... and releases it.                                                    *)
UnlockEngine ==
    /\ cpc = "resetting"
    /\ engine' = "free"
    /\ cpc' = "check"
    /\ UNCHANGED <<queue, notFull, notified, prodVars, batch, syncArmed, log,
                   stop>>

-----------------------------------------------------------------------------
(* Termio::shutdown: set the flag, then notify the poller.                 *)
SetStop ==
    /\ stop = "running"
    /\ stop' = "set"
    /\ UNCHANGED <<queue, notFull, notified, engine, prodVars, consVars>>

NotifyStop ==
    /\ stop = "set"
    /\ stop' = "notified"
    /\ notified' = TRUE
    /\ UNCHANGED <<queue, notFull, engine, prodVars, consVars>>

-----------------------------------------------------------------------------
Produce(p) ==
    \/ Begin(p) \/ Push(p) \/ Refused(p) \/ Wake(p) \/ DropHeld(p)
    \/ AwaitRoom(p) \/ PushSlow(p) \/ Relock(p) \/ HandBack(p)

Consume ==
    \/ CheckStop \/ WaitReturns \/ Drain \/ SignalRoom \/ Dispatch
    \/ FireTimers \/ LockEngine \/ UnlockEngine

MailboxNext ==
    \/ \E p \in Producers : Produce(p) \/ SpuriousWake(p)
    \/ Consume \/ WaitFails
    \/ SetStop \/ NotifyStop

MailboxSpec == MailboxInit /\ [][MailboxNext]_mailboxVars

(* Every thread keeps running, but nobody is obliged to post (Begin), to   *)
(* shut down (SetStop) or to fail, and nothing but SignalRoom is obliged   *)
(* to wake a waiter.                                                       *)
Fairness ==
    /\ \A p \in Producers : WF_mailboxVars(Produce(p) /\ ~Begin(p))
    /\ WF_mailboxVars(Consume)
    /\ WF_mailboxVars(NotifyStop)

MailboxFairSpec == MailboxSpec /\ Fairness

-----------------------------------------------------------------------------
(* Properties                                                              *)

PcValues == {"idle", "post", "wakeSent", "wakeFull", "unlock", "await",
             "wakeSlow", "relock", "return"}
CpcValues == {"check", "parked", "woken", "drain", "signal", "dispatch",
              "timers", "reset", "resetting", "stopped"}

(* Every variable holds a value of its type.                               *)
MailboxTypeOK ==
    /\ queue \in Seq(Message)
    /\ notFull \subseteq Unlockers
    /\ notified \in BOOLEAN
    /\ engine \in Unlockers \cup {"consumer", "free"}
    /\ pc \in [Producers -> PcValues]
    /\ \A p \in Producers : posted[p] <= MaxPosts[p]
    /\ posted \in [Producers -> Nat]
    /\ cpc \in CpcValues
    /\ batch \in Seq(Message)
    /\ syncArmed \in BOOLEAN
    /\ log \in Seq(Message)
    /\ stop \in {"running", "set", "notified"}

(* While the loop is parked, a message in the queue or a completed stop    *)
(* request has a wakeup pending or on its way: none is left to the 200ms   *)
(* termios timer.                                                          *)
NoLostWakeup ==
    cpc = "parked" =>
        /\ queue # <<>> =>
             notified \/ \E p \in Producers : pc[p] \in {"wakeSent", "wakeSlow"}
        /\ stop = "notified" => notified

(* A producer asleep on not_full has a full queue in front of it or a      *)
(* signal on its way: the notify_all after the unlock of drain is not      *)
(* overtaken.                                                              *)
NoLostSignal ==
    notFull # {} => Len(queue) = Capacity \/ cpc = "signal"

(* send_with_unlock never waits for the queue with the engine lock held,   *)
(* and hands it back held: the two halves of its type signature.           *)
LockHandedBack ==
    \A p \in Unlockers :
        engine = p <=> pc[p] \in {"post", "wakeSent", "wakeFull", "unlock", "return"}

(* send_with_unlock and the writer loop do not wait for each other: a      *)
(* thread inside it comes out again, unless the loop ends, when nothing    *)
(* drains the queue any more; and the loop gets the engine lock it needs   *)
(* although the producers that wait for it were called with that lock.     *)
NobodyStuck ==
    /\ \A p \in Unlockers :
           pc[p] = "post" ~> (pc[p] = "idle" \/ cpc = "stopped")
    /\ cpc = "reset" ~> cpc # "reset"

(* The mailbox implements the abstract channel.                            *)
Channel == INSTANCE MessageChannel WITH
    accepted <- log \o batch \o queue,
    taken    <- Len(log) + Len(batch)

ChannelSpec == Channel!Spec
=============================================================================
