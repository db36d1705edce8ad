---------------------------- MODULE ReadPipeline ----------------------------
(***************************************************************************)
(* The two-stage read pipeline of qwertty-term-termio (exec.rs).           *)
(*                                                                         *)
(* io-gather reads the pty master into a ring of buffers; io-reader (the   *)
(* parse stage) hands each published buffer to the sink.  The metadata of  *)
(* the ring is under one mutex, the buffers themselves are under none: a   *)
(* buffer belongs to the stage the metadata says it belongs to.  When a    *)
(* saturated stream runs dry, gather bridges the gap in a poll of 1ms, and *)
(* the parse stage cuts that poll short through a self-pipe when it has    *)
(* nothing left to parse.  Each critical section of the mutex, each system *)
(* call and each condvar signal is a step of its own.                      *)
(*                                                                         *)
(* The kernel's side of the pty is external: bytes are numbered from 1 in  *)
(* the order the child writes them, the kernel holds at most KernelQueue   *)
(* of them, and the slave is open until its last holder is gone.           *)
(***************************************************************************)
EXTENDS Integers, Sequences

CONSTANTS
    BufferCount,    \* BUFFER_COUNT, 4 in the code
    BufferCapacity, \* BUFFER_CAPACITY, 64 KiB in the code
    BridgeThreshold,\* BRIDGE_THRESHOLD, 1 KiB in the code
    SpinMax,        \* BRIDGE_SPIN_MAX, 16 in the code
    KernelQueue,    \* how many bytes the kernel holds for the master
    MaxBytes,       \* bound: how many bytes the child writes
    MaxInterrupts   \* bound: how many times a signal interrupts a poll

ASSUME RingAssumption ==
    /\ BufferCount \in Nat \ {0}
    /\ BufferCapacity \in Nat \ {0}
ASSUME BridgeAssumption ==
    /\ BridgeThreshold \in Nat
    /\ SpinMax \in Nat
ASSUME KernelAssumption ==
    /\ KernelQueue \in Nat \ {0}
    /\ MaxBytes \in Nat
    /\ MaxInterrupts \in Nat

VARIABLES
    \* the kernel's side
    written,        \* how many bytes the child has written
    taken,          \* how many of them gather has read
    open,           \* somebody holds the slave open
    quit,           \* a byte was written to the quit pipe
    interrupts,     \* how many polls a signal has interrupted
    \* Pipeline
    meta,           \* PipelineMeta
    bufs,           \* the buffers
    waiting,        \* the stages asleep on their condvar
    idlePipe,       \* how many bytes the parse-idle self-pipe holds
    \* gather_main
    gpc, total, spins, bridged, fatal, revents,
    \* reader_main
    rpc, slot, len, wakeGather,
    delivered       \* history: every byte the sink was given, in order

kernelVars == <<written, taken, open, quit, interrupts>>
gatherVars == <<gpc, total, spins, bridged, fatal, revents>>
readerVars == <<rpc, slot, len, wakeGather, delivered>>
pipelineVars == <<written, taken, open, quit, interrupts, meta, bufs, waiting,
          idlePipe, gpc, total, spins, bridged, fatal, revents, rpc, slot, len,
          wakeGather, delivered>>

Slots == 0 .. BufferCount - 1
(* Mutant of NextSlot: the index does not wrap around.                     *)
NextSlotUnwrapped(s) == s + 1

NextSlot(s) == IF s = BufferCount - 1 THEN 0 ELSE s + 1

Pending == written - taken      \* the bytes a read of the master can return

-----------------------------------------------------------------------------
PipelineInit ==
    /\ written = 0 /\ taken = 0 /\ open = TRUE /\ quit = FALSE
    /\ interrupts = 0
    /\ meta = [lens |-> [s \in Slots |-> 0], head |-> 0, tail |-> 0,
               count |-> 0, done |-> FALSE, bridging |-> FALSE]
    /\ bufs = [s \in Slots |-> [i \in 1 .. BufferCapacity |-> 0]]
    /\ waiting = {}
    /\ idlePipe = 0
    /\ gpc = "claim" /\ total = 0 /\ spins = 0 /\ bridged = FALSE
    /\ fatal = FALSE /\ revents = {}
    /\ rpc = "claim" /\ slot = 0 /\ len = 0 /\ wakeGather = FALSE
    /\ delivered = <<>>

-----------------------------------------------------------------------------
(* The child, the kernel and the thread that tears the surface down.       *)

ChildWrite ==
    /\ open
    /\ written < MaxBytes
    /\ Pending < KernelQueue
    /\ written' = written + 1
    /\ UNCHANGED <<taken, open, quit, interrupts, meta, bufs, waiting,
                   idlePipe, gatherVars, readerVars>>

(* The last holder of the slave closes it: the master sees a hangup.       *)
ChildClose ==
    /\ open
    /\ open' = FALSE
    /\ UNCHANGED <<written, taken, quit, interrupts, meta, bufs, waiting,
                   idlePipe, gatherVars, readerVars>>

(* Exec::thread_exit writes to the quit pipe; nobody ever reads the byte.  *)
Quit ==
    /\ ~quit
    /\ quit' = TRUE
    /\ UNCHANGED <<written, taken, open, interrupts, meta, bufs, waiting,
                   idlePipe, gatherVars, readerVars>>

(* What poll reports of the fds gather watches.                            *)
Ready ==
    (IF Pending > 0 THEN {"in"} ELSE {}) \cup (IF open THEN {} ELSE {"hup"})
        \cup (IF quit THEN {"quit"} ELSE {})
IdleReady == IF idlePipe > 0 THEN {"idle"} ELSE {}

-----------------------------------------------------------------------------
(* io-gather.                                                              *)

(* Mutant of GatherClaim: one buffer too many is claimed.                  *)
GatherClaimOffByOne ==
    /\ gpc = "claim"
    /\ "gather" \notin waiting
    /\ IF meta.count > BufferCount
         THEN /\ waiting' = waiting \cup {"gather"}
              /\ UNCHANGED gatherVars
         ELSE /\ gpc' = "read"
              /\ total' = 0 /\ spins' = 0 /\ bridged' = FALSE /\ fatal' = FALSE
              /\ UNCHANGED <<waiting, revents>>
    /\ UNCHANGED <<kernelVars, meta, bufs, idlePipe, readerVars>>

(* Claim the next free buffer, or sleep until one is free.                 *)
GatherClaim ==
    /\ gpc = "claim"
    /\ "gather" \notin waiting
    /\ IF meta.count = BufferCount
         THEN /\ waiting' = waiting \cup {"gather"}
              /\ UNCHANGED gatherVars
         ELSE /\ gpc' = "read"
              /\ total' = 0 /\ spins' = 0 /\ bridged' = FALSE /\ fatal' = FALSE
              /\ UNCHANGED <<waiting, revents>>
    /\ UNCHANGED <<kernelVars, meta, bufs, idlePipe, readerVars>>

(* Mutant of GatherRead: every read starts at the front of the buffer.     *)
GatherReadAtFront ==
    /\ gpc = "read"
    /\ total < BufferCapacity
    /\ \E n \in 1 .. BufferCapacity :
         /\ n <= Pending
         /\ total + n <= BufferCapacity
         /\ bufs' = [bufs EXCEPT ![meta.head] =
                       [i \in 1 .. BufferCapacity |->
                          IF i <= n THEN taken + i ELSE @[i]]]
         /\ total' = total + n
         /\ taken' = taken + n
         /\ gpc' = IF total + n = BufferCapacity THEN "publish" ELSE "read"
    /\ spins' = 0
    /\ UNCHANGED <<written, open, quit, interrupts, meta, waiting, idlePipe,
                   bridged, fatal, revents, readerVars>>

(* A read of the master that returns n bytes.                              *)
GatherRead ==
    /\ gpc = "read"
    /\ total < BufferCapacity
    /\ \E n \in 1 .. BufferCapacity :
         /\ n <= Pending
         /\ total + n <= BufferCapacity
         /\ bufs' = [bufs EXCEPT ![meta.head] =
                       [i \in 1 .. BufferCapacity |->
                          IF i \in total + 1 .. total + n
                            THEN taken + (i - total) ELSE @[i]]]
         /\ total' = total + n
         /\ taken' = taken + n
         /\ gpc' = IF total + n = BufferCapacity THEN "publish" ELSE "read"
    /\ spins' = 0
    /\ UNCHANGED <<written, open, quit, interrupts, meta, waiting, idlePipe,
                   bridged, fatal, revents, readerVars>>

(* The slave is closed and the queue is empty: EIO, and on macOS also 0.   *)
GatherReadEnd ==
    /\ gpc = "read"
    /\ Pending = 0
    /\ ~open
    /\ fatal' \in BOOLEAN
    /\ gpc' = "publish"
    /\ UNCHANGED <<kernelVars, meta, bufs, waiting, idlePipe, total, spins,
                   bridged, revents, readerVars>>

(* EAGAIN: deliver a trickle, spin, give up when the budget is spent (as   *)
(* it may be once a bridge has started), or bridge.                        *)
GatherAgain ==
    /\ gpc = "read"
    /\ Pending = 0
    /\ open
    /\ IF total < BridgeThreshold
         THEN gpc' = "publish" /\ UNCHANGED <<spins, bridged>>
       ELSE IF spins < SpinMax
         THEN spins' = spins + 1 /\ UNCHANGED <<gpc, bridged>>
       ELSE /\ gpc' \in {"arm"} \cup (IF bridged THEN {"publish"} ELSE {})
            /\ bridged' = TRUE
            /\ UNCHANGED spins
    /\ UNCHANGED <<kernelVars, meta, bufs, waiting, idlePipe, total, fatal,
                   revents, readerVars>>

(* Nothing left to parse: deliver now.  Otherwise let the parse stage know *)
(* that somebody is about to sleep.                                        *)
GatherArm ==
    /\ gpc = "arm"
    /\ IF meta.count = 0
         THEN gpc' = "publish" /\ UNCHANGED meta
         ELSE gpc' = "bridge" /\ meta' = [meta EXCEPT !.bridging = TRUE]
    /\ UNCHANGED <<kernelVars, bufs, waiting, idlePipe, total, spins, bridged,
                   fatal, revents, readerVars>>

(* The bridge poll returns with what is ready, or after 1ms with nothing.  *)
GatherBridge ==
    /\ gpc = "bridge"
    /\ revents' = Ready \cup IdleReady
    /\ gpc' = "bridged"
    /\ UNCHANGED <<kernelVars, meta, bufs, waiting, idlePipe, total, spins,
                   bridged, fatal, readerVars>>

(* clear_bridging, and what the poll's result asks for.                    *)
GatherBridged ==
    /\ gpc = "bridged"
    /\ meta' = [meta EXCEPT !.bridging = FALSE]
    /\ fatal' = ("quit" \in revents)
    /\ gpc' = IF "quit" \in revents THEN "publish"
              ELSE IF "idle" \in revents THEN "drainIdle"
              ELSE IF "in" \in revents THEN "read"
              ELSE "publish"
    /\ UNCHANGED <<kernelVars, bufs, waiting, idlePipe, total, spins, bridged,
                   revents, readerVars>>

(* Mutant of GatherDrainIdle: the bytes are left in the pipe.              *)
GatherLeaveIdle ==
    /\ gpc = "drainIdle"
    /\ gpc' = "publish"
    /\ UNCHANGED <<kernelVars, meta, bufs, waiting, idlePipe, total, spins,
                   bridged, fatal, revents, readerVars>>

GatherDrainIdle ==
    /\ gpc = "drainIdle"
    /\ idlePipe' = 0
    /\ gpc' = "publish"
    /\ UNCHANGED <<kernelVars, meta, bufs, waiting, total, spins, bridged,
                   fatal, revents, readerVars>>

AfterPublish ==
    IF fatal THEN "done" ELSE IF total = BufferCapacity THEN "claim" ELSE "poll"

GatherPublish ==
    /\ gpc = "publish"
    /\ IF total > 0
         THEN /\ meta' = [meta EXCEPT !.lens[meta.head] = total,
                                      !.head = NextSlot(@),
                                      !.count = @ + 1]
              /\ gpc' = "signal"
         ELSE /\ gpc' = AfterPublish
              /\ UNCHANGED meta
    /\ UNCHANGED <<kernelVars, bufs, waiting, idlePipe, total, spins, bridged,
                   fatal, revents, readerVars>>

(* batch_ready.notify_one()                                                *)
GatherSignal ==
    /\ gpc = "signal"
    /\ waiting' = waiting \ {"reader"}
    /\ gpc' = AfterPublish
    /\ UNCHANGED <<kernelVars, meta, bufs, idlePipe, total, spins, bridged,
                   fatal, revents, readerVars>>

(* Mutant of GatherPoll: the quit byte is not looked at.                   *)
GatherPollDeaf ==
    /\ gpc = "poll"
    /\ Ready # {}
    /\ revents' = Ready
    /\ gpc' = IF "hup" \in Ready THEN "done" ELSE "claim"
    /\ UNCHANGED <<kernelVars, meta, bufs, waiting, idlePipe, total, spins,
                   bridged, fatal, readerVars>>

(* The outer poll, without a timeout.  A quit or a hangup ends the stream. *)
GatherPoll ==
    /\ gpc = "poll"
    /\ Ready # {}
    /\ revents' = Ready
    /\ gpc' = IF Ready \cap {"quit", "hup"} # {} THEN "done" ELSE "claim"
    /\ UNCHANGED <<kernelVars, meta, bufs, waiting, idlePipe, total, spins,
                   bridged, fatal, readerVars>>

(* A signal interrupts either poll.  The bridge gives up, to deliver what  *)
(* it has; the outer loop takes the error for the end of the stream.       *)
PollInterrupted ==
    /\ gpc \in {"bridge", "poll"}
    /\ interrupts < MaxInterrupts
    /\ interrupts' = interrupts + 1
    /\ revents' = {"error"}
    /\ gpc' = IF gpc = "bridge" THEN "bridged" ELSE "done"
    /\ UNCHANGED <<written, taken, open, quit, meta, bufs, waiting, idlePipe,
                   total, spins, bridged, fatal, readerVars>>

(* DoneGuard: set done, then signal the parse stage.                       *)
GatherDone ==
    /\ gpc = "done"
    /\ meta' = [meta EXCEPT !.done = TRUE]
    /\ gpc' = "signalDone"
    /\ UNCHANGED <<kernelVars, bufs, waiting, idlePipe, total, spins, bridged,
                   fatal, revents, readerVars>>

GatherExit ==
    /\ gpc = "signalDone"
    /\ waiting' = waiting \ {"reader"}
    /\ gpc' = "exited"
    /\ UNCHANGED <<kernelVars, meta, bufs, idlePipe, total, spins, bridged,
                   fatal, revents, readerVars>>

-----------------------------------------------------------------------------
(* io-reader.                                                              *)

(* Mutant of ReaderClaim: done is looked at before the ring.               *)
ReaderClaimDoneFirst ==
    /\ rpc = "claim"
    /\ "reader" \notin waiting
    /\ IF meta.done
         THEN rpc' = "join" /\ UNCHANGED <<slot, waiting>>
       ELSE IF meta.count # 0
         THEN rpc' = "lens" /\ slot' = meta.tail /\ UNCHANGED waiting
       ELSE waiting' = waiting \cup {"reader"} /\ UNCHANGED <<rpc, slot>>
    /\ UNCHANGED <<kernelVars, meta, bufs, idlePipe, gatherVars, len,
                   wakeGather, delivered>>

(* Claim the next batch, leave when the stream is over, or sleep.          *)
ReaderClaim ==
    /\ rpc = "claim"
    /\ "reader" \notin waiting
    /\ IF meta.count # 0
         THEN rpc' = "lens" /\ slot' = meta.tail /\ UNCHANGED waiting
       ELSE IF meta.done
         THEN rpc' = "join" /\ UNCHANGED <<slot, waiting>>
       ELSE waiting' = waiting \cup {"reader"} /\ UNCHANGED <<rpc, slot>>
    /\ UNCHANGED <<kernelVars, meta, bufs, idlePipe, gatherVars, len,
                   wakeGather, delivered>>

(* The length of the batch is read under the lock once more.               *)
ReaderLens ==
    /\ rpc = "lens"
    /\ len' = meta.lens[slot]
    /\ rpc' = "sink"
    /\ UNCHANGED <<kernelVars, meta, bufs, waiting, idlePipe, gatherVars,
                   slot, wakeGather, delivered>>

(* sink(batch), without the lock.                                          *)
ReaderSink ==
    /\ rpc = "sink"
    /\ delivered' = delivered \o [i \in 1 .. len |-> bufs[slot][i]]
    /\ rpc' = "advance"
    /\ UNCHANGED <<kernelVars, meta, bufs, waiting, idlePipe, gatherVars,
                   slot, len, wakeGather>>

ReaderAdvance ==
    /\ rpc = "advance"
    /\ meta' = [meta EXCEPT !.tail = NextSlot(@), !.count = @ - 1]
    /\ wakeGather' = (meta.count - 1 = 0 /\ meta.bridging)
    /\ rpc' = "signal"
    /\ UNCHANGED <<kernelVars, bufs, waiting, idlePipe, gatherVars, slot, len,
                   delivered>>

(* Mutant of ReaderSignal: gather is not told of the free slot.            *)
ReaderSignalNobody ==
    /\ rpc = "signal"
    /\ rpc' = IF wakeGather THEN "wake" ELSE "claim"
    /\ UNCHANGED <<kernelVars, meta, bufs, waiting, idlePipe, gatherVars, slot,
                   len, wakeGather, delivered>>

(* slot_free.notify_one()                                                  *)
ReaderSignal ==
    /\ rpc = "signal"
    /\ waiting' = waiting \ {"gather"}
    /\ rpc' = IF wakeGather THEN "wake" ELSE "claim"
    /\ UNCHANGED <<kernelVars, meta, bufs, idlePipe, gatherVars, slot, len,
                   wakeGather, delivered>>

ReaderWake ==
    /\ rpc = "wake"
    /\ idlePipe' = idlePipe + 1
    /\ rpc' = "claim"
    /\ UNCHANGED <<kernelVars, meta, bufs, waiting, gatherVars, slot, len,
                   wakeGather, delivered>>

(* gather.join()                                                           *)
ReaderJoin ==
    /\ rpc = "join"
    /\ gpc = "exited"
    /\ rpc' = "exited"
    /\ UNCHANGED <<kernelVars, meta, bufs, waiting, idlePipe, gatherVars,
                   slot, len, wakeGather, delivered>>

(* A condvar may wake a stage for no reason.                               *)
SpuriousWake ==
    /\ \E t \in waiting : waiting' = waiting \ {t}
    /\ UNCHANGED <<kernelVars, meta, bufs, idlePipe, gatherVars, readerVars>>

-----------------------------------------------------------------------------
Gather ==
    \/ GatherClaim \/ GatherRead \/ GatherReadEnd \/ GatherAgain \/ GatherArm
    \/ GatherBridge \/ GatherBridged \/ GatherDrainIdle \/ GatherPublish
    \/ GatherSignal \/ GatherPoll \/ GatherDone \/ GatherExit

Reader ==
    \/ ReaderClaim \/ ReaderLens \/ ReaderSink \/ ReaderAdvance
    \/ ReaderSignal \/ ReaderWake \/ ReaderJoin

Environment == ChildWrite \/ ChildClose \/ Quit

PipelineNext == Gather \/ PollInterrupted \/ Reader \/ Environment \/ SpuriousWake

PipelineSpec == PipelineInit /\ [][PipelineNext]_pipelineVars

(* Both threads keep running.  The child owes us nothing, and nobody has   *)
(* to quit.                                                                *)
PipelineFairSpec == PipelineSpec /\ WF_pipelineVars(Gather) /\ WF_pipelineVars(Reader)

-----------------------------------------------------------------------------
(* Properties                                                              *)

GatherPcs == {"claim", "read", "arm", "bridge", "bridged", "drainIdle",
              "publish", "signal", "poll", "done", "signalDone", "exited"}
ReaderPcs == {"claim", "lens", "sink", "advance", "signal", "wake", "join",
              "exited"}

Bytes == 0 .. MaxBytes
Meta == [lens : [Slots -> 0 .. BufferCapacity], head : Slots, tail : Slots,
         count : 0 .. BufferCount, done : BOOLEAN, bridging : BOOLEAN]

(* Every variable holds a value of its type; the ring never counts more    *)
(* batches than it has buffers.                                            *)
PipelineTypeOK ==
    /\ written \in Bytes /\ taken \in Bytes
    /\ open \in BOOLEAN /\ quit \in BOOLEAN
    /\ interrupts \in 0 .. MaxInterrupts
    /\ meta \in Meta
    /\ bufs \in [Slots -> [1 .. BufferCapacity -> Bytes]]
    /\ waiting \subseteq {"gather", "reader"}
    /\ idlePipe \in Nat
    /\ gpc \in GatherPcs
    /\ total \in 0 .. BufferCapacity
    /\ spins \in 0 .. SpinMax
    /\ bridged \in BOOLEAN /\ fatal \in BOOLEAN
    /\ revents \subseteq {"in", "hup", "quit", "idle", "error"}
    /\ rpc \in ReaderPcs
    /\ slot \in Slots
    /\ len \in 0 .. BufferCapacity
    /\ wakeGather \in BOOLEAN
    /\ delivered \in Seq(Bytes)

Filling == gpc \in {"read", "arm", "bridge", "bridged", "drainIdle", "publish"}
Parsing == rpc \in {"lens", "sink", "advance"}

(* The claim of "unsafe impl Sync for Pipeline": the buffer gather writes  *)
(* to is never the buffer the parse stage reads.                           *)
NoSharedBuffer == Filling /\ Parsing => slot # meta.head

(* The sink is given the child's bytes in the order they were written,     *)
(* none twice and none missing in between.                                 *)
DeliveredInOrder == \A i \in DOMAIN delivered : delivered[i] = i

(* When the pipeline is over, whatever ended it, every byte gather took    *)
(* out of the kernel has been given to the sink.                           *)
NothingLeftBehind == rpc = "exited" => Len(delivered) = taken

(* The write end of the self-pipe is blocking, yet a write never blocks:   *)
(* bytes that arrive too late for the poll they were meant for are left    *)
(* for the next one, which empties the pipe, so they do not add up.  Only  *)
(* an interrupted poll leaves one more behind.                             *)
IdlePipeBounded == idlePipe <= 3 + interrupts

(* A stage asleep on its condvar has nothing to do, or the signal is on    *)
(* its way: the signals sent after the unlock are not lost.                *)
NoLostSignal ==
    /\ "gather" \in waiting => meta.count = BufferCount \/ rpc = "signal"
    /\ "reader" \in waiting =>
         \/ meta.count = 0 /\ ~meta.done
         \/ gpc \in {"signal", "signalDone"}

(* A hangup ends the stream when its output has been delivered: what the   *)
(* child wrote before it closed the terminal reaches the sink, unless the  *)
(* surface was told to quit.                                               *)
HangupLosesNothing ==
    rpc = "exited" /\ ~quit /\ revents # {"error"} => Len(delivered) = written

(* Neither stage gets stuck on the other, on a poll or on a lost signal:   *)
(* the quit byte ends both, from wherever they are, and a byte the child   *)
(* wrote is delivered as long as nothing ends the stream.                  *)
NoStageStuck ==
    /\ quit ~> rpc = "exited"
    /\ \A n \in 1 .. MaxBytes :
           written >= n ~>
               (Len(delivered) >= n \/ quit \/ ~open \/ gpc = "exited")
=============================================================================
