----------------------------- MODULE TermioProofs -----------------------------
(***************************************************************************)
(* Proofs about the threads of qwertty-term-termio.                        *)
(*                                                                         *)
(* ReadPipeline, for any number of buffers of any size, any threshold and  *)
(* any number of bytes: the two stages never touch the same buffer, and    *)
(* the sink gets the child's bytes in order, without a gap.                *)
(*                                                                         *)
(* ExecLifecycle, whatever the processes may do: a child that gets to its  *)
(* setsid is gone before the read pipeline is told to quit, and a shutdown *)
(* that returns leaves nothing running.                                    *)
(*                                                                         *)
(* WriterThread, for any timers, sizes and number of posts: the newest     *)
(* size is never dropped, no timer fires early, and the writes reach the   *)
(* pty in order, each in the linefeed mode posted before it.               *)
(***************************************************************************)
EXTENDS ReadPipeline, ExecLifecycle, WriterThread, SequenceTheorems, TLAPS

(* The ring: head is count slots ahead of tail, gather fills a slot only   *)
(* when one is free, the parse stage works on the slot at tail.            *)
Wrap(n) == IF n >= BufferCount THEN n - BufferCount ELSE n

RingInv ==
    /\ meta.head = Wrap(meta.tail + meta.count)
    /\ Filling => meta.count < BufferCount
    /\ Parsing => meta.count > 0 /\ slot = meta.tail

(* Gather takes no more than the child wrote, and what is in the buffer it *)
(* fills is part of that.                                                  *)
TakenInv ==
    /\ taken <= written
    /\ Filling => total <= taken

IInv == PipelineTypeOK /\ TakenInv /\ RingInv

-----------------------------------------------------------------------------
(* The initial states satisfy the invariant.                               *)
LEMMA InitIInv == PipelineInit => IInv
  <1> SUFFICES ASSUME PipelineInit PROVE IInv
    OBVIOUS
  <1> USE RingAssumption, BridgeAssumption, KernelAssumption DEF PipelineInit
  <1>1. PipelineTypeOK
    <2>1. meta \in Meta
      BY DEF Meta, Slots
    <2>2. bufs \in [Slots -> [1 .. BufferCapacity -> Bytes]]
      BY DEF Bytes
    <2>3. 0 \in Slots /\ delivered \in Seq(Bytes)
      BY DEF Slots
    <2> QED BY <2>1, <2>2, <2>3 DEF PipelineTypeOK, Bytes, GatherPcs, ReaderPcs
  <1>2. TakenInv /\ RingInv
    BY DEF TakenInv, RingInv, Wrap, Filling, Parsing
  <1> QED BY <1>1, <1>2 DEF IInv

(* A count below its limit can go up by one, a positive one down by one.   *)
LEMMA CountSteps ==
    ASSUME NEW c \in 0 .. BufferCount
    PROVE  /\ c < BufferCount => c + 1 \in 0 .. BufferCount
           /\ c > 0 => c - 1 \in 0 .. BufferCount
  BY RingAssumption

(* The slot after a slot is a slot.                                        *)
LEMMA NextSlotType ==
    ASSUME NEW s \in Slots PROVE NextSlot(s) \in Slots
  BY RingAssumption DEF Slots, NextSlot

(* The fields of the metadata have their types.                            *)
LEMMA MetaFields ==
    ASSUME meta \in Meta
    PROVE  /\ meta.head \in Slots /\ meta.tail \in Slots
           /\ meta.count \in 0 .. BufferCount
           /\ meta.lens \in [Slots -> 0 .. BufferCapacity]
  BY DEF Meta

(* Every step keeps the types, given where the ring stands.                *)
LEMMA NextTypeOK == IInv /\ [PipelineNext]_pipelineVars => PipelineTypeOK'
  <1> SUFFICES ASSUME IInv, [PipelineNext]_pipelineVars PROVE PipelineTypeOK'
    OBVIOUS
  <1> USE RingAssumption, BridgeAssumption, KernelAssumption
      DEF IInv, PipelineTypeOK, Bytes, Slots, NextSlot, GatherPcs, ReaderPcs, Pending,
          kernelVars, gatherVars, readerVars
  <1>1. CASE GatherClaim
    <2>1. gpc' \in GatherPcs /\ total' \in 0 .. BufferCapacity /\ spins' \in 0 .. SpinMax
      BY <1>1 DEF GatherClaim
    <2>2. bridged' \in BOOLEAN /\ fatal' \in BOOLEAN /\ revents' = revents
      BY <1>1 DEF GatherClaim
    <2>3. waiting' \subseteq {"gather", "reader"}
      BY <1>1 DEF GatherClaim
    <2> QED BY <1>1, <2>1, <2>2, <2>3 DEF GatherClaim
  <1>2. CASE GatherRead
    <2>1. PICK n \in 1 .. BufferCapacity :
            /\ n <= Pending
            /\ total + n <= BufferCapacity
            /\ bufs' = [bufs EXCEPT ![meta.head] =
                          [i \in 1 .. BufferCapacity |->
                             IF i \in total + 1 .. total + n
                               THEN taken + (i - total) ELSE @[i]]]
            /\ total' = total + n
            /\ taken' = taken + n
            /\ gpc' = IF total + n = BufferCapacity THEN "publish" ELSE "read"
      BY <1>2 DEF GatherRead
    <2>2. taken' \in Bytes /\ total' \in 0 .. BufferCapacity /\ gpc' \in GatherPcs
      BY <2>1
    <2>3. bufs' \in [Slots -> [1 .. BufferCapacity -> Bytes]]
      <3>1. meta.head \in Slots
        BY DEF Meta
      <3>2. bufs[meta.head] \in [1 .. BufferCapacity -> Bytes]
        BY <3>1
      <3>3. [i \in 1 .. BufferCapacity |->
               IF i \in total + 1 .. total + n
                 THEN taken + (i - total) ELSE bufs[meta.head][i]]
              \in [1 .. BufferCapacity -> Bytes]
        BY <2>1, <3>2
      <3> QED BY <2>1, <3>1, <3>3
    <2> QED BY <1>2, <2>2, <2>3 DEF GatherRead
  <1>3. CASE GatherReadEnd
    BY <1>3 DEF GatherReadEnd
  <1>4. CASE GatherAgain
    <2>1. /\ spins' = spins \/ (spins < SpinMax /\ spins' = spins + 1)
          /\ bridged' \in {bridged, TRUE}
      BY <1>4 DEF GatherAgain
    <2>2. gpc' \in {gpc, "arm", "publish"}
      BY <1>4 DEF GatherAgain
    <2>3. spins' \in 0 .. SpinMax
      BY <2>1
    <2>4. bridged' \in BOOLEAN /\ gpc' \in GatherPcs
      BY <2>1, <2>2
    <2> QED BY <1>4, <2>3, <2>4 DEF GatherAgain
  <1>5. CASE GatherArm
    <2>1. meta' \in Meta /\ gpc' \in GatherPcs
      BY <1>5 DEF GatherArm, Meta
    <2> QED BY <1>5, <2>1 DEF GatherArm
  <1>6. CASE GatherBridge
    BY <1>6 DEF GatherBridge, Ready, IdleReady
  <1>7. CASE GatherBridged
    <2>1. meta' \in Meta
      BY <1>7 DEF GatherBridged, Meta
    <2>2. gpc' \in GatherPcs /\ fatal' \in BOOLEAN
      BY <1>7 DEF GatherBridged
    <2> QED BY <1>7, <2>1, <2>2 DEF GatherBridged
  <1>8. CASE GatherDrainIdle
    BY <1>8 DEF GatherDrainIdle
  <1>9. CASE GatherPublish
    <2>1. meta' \in Meta
      <3>1. CASE total > 0
        <4>1. meta' = [meta EXCEPT !.lens = [@ EXCEPT ![meta.head] = total],
                                   !.head = NextSlot(@), !.count = @ + 1]
          BY <1>9, <3>1 DEF GatherPublish
        <4>2. meta.count + 1 \in 0 .. BufferCount /\ NextSlot(meta.head) \in Slots
          <5>1. meta.head \in Slots /\ meta.count \in 0 .. BufferCount
            BY MetaFields
          <5>2. meta.count < BufferCount
            BY <1>9 DEF GatherPublish, RingInv, Filling
          <5> QED BY <5>1, <5>2, CountSteps, NextSlotType
        <4>3. [meta.lens EXCEPT ![meta.head] = total] \in [Slots -> 0 .. BufferCapacity]
          BY DEF Meta
        <4> QED BY <4>1, <4>2, <4>3 DEF Meta
      <3>2. CASE ~(total > 0)
        BY <1>9, <3>2 DEF GatherPublish
      <3> QED BY <3>1, <3>2
    <2>2. gpc' \in GatherPcs
      BY <1>9 DEF GatherPublish, AfterPublish
    <2> QED BY <1>9, <2>1, <2>2 DEF GatherPublish
  <1>10. CASE GatherSignal
    BY <1>10 DEF GatherSignal, AfterPublish
  <1>11. CASE GatherPoll
    BY <1>11 DEF GatherPoll, Ready
  <1>12. CASE GatherDone
    <2>1. meta' \in Meta
      BY <1>12 DEF GatherDone, Meta
    <2> QED BY <1>12, <2>1 DEF GatherDone
  <1>13. CASE GatherExit
    BY <1>13 DEF GatherExit
  <1>14. CASE ReaderClaim
    BY <1>14 DEF ReaderClaim
  <1>15. CASE ReaderLens
    <2>1. len' \in 0 .. BufferCapacity
      BY <1>15 DEF ReaderLens, Meta
    <2> QED BY <1>15, <2>1 DEF ReaderLens
  <1>16. CASE ReaderSink
    BY <1>16 DEF ReaderSink
  <1>17. CASE ReaderAdvance
    <2>1. meta' = [meta EXCEPT !.tail = NextSlot(@), !.count = @ - 1]
      BY <1>17 DEF ReaderAdvance
    <2>2. meta.count - 1 \in 0 .. BufferCount /\ NextSlot(meta.tail) \in Slots
      <3>1. meta.tail \in Slots /\ meta.count \in 0 .. BufferCount
        BY MetaFields
      <3>2. meta.count > 0
        BY <1>17 DEF ReaderAdvance, RingInv, Parsing
      <3> QED BY <3>1, <3>2, CountSteps, NextSlotType
    <2>3. meta' \in Meta
      BY <2>1, <2>2 DEF Meta
    <2> QED BY <1>17, <2>3 DEF ReaderAdvance
  <1>18. CASE ReaderSignal
    BY <1>18 DEF ReaderSignal
  <1>19. CASE ReaderWake
    BY <1>19 DEF ReaderWake
  <1>20. CASE ReaderJoin
    BY <1>20 DEF ReaderJoin
  <1>21. CASE ChildWrite
    BY <1>21 DEF ChildWrite
  <1>22. CASE ChildClose
    BY <1>22 DEF ChildClose
  <1>23. CASE Quit
    BY <1>23 DEF Quit
  <1>24. CASE PollInterrupted
    BY <1>24 DEF PollInterrupted
  <1>25. CASE SpuriousWake
    BY <1>25 DEF SpuriousWake
  <1>26. CASE UNCHANGED pipelineVars
    BY <1>26 DEF pipelineVars
  <1> QED
    BY <1>1, <1>2, <1>3, <1>4, <1>5, <1>6, <1>7, <1>8, <1>9, <1>10, <1>11, <1>12, <1>13, <1>14, <1>15, <1>16, <1>17, <1>18, <1>19, <1>20, <1>21, <1>22, <1>23, <1>24, <1>25, <1>26
    DEF PipelineNext, Gather, Reader, Environment

(* Reading, and the child's writing, are all that changes the counts.      *)
LEMMA NextTakenInv == IInv /\ [PipelineNext]_pipelineVars => TakenInv'
  <1> SUFFICES ASSUME IInv, [PipelineNext]_pipelineVars PROVE TakenInv'
    OBVIOUS
  <1> USE DEF IInv, PipelineTypeOK, Bytes, TakenInv, Filling, kernelVars, gatherVars
  <1>1. CASE GatherClaim
    BY <1>1 DEF GatherClaim
  <1>2. CASE GatherRead
    BY <1>2 DEF GatherRead, Pending
  <1>3. CASE ChildWrite
    BY <1>3 DEF ChildWrite
  <1>4. CASE GatherPublish \/ GatherSignal
    BY <1>4 DEF GatherPublish, GatherSignal, AfterPublish
  <1>5. CASE GatherReadEnd \/ GatherAgain \/ GatherArm \/ GatherBridge
               \/ GatherBridged \/ GatherDrainIdle \/ GatherPoll \/ GatherDone
               \/ GatherExit \/ PollInterrupted
    <2>1. Filling' => Filling
      BY <1>5 DEF GatherReadEnd, GatherAgain, GatherArm, GatherBridge,
                  GatherBridged, GatherDrainIdle, GatherPoll, GatherDone,
                  GatherExit, PollInterrupted
    <2>2. UNCHANGED <<taken, written, total>>
      BY <1>5 DEF GatherReadEnd, GatherAgain, GatherArm, GatherBridge,
                  GatherBridged, GatherDrainIdle, GatherPoll, GatherDone,
                  GatherExit, PollInterrupted
    <2> QED BY <2>1, <2>2
  <1>6. CASE UNCHANGED <<taken, written, total, gpc>>
    BY <1>6
  <1> QED
    BY <1>1, <1>2, <1>3, <1>4, <1>5, <1>6
    DEF PipelineNext, Gather, Reader, Environment, pipelineVars, ReaderClaim, ReaderLens,
        ReaderSink, ReaderAdvance, ReaderSignal, ReaderWake, ReaderJoin,
        ChildClose, Quit, SpuriousWake

(* Publishing moves head, advancing moves tail, by one slot each.          *)
LEMMA NextRingInv == IInv /\ [PipelineNext]_pipelineVars => RingInv'
  <1> SUFFICES ASSUME IInv, [PipelineNext]_pipelineVars PROVE RingInv'
    OBVIOUS
  <1>1. /\ meta.head \in Slots /\ meta.tail \in Slots
        /\ meta.count \in 0 .. BufferCount
        /\ meta.lens \in [Slots -> 0 .. BufferCapacity]
    BY MetaFields DEF IInv, PipelineTypeOK
  <1>2. RingInv /\ meta \in Meta
    BY DEF IInv, PipelineTypeOK
  <1> USE RingAssumption, <1>1, <1>2 DEF RingInv, Wrap, NextSlot, Slots
  <1>3. CASE GatherClaim
    <2>1. UNCHANGED <<meta, rpc, slot>>
      BY <1>3 DEF GatherClaim, readerVars
    <2>2. Filling' => Filling \/ meta.count # BufferCount
      BY <1>3 DEF GatherClaim, Filling, gatherVars
    <2> QED BY <2>1, <2>2 DEF Parsing
  <1>4. CASE GatherPublish
    <2>1. CASE total > 0
      <3>1. /\ meta'.head = NextSlot(meta.head) /\ meta'.count = meta.count + 1
            /\ meta'.tail = meta.tail
        BY <1>4, <2>1 DEF GatherPublish, Meta
      <3>2. Filling /\ ~Filling' /\ (Parsing' <=> Parsing) /\ slot' = slot
        BY <1>4, <2>1 DEF GatherPublish, Filling, Parsing, readerVars
      <3> QED BY <3>1, <3>2
    <2>2. CASE ~(total > 0)
      <3>1. meta' = meta /\ ~Filling' /\ (Parsing' <=> Parsing) /\ slot' = slot
        BY <1>4, <2>2 DEF GatherPublish, AfterPublish, Filling, Parsing, readerVars
      <3> QED BY <3>1
    <2> QED BY <2>1, <2>2
  <1>5. CASE GatherArm \/ GatherBridged \/ GatherDone
    <2>1. /\ meta'.head = meta.head /\ meta'.tail = meta.tail
          /\ meta'.count = meta.count
      BY <1>5 DEF GatherArm, GatherBridged, GatherDone, Meta
    <2>2. (Filling' => Filling) /\ (Parsing' <=> Parsing) /\ slot' = slot
      BY <1>5 DEF GatherArm, GatherBridged, GatherDone, Filling, Parsing, readerVars
    <2> QED BY <2>1, <2>2
  <1>6. CASE GatherRead \/ GatherReadEnd \/ GatherAgain \/ GatherBridge
               \/ GatherDrainIdle \/ GatherSignal \/ GatherPoll \/ GatherExit
               \/ PollInterrupted
    <2>1. (Filling' => Filling) /\ UNCHANGED <<meta, rpc, slot>>
      BY <1>6 DEF GatherRead, GatherReadEnd, GatherAgain, GatherBridge,
                  GatherDrainIdle, GatherSignal, GatherPoll, GatherExit,
                  PollInterrupted, AfterPublish, Filling, readerVars
    <2> QED BY <2>1 DEF Parsing
  <1>7. CASE ReaderClaim
    BY <1>7 DEF ReaderClaim, Filling, Parsing, gatherVars
  <1>8. CASE ReaderAdvance
    <2>1. /\ meta'.tail = NextSlot(meta.tail) /\ meta'.count = meta.count - 1
          /\ meta'.head = meta.head
      BY <1>8 DEF ReaderAdvance, Meta
    <2>2. Parsing /\ ~Parsing' /\ (Filling' <=> Filling)
      BY <1>8 DEF ReaderAdvance, Parsing, Filling, gatherVars
    <2> QED BY <2>1, <2>2
  <1>9. CASE ReaderLens \/ ReaderSink \/ ReaderSignal \/ ReaderWake \/ ReaderJoin
    <2>1. (Parsing' => Parsing) /\ UNCHANGED <<meta, gpc, slot>>
      BY <1>9 DEF ReaderLens, ReaderSink, ReaderSignal, ReaderWake, ReaderJoin,
                  Parsing, gatherVars
    <2> QED BY <2>1 DEF Filling
  <1>10. CASE UNCHANGED <<meta, gpc, rpc, slot>>
    BY <1>10 DEF Filling, Parsing
  <1> QED
    BY <1>3, <1>4, <1>5, <1>6, <1>7, <1>8, <1>9, <1>10
    DEF PipelineNext, Gather, Reader, Environment, pipelineVars, gatherVars, readerVars,
        ChildWrite, ChildClose, Quit, SpuriousWake

-----------------------------------------------------------------------------
(* The types, the ring and the counts hold of every reachable state.       *)
THEOREM Invariance == PipelineSpec => []IInv
  <1>1. PipelineInit => IInv
    BY InitIInv
  <1>2. IInv /\ [PipelineNext]_pipelineVars => IInv'
    BY NextTypeOK, NextTakenInv, NextRingInv DEF IInv
  <1> QED BY <1>1, <1>2, PTL DEF PipelineSpec

(* Every variable always has a value of its type.                          *)
THEOREM TypeCorrect == PipelineSpec => []PipelineTypeOK
  <1>1. IInv => PipelineTypeOK
    BY DEF IInv
  <1> QED BY Invariance, <1>1, PTL

(* The buffer gather fills is never the one the parse stage reads: what    *)
(* "unsafe impl Sync for Pipeline" takes for granted.                      *)
THEOREM BuffersNotShared == PipelineSpec => []NoSharedBuffer
  <1>1. IInv => NoSharedBuffer
    <2> SUFFICES ASSUME IInv, Filling, Parsing PROVE slot # meta.head
      BY DEF NoSharedBuffer
    <2>1. meta.tail \in Slots /\ meta.count \in 0 .. BufferCount
      BY MetaFields DEF IInv, PipelineTypeOK
    <2>2. /\ meta.head = Wrap(meta.tail + meta.count) /\ slot = meta.tail
          /\ 0 < meta.count /\ meta.count < BufferCount
      BY <2>1, RingAssumption DEF IInv, RingInv
    <2> QED BY <2>1, <2>2, RingAssumption DEF Wrap, Slots
  <1> QED BY Invariance, <1>1, PTL

-----------------------------------------------------------------------------
(* A stage asleep is at its claim: that is what makes NoLostSignal         *)
(* inductive.                                                              *)
SleepInv ==
    /\ NoLostSignal
    /\ "gather" \in waiting => gpc = "claim"
    /\ "reader" \in waiting => rpc = "claim"

(* Every step keeps what is said of the sleeping stages.                   *)
LEMMA NextSleepInv == IInv /\ SleepInv /\ [PipelineNext]_pipelineVars => SleepInv'
  <1> SUFFICES ASSUME IInv, SleepInv, [PipelineNext]_pipelineVars PROVE SleepInv'
    OBVIOUS
  <1>1. meta \in Meta /\ meta.count \in 0 .. BufferCount
    BY MetaFields DEF IInv, PipelineTypeOK
  <1> USE <1>1, RingAssumption
      DEF SleepInv, NoLostSignal, kernelVars, gatherVars, readerVars
  <1>2. CASE GatherClaim
    BY <1>2 DEF GatherClaim
  <1>3. CASE GatherRead
    BY <1>3 DEF GatherRead
  <1>4. CASE GatherReadEnd
    BY <1>4 DEF GatherReadEnd
  <1>5. CASE GatherAgain
    BY <1>5 DEF GatherAgain
  <1>6. CASE GatherArm
    BY <1>6 DEF GatherArm, Meta
  <1>7. CASE GatherBridge
    BY <1>7 DEF GatherBridge
  <1>8. CASE GatherBridged
    BY <1>8 DEF GatherBridged, Meta
  <1>9. CASE GatherDrainIdle
    BY <1>9 DEF GatherDrainIdle
  <1>10. CASE GatherPublish
    BY <1>10 DEF GatherPublish, AfterPublish, Meta, IInv, RingInv, Filling
  <1>11. CASE GatherSignal
    BY <1>11 DEF GatherSignal, AfterPublish
  <1>12. CASE GatherPoll
    BY <1>12 DEF GatherPoll
  <1>13. CASE GatherDone
    BY <1>13 DEF GatherDone, Meta
  <1>14. CASE GatherExit
    BY <1>14 DEF GatherExit
  <1>15. CASE ReaderClaim
    BY <1>15 DEF ReaderClaim
  <1>16. CASE ReaderLens
    BY <1>16 DEF ReaderLens
  <1>17. CASE ReaderSink
    BY <1>17 DEF ReaderSink
  <1>18. CASE ReaderAdvance
    BY <1>18 DEF ReaderAdvance, Meta
  <1>19. CASE ReaderSignal
    BY <1>19 DEF ReaderSignal
  <1>20. CASE ReaderWake
    BY <1>20 DEF ReaderWake
  <1>21. CASE ReaderJoin
    BY <1>21 DEF ReaderJoin
  <1>22. CASE ChildWrite
    BY <1>22 DEF ChildWrite
  <1>23. CASE ChildClose
    BY <1>23 DEF ChildClose
  <1>24. CASE Quit
    BY <1>24 DEF Quit
  <1>25. CASE PollInterrupted
    BY <1>25 DEF PollInterrupted
  <1>26. CASE SpuriousWake
    BY <1>26 DEF SpuriousWake
  <1>27. CASE UNCHANGED pipelineVars
    BY <1>27 DEF pipelineVars
  <1> QED
    BY <1>2, <1>3, <1>4, <1>5, <1>6, <1>7, <1>8, <1>9, <1>10, <1>11, <1>12, <1>13, <1>14, <1>15, <1>16, <1>17, <1>18, <1>19, <1>20, <1>21, <1>22, <1>23, <1>24, <1>25, <1>26, <1>27
    DEF PipelineNext, Gather, Reader, Environment

(* A stage that sleeps has nothing to do, or its signal is on the way.     *)
THEOREM SignalsKept == PipelineSpec => []NoLostSignal
  <1>1. PipelineInit => SleepInv
    BY DEF PipelineInit, SleepInv, NoLostSignal
  <1>2. IInv /\ SleepInv /\ [PipelineNext]_pipelineVars => SleepInv'
    BY NextSleepInv
  <1>3. SleepInv => NoLostSignal
    BY DEF SleepInv
  <1> QED BY Invariance, <1>1, <1>2, <1>3, PTL DEF PipelineSpec

-----------------------------------------------------------------------------
(* Why the self-pipe stays short.  OnTheWay is the wake byte the parse     *)
(* stage has decided on and not written yet; Coming is the one it may      *)
(* still decide on while gather says that it is bridging, which takes a    *)
(* batch in the ring, and none is added meanwhile.                         *)
OnTheWay == IF rpc \in {"signal", "wake"} /\ wakeGather THEN 1 ELSE 0
Coming == IF meta.bridging /\ meta.count > 0 THEN 1 ELSE 0

(* From the beginning of a bridge up to the emptying of the pipe, or to    *)
(* the end of gather, there may be one byte more than between bridges.     *)
OneMore ==
    \/ gpc \in {"bridge", "drainIdle", "done", "signalDone", "exited"}
    \/ gpc = "bridged" /\ "idle" \in revents
    \/ gpc \in {"publish", "signal"} /\ fatal

(* A bridge that finds the pipe empty leaves at most two bytes to come,    *)
(* one that does not empties it, and an interrupted one leaves its own.    *)
PipeInv ==
    /\ meta.bridging <=> gpc \in {"bridge", "bridged"}
    /\ rpc = "wake" => wakeGather
    /\ idlePipe + OnTheWay + Coming <= 2 + interrupts + (IF OneMore THEN 1 ELSE 0)

(* Every step keeps the count of wake bytes.                               *)
LEMMA NextPipeInv == IInv /\ PipeInv /\ [PipelineNext]_pipelineVars => PipeInv'
  <1> SUFFICES ASSUME IInv, PipeInv, [PipelineNext]_pipelineVars PROVE PipeInv'
    OBVIOUS
  <1>1. /\ meta \in Meta /\ meta.count \in Nat /\ idlePipe \in Nat
        /\ interrupts \in Nat /\ gpc \in GatherPcs
    BY MetaFields, RingAssumption, KernelAssumption DEF IInv, PipelineTypeOK
  <1>2. Parsing => meta.count > 0
    BY DEF IInv, RingInv
  <1> USE <1>1, <1>2
      DEF PipeInv, OnTheWay, Coming, OneMore, Parsing, GatherPcs, kernelVars,
          gatherVars, readerVars
  <1>3. CASE GatherClaim
    BY <1>3 DEF GatherClaim
  <1>4. CASE GatherRead
    BY <1>4 DEF GatherRead
  <1>5. CASE GatherReadEnd
    BY <1>5 DEF GatherReadEnd
  <1>6. CASE GatherAgain
    BY <1>6 DEF GatherAgain
  <1>7. CASE GatherArm
    BY <1>7 DEF GatherArm, Meta
  <1>8. CASE GatherBridge
    BY <1>8 DEF GatherBridge, Ready, IdleReady
  <1>9. CASE GatherBridged
    BY <1>9 DEF GatherBridged, Meta
  <1>10. CASE GatherDrainIdle
    BY <1>10 DEF GatherDrainIdle
  <1>11. CASE GatherPublish
    <2>1. gpc = "publish" /\ UNCHANGED <<idlePipe, interrupts, fatal, rpc, wakeGather>>
      BY <1>11 DEF GatherPublish
    <2>2. gpc' = "signal" \/ gpc' = IF fatal THEN "done"
                               ELSE IF total = BufferCapacity THEN "claim" ELSE "poll"
      BY <1>11 DEF GatherPublish, AfterPublish
    <2>3. meta'.bridging = meta.bridging
      BY <1>11 DEF GatherPublish, Meta
    <2>4. ~meta.bridging /\ Coming = 0 /\ Coming' = 0 /\ OnTheWay' = OnTheWay
      BY <2>1, <2>3
    <2>5. (OneMore <=> OneMore') /\ ~(gpc' \in {"bridge", "bridged"})
      BY <2>1, <2>2
    <2> QED BY <2>1, <2>3, <2>4, <2>5
  <1>12. CASE GatherSignal
    BY <1>12 DEF GatherSignal, AfterPublish
  <1>13. CASE GatherPoll
    BY <1>13 DEF GatherPoll, Ready
  <1>14. CASE GatherDone
    BY <1>14 DEF GatherDone, Meta
  <1>15. CASE GatherExit
    BY <1>15 DEF GatherExit
  <1>16. CASE ReaderClaim
    BY <1>16 DEF ReaderClaim
  <1>17. CASE ReaderLens
    BY <1>17 DEF ReaderLens
  <1>18. CASE ReaderSink
    BY <1>18 DEF ReaderSink
  <1>19. CASE ReaderAdvance
    <2>1. rpc = "advance" /\ rpc' = "signal" /\ meta.count > 0
      BY <1>19 DEF ReaderAdvance
    <2>2. meta'.bridging = meta.bridging /\ meta'.count = meta.count - 1
      BY <1>19 DEF ReaderAdvance, Meta
    <2>3. wakeGather' <=> meta.count = 1 /\ meta.bridging
      <3>1. wakeGather' = (meta.count - 1 = 0 /\ meta.bridging)
        BY <1>19 DEF ReaderAdvance
      <3>2. meta.count - 1 = 0 <=> meta.count = 1
        BY <1>1
      <3> QED BY <3>1, <3>2
    <2>4. UNCHANGED <<idlePipe, interrupts, gpc, revents, fatal>>
      BY <1>19 DEF ReaderAdvance
    <2>5. (OneMore <=> OneMore') /\ (meta'.bridging <=> gpc' \in {"bridge", "bridged"})
      BY <2>2, <2>4
    <2>6. OnTheWay' + Coming' <= OnTheWay + Coming
      <3>1. CASE meta.count = 1
        BY <2>1, <2>2, <2>3, <3>1
      <3>2. CASE meta.count # 1
        BY <2>1, <2>2, <2>3, <3>2
      <3> QED BY <3>1, <3>2
    <2> QED BY <2>1, <2>4, <2>5, <2>6
  <1>20. CASE ReaderSignal
    BY <1>20 DEF ReaderSignal
  <1>21. CASE ReaderWake
    BY <1>21 DEF ReaderWake
  <1>22. CASE ReaderJoin
    BY <1>22 DEF ReaderJoin
  <1>23. CASE ChildWrite
    BY <1>23 DEF ChildWrite
  <1>24. CASE ChildClose
    BY <1>24 DEF ChildClose
  <1>25. CASE Quit
    BY <1>25 DEF Quit
  <1>26. CASE PollInterrupted
    BY <1>26 DEF PollInterrupted
  <1>27. CASE SpuriousWake
    BY <1>27 DEF SpuriousWake
  <1>28. CASE UNCHANGED pipelineVars
    BY <1>28 DEF pipelineVars
  <1> QED
    BY <1>3, <1>4, <1>5, <1>6, <1>7, <1>8, <1>9, <1>10, <1>11, <1>12, <1>13, <1>14, <1>15, <1>16, <1>17, <1>18, <1>19, <1>20, <1>21, <1>22, <1>23, <1>24, <1>25, <1>26, <1>27, <1>28
    DEF PipelineNext, Gather, Reader, Environment

(* The self-pipe never holds more than three bytes and one for each        *)
(* interrupted poll, so the parse stage never blocks on it.                *)
THEOREM IdlePipeSmall == PipelineSpec => []IdlePipeBounded
  <1>1. PipelineInit => PipeInv
    <2> SUFFICES ASSUME PipelineInit PROVE PipeInv
      OBVIOUS
    <2>1. meta.bridging = FALSE /\ gpc = "claim" /\ rpc = "claim"
          /\ idlePipe = 0 /\ interrupts = 0
      BY DEF PipelineInit
    <2>2. meta.bridging <=> gpc \in {"bridge", "bridged"}
      BY <2>1
    <2>3. OnTheWay = 0 /\ Coming = 0
      BY <2>1 DEF OnTheWay, Coming
    <2> QED BY <2>1, <2>2, <2>3 DEF PipeInv
  <1>2. IInv /\ PipeInv /\ [PipelineNext]_pipelineVars => PipeInv'
    BY NextPipeInv
  <1>3. IInv /\ PipeInv => IdlePipeBounded
    <2> SUFFICES ASSUME IInv, PipeInv PROVE IdlePipeBounded
      OBVIOUS
    <2>1. idlePipe \in Nat /\ interrupts \in Nat
      BY KernelAssumption DEF IInv, PipelineTypeOK
    <2> QED BY <2>1 DEF PipeInv, OnTheWay, Coming, IdlePipeBounded
  <1> QED BY Invariance, <1>1, <1>2, <1>3, PTL DEF PipelineSpec

-------------------------------------------------------------------------------
(* The bytes.  The published slots, from tail on, hold consecutive runs of *)
(* the stream, the first of which starts where the sink's part ends and    *)
(* the last of which ends where the buffer being filled starts.            *)

(* s is one of the c slots from t on, around the ring.                     *)
Between(t, c, s) ==
    IF t + c <= BufferCount THEN t <= s /\ s < t + c
                            ELSE t <= s \/ s < t + c - BufferCount

(* The slots published and not yet released.                               *)
InRing(s) == Between(meta.tail, meta.count, s)

First(s) == bufs[s][1]
Unpublished == IF Filling THEN total ELSE 0

(* A published slot holds a run of consecutive bytes ...                   *)
RunInv ==
    \A s \in Slots : InRing(s) =>
        /\ meta.lens[s] > 0
        /\ \A i \in 1 .. meta.lens[s] : bufs[s][i] = First(s) + i - 1

(* ... that the next slot, or what is not published yet, goes on from.     *)
ChainInv ==
    \A s \in Slots : InRing(s) =>
        First(s) + meta.lens[s] =
            IF NextSlot(s) = meta.head THEN taken - Unpublished + 1
                                       ELSE First(NextSlot(s))

(* The buffer being filled holds the last bytes taken.                     *)
FillInv ==
    Filling => \A i \in 1 .. total : bufs[meta.head][i] = taken - total + i

(* Where the sink's part of the stream ends.                               *)
SinkEnd ==
    IF meta.count = 0 THEN taken - Unpublished
    ELSE IF rpc = "advance" THEN First(meta.tail) + meta.lens[meta.tail] - 1
    ELSE First(meta.tail) - 1

SinkInv ==
    /\ DeliveredInOrder
    /\ Len(delivered) = SinkEnd
    /\ rpc \in {"sink", "advance"} => len = meta.lens[slot]

(* The parse stage leaves when gather is over and the ring empty.          *)
EndInv ==
    /\ rpc \in {"join", "exited"} => meta.count = 0 /\ meta.done
    /\ meta.done => gpc \in {"signalDone", "exited"}

OrderInv == RunInv /\ ChainInv /\ FillInv /\ SinkInv /\ EndInv

-----------------------------------------------------------------------------
(* The ring, as arithmetic: c slots from t on, h the slot after them.      *)
LEMMA RingArithmetic ==
    ASSUME NEW t \in Slots, NEW c \in 0 .. BufferCount, NEW h,
           h = Wrap(t + c)
    PROVE  /\ h \in Slots
           /\ c = 0 => h = t /\ \A s \in Slots : ~Between(t, c, s)
           /\ c > 0 => Between(t, c, t)
           /\ c < BufferCount => ~Between(t, c, h)
           /\ c = 1 => NextSlot(t) = h
           /\ c > 1 => NextSlot(t) # h
           /\ \A s \in Slots : Between(t, c, s) /\ NextSlot(s) # h =>
                /\ Between(t, c, NextSlot(s))
                /\ NextSlot(s) # t
  BY RingAssumption DEF Slots, Wrap, NextSlot, Between

(* Different slots have different successors.                              *)
LEMMA NextSlotInjective ==
    ASSUME NEW r \in Slots, NEW s \in Slots, NextSlot(r) = NextSlot(s)
    PROVE  r = s
  BY RingAssumption DEF Slots, NextSlot

(* Publishing puts the slot at head into the ring ...                      *)
LEMMA BetweenPublish ==
    ASSUME NEW t \in Slots, NEW c \in 0 .. BufferCount, c < BufferCount,
           NEW s \in Slots
    PROVE  Between(t, c + 1, s) <=> Between(t, c, s) \/ s = Wrap(t + c)
  BY RingAssumption DEF Slots, Wrap, Between

(* ... and advancing takes the one at tail out of it.                      *)
LEMMA BetweenAdvance ==
    ASSUME NEW t \in Slots, NEW c \in 0 .. BufferCount, c > 0, NEW s \in Slots
    PROVE  Between(NextSlot(t), c - 1, s) <=> Between(t, c, s) /\ s # t
  BY RingAssumption DEF Slots, NextSlot, Between

(* What the types say, for the provers.                                    *)
LEMMA Types ==
    ASSUME IInv
    PROVE  /\ meta.head \in Slots /\ meta.tail \in Slots
           /\ meta.count \in 0 .. BufferCount
           /\ meta.lens \in [Slots -> 0 .. BufferCapacity]
           /\ bufs \in [Slots -> [1 .. BufferCapacity -> Int]]
           /\ taken \in Int /\ total \in 0 .. BufferCapacity
           /\ slot \in Slots /\ len \in 0 .. BufferCapacity
           /\ delivered \in Seq(Bytes)
           /\ \A s \in Slots : First(s) \in Int
  <1>1. bufs \in [Slots -> [1 .. BufferCapacity -> Int]]
    BY DEF IInv, PipelineTypeOK, Bytes
  <1>2. \A s \in Slots : First(s) \in Int
    BY <1>1, RingAssumption DEF First
  <1>3. taken \in Int
    BY DEF IInv, PipelineTypeOK, Bytes
  <1> QED BY <1>1, <1>2, <1>3, MetaFields DEF IInv, PipelineTypeOK

(* The ring facts of a state that satisfies the invariant.                 *)
LEMMA RingFacts ==
    ASSUME IInv
    PROVE  /\ meta.head = Wrap(meta.tail + meta.count)
           /\ meta.count = 0 =>
                meta.head = meta.tail /\ \A s \in Slots : ~InRing(s)
           /\ meta.count > 0 => InRing(meta.tail)
           /\ meta.count < BufferCount => ~InRing(meta.head)
           /\ meta.count = 1 => NextSlot(meta.tail) = meta.head
           /\ meta.count > 1 => NextSlot(meta.tail) # meta.head
           /\ \A s \in Slots : InRing(s) /\ NextSlot(s) # meta.head =>
                InRing(NextSlot(s)) /\ NextSlot(s) # meta.tail
  <1>1. meta.tail \in Slots /\ meta.count \in 0 .. BufferCount
    BY Types
  <1>2. meta.head = Wrap(meta.tail + meta.count)
    BY DEF IInv, RingInv
  <1> QED BY <1>1, <1>2, RingArithmetic DEF InRing

-----------------------------------------------------------------------------
(* The initial states satisfy the invariant: the ring is empty and nothing *)
(* was read.                                                               *)
LEMMA InitOrderInv == PipelineInit => OrderInv
  <1> SUFFICES ASSUME PipelineInit PROVE OrderInv
    OBVIOUS
  <1>1. meta.count = 0 /\ meta.tail = 0 /\ meta.done = FALSE
    BY DEF PipelineInit
  <1>2. \A s \in Slots : ~InRing(s)
    BY <1>1, RingAssumption DEF InRing, Between, Slots
  <1>3. ~Filling /\ delivered = <<>> /\ taken = 0 /\ rpc = "claim"
    BY DEF PipelineInit, Filling
  <1> QED BY <1>1, <1>2, <1>3
          DEF OrderInv, RunInv, ChainInv, FillInv, SinkInv, SinkEnd,
              DeliveredInOrder, Unpublished, EndInv

(* A step that touches neither the ring nor the buffers nor the counts.    *)
RingUnchanged ==
    /\ meta'.head = meta.head /\ meta'.tail = meta.tail
    /\ meta'.count = meta.count /\ meta'.lens = meta.lens
    /\ UNCHANGED <<bufs, taken>>
    /\ Unpublished' = Unpublished

(* A step that leaves the ring and its buffers alone keeps the chain.      *)
LEMMA QuietRing ==
    ASSUME RunInv, ChainInv, RingUnchanged
    PROVE  RunInv' /\ ChainInv'
  <1>1. \A s : InRing(s)' <=> InRing(s)
    BY DEF RingUnchanged, InRing
  <1>2. \A s : First(s)' = First(s)
    BY DEF RingUnchanged, First
  <1>3. RunInv'
    BY <1>1, <1>2 DEF RunInv, RingUnchanged
  <1>4. ChainInv'
    BY <1>1, <1>2 DEF ChainInv, RingUnchanged
  <1> QED BY <1>3, <1>4

(* A step that leaves the parse stage's batch alone keeps what is said of  *)
(* the sink.                                                               *)
LEMMA QuietSink ==
    ASSUME SinkInv, RingUnchanged, UNCHANGED delivered,
           rpc' = "advance" <=> rpc = "advance",
           rpc' \in {"sink", "advance"} =>
               rpc \in {"sink", "advance"} /\ UNCHANGED <<slot, len>>
    PROVE  SinkInv'
  <1>1. SinkEnd' = SinkEnd
    BY DEF SinkEnd, RingUnchanged, First
  <1>2. DeliveredInOrder'
    BY DEF SinkInv, DeliveredInOrder
  <1> QED BY <1>1, <1>2 DEF SinkInv, RingUnchanged

(* Reading adds to the buffer being filled, which is not in the ring.      *)
LEMMA ReadOrder ==
    ASSUME IInv, OrderInv, GatherRead
    PROVE  OrderInv'
  <1>1. PICK n \in 1 .. BufferCapacity :
          /\ total + n <= BufferCapacity
          /\ bufs' = [bufs EXCEPT ![meta.head] =
                        [i \in 1 .. BufferCapacity |->
                           IF i \in total + 1 .. total + n
                             THEN taken + (i - total) ELSE @[i]]]
          /\ total' = total + n
          /\ taken' = taken + n
    BY DEF GatherRead
  <1>2. meta' = meta /\ Filling /\ Filling'
    BY <1>1 DEF GatherRead, Filling
  <1>3. UNCHANGED <<rpc, slot, len, delivered>>
    BY DEF GatherRead, readerVars
  <1>4. meta.count < BufferCount /\ ~InRing(meta.head)
    BY <1>2, RingFacts DEF IInv, RingInv
  <1>5. \A s \in Slots : s # meta.head => bufs'[s] = bufs[s]
    BY <1>1, Types
  <1>6. \A s : InRing(s)' <=> InRing(s)
    BY <1>2 DEF InRing
  <1>7. \A s \in Slots : InRing(s) => bufs'[s] = bufs[s] /\ First(s)' = First(s)
    BY <1>4, <1>5 DEF First
  <1>8. taken' - Unpublished' = taken - Unpublished
    BY <1>1, <1>2, Types DEF Unpublished
  <1>9. RunInv'
    BY <1>2, <1>6, <1>7 DEF OrderInv, RunInv
  <1>10. ChainInv'
    <2> SUFFICES ASSUME NEW s \in Slots, InRing(s)
                 PROVE  First(s)' + meta.lens[s] =
                          IF NextSlot(s) = meta.head THEN taken' - Unpublished' + 1
                                                     ELSE First(NextSlot(s))'
      BY <1>2, <1>6 DEF ChainInv
    <2>1. First(s)' = First(s)
      BY <1>7
    <2>2. CASE NextSlot(s) = meta.head
      BY <2>1, <2>2, <1>8 DEF OrderInv, ChainInv
    <2>3. CASE NextSlot(s) # meta.head
      <3>1. InRing(NextSlot(s)) /\ NextSlot(s) \in Slots
        BY <2>3, RingFacts, NextSlotType
      <3> QED BY <2>1, <2>3, <3>1, <1>7 DEF OrderInv, ChainInv
    <2> QED BY <2>2, <2>3
  <1>11. FillInv'
    <2> SUFFICES ASSUME NEW i \in 1 .. total'
                 PROVE  bufs'[meta.head][i] = taken' - total' + i
      BY <1>2 DEF FillInv
    <2>1. i \in 1 .. BufferCapacity
      BY <1>1, Types, RingAssumption
    <2>2. bufs'[meta.head][i] =
            IF i \in total + 1 .. total + n THEN taken + (i - total)
                                           ELSE bufs[meta.head][i]
      BY <1>1, <2>1, Types
    <2>3. i <= total => bufs[meta.head][i] = taken - total + i
      BY <1>2, Types DEF OrderInv, FillInv
    <2>4. taken' - total' = taken - total
      BY <1>1, Types
    <2>5. CASE i <= total
      <3>1. i \notin total + 1 .. total + n
        BY <2>5, Types
      <3> QED BY <2>2, <2>3, <2>4, <2>5, <3>1
    <2>6. CASE ~(i <= total)
      <3>1. i \in total + 1 .. total + n
        BY <2>6, <1>1, Types
      <3>2. taken + (i - total) = taken - total + i
        BY Types
      <3> QED BY <2>2, <2>4, <3>1, <3>2
    <2> QED BY <2>5, <2>6
  <1>12. SinkInv'
    <2>1. SinkEnd' = SinkEnd
      <3>1. meta.count # 0 => First(meta.tail)' = First(meta.tail)
        <4> SUFFICES ASSUME meta.count # 0 PROVE First(meta.tail)' = First(meta.tail)
          OBVIOUS
        <4>1. meta.tail \in Slots /\ InRing(meta.tail)
          BY RingFacts, Types
        <4> QED BY <4>1, <1>2, <1>7 DEF First
      <3> QED BY <1>2, <1>3, <1>8, <3>1 DEF SinkEnd
    <2> QED BY <2>1, <1>2, <1>3 DEF OrderInv, SinkInv, DeliveredInOrder
  <1>13. EndInv'
    BY <1>2, <1>3 DEF OrderInv, EndInv, Filling
  <1> QED BY <1>9, <1>10, <1>11, <1>12, <1>13 DEF OrderInv

(* Publishing makes the buffer that was filled the last run of the chain.  *)
LEMMA PublishOrder ==
    ASSUME IInv, OrderInv, GatherPublish, total > 0
    PROVE  OrderInv'
  <1> DEFINE h == meta.head
  <1>1. /\ meta'.head = NextSlot(h) /\ meta'.tail = meta.tail
        /\ meta'.count = meta.count + 1 /\ meta'.done = meta.done
        /\ meta'.lens = [meta.lens EXCEPT ![h] = total]
    BY DEF GatherPublish, IInv, PipelineTypeOK, Meta
  <1>2. /\ UNCHANGED <<taken, bufs, total, rpc, slot, len, delivered>>
        /\ Filling /\ ~Filling' /\ gpc = "publish" /\ gpc' = "signal"
    BY DEF GatherPublish, Filling, kernelVars, readerVars
  <1>3. h \in Slots /\ meta.count < BufferCount /\ ~InRing(h) /\ ~meta.done
    BY <1>2, RingFacts, Types DEF IInv, RingInv, OrderInv, EndInv
  <1>4. \A s \in Slots : InRing(s)' <=> InRing(s) \/ s = h
    BY <1>1, <1>3, Types, RingFacts, BetweenPublish DEF InRing
  <1>5. \A s : First(s)' = First(s)
    BY <1>2 DEF First
  <1>6. /\ meta'.lens[h] = total
        /\ \A s \in Slots : s # h => meta'.lens[s] = meta.lens[s]
    BY <1>1, <1>3, Types
  <1>7. /\ Unpublished = total /\ Unpublished' = 0
        /\ First(h) = taken - total + 1
    <2>1. Unpublished = total /\ Unpublished' = 0
      BY <1>2 DEF Unpublished
    <2>2. \A i \in 1 .. total : bufs[h][i] = taken - total + i
      BY <1>2 DEF OrderInv, FillInv
    <2>3. 1 \in 1 .. total
      BY Types
    <2>4. bufs[h][1] = taken - total + 1
      BY <2>2, <2>3
    <2> QED BY <2>1, <2>4 DEF First
  <1>8. RunInv'
    <2> SUFFICES ASSUME NEW s \in Slots, InRing(s) \/ s = h
                 PROVE  /\ meta'.lens[s] > 0
                        /\ \A i \in 1 .. meta'.lens[s] : bufs[s][i] = First(s) + i - 1
      BY <1>2, <1>4, <1>5 DEF RunInv
    <2>1. CASE s = h
      BY <2>1, <1>2, <1>6, <1>7, Types DEF OrderInv, FillInv
    <2>2. CASE s # h
      BY <2>2, <1>6 DEF OrderInv, RunInv
    <2> QED BY <2>1, <2>2
  <1>9. ChainInv'
    <2> SUFFICES ASSUME NEW s \in Slots, InRing(s) \/ s = h
                 PROVE  First(s) + meta'.lens[s] =
                          IF NextSlot(s) = NextSlot(h) THEN taken + 1
                                                       ELSE First(NextSlot(s))
      BY <1>1, <1>2, <1>4, <1>5, <1>7, Types DEF ChainInv
    <2>1. CASE s = h
      BY <2>1, <1>6, <1>7, Types
    <2>2. CASE s # h
      <3>1. NextSlot(s) # NextSlot(h)
        BY <2>2, <1>3, NextSlotInjective
      <3>2. First(s) + meta.lens[s] =
              IF NextSlot(s) = h THEN taken - total + 1 ELSE First(NextSlot(s))
        BY <2>2, <1>7 DEF OrderInv, ChainInv
      <3> QED BY <2>2, <3>1, <3>2, <1>6, <1>7
    <2> QED BY <2>1, <2>2
  <1>10. SinkInv'
    <2>1. slot # h \/ ~Parsing
      BY <1>2, <1>3, RingFacts, Types DEF IInv, RingInv
    <2>2. SinkEnd' = SinkEnd
      <3>1. CASE meta.count = 0
        <4>1. h = meta.tail /\ ~Parsing
          BY <3>1, RingFacts DEF IInv, RingInv
        <4>2. rpc # "advance"
          BY <4>1 DEF Parsing
        <4> QED BY <3>1, <4>1, <4>2, <1>1, <1>2, <1>5, <1>7, Types DEF SinkEnd
      <3>2. CASE meta.count # 0
        <4>1. meta.tail # h /\ meta.tail \in Slots
          BY <3>2, <1>3, RingFacts, Types
        <4> QED BY <3>2, <4>1, <1>1, <1>2, <1>5, <1>6, Types DEF SinkEnd
      <3> QED BY <3>1, <3>2
    <2>3. rpc \in {"sink", "advance"} => meta'.lens[slot] = meta.lens[slot]
      BY <2>1, <1>6, Types DEF Parsing
    <2> QED BY <2>2, <2>3, <1>2 DEF OrderInv, SinkInv, DeliveredInOrder
  <1>11. FillInv' /\ EndInv'
    BY <1>1, <1>2, <1>3 DEF FillInv, OrderInv, EndInv
  <1> QED BY <1>8, <1>9, <1>10, <1>11 DEF OrderInv

(* What gather does besides reading and publishing changes nothing here.   *)
LEMMA GatherOrder ==
    ASSUME IInv, OrderInv, Gather \/ PollInterrupted
    PROVE  OrderInv'
  <1>1. CASE GatherRead
    BY <1>1, ReadOrder
  <1>2. CASE GatherPublish /\ total > 0
    BY <1>2, PublishOrder
  <1>3. ASSUME RingUnchanged, FillInv', meta'.done = meta.done,
               UNCHANGED <<rpc, slot, len, delivered>>,
               meta.done => gpc' \in {"signalDone", "exited"}
        PROVE  OrderInv'
    <2>1. RunInv' /\ ChainInv'
      BY <1>3, QuietRing DEF OrderInv
    <2>2. SinkInv'
      BY <1>3, QuietSink DEF OrderInv
    <2>3. EndInv'
      BY <1>3 DEF OrderInv, EndInv, RingUnchanged
    <2> QED BY <1>3, <2>1, <2>2, <2>3 DEF OrderInv
  <1> USE DEF RingUnchanged, kernelVars, readerVars
  <1>4. CASE GatherClaim
    <2>1. FillInv'
      BY <1>4, Types DEF GatherClaim, OrderInv, FillInv, Filling, gatherVars
    <2>2. Unpublished' = Unpublished
      BY <1>4 DEF GatherClaim, Unpublished, Filling, gatherVars
    <2>3. meta.done => gpc' \in {"signalDone", "exited"}
      BY <1>4 DEF GatherClaim, OrderInv, EndInv, gatherVars
    <2> QED BY <1>4, <2>1, <2>2, <2>3, <1>3 DEF GatherClaim
  <1>5. CASE GatherPublish /\ ~(total > 0)
    <2>1. Unpublished' = Unpublished /\ ~Filling'
      BY <1>5, Types DEF GatherPublish, Unpublished, Filling, AfterPublish
    <2>2. ~meta.done
      BY <1>5 DEF GatherPublish, OrderInv, EndInv
    <2> QED BY <1>5, <2>1, <2>2, <1>3 DEF GatherPublish, FillInv
  <1>6. CASE GatherArm \/ GatherBridged \/ GatherDone
    <2>1. /\ meta'.head = meta.head /\ meta'.tail = meta.tail
          /\ meta'.count = meta.count /\ meta'.lens = meta.lens
          /\ gpc # "done" => meta'.done = meta.done
      BY <1>6 DEF GatherArm, GatherBridged, GatherDone, IInv, PipelineTypeOK, Meta
    <2>2. /\ UNCHANGED <<bufs, taken, total, rpc, slot, len, delivered>>
          /\ Filling' <=> Filling
          /\ gpc \in {"arm", "bridged", "done"}
          /\ gpc = "done" => gpc' = "signalDone"
      BY <1>6 DEF GatherArm, GatherBridged, GatherDone, Filling
    <2>3. RingUnchanged /\ FillInv' /\ ~meta.done
      BY <2>1, <2>2 DEF Unpublished, OrderInv, FillInv, EndInv
    <2>4. RunInv' /\ ChainInv'
      BY <2>3, QuietRing DEF OrderInv
    <2>5. SinkInv'
      BY <2>2, <2>3, QuietSink DEF OrderInv
    <2>6. EndInv'
      BY <2>1, <2>2, <2>3 DEF OrderInv, EndInv
    <2> QED BY <2>3, <2>4, <2>5, <2>6 DEF OrderInv
  <1>7. CASE GatherReadEnd \/ GatherAgain \/ GatherBridge \/ GatherDrainIdle
               \/ GatherSignal \/ GatherPoll \/ GatherExit \/ PollInterrupted
    <2>1. /\ UNCHANGED <<meta, bufs, taken, total, rpc, slot, len, delivered>>
          /\ Filling' <=> Filling
      BY <1>7 DEF GatherReadEnd, GatherAgain, GatherBridge, GatherDrainIdle,
                  GatherSignal, GatherPoll, GatherExit, PollInterrupted,
                  AfterPublish, Filling
    <2>2. meta.done => gpc' \in {"signalDone", "exited"}
      BY <1>7 DEF GatherReadEnd, GatherAgain, GatherBridge, GatherDrainIdle,
                  GatherSignal, GatherPoll, GatherExit, PollInterrupted,
                  OrderInv, EndInv
    <2>3. FillInv' /\ Unpublished' = Unpublished
      BY <2>1 DEF OrderInv, FillInv, Unpublished
    <2> QED BY <2>1, <2>2, <2>3, <1>3
  <1> QED BY <1>1, <1>2, <1>4, <1>5, <1>6, <1>7 DEF Gather

(* The sink gets the run at tail, which starts where its part ends.        *)
LEMMA SinkOrder ==
    ASSUME IInv, OrderInv, ReaderSink
    PROVE  OrderInv'
  <1>1. /\ UNCHANGED <<meta, bufs, taken, total, gpc, slot, len>>
        /\ rpc = "sink" /\ rpc' = "advance"
        /\ delivered' = delivered \o [i \in 1 .. len |-> bufs[slot][i]]
    BY DEF ReaderSink, kernelVars, gatherVars
  <1>2. /\ slot = meta.tail /\ meta.count > 0 /\ len = meta.lens[slot]
        /\ InRing(slot) /\ slot \in Slots
    BY <1>1, RingFacts, Types DEF IInv, RingInv, Parsing, OrderInv, SinkInv
  <1>3. /\ First(slot) = Len(delivered) + 1 /\ Len(delivered) \in Nat
        /\ \A i \in 1 .. len : bufs[slot][i] = Len(delivered) + i
    <2>1. First(slot) - 1 = Len(delivered)
      BY <1>1, <1>2 DEF OrderInv, SinkInv, SinkEnd
    <2>2. \A i \in 1 .. len : bufs[slot][i] = First(slot) + i - 1
      BY <1>2 DEF OrderInv, RunInv
    <2>3. Len(delivered) \in Nat /\ First(slot) \in Int /\ len \in Nat
      BY <1>2, Types, LenProperties
    <2>4. First(slot) = Len(delivered) + 1
      BY <2>1, <2>3
    <2>5. ASSUME NEW i \in 1 .. len PROVE bufs[slot][i] = Len(delivered) + i
      BY <2>2, <2>3, <2>4
    <2> QED BY <2>3, <2>4, <2>5
  <1>4. RingUnchanged /\ FillInv'
    BY <1>1 DEF RingUnchanged, Unpublished, Filling, OrderInv, FillInv
  <1>5. SinkInv'
    <2> DEFINE d == [i \in 1 .. len |-> bufs[slot][i]]
    <2>1. len \in Nat /\ delivered \in Seq(Bytes)
      BY Types
    <2>2. d \in Seq(Bytes) /\ Len(d) = len
      <3>1. bufs[slot] \in [1 .. BufferCapacity -> Bytes] /\ len <= BufferCapacity
        BY <1>2, Types, RingAssumption DEF IInv, PipelineTypeOK
      <3>2. d \in [1 .. len -> Bytes]
        <4>1. \A i \in 1 .. len : i \in 1 .. BufferCapacity
          BY <2>1, <3>1, RingAssumption
        <4> QED BY <3>1, <4>1
      <3>3. d \in Seq(Bytes)
        BY <2>1, <3>2, SeqDef
      <3> QED BY <2>1, <3>3
    <2>3. /\ Len(delivered') = Len(delivered) + len
          /\ \A i \in 1 .. Len(delivered) + len :
               delivered'[i] = IF i <= Len(delivered) THEN delivered[i]
                                                      ELSE d[i - Len(delivered)]
          /\ delivered' \in Seq(Bytes)
      BY <1>1, <2>1, <2>2, ConcatProperties
    <2>4. DeliveredInOrder'
      <3> SUFFICES ASSUME NEW i \in 1 .. Len(delivered) + len
                   PROVE  delivered'[i] = i
        BY <2>3, LenProperties DEF DeliveredInOrder
      <3>1. CASE i <= Len(delivered)
        <4>1. i \in DOMAIN delivered
          BY <3>1, <2>1, LenProperties
        <4>2. delivered[i] = i
          BY <4>1 DEF OrderInv, SinkInv, DeliveredInOrder
        <4> QED BY <3>1, <4>2, <2>3
      <3>2. CASE ~(i <= Len(delivered))
        <4>1. delivered'[i] = d[i - Len(delivered)]
          BY <3>2, <2>3
        <4>2. i - Len(delivered) \in 1 .. len
          BY <3>2, <1>3, <2>1
        <4> QED BY <4>1, <4>2, <1>3, <2>1
      <3> QED BY <3>1, <3>2
    <2>5. Len(delivered') = SinkEnd'
      <3>1. SinkEnd' = First(slot) + len - 1
        BY <1>1, <1>2, Types DEF SinkEnd, First
      <3> QED BY <3>1, <1>3, <2>1, <2>3
    <2> QED BY <1>1, <1>2, <2>4, <2>5 DEF SinkInv
  <1>6. RunInv' /\ ChainInv'
    BY <1>4, QuietRing DEF OrderInv
  <1>7. EndInv'
    BY <1>1 DEF OrderInv, EndInv
  <1> QED BY <1>4, <1>5, <1>6, <1>7 DEF OrderInv

(* Advancing takes the run the sink has got off the front of the chain.    *)
LEMMA AdvanceOrder ==
    ASSUME IInv, OrderInv, ReaderAdvance
    PROVE  OrderInv'
  <1> DEFINE t == meta.tail
  <1>1. /\ meta'.tail = NextSlot(t) /\ meta'.count = meta.count - 1
        /\ meta'.head = meta.head /\ meta'.lens = meta.lens
        /\ meta'.done = meta.done
    BY DEF ReaderAdvance, IInv, PipelineTypeOK, Meta
  <1>2. /\ UNCHANGED <<bufs, taken, total, gpc, delivered>>
        /\ rpc = "advance" /\ rpc' = "signal"
    BY DEF ReaderAdvance, kernelVars, gatherVars
  <1>3. t \in Slots /\ meta.count > 0 /\ InRing(t)
    BY <1>2, RingFacts, Types DEF IInv, RingInv, Parsing
  <1>4. \A s \in Slots : InRing(s)' <=> InRing(s) /\ s # t
    BY <1>1, <1>3, Types, BetweenAdvance DEF InRing
  <1>5. (\A s : First(s)' = First(s)) /\ Unpublished' = Unpublished
    BY <1>2 DEF First, Unpublished, Filling
  <1>6. RunInv' /\ ChainInv'
    BY <1>1, <1>2, <1>4, <1>5 DEF OrderInv, RunInv, ChainInv
  <1>7. FillInv' /\ EndInv'
    BY <1>1, <1>2 DEF OrderInv, FillInv, Filling, EndInv
  <1>8. Len(delivered) = First(t) + meta.lens[t] - 1
    BY <1>2, <1>3, Types DEF OrderInv, SinkInv, SinkEnd
  <1>9. First(t) + meta.lens[t] =
          IF NextSlot(t) = meta.head THEN taken - Unpublished + 1
                                     ELSE First(NextSlot(t))
    BY <1>3 DEF OrderInv, ChainInv
  <1>10. Len(delivered) = SinkEnd'
    <2>1. taken \in Int /\ Unpublished \in Int /\ First(NextSlot(t)) \in Int
      BY <1>3, Types, NextSlotType DEF Unpublished
    <2>2. First(t) \in Int /\ meta.lens[t] \in Int
      BY <1>3, Types
    <2>3. CASE meta.count = 1
      <3>1. SinkEnd' = taken - Unpublished
        BY <2>3, <1>1, <1>2, <1>5 DEF SinkEnd
      <3>2. NextSlot(t) = meta.head
        BY <2>3, RingFacts
      <3>3. First(t) + meta.lens[t] = taken - Unpublished + 1
        BY <3>2, <1>9
      <3> QED BY <2>1, <2>2, <3>1, <3>3, <1>8
    <2>4. CASE meta.count # 1
      <3>1. meta.count > 1
        BY <2>4, <1>3, Types
      <3>2. SinkEnd' = First(NextSlot(t)) - 1
        BY <3>1, <1>1, <1>2, <1>5, Types DEF SinkEnd
      <3>3. Len(delivered) = First(NextSlot(t)) - 1
        <4>1. NextSlot(t) # meta.head
          BY <3>1, RingFacts
        <4> QED BY <4>1, <2>1, <2>2, <1>8, <1>9
      <3> QED BY <3>2, <3>3
    <2> QED BY <2>3, <2>4
  <1>11. SinkInv'
    BY <1>2, <1>10 DEF OrderInv, SinkInv, DeliveredInOrder
  <1> QED BY <1>6, <1>7, <1>11 DEF OrderInv

(* The other steps of the parse stage, and everybody else's.               *)
LEMMA OtherOrder ==
    ASSUME IInv, OrderInv,
           \/ ReaderClaim \/ ReaderLens \/ ReaderSignal \/ ReaderWake
           \/ ReaderJoin \/ Environment \/ SpuriousWake \/ UNCHANGED pipelineVars
    PROVE  OrderInv'
  <1> USE DEF Environment, ReaderClaim, ReaderLens, ReaderSignal, ReaderWake,
              ReaderJoin, ChildWrite, ChildClose, Quit, SpuriousWake, pipelineVars,
              kernelVars, gatherVars, readerVars
  <1>1. /\ UNCHANGED <<meta, bufs, taken, total, gpc, delivered>>
        /\ rpc # "advance" => rpc' # "advance"
    OBVIOUS
  <1>2. RingUnchanged /\ FillInv'
    BY <1>1 DEF RingUnchanged, Unpublished, Filling, OrderInv, FillInv
  <1>3. RunInv' /\ ChainInv'
    BY <1>2, QuietRing DEF OrderInv
  <1>4. EndInv'
    BY <1>1 DEF OrderInv, EndInv, IInv, PipelineTypeOK, ReaderPcs
  <1>5. CASE ReaderLens
    <2>1. rpc = "lens" /\ rpc' = "sink" /\ len' = meta.lens[slot] /\ slot' = slot
      BY <1>5
    <2>2. SinkEnd' = SinkEnd
      BY <1>2, <2>1 DEF SinkEnd, RingUnchanged, First
    <2>3. SinkInv'
      BY <1>1, <2>1, <2>2 DEF OrderInv, SinkInv, DeliveredInOrder
    <2> QED BY <1>2, <1>3, <1>4, <2>3 DEF OrderInv
  <1>6. CASE ~ReaderLens
    <2>1. /\ rpc' = "advance" <=> rpc = "advance"
          /\ rpc' \in {"sink", "advance"} =>
               rpc \in {"sink", "advance"} /\ UNCHANGED <<slot, len>>
      BY <1>6
    <2>2. SinkInv'
      BY <1>1, <1>2, <2>1, QuietSink DEF OrderInv
    <2> QED BY <1>2, <1>3, <1>4, <2>2 DEF OrderInv
  <1> QED BY <1>5, <1>6

(* Every step keeps the invariant: one lemma per kind of step.             *)
LEMMA NextOrderInv == IInv /\ OrderInv /\ [PipelineNext]_pipelineVars => OrderInv'
  BY GatherOrder, SinkOrder, AdvanceOrder, OtherOrder DEF PipelineNext, Reader

-----------------------------------------------------------------------------
(* Bytes reach the sink in the order the child wrote them, none twice and  *)
(* none missing in between.                                                *)
THEOREM OrderKept == PipelineSpec => []DeliveredInOrder
  <1>1. PipelineInit => IInv /\ OrderInv
    BY InitIInv, InitOrderInv
  <1>2. (IInv /\ OrderInv) /\ [PipelineNext]_pipelineVars => (IInv /\ OrderInv)'
    BY NextTypeOK, NextTakenInv, NextRingInv, NextOrderInv DEF IInv
  <1>3. IInv /\ OrderInv => DeliveredInOrder
    BY DEF OrderInv, SinkInv
  <1> QED BY <1>1, <1>2, <1>3, PTL DEF PipelineSpec

(* Whatever ended the pipeline, the sink has got every byte that was taken *)
(* out of the kernel.                                                      *)
THEOREM NothingLost == PipelineSpec => []NothingLeftBehind
  <1>1. PipelineInit => IInv /\ OrderInv
    BY InitIInv, InitOrderInv
  <1>2. (IInv /\ OrderInv) /\ [PipelineNext]_pipelineVars => (IInv /\ OrderInv)'
    BY NextTypeOK, NextTakenInv, NextRingInv, NextOrderInv DEF IInv
  <1>3. IInv /\ OrderInv => NothingLeftBehind
    <2> SUFFICES ASSUME IInv, OrderInv, rpc = "exited"
                 PROVE  Len(delivered) = taken
      BY DEF NothingLeftBehind
    <2>1. meta.count = 0 /\ gpc \in {"signalDone", "exited"}
      BY DEF OrderInv, EndInv
    <2>2. Unpublished = 0
      BY <2>1 DEF Unpublished, Filling
    <2> QED BY <2>1, <2>2, Types DEF OrderInv, SinkInv, SinkEnd
  <1> QED BY <1>1, <1>2, <1>3, PTL DEF PipelineSpec

-----------------------------------------------------------------------------
(* Where the threads can be, and the flags they share.                     *)
LoopPcs == {"loop", "writing", "exitCheck"}
StopPcs == {"stop", "getpgid", "kill", "reap"}
JoinPcs == {"quit", "joinReader", "joinWatcher", "exited"}

TypeInv ==
    /\ app \in {"running", "joining", "joined"}
    /\ stop \in BOOLEAN /\ pid \in BOOLEAN /\ quitByte \in BOOLEAN
    /\ wpc \in LoopPcs \cup StopPcs \cup JoinPcs
    /\ target \in {NoneYet, "child", "stranger"}
    /\ reader \in {"running", "done"}
    /\ watcher \in {"waiting", "store", "notify", "done"}
    /\ exited \in BOOLEAN
    /\ child \in {"forked", "running", "zombie", "reaped"}
    /\ hup \in BOOLEAN /\ inputRoom \in BOOLEAN
    /\ helper \in {NoneYet, "group", "other", "gone"}
    /\ stranger \in {NoneYet, "alive", "signalled"}
    /\ habits \subseteq Misbehaviour

(* What the watcher knows: it leaves its waitpid only when the child is    *)
(* reaped, sets the flag after that, and reports once, at its end.         *)
WatchInv ==
    /\ watcher # "waiting" => child = "reaped"
    /\ exited => watcher \in {"notify", "done"}
    /\ watcher # "done" => events = <<>>
    /\ watcher = "done" => Len(events) = 1

(* What io-writer knows: the pid is forgotten before Stop only for a child *)
(* that is reaped, and Stop leads to the quit pipe only past the reaping,  *)
(* unless it had to give the child up.                                     *)
GivenUp == "stuck" \in habits \/ ("changesUid" \in habits /\ ~Macos)

StopInv ==
    /\ wpc \in LoopPcs => pid
    /\ wpc = "stop" /\ ~pid => child = "reaped"
    /\ wpc \in JoinPcs => child = "reaped" \/ GivenUp

(* Who has been joined when io-writer, and then the app, go on.            *)
JoinInv ==
    /\ quitByte => wpc \in {"joinReader", "joinWatcher", "exited"}
    /\ wpc \in {"joinWatcher", "exited"} => reader = "done"
    /\ wpc = "exited" => watcher = "done"
    /\ app = "joined" => wpc = "exited"

(* The inductive invariant.                                                *)
LifeInv == TypeInv /\ WatchInv /\ StopInv /\ JoinInv

-----------------------------------------------------------------------------
(* The initial states satisfy the invariant.                               *)
LEMMA InitLifeInv == LifeInit => LifeInv
  BY DEF LifeInit, LifeInv, TypeInv, WatchInv, StopInv, JoinInv, NoneYet,
         LoopPcs, StopPcs, JoinPcs, GivenUp

(* What the processes do: they never bring a reaped child back, and touch  *)
(* neither the threads nor their flags.                                    *)
LEMMA ProcessesLife == LifeInv /\ Processes => LifeInv'
  <1> SUFFICES ASSUME LifeInv, Processes PROVE LifeInv'
    OBVIOUS
  <1> USE DEF ioVars, watchVars
  <1>1. UNCHANGED <<app, ioVars, reader, watchVars, habits>>
    BY DEF Processes, Setsid, ChildExits, ChildHangsUp, ChildStartsHelper,
           HelperExits, InputRead, ReusePid
  <1>2. child = "reaped" => child' = "reaped"
    BY DEF Processes, Setsid, ChildExits, ChildHangsUp, ChildStartsHelper,
           HelperExits, InputRead, ReusePid, ChildAlive
  <1>3. /\ child' \in {"forked", "running", "zombie", "reaped"}
        /\ hup' \in BOOLEAN /\ inputRoom' \in BOOLEAN
        /\ helper' \in {NoneYet, "group", "other", "gone"}
        /\ stranger' \in {NoneYet, "alive", "signalled"}
    <2> USE DEF LifeInv, TypeInv
    <2>1. CASE Setsid
      BY <2>1 DEF Setsid
    <2>2. CASE ChildExits
      BY <2>2 DEF ChildExits
    <2>3. CASE ChildHangsUp
      BY <2>3 DEF ChildHangsUp
    <2>4. CASE ChildStartsHelper
      BY <2>4 DEF ChildStartsHelper
    <2>5. CASE HelperExits
      BY <2>5 DEF HelperExits
    <2>6. CASE InputRead
      BY <2>6 DEF InputRead
    <2>7. CASE ReusePid
      BY <2>7 DEF ReusePid
    <2> QED BY <2>1, <2>2, <2>3, <2>4, <2>5, <2>6, <2>7 DEF Processes
  <1>4. TypeInv'
    BY <1>1, <1>3 DEF LifeInv, TypeInv
  <1>5. WatchInv' /\ StopInv' /\ JoinInv'
    BY <1>1, <1>2 DEF LifeInv, WatchInv, StopInv, JoinInv, GivenUp
  <1> QED BY <1>4, <1>5 DEF LifeInv

(* io-writer: the loop and, of thread_exit, everything up to the reaping.  *)
LEMMA WriterLife == LifeInv /\ (StartWrite \/ Writer) => LifeInv'
  <1> SUFFICES ASSUME LifeInv, StartWrite \/ Writer PROVE LifeInv'
    OBVIOUS
  <1> USE DEF LifeInv, TypeInv, WatchInv, StopInv, JoinInv, WriterGoto, procVars,
              watchVars, LoopPcs, StopPcs, JoinPcs, GivenUp
  <1>1. CASE StartWrite
    BY <1>1 DEF StartWrite
  <1>2. CASE Write
    <2>1. inputRoom' \in BOOLEAN
      BY <1>2, Zenon DEF Write
    <2>2. wpc = "writing" /\ wpc' = "loop"
      BY <1>2 DEF Write
    <2>3. UNCHANGED <<app, stop, pid, target, quitByte, reader, watchVars, child,
                      hup, helper, stranger, habits>>
      BY <1>2 DEF Write
    <2> QED BY <2>1, <2>2, <2>3
  <1>3. CASE LoopEnds
    BY <1>3 DEF LoopEnds
  <1>4. CASE ExitCheck
    <2>1. pid' \in BOOLEAN /\ (~pid' => exited)
      BY <1>4 DEF ExitCheck
    <2>2. wpc' = "stop" /\ wpc = "exitCheck"
      BY <1>4 DEF ExitCheck
    <2>3. UNCHANGED <<app, stop, target, quitByte, reader, watchVars, procVars>>
      BY <1>4 DEF ExitCheck
    <2> QED BY <2>1, <2>2, <2>3
  <1>5. CASE Stop
    <2>1. wpc = "stop" /\ ~pid' /\ pid' \in BOOLEAN
      BY <1>5 DEF Stop
    <2>2. wpc' = IF pid THEN "getpgid" ELSE "quit"
      BY <1>5 DEF Stop
    <2>3. UNCHANGED <<app, stop, target, quitByte, reader, watchVars, procVars>>
      BY <1>5 DEF Stop
    <2>4. CASE pid
      <3>1. wpc' = "getpgid"
        BY <2>2, <2>4
      <3> QED BY <2>1, <2>3, <3>1
    <2>5. CASE ~pid
      <3>1. wpc' = "quit"
        BY <2>2, <2>5
      <3>2. child = "reaped"
        BY <2>1, <2>5
      <3> QED BY <2>1, <2>3, <3>1, <3>2
    <2> QED BY <2>4, <2>5
  <1>6. CASE FindGroup
    BY <1>6 DEF FindGroup
  <1>7. CASE GiveUpGroup
    BY <1>7 DEF GiveUpGroup
  <1>8. CASE KillGroup
    <2>1. /\ wpc = "kill" /\ wpc' \in {"reap", "quit"}
          /\ wpc' = "quit" => child = "reaped" \/ GivenUp
      BY <1>8 DEF KillGroup, GroupExists
    <2>2. UNCHANGED <<app, stop, pid, target, quitByte, reader, watchVars, child,
                      inputRoom, habits>>
      BY <1>8 DEF KillGroup
    <2>3. /\ hup' \in BOOLEAN /\ helper' \in {NoneYet, "group", "other", "gone"}
          /\ stranger' \in {NoneYet, "alive", "signalled"}
      <3>1. CASE GroupExists
        BY <1>8, <3>1 DEF KillGroup
      <3>2. CASE ~GroupExists
        BY <1>8, <3>2 DEF KillGroup
      <3> QED BY <3>1, <3>2
    <2> QED BY <2>1, <2>2, <2>3
  <1>9. CASE ReapNoHang
    BY <1>9 DEF ReapNoHang, ChildAlive
  <1>10. CASE WriteQuit
    BY <1>10 DEF WriteQuit
  <1>11. CASE JoinReader
    BY <1>11 DEF JoinReader
  <1>12. CASE JoinWatcher
    BY <1>12 DEF JoinWatcher
  <1> QED BY <1>1, <1>2, <1>3, <1>4, <1>5, <1>6, <1>7, <1>8, <1>9, <1>10,
             <1>11, <1>12 DEF Writer

(* The watcher, the end of the pipeline and the app.                       *)
LEMMA OthersLife == LifeInv /\ (Watcher \/ ReaderEnds \/ Shutdown \/ Joined) => LifeInv'
  <1> SUFFICES ASSUME LifeInv, Watcher \/ ReaderEnds \/ Shutdown \/ Joined
               PROVE  LifeInv'
    OBVIOUS
  <1> USE DEF LifeInv, TypeInv, WatchInv, StopInv, JoinInv, ioVars, procVars,
              watchVars, LoopPcs, StopPcs, JoinPcs, GivenUp
  <1>1. CASE WatcherWait
    BY <1>1 DEF WatcherWait
  <1>2. CASE WatcherStore
    BY <1>2 DEF WatcherStore
  <1>3. CASE WatcherNotify
    <2>1. events = <<>> /\ events' = Append(events, wstatus)
      BY <1>3 DEF WatcherNotify
    <2>2. Len(events') = 1
      BY <2>1
    <2> QED BY <1>3, <2>2 DEF WatcherNotify
  <1>4. CASE ReaderEnds
    BY <1>4 DEF ReaderEnds
  <1>5. CASE Shutdown
    BY <1>5 DEF Shutdown
  <1>6. CASE Joined
    BY <1>6 DEF Joined
  <1> QED BY <1>1, <1>2, <1>3, <1>4, <1>5, <1>6 DEF Watcher

(* Every step keeps the invariant.                                         *)
LEMMA NextLifeInv == LifeInv /\ [LifeNext]_lifeVars => LifeInv'
  <1> SUFFICES ASSUME LifeInv, [LifeNext]_lifeVars PROVE LifeInv'
    OBVIOUS
  <1>1. CASE UNCHANGED lifeVars
    BY <1>1 DEF lifeVars, LifeInv, TypeInv, WatchInv, StopInv, JoinInv, GivenUp
  <1>2. CASE LifeNext
    BY <1>2, ProcessesLife, WriterLife, OthersLife DEF LifeNext
  <1> QED BY <1>1, <1>2

LEMMA SpecLifeInv == LifeSpec => []LifeInv
  BY InitLifeInv, NextLifeInv, PTL DEF LifeSpec

-----------------------------------------------------------------------------
(* thread_exit stops the child before it writes to the quit pipe: when the *)
(* read pipeline is told to quit, nobody is left who could write to the    *)
(* pty and then wait for it to be read, unless the child never got to its  *)
(* setsid or, elsewhere than on macOS, killpg was refused.                 *)
THEOREM ChildStoppedFirst == LifeSpec => []ChildGoneBeforeQuit
  <1>1. LifeInv => ChildGoneBeforeQuit
    BY DEF LifeInv, StopInv, JoinInv, JoinPcs, ChildGoneBeforeQuit, GivenUp
  <1> QED BY <1>1, SpecLifeInv, PTL

(* A shutdown that returns has joined the pipeline and the watcher; the    *)
(* child is reaped and its exit was reported exactly once.                 *)
THEOREM NothingLeft == LifeSpec => []NothingLeftRunning
  <1>1. LifeInv => NothingLeftRunning
    BY DEF LifeInv, WatchInv, JoinInv, NothingLeftRunning
  <1> QED BY <1>1, SpecLifeInv, PTL

-----------------------------------------------------------------------------
(* The writer loop: WriterThread.                                          *)

Deadline == Nat \cup {Unset}

HubTypes ==
    /\ inbox \in Seq(Message) /\ batch \in Seq(Message) /\ posted \in Seq(Message)
    /\ pc \in {"check", "wait", "woken", "drain", "dispatch", "timers", "stopped"}
    /\ resizeLeft \in Deadline /\ syncLeft \in Deadline
    /\ pendingResize \in Sizes \cup {Unset}
    /\ lastResize \in Sizes /\ winsize \in Sizes
    /\ linefeed \in BOOLEAN
    /\ sinceResize \in 0 .. ResizeTicks /\ sinceStart \in 0 .. SyncTicks
    /\ ptyInput \in Seq([n : Nat, lf : BOOLEAN])

(* A timer that is on has not run longer than the history says.            *)
ClockInv ==
    /\ resizeLeft # Unset => sinceResize + resizeLeft >= ResizeTicks
    /\ syncLeft # Unset => sinceStart + syncLeft >= SyncTicks

(* What was posted is what is done, then the batch, then the inbox.        *)
Done == Len(posted) - (Len(batch) + Len(inbox))

QueueInv ==
    /\ Done >= 0
    /\ \A i \in 1 .. Len(batch) : batch[i] = posted[Done + i]
    /\ \A i \in 1 .. Len(inbox) : inbox[i] = posted[Done + Len(batch) + i]
    /\ pc # "dispatch" => batch = <<>>
    /\ \A i \in 1 .. Len(posted) : posted[i].type = "write" => posted[i].value = i

(* What is done set the mode, and what was written is done.                *)
WriteInv ==
    /\ linefeed = PostedLinefeed(Done)
    /\ \A i \in 1 .. Len(ptyInput) :
         /\ ptyInput[i].n \in 1 .. Done
         /\ ptyInput[i].lf = PostedLinefeed(ptyInput[i].n)
         /\ i > 1 => ptyInput[i - 1].n < ptyInput[i].n

HubInv == HubTypes /\ NewestSizeKept /\ ClockInv /\ QueueInv /\ WriteInv

-----------------------------------------------------------------------------
(* What a message carries.                                                 *)
LEMMA MessageValues ==
    ASSUME NEW m \in Message
    PROVE  /\ m.type = "write" => m.value \in Nat
           /\ m.type = "resize" => m.value \in Sizes
           /\ m.type = "linefeed" => m.value \in BOOLEAN
  BY PostAssumption DEF Message

LEMMA HeadOfBatch ==
    ASSUME HubTypes, NEW t, Has(t)
    PROVE  /\ Head(batch) \in Message /\ Head(batch).type = t
           /\ Head(batch) = batch[1] /\ Len(batch) > 0
  BY DEF HubTypes, Has

LEMMA TailOfBatch ==
    ASSUME HubTypes, pc = "dispatch", Dispatched
    PROVE  pc' \in {"dispatch", "timers"} /\ batch' \in Seq(Message)
  <1>1. CASE batch = <<>>
    BY <1>1 DEF HubTypes, Dispatched
  <1>2. CASE batch # <<>>
    <2>1. Tail(batch) \in Seq(Message)
      BY <1>2 DEF HubTypes
    <2> QED BY <1>2, <2>1 DEF Dispatched
  <1> QED BY <1>1, <1>2

(* The toggles up to n are those that were there before a post, and one    *)
(* message more decides the mode only if it is a toggle.                   *)
LEMMA LinefeedStable ==
    ASSUME posted \in Seq(Message), NEW m \in Message, posted' = Append(posted, m),
           NEW n \in 0 .. Len(posted)
    PROVE  PostedLinefeed(n)' = PostedLinefeed(n)
  <1>1. \A i \in 1 .. n : posted'[i] = posted[i]
    OBVIOUS
  <1> QED BY <1>1, Zenon DEF PostedLinefeed

LEMMA LinefeedStep ==
    ASSUME posted \in Seq(Message), NEW n \in Nat, n + 1 <= Len(posted)
    PROVE  PostedLinefeed(n + 1)
             = IF posted[n + 1].type = "linefeed" THEN posted[n + 1].value
                                                  ELSE PostedLinefeed(n)
  <1>1. posted[n + 1] \in Message
    OBVIOUS
  <1>2. 1 .. n + 1 = (1 .. n) \cup {n + 1}
    OBVIOUS
  <1>3. CASE posted[n + 1].type # "linefeed"
    <2>1. {i \in 1 .. n + 1 : posted[i].type = "linefeed"}
            = {i \in 1 .. n : posted[i].type = "linefeed"}
      BY <1>2, <1>3
    <2> QED BY <1>3, <2>1, Zenon DEF PostedLinefeed
  <1>4. CASE posted[n + 1].type = "linefeed"
    <2>1. posted[n + 1].value \in BOOLEAN
      BY <1>1, <1>4, MessageValues
    <2> DEFINE toggles == {i \in 1 .. n + 1 : posted[i].type = "linefeed"}
    <2>2. n + 1 \in toggles /\ \A j \in toggles : j <= n + 1
      BY <1>4
    <2>3. \A i \in toggles : (\A j \in toggles : j <= i) <=> i = n + 1
      BY <2>2
    <2>4. PostedLinefeed(n + 1) <=> posted[n + 1].value
      <3>1. PostedLinefeed(n + 1)
              <=> \E i \in toggles : posted[i].value /\ \A j \in toggles : j <= i
        BY Zenon DEF PostedLinefeed
      <3> QED BY <2>2, <2>3, <3>1, Zenon
    <2>5. PostedLinefeed(n + 1) \in BOOLEAN
      BY Zenon DEF PostedLinefeed
    <2> QED BY <1>4, <2>1, <2>4, <2>5, Zenon
  <1> QED BY <1>3, <1>4

LEMMA LinefeedBoolean == \A n : PostedLinefeed(n) \in BOOLEAN
  BY Zenon DEF PostedLinefeed

-----------------------------------------------------------------------------
(* The initial states satisfy the invariant.                               *)
LEMMA InitHubInv == HubInit => HubInv
  <1> SUFFICES ASSUME HubInit PROVE HubInv
    OBVIOUS
  <1>1. /\ inbox = <<>> /\ posted = <<>> /\ batch = <<>> /\ ptyInput = <<>>
        /\ pc = "check" /\ resizeLeft = Unset /\ syncLeft = Unset
        /\ pendingResize = Unset /\ winsize \in Sizes /\ lastResize = winsize
        /\ sinceResize = ResizeTicks /\ sinceStart = SyncTicks
    BY DEF HubInit
  <1>2. linefeed \in BOOLEAN /\ ~linefeed
    BY DEF HubInit
  <1>3. HubTypes
    <2>1. /\ inbox \in Seq(Message) /\ batch \in Seq(Message)
          /\ posted \in Seq(Message) /\ ptyInput \in Seq([n : Nat, lf : BOOLEAN])
      BY <1>1
    <2> QED BY <1>1, <1>2, <2>1, TimerAssumption DEF HubTypes, Deadline
  <1>4. NewestSizeKept /\ ClockInv
    BY <1>1 DEF NewestSizeKept, ClockInv
  <1>5. Len(batch) = 0 /\ Len(inbox) = 0 /\ Len(posted) = 0 /\ Len(ptyInput) = 0
    BY <1>1
  <1>6. Done = 0
    BY <1>5 DEF Done
  <1>7. QueueInv
    BY <1>1, <1>5, <1>6 DEF QueueInv
  <1>8. PostedLinefeed(Done) \in BOOLEAN /\ ~PostedLinefeed(Done)
    BY <1>6, LinefeedBoolean DEF PostedLinefeed
  <1>9. WriteInv
    <2>1. linefeed = PostedLinefeed(Done)
      BY <1>2, <1>8, Zenon
    <2> QED BY <1>5, <2>1 DEF WriteInv
  <1> QED BY <1>3, <1>4, <1>7, <1>9 DEF HubInv

-----------------------------------------------------------------------------
(* Types.                                                                  *)

LEMMA EnqueueTypes ==
    ASSUME HubTypes, NEW m \in Message, Enqueue(m)
    PROVE  inbox' \in Seq(Message) /\ posted' \in Seq(Message)
  BY DEF HubTypes, Enqueue

LEMMA NextTypes == HubInv /\ [HubNext]_hubVars => HubTypes'
  <1> SUFFICES ASSUME HubInv, [HubNext]_hubVars PROVE HubTypes'
    OBVIOUS
  <1>0. HubTypes
    BY DEF HubInv
  <1> USE <1>0, TimerAssumption, WindowAssumption
  <1> USE DEF HubTypes, Deadline, inboxVars, timerVars, stateVars, worldVars, historyVars
  <1>1. CASE Post
    <2>1. inbox' \in Seq(Message) /\ posted' \in Seq(Message)
      BY <1>1, EnqueueTypes DEF Post
    <2> QED BY <1>1, <2>1 DEF Post
  <1>2. CASE BeginSync
    BY <1>2 DEF BeginSync
  <1>3. CASE EndSync \/ SetPtyMode \/ SetStop
    BY <1>3 DEF EndSync, SetPtyMode, SetStop
  <1>4. CASE Tick
    BY <1>4 DEF Tick, Elapse, Count, Unset
  <1>5. CASE CheckStop \/ Wake
    BY <1>5 DEF CheckStop, Wake
  <1>6. CASE Drain
    BY <1>6 DEF Drain
  <1>7. CASE Dispatch
    <2>1. pc' \in {"dispatch", "timers"} /\ batch' \in Seq(Message)
      BY <1>7, TailOfBatch DEF Dispatch
    <2>2. UNCHANGED inboxVars
      BY <1>7 DEF Dispatch
    <2>3. CASE DispatchWrite
      <3>1. Head(batch).value \in Nat
        BY <2>3, HeadOfBatch, MessageValues DEF DispatchWrite
      <3>2. [n |-> Head(batch).value, lf |-> linefeed] \in [n : Nat, lf : BOOLEAN]
        BY <3>1
      <3>3. ptyInput' \in Seq([n : Nat, lf : BOOLEAN])
        BY <2>3, <3>2 DEF DispatchWrite
      <3> QED BY <2>1, <2>2, <2>3, <3>3 DEF DispatchWrite
    <2>4. CASE DispatchResize
      <3>1. Head(batch).value \in Sizes
        BY <2>4, HeadOfBatch, MessageValues DEF DispatchResize
      <3> QED BY <2>1, <2>2, <2>4, <3>1 DEF DispatchResize
    <2>5. CASE DispatchLinefeed
      <3>1. Head(batch).value \in BOOLEAN
        BY <2>5, HeadOfBatch, MessageValues DEF DispatchLinefeed
      <3>2. linefeed' \in BOOLEAN
        BY <2>5, <3>1 DEF DispatchLinefeed
      <3> QED BY <2>1, <2>2, <2>5, <3>2 DEF DispatchLinefeed
    <2>6. CASE DispatchFocused \/ DispatchOther
      BY <2>1, <2>2, <2>6 DEF DispatchFocused, DispatchOther
    <2>7. CASE DispatchSync
      BY <2>1, <2>2, <2>7 DEF DispatchSync
    <2> QED BY <1>7, <2>3, <2>4, <2>5, <2>6, <2>7 DEF Dispatch
  <1>8. CASE FireTimers
    <2>1. /\ resizeLeft' \in Deadline /\ pendingResize' \in Sizes \cup {Unset}
          /\ winsize' \in Sizes /\ sinceResize' \in 0 .. ResizeTicks
      BY <1>8 DEF FireTimers, FireResize
    <2>2. syncLeft' \in Deadline
      BY <1>8 DEF FireTimers, FireSync
    <2> QED BY <1>8, <2>1, <2>2 DEF FireTimers
  <1>9. CASE UNCHANGED hubVars
    BY <1>9 DEF hubVars
  <1> QED BY <1>1, <1>2, <1>3, <1>4, <1>5, <1>6, <1>7, <1>8, <1>9
          DEF HubNext, Loop, HubEnvironment

-----------------------------------------------------------------------------
(* The size to apply and the two clocks.                                   *)

LEMMA NextSizes == HubInv /\ [HubNext]_hubVars => NewestSizeKept' /\ ClockInv'
  <1> SUFFICES ASSUME HubInv, [HubNext]_hubVars PROVE NewestSizeKept' /\ ClockInv'
    OBVIOUS
  <1>0. HubTypes /\ NewestSizeKept /\ ClockInv
    BY DEF HubInv
  <1> USE <1>0, TimerAssumption, WindowAssumption
      DEF HubTypes, Deadline, Unset, NewestSizeKept, ClockInv
  <1>1. CASE UNCHANGED <<resizeLeft, syncLeft, pendingResize, winsize, lastResize,
                         sinceResize, sinceStart>>
    BY <1>1
  <1>2. CASE HubEnvironment \/ CheckStop \/ Wake \/ Drain \/ UNCHANGED hubVars
    BY <1>1, <1>2 DEF HubEnvironment, Post, BeginSync, EndSync, SetPtyMode, SetStop,
       CheckStop, Wake, Drain, timerVars, worldVars, historyVars, hubVars
  <1>3. CASE Tick
    BY <1>3 DEF Tick, Elapse, Count, worldVars
  <1>4. CASE Dispatch
    <2>1. CASE DispatchResize
      <3>1. Head(batch).value \in Sizes
        BY <2>1, HeadOfBatch, MessageValues DEF DispatchResize
      <3> QED BY <2>1, <3>1 DEF DispatchResize, worldVars
    <2>2. CASE DispatchSync
      BY <2>2 DEF DispatchSync, worldVars
    <2>3. CASE DispatchWrite \/ DispatchLinefeed \/ DispatchFocused \/ DispatchOther
      BY <1>1, <2>3 DEF DispatchWrite, DispatchLinefeed, DispatchFocused,
         DispatchOther, timerVars, worldVars, historyVars
    <2> QED BY <1>4, <2>1, <2>2, <2>3 DEF Dispatch
  <1>5. CASE FireTimers
    <2>1. NewestSizeKept'
      BY <1>5 DEF FireTimers, FireResize
    <2>2. (resizeLeft # Unset => sinceResize + resizeLeft >= ResizeTicks)'
      BY <1>5 DEF FireTimers, FireResize
    <2>3. (syncLeft # Unset => sinceStart + syncLeft >= SyncTicks)'
      BY <1>5 DEF FireTimers, FireSync
    <2> QED BY <2>1, <2>2, <2>3
  <1> QED BY <1>2, <1>3, <1>4, <1>5 DEF HubNext, Loop

-----------------------------------------------------------------------------
(* The queue and what was written from it.                                 *)

LEMMA SameQueue ==
    ASSUME QueueInv, UNCHANGED <<inbox, batch, posted>>, pc' # "dispatch" => batch = <<>>
    PROVE  QueueInv' /\ Done' = Done
  BY DEF QueueInv, Done

LEMMA SameWrites ==
    ASSUME WriteInv, UNCHANGED <<inbox, batch, posted, linefeed, ptyInput>>
    PROVE  WriteInv'
  BY DEF WriteInv, Done, PostedLinefeed

LEMMA EnqueueKeeps ==
    ASSUME HubTypes, QueueInv, WriteInv, NEW m \in Message, Enqueue(m),
           m.type = "write" => m.value = Len(posted) + 1,
           UNCHANGED <<pc, batch, linefeed, ptyInput>>
    PROVE  QueueInv' /\ WriteInv'
  <1>1. /\ posted' = Append(posted, m) /\ inbox' = Append(inbox, m)
        /\ posted \in Seq(Message) /\ inbox \in Seq(Message) /\ batch \in Seq(Message)
    BY DEF Enqueue, HubTypes
  <1>2. /\ Len(posted') = Len(posted) + 1 /\ Len(inbox') = Len(inbox) + 1
        /\ \A i \in 1 .. Len(posted) : posted'[i] = posted[i]
        /\ \A i \in 1 .. Len(inbox) : inbox'[i] = inbox[i]
        /\ posted'[Len(posted) + 1] = m /\ inbox'[Len(inbox) + 1] = m
        /\ Len(posted) \in Nat /\ Len(inbox) \in Nat /\ Len(batch) \in Nat
    BY <1>1
  <1>3. Done' = Done /\ Done \in 0 .. Len(posted)
    BY <1>2 DEF Done, QueueInv
  <1>4. QueueInv'
    <2>0. /\ \A i \in 1 .. Len(batch) : Done + i \in 1 .. Len(posted)
          /\ \A i \in 1 .. Len(inbox) : Done + Len(batch) + i \in 1 .. Len(posted)
      BY <1>2, <1>3 DEF Done
    <2>1. \A i \in 1 .. Len(batch') : batch'[i] = posted'[Done' + i]
      BY <1>2, <1>3, <2>0 DEF QueueInv
    <2>2. \A i \in 1 .. Len(inbox') : inbox'[i] = posted'[Done' + Len(batch') + i]
      <3> SUFFICES ASSUME NEW i \in 1 .. Len(inbox) + 1
                   PROVE  inbox'[i] = posted'[Done + Len(batch) + i]
        BY <1>2, <1>3
      <3>1. CASE i \in 1 .. Len(inbox)
        BY <1>2, <2>0, <3>1 DEF QueueInv
      <3>2. CASE i = Len(inbox) + 1
        <4>1. Done + Len(batch) + i = Len(posted) + 1
          BY <1>2, <3>2 DEF Done
        <4> QED BY <1>2, <3>2, <4>1
      <3> QED BY <1>2, <3>1, <3>2
    <2>3. \A i \in 1 .. Len(posted') : posted'[i].type = "write" => posted'[i].value = i
      BY <1>2 DEF QueueInv
    <2> QED BY <1>3, <2>1, <2>2, <2>3 DEF QueueInv
  <1>5. \A n \in 0 .. Len(posted) : PostedLinefeed(n)' = PostedLinefeed(n)
    BY <1>1, LinefeedStable
  <1>6. WriteInv'
    <2>1. linefeed' = PostedLinefeed(Done)'
      <3>1. PostedLinefeed(Done)' = PostedLinefeed(Done)
        BY <1>3, <1>5
      <3> QED BY <3>1 DEF WriteInv
    <2>2. ASSUME NEW i \in 1 .. Len(ptyInput)
          PROVE  /\ ptyInput[i].n \in 1 .. Done
                 /\ ptyInput[i].lf = PostedLinefeed(ptyInput[i].n)'
                 /\ i > 1 => ptyInput[i - 1].n < ptyInput[i].n
      <3>1. ptyInput[i].n \in 1 .. Done
        BY DEF WriteInv
      <3>2. ptyInput[i].n \in 0 .. Len(posted)
        BY <1>3, <3>1
      <3> QED BY <1>5, <3>1, <3>2 DEF WriteInv
    <2> QED BY <1>3, <2>1, <2>2 DEF WriteInv
  <1> QED BY <1>4, <1>6

(* A drain moves the inbox to the batch.                                   *)
LEMMA DrainKeeps ==
    ASSUME HubTypes, QueueInv, WriteInv, Drain
    PROVE  QueueInv' /\ WriteInv'
  <1>1. /\ batch = <<>> /\ batch' = inbox /\ inbox' = <<>> /\ posted' = posted
        /\ pc' = "dispatch" /\ linefeed' = linefeed /\ ptyInput' = ptyInput
    BY DEF Drain, QueueInv, stateVars, worldVars
  <1>2. /\ Len(batch) = 0 /\ Len(inbox') = 0 /\ Len(batch') = Len(inbox)
        /\ Len(inbox) \in Nat /\ Len(posted) \in Nat
    BY <1>1 DEF HubTypes
  <1>3. Done' = Done
    BY <1>1, <1>2 DEF Done
  <1>4. Done \in Nat
    BY <1>2 DEF Done, QueueInv
  <1>5. QueueInv'
    BY <1>1, <1>2, <1>3, <1>4 DEF QueueInv
  <1>6. WriteInv'
    BY <1>1, <1>3 DEF WriteInv, PostedLinefeed
  <1> QED BY <1>5, <1>6

(* A dispatched message is done.                                           *)
LEMMA HeadDone ==
    ASSUME HubTypes, QueueInv, batch # <<>>, batch' = Tail(batch),
           UNCHANGED <<inbox, posted, pc>>
    PROVE  /\ QueueInv' /\ Done' = Done + 1
           /\ Done \in Nat /\ Done + 1 <= Len(posted)
           /\ Head(batch) = posted[Done + 1]
  <1>1. /\ batch \in Seq(Message) /\ Len(batch) \in Nat \ {0}
        /\ Len(batch') = Len(batch) - 1 /\ Head(batch) = batch[1]
        /\ \A i \in 1 .. Len(batch') : batch'[i] = batch[i + 1]
    BY DEF HubTypes
  <1>2. Len(inbox) \in Nat /\ Len(posted) \in Nat
    BY DEF HubTypes
  <1>3. Done' = Done + 1 /\ Done \in Nat /\ Done + 1 <= Len(posted)
    BY <1>1, <1>2 DEF Done, QueueInv
  <1>4. Head(batch) = posted[Done + 1]
    BY <1>1 DEF QueueInv
  <1>5. QueueInv'
    <2>1. \A i \in 1 .. Len(batch') : batch'[i] = posted'[Done' + i]
      <3> SUFFICES ASSUME NEW i \in 1 .. Len(batch') PROVE batch'[i] = posted[Done + 1 + i]
        BY <1>3
      <3>1. i + 1 \in 1 .. Len(batch) /\ batch'[i] = batch[i + 1]
        BY <1>1
      <3>2. batch[i + 1] = posted[Done + (i + 1)]
        BY <3>1 DEF QueueInv
      <3> QED BY <1>1, <1>3, <3>1, <3>2
    <2>2. \A i \in 1 .. Len(inbox') : inbox'[i] = posted'[Done' + Len(batch') + i]
      <3> SUFFICES ASSUME NEW i \in 1 .. Len(inbox)
                   PROVE  inbox[i] = posted[Done' + Len(batch') + i]
        OBVIOUS
      <3>1. Done' + Len(batch') + i = Done + Len(batch) + i
        BY <1>1, <1>3
      <3> QED BY <3>1 DEF QueueInv
    <2>3. pc' # "dispatch" => batch' = <<>>
      BY DEF QueueInv
    <2> QED BY <1>3, <2>1, <2>2, <2>3 DEF QueueInv
  <1> QED BY <1>3, <1>4, <1>5

LEMMA DispatchKeeps ==
    ASSUME HubTypes, QueueInv, WriteInv, Dispatch
    PROVE  QueueInv' /\ WriteInv'
  <1> USE DEF timerVars, stateVars, worldVars, historyVars, inboxVars
  <1>1. pc = "dispatch" /\ UNCHANGED <<inbox, posted>> /\ Dispatched
    BY DEF Dispatch
  <1>2. CASE batch = <<>>
    <2>1. batch' = batch /\ UNCHANGED <<linefeed, ptyInput>>
      BY <1>1, <1>2 DEF Dispatch, Dispatched, Has, DispatchWrite, DispatchResize,
         DispatchLinefeed, DispatchFocused, DispatchSync, DispatchOther
    <2> QED BY <1>1, <1>2, <2>1, SameQueue, SameWrites
  <1>3. CASE batch # <<>>
    <2>0. batch' = Tail(batch) /\ UNCHANGED pc
      BY <1>1, <1>3 DEF Dispatched
    <2>1. /\ QueueInv' /\ Done' = Done + 1
          /\ Done \in Nat /\ Done + 1 <= Len(posted)
          /\ Head(batch) = posted[Done + 1]
      BY <1>1, <1>3, <2>0, HeadDone
    <2>2. posted \in Seq(Message) /\ posted[Done + 1] \in Message
      BY <2>1 DEF HubTypes
    <2> DEFINE m == Head(batch)
    <2>3. PostedLinefeed(Done + 1)
            = IF m.type = "linefeed" THEN m.value ELSE PostedLinefeed(Done)
      BY <2>1, <2>2, LinefeedStep
    <2>4. \A n : PostedLinefeed(n)' = PostedLinefeed(n)
      BY <1>1 DEF PostedLinefeed
    <2>5. linefeed' = PostedLinefeed(Done + 1)
      <3>1. CASE DispatchLinefeed
        <4>1. linefeed' = m.value /\ m.type = "linefeed"
          BY <3>1 DEF DispatchLinefeed, Has
        <4> QED BY <2>3, <4>1
      <3>2. CASE ~DispatchLinefeed
        <4>1. m.type # "linefeed" /\ linefeed' = linefeed
          BY <1>3, <3>2 DEF Dispatch, Has, DispatchWrite, DispatchResize,
             DispatchFocused, DispatchSync, DispatchOther
        <4> QED BY <2>3, <4>1 DEF WriteInv
      <3> QED BY <3>1, <3>2
    <2>6. CASE DispatchWrite
      <3>1. m.type = "write" /\ m.value = Done + 1
        BY <2>1, <2>6 DEF DispatchWrite, Has, QueueInv
      <3> DEFINE e == [n |-> Done + 1, lf |-> linefeed]
      <3>2. ptyInput' = Append(ptyInput, e)
        BY <2>6, <3>1 DEF DispatchWrite
      <3>3. /\ Len(ptyInput') = Len(ptyInput) + 1 /\ Len(ptyInput) \in Nat
            /\ \A i \in 1 .. Len(ptyInput) : ptyInput'[i] = ptyInput[i]
            /\ ptyInput'[Len(ptyInput) + 1] = e
        BY <3>2 DEF HubTypes
      <3>4. e.n = Done + 1 /\ e.lf = PostedLinefeed(Done + 1)
        <4>1. e.lf = linefeed /\ linefeed = PostedLinefeed(Done)
          BY DEF WriteInv
        <4> QED BY <2>3, <3>1, <4>1
      <3>5. ASSUME NEW i \in 1 .. Len(ptyInput')
            PROVE  /\ ptyInput'[i].n \in 1 .. Done + 1
                   /\ ptyInput'[i].lf = PostedLinefeed(ptyInput'[i].n)
                   /\ i > 1 => ptyInput'[i - 1].n < ptyInput'[i].n
        <4>1. CASE i \in 1 .. Len(ptyInput)
          <5>1. ptyInput'[i] = ptyInput[i]
            BY <3>3, <4>1
          <5>2. i > 1 => ptyInput'[i - 1] = ptyInput[i - 1]
            BY <3>3, <4>1
          <5> QED BY <2>1, <4>1, <5>1, <5>2 DEF WriteInv
        <4>2. CASE i = Len(ptyInput) + 1
          <5>1. ptyInput'[i] = e
            BY <3>3, <4>2
          <5>2. i > 1 => ptyInput'[i - 1].n \in 1 .. Done
            BY <3>3, <4>2 DEF WriteInv
          <5> QED BY <2>1, <3>4, <5>1, <5>2
        <4> QED BY <3>3, <4>1, <4>2
      <3>6. WriteInv'
        BY <2>1, <2>4, <2>5, <3>5 DEF WriteInv
      <3> QED BY <2>1, <3>6
    <2>7. CASE ~DispatchWrite
      <3>1. ptyInput' = ptyInput
        BY <2>7 DEF Dispatch, DispatchLinefeed, DispatchResize, DispatchFocused,
           DispatchSync, DispatchOther
      <3>2. WriteInv'
        BY <2>1, <2>4, <2>5, <3>1 DEF WriteInv
      <3> QED BY <2>1, <3>2
    <2> QED BY <2>6, <2>7
  <1> QED BY <1>2, <1>3

LEMMA NextWrites == HubInv /\ [HubNext]_hubVars => QueueInv' /\ WriteInv'
  <1> SUFFICES ASSUME HubInv, [HubNext]_hubVars PROVE QueueInv' /\ WriteInv'
    OBVIOUS
  <1>0. HubTypes /\ QueueInv /\ WriteInv
    BY DEF HubInv
  <1> USE <1>0 DEF inboxVars, timerVars, stateVars, worldVars, historyVars
  <1>1. CASE Post
    <2>1. UNCHANGED <<pc, batch, linefeed, ptyInput>>
      BY <1>1 DEF Post
    <2> QED BY <1>1, <2>1, EnqueueKeeps DEF Post
  <1>3. CASE BeginSync \/ EndSync \/ SetPtyMode \/ SetStop \/ Tick \/ CheckStop \/ Wake
             \/ FireTimers \/ UNCHANGED hubVars
    <2>1. UNCHANGED <<inbox, batch, posted, linefeed, ptyInput>>
      BY <1>3 DEF BeginSync, EndSync, SetPtyMode, SetStop, Tick, CheckStop, Wake, FireTimers,
         FireResize, FireSync, hubVars
    <2>2. pc' # "dispatch" => batch = <<>>
      BY <1>3 DEF BeginSync, EndSync, SetPtyMode, SetStop, Tick, CheckStop, Wake, FireTimers,
         hubVars, QueueInv
    <2> QED BY <2>1, <2>2, SameQueue, SameWrites
  <1>4. CASE Drain
    BY <1>4, DrainKeeps
  <1>5. CASE Dispatch
    BY <1>5, DispatchKeeps
  <1> QED BY <1>1, <1>3, <1>4, <1>5 DEF HubNext, Loop, HubEnvironment

-----------------------------------------------------------------------------
LEMMA SpecHubInv == HubSpec => []HubInv
  <1>1. HubInv /\ [HubNext]_hubVars => HubInv'
    BY NextTypes, NextSizes, NextWrites DEF HubInv
  <1> QED BY <1>1, InitHubInv, PTL DEF HubSpec

(* Coalescing never drops the newest size: the pty has the size of the     *)
(* last Resize dispatched, or a timer runs that will give it that size.    *)
THEOREM NewestSizeReaches == HubSpec => []NewestSizeKept
  <1>1. HubInv => NewestSizeKept
    BY DEF HubInv
  <1> QED BY <1>1, SpecHubInv, PTL

(* Each write reaches the pty after the ones posted before it, and in the  *)
(* linefeed mode that was posted before it.                                *)
THEOREM WritesInOrder == HubSpec => []WritesAsPosted
  <1>1. HubInv => WritesAsPosted
    <2> SUFFICES ASSUME HubInv PROVE WritesAsPosted
      OBVIOUS
    <2>1. DOMAIN ptyInput = 1 .. Len(ptyInput)
      BY DEF HubInv, HubTypes
    <2> QED BY <2>1 DEF HubInv, WriteInv, WritesAsPosted
  <1> QED BY <1>1, SpecHubInv, PTL

(* The size changes at most once in a coalescing window, and mode 2026 is  *)
(* cleared by the timer only a full period after the last start.           *)
THEOREM NoTimerEarly == HubSpec => TimersNotEarly
  <1> DEFINE Fires ==
        /\ winsize' # winsize => sinceResize = ResizeTicks
        /\ syncLeft' # syncLeft /\ sync' # sync => sinceStart = SyncTicks
  <1>1. HubInv /\ [HubNext]_hubVars => [Fires]_hubVars
    <2> SUFFICES ASSUME HubInv, HubNext PROVE Fires
      OBVIOUS
    <2>0. HubTypes /\ ClockInv
      BY DEF HubInv
    <2> USE DEF timerVars, worldVars
    <2>1. CASE FireTimers
      <3>1. winsize' # winsize => resizeLeft = 0
        BY <2>1 DEF FireTimers, FireResize
      <3>2. syncLeft' # syncLeft => syncLeft = 0
        BY <2>1 DEF FireTimers, FireSync
      <3> QED BY <2>0, <3>1, <3>2, TimerAssumption DEF HubTypes, ClockInv, Unset
    <2>2. CASE Dispatch
      BY <2>2 DEF Dispatch, DispatchWrite, DispatchResize, DispatchLinefeed,
         DispatchFocused, DispatchSync, DispatchOther
    <2>3. CASE Tick \/ CheckStop \/ Wake \/ Drain
      BY <2>3 DEF Tick, CheckStop, Wake, Drain
    <2>4. CASE HubEnvironment
      BY <2>4 DEF HubEnvironment, Post, BeginSync, EndSync, SetPtyMode, SetStop
    <2> QED BY <2>1, <2>2, <2>3, <2>4 DEF HubNext, Loop
  <1> QED BY <1>1, SpecHubInv, PTL DEF TimersNotEarly, HubSpec

=============================================================================
