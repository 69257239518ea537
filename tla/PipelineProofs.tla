--------------------------- MODULE PipelineProofs ---------------------------
(***************************************************************************)
(* Proofs about FramePipeline for every number of frames, every tolerance  *)
(* of the reader and every purging rule; and, in the second part, about    *)
(* the same task on the pools of SharedPools: it behaves as FramePipeline  *)
(* whatever load the other tasks put on the pools, so the first part holds *)
(* there; its pointer is in a decode pool exactly for the frames it        *)
(* counts, and its messages reach the store in their order.                *)
(***************************************************************************)
EXTENDS SharedPools, TLAPS

(* What has passed the reader does so in the order of the numbers.         *)
Ordered ==
  /\ \A k \in 1..Len(storeQueue) : storeQueue[k] < readPackIndex
  /\ \A k, l \in 1..Len(storeQueue) : k < l => storeQueue[k] < storeQueue[l]
  /\ \A j \in sent : j < readPackIndex
  /\ \A j \in sent, k \in 1..Len(storeQueue) : j < storeQueue[k]

(* FrameConserved without its tuple.                                       *)
Partition ==
  /\ decoding \cup packMap_ \cup Queued \cup sent \cup dropped \cup purged
       = 0..(writePackIndex - 1)
  /\ decoding \cap (packMap_ \cup Queued \cup sent \cup dropped \cup purged) = {}
  /\ packMap_ \cap (Queued \cup sent \cup dropped \cup purged) = {}
  /\ Queued \cap (sent \cup dropped \cup purged) = {}
  /\ sent \cap (dropped \cup purged) = {}
  /\ dropped \cap purged = {}

Inv ==
  /\ TypeOK
  /\ Partition
  /\ Ordered
  /\ OvertakesOnlyOnTimeout

-----------------------------------------------------------------------------
(* Membership in the message queue, through its operations.                *)
LEMMA QueueMembers ==
  ASSUME NEW q \in Seq(Frames)
  PROVE  ToSet(q) = {q[k] : k \in 1..Len(q)}
BY DEF ToSet

LEMMA QueueAppend ==
  ASSUME NEW q \in Seq(Frames), NEW x \in Frames
  PROVE  /\ Append(q, x) \in Seq(Frames)
         /\ Len(Append(q, x)) = Len(q) + 1
         /\ \A k \in 1..Len(q) : Append(q, x)[k] = q[k]
         /\ Append(q, x)[Len(q) + 1] = x
         /\ ToSet(Append(q, x)) = ToSet(q) \cup {x}
<1>1. /\ Append(q, x) \in Seq(Frames)
      /\ Len(Append(q, x)) = Len(q) + 1
      /\ \A k \in 1..Len(q) : Append(q, x)[k] = q[k]
      /\ Append(q, x)[Len(q) + 1] = x
  OBVIOUS
<1>2. Len(q) \in Nat
  OBVIOUS
<1> DEFINE r == Append(q, x)
<1>3. ToSet(r) = {r[k] : k \in 1..(Len(q) + 1)}
  BY <1>1, QueueMembers
<1>4. ToSet(q) = {q[k] : k \in 1..Len(q)}
  BY QueueMembers
<1> HIDE DEF r
<1>5. ASSUME NEW k \in 1..(Len(q) + 1)
      PROVE  r[k] \in ToSet(q) \cup {x}
  BY <1>1, <1>2, <1>4 DEF r
<1>6. ASSUME NEW y \in ToSet(q) \cup {x}
      PROVE  \E k \in 1..(Len(q) + 1) : r[k] = y
  BY <1>1, <1>2, <1>4 DEF r
<1>7. ToSet(r) = ToSet(q) \cup {x}
  BY <1>3, <1>5, <1>6
<1> QED BY <1>1, <1>7 DEF r

LEMMA QueueTail ==
  ASSUME NEW q \in Seq(Frames), q # <<>>
  PROVE  /\ Tail(q) \in Seq(Frames)
         /\ Len(q) \in Nat \ {0}
         /\ Head(q) = q[1]
         /\ Len(Tail(q)) = Len(q) - 1
         /\ \A k \in 1..Len(Tail(q)) : Tail(q)[k] = q[k + 1]
         /\ ToSet(q) = {Head(q)} \cup ToSet(Tail(q))
<1>1. /\ Tail(q) \in Seq(Frames)
      /\ Len(q) \in Nat \ {0}
      /\ Head(q) = q[1]
      /\ Len(Tail(q)) = Len(q) - 1
      /\ \A k \in 1..Len(Tail(q)) : Tail(q)[k] = q[k + 1]
  OBVIOUS
<1>2. ASSUME NEW y \in {Head(q)} \cup ToSet(Tail(q))
      PROVE  \E k \in 1..Len(q) : q[k] = y
  <2>1. CASE y = Head(q)
    BY <1>1, <2>1
  <2>2. CASE y \in ToSet(Tail(q))
    <3>1. ToSet(Tail(q)) = {Tail(q)[k] : k \in 1..Len(Tail(q))}
      BY <1>1, QueueMembers
    <3>2. PICK k \in 1..Len(Tail(q)) : Tail(q)[k] = y
      BY <2>2, <3>1
    <3>3. k + 1 \in 1..Len(q) /\ q[k + 1] = y
      BY <1>1, <3>2
    <3> QED BY <3>3
  <2> QED BY <2>1, <2>2
<1>3. ASSUME NEW k \in 1..Len(q)
      PROVE  q[k] \in {Head(q)} \cup ToSet(Tail(q))
  <2>1. CASE k = 1
    BY <1>1, <2>1
  <2>2. CASE k # 1
    <3>1. k - 1 \in 1..Len(Tail(q)) /\ Tail(q)[k - 1] = q[k]
      BY <1>1, <2>2
    <3> QED BY <1>1, <3>1, QueueMembers
  <2> QED BY <2>1, <2>2
<1> QED BY <1>1, <1>2, <1>3, QueueMembers

-----------------------------------------------------------------------------
LEMMA TypeStep == TypeOK /\ [Next]_vars => TypeOK'
<1> SUFFICES ASSUME TypeOK, [Next]_vars
             PROVE  TypeOK'
  OBVIOUS
<1> USE PipelineAssumption
    DEF TypeOK, Frames, writerVars, readerVars, packVars, outVars
<1>1. CASE Stop
  BY <1>1 DEF Stop
<1>2. CASE FrameArrives
  BY <1>2 DEF FrameArrives
<1>3. CASE FrameNumbered
  <2>1. writePackIndex \in Frames /\ writePackIndex + 1 \in 0..MaxFrames
    BY <1>3 DEF FrameNumbered
  <2> QED BY <1>3, <2>1 DEF FrameNumbered
<1>4. ASSUME NEW i \in Frames, AddPack(i)
      PROVE  TypeOK'
  BY <1>4 DEF AddPack
<1>5. CASE SenderWakes
  BY <1>5 DEF SenderWakes
<1>6. CASE TakePack
  <2> DEFINE w == Wanted
  <2>1. w \in Frames /\ w + 1 \in 0..MaxIndex
    BY <1>6 DEF TakePack
  <2> HIDE DEF w
  <2>2. Append(storeQueue, w) \in Seq(Frames) /\ dropped \cup {w} \in SUBSET Frames
    BY <2>1
  <2>3. packMap_' \in SUBSET Frames /\ blank' \in SUBSET packMap_'
    BY <1>6 DEF TakePack, w
  <2>4. readPackIndex' \in 0..MaxIndex /\ timeout' \in 0..(MaxMiss + 1)
    BY <1>6, <2>1 DEF TakePack, w
  <2>5. storeQueue' \in Seq(Frames) /\ dropped' \in SUBSET Frames
    BY <1>6, <2>2 DEF TakePack, w
  <2> QED BY <1>6, <2>3, <2>4, <2>5 DEF TakePack
<1>7. CASE MissPack
  <2>1. Wanted \in 0..MaxIndex
    BY DEF Wanted
  <2>2. Purged \subseteq packMap_
    BY DEF Purged
  <2> QED BY <1>7, <2>1, <2>2 DEF MissPack
<1>8. CASE SendMessage
  <2>1. Head(storeQueue) \in Frames /\ Tail(storeQueue) \in Seq(Frames)
    BY <1>8 DEF SendMessage
  <2> QED BY <1>8, <2>1 DEF SendMessage
<1>9. CASE UNCHANGED vars
  BY <1>9 DEF vars
<1> QED
  BY <1>1, <1>2, <1>3, <1>4, <1>5, <1>6, <1>7, <1>8, <1>9 DEF Next, Sender

(* What a pack that is taken, and a message that is sent, do to the queue. *)
LEMMA TakeQueue ==
  ASSUME TypeOK, Inv, TakePack
  PROVE  /\ Wanted \in Frames /\ readPackIndex <= Wanted /\ Wanted < writePackIndex
         /\ \/ storeQueue' = Append(storeQueue, Wanted) /\ dropped' = dropped
            \/ storeQueue' = storeQueue /\ dropped' = dropped \cup {Wanted}
         /\ packMap_' = packMap_ \ {Wanted}
         /\ readPackIndex' = Wanted + 1 /\ timeout' = 0
         /\ UNCHANGED <<writePackIndex, decoding, sent, purged>>
<1>1. Wanted \in packMap_
  BY DEF TakePack
<1>2. Wanted \in Frames /\ Wanted < writePackIndex
  BY <1>1, PipelineAssumption DEF Inv, Partition, TypeOK, Frames
<1>3. readPackIndex <= Wanted
  BY DEF Wanted, TypeOK
<1> QED BY <1>2, <1>3 DEF TakePack, writerVars

LEMMA OrderedStep == Inv /\ [Next]_vars => Ordered'
<1> SUFFICES ASSUME Inv, [Next]_vars
             PROVE  Ordered'
  OBVIOUS
<1> USE DEF Inv, Ordered
<1>0. readPackIndex \in Nat /\ storeQueue \in Seq(Frames) /\ Len(storeQueue) \in Nat
  BY PipelineAssumption DEF TypeOK
<1>1. CASE TakePack
  <2> DEFINE w == Wanted
  <2>1. w \in Frames /\ w \in Nat /\ readPackIndex <= w /\ readPackIndex' = w + 1
    BY <1>1, TakeQueue, PipelineAssumption DEF Frames
  <2>2. sent' = sent /\ (storeQueue' = storeQueue \/ storeQueue' = Append(storeQueue, w))
    BY <1>1, TakeQueue
  <2>3. /\ \A k \in 1..Len(storeQueue) : storeQueue[k] \in Nat
        /\ sent \subseteq Nat
    BY PipelineAssumption DEF TypeOK, Frames
  <2> HIDE DEF w
  <2>4. CASE storeQueue' = storeQueue
    BY <1>0, <2>1, <2>2, <2>3, <2>4
  <2>5. CASE storeQueue' = Append(storeQueue, w)
    <3>1. /\ Len(storeQueue') = Len(storeQueue) + 1
          /\ \A k \in 1..Len(storeQueue) : storeQueue'[k] = storeQueue[k]
          /\ storeQueue'[Len(storeQueue) + 1] = w
      BY <1>0, <2>1, <2>5, QueueAppend
    <3>2. \A k \in 1..Len(storeQueue') :
            k \in 1..Len(storeQueue) \/ (k = Len(storeQueue) + 1 /\ storeQueue'[k] = w)
      BY <1>0, <3>1
    <3> QED BY <1>0, <2>1, <2>2, <2>3, <3>1, <3>2
  <2> QED BY <2>2, <2>4, <2>5
<1>2. CASE MissPack
  <2>1. readPackIndex' \in Nat /\ readPackIndex <= readPackIndex'
    BY <1>0, <1>2 DEF MissPack, Wanted
  <2>2. storeQueue' = storeQueue /\ sent' = sent
    BY <1>2 DEF MissPack
  <2>3. /\ \A k \in 1..Len(storeQueue) : storeQueue[k] \in Nat
        /\ sent \subseteq Nat
    BY PipelineAssumption DEF TypeOK, Frames
  <2> QED BY <1>0, <2>1, <2>2, <2>3
<1>3. CASE SendMessage
  <2>1. /\ Len(storeQueue) \in Nat \ {0}
        /\ Head(storeQueue) = storeQueue[1]
        /\ Len(storeQueue') = Len(storeQueue) - 1
        /\ \A k \in 1..Len(storeQueue') : storeQueue'[k] = storeQueue[k + 1]
        /\ Len(storeQueue') \in Nat
    BY <1>0, <1>3, QueueTail DEF SendMessage
  <2>2. sent' = sent \cup {storeQueue[1]} /\ readPackIndex' = readPackIndex
    BY <1>3, <2>1 DEF SendMessage, readerVars
  <2>3. \A k \in 1..Len(storeQueue') : k + 1 \in 1..Len(storeQueue) /\ 1 < k + 1
    BY <2>1
  <2>4. \A j \in sent' : j < readPackIndex'
    BY <2>1, <2>2
  <2>5. \A k \in 1..Len(storeQueue') : storeQueue'[k] < readPackIndex'
    BY <2>1, <2>2, <2>3
  <2>6. \A k, l \in 1..Len(storeQueue') : k < l => storeQueue'[k] < storeQueue'[l]
    <3> SUFFICES ASSUME NEW k \in 1..Len(storeQueue'), NEW l \in 1..Len(storeQueue'),
                        k < l
                 PROVE  storeQueue'[k] < storeQueue'[l]
      OBVIOUS
    <3>1. k + 1 < l + 1
      BY <2>1
    <3> QED BY <2>1, <2>3, <3>1
  <2>7. \A j \in sent', k \in 1..Len(storeQueue') : j < storeQueue'[k]
    <3> SUFFICES ASSUME NEW j \in sent', NEW k \in 1..Len(storeQueue')
                 PROVE  j < storeQueue[k + 1]
      BY <2>1
    <3> QED BY <2>1, <2>2, <2>3
  <2> QED BY <2>4, <2>5, <2>6, <2>7
<1>4. CASE UNCHANGED <<storeQueue, sent, readPackIndex>>
  BY <1>4
<1> QED
  BY <1>1, <1>2, <1>3, <1>4
  DEF Next, Sender, Stop, FrameArrives, FrameNumbered, AddPack, SenderWakes,
      readerVars, outVars, vars

(* The queue has no number twice, so sending takes its head out for good.  *)
LEMMA HeadOnce ==
  ASSUME Inv, storeQueue # <<>>
  PROVE  /\ Queued = {Head(storeQueue)} \cup ToSet(Tail(storeQueue))
         /\ Head(storeQueue) \notin ToSet(Tail(storeQueue))
<1>1. storeQueue \in Seq(Frames)
  BY DEF Inv, TypeOK
<1>2. /\ Len(storeQueue) \in Nat \ {0}
      /\ Tail(storeQueue) \in Seq(Frames)
      /\ Head(storeQueue) = storeQueue[1]
      /\ Len(Tail(storeQueue)) = Len(storeQueue) - 1
      /\ \A k \in 1..Len(Tail(storeQueue)) : Tail(storeQueue)[k] = storeQueue[k + 1]
      /\ Queued = {Head(storeQueue)} \cup ToSet(Tail(storeQueue))
  BY <1>1, QueueTail DEF Queued
<1>3. ASSUME NEW k \in 1..Len(Tail(storeQueue))
      PROVE  Tail(storeQueue)[k] # Head(storeQueue)
  <2>1. 1 \in 1..Len(storeQueue) /\ k + 1 \in 1..Len(storeQueue) /\ 1 < k + 1
    BY <1>2
  <2>2. storeQueue[1] < storeQueue[k + 1]
    BY <2>1 DEF Inv, Ordered
  <2>3. storeQueue[1] \in Nat /\ storeQueue[k + 1] \in Nat
    BY <1>1, <2>1, PipelineAssumption DEF Frames
  <2> QED BY <1>2, <2>2, <2>3
<1>4. ToSet(Tail(storeQueue)) = {Tail(storeQueue)[k] : k \in 1..Len(Tail(storeQueue))}
  BY <1>2, QueueMembers
<1> QED BY <1>2, <1>3, <1>4

LEMMA PartitionStep == Inv /\ [Next]_vars => Partition'
<1> SUFFICES ASSUME Inv, [Next]_vars
             PROVE  Partition'
  OBVIOUS
<1> USE DEF Inv, Partition
<1>0. writePackIndex \in Nat /\ storeQueue \in Seq(Frames)
  BY PipelineAssumption DEF TypeOK
<1>1. CASE FrameNumbered
  <2>1. 0..(writePackIndex' - 1) = (0..(writePackIndex - 1)) \cup {writePackIndex}
    BY <1>0, <1>1 DEF FrameNumbered
  <2>2. writePackIndex \notin 0..(writePackIndex - 1)
    BY <1>0
  <2>3. Queued' = Queued
    BY <1>1 DEF FrameNumbered, Queued
  <2> HIDE DEF Queued
  <2> QED BY <1>1, <2>1, <2>2, <2>3 DEF FrameNumbered
<1>2. CASE \E i \in Frames : AddPack(i)
  <2>1. Queued' = Queued
    BY <1>2 DEF AddPack, Queued, outVars
  <2> QED BY <1>2, <2>1 DEF AddPack, writerVars, outVars
<1>3. CASE TakePack
  <2>1. Wanted \in packMap_ /\ Wanted \in Frames
    BY <1>3, TakeQueue DEF TakePack
  <2>2. \/ Queued' = Queued \cup {Wanted} /\ dropped' = dropped
        \/ Queued' = Queued /\ dropped' = dropped \cup {Wanted}
    BY <1>0, <1>3, <2>1, TakeQueue, QueueAppend DEF Queued
  <2> QED BY <1>3, <2>1, <2>2, TakeQueue
<1>4. CASE MissPack
  <2>1. Purged \subseteq packMap_
    BY DEF Purged
  <2>2. Queued' = Queued
    BY <1>4 DEF MissPack, Queued
  <2> QED BY <1>4, <2>1, <2>2 DEF MissPack, writerVars
<1>5. CASE SendMessage
  <2>1. Queued' = Queued \ {Head(storeQueue)} /\ Head(storeQueue) \in Queued
    BY <1>5, HeadOnce DEF SendMessage, Queued
  <2> QED BY <1>5, <2>1 DEF SendMessage, writerVars, packVars
<1>6. CASE UNCHANGED <<writePackIndex, decoding, packMap_, outVars>>
  BY <1>6 DEF outVars, Queued
<1> QED
  BY <1>1, <1>2, <1>3, <1>4, <1>5, <1>6
  DEF Next, Sender, Stop, FrameArrives, SenderWakes, packVars, vars, writerVars

LEMMA OvertakesStep == Inv /\ [Next]_vars => OvertakesOnlyOnTimeout'
<1> SUFFICES ASSUME Inv, [Next]_vars
             PROVE  OvertakesOnlyOnTimeout'
  OBVIOUS
<1> USE DEF OvertakesOnlyOnTimeout
<1>0. /\ writePackIndex \in Nat /\ readPackIndex \in Nat
      /\ timeout \in Nat /\ MaxMiss \in Nat
  BY PipelineAssumption DEF Inv, TypeOK
<1>1. CASE FrameNumbered
  BY <1>0, <1>1 DEF FrameNumbered, readerVars, Inv
<1>2. CASE TakePack
  BY <1>0, <1>2, TakeQueue, PipelineAssumption DEF Inv, Frames
<1>3. CASE MissPack
  BY <1>0, <1>3 DEF MissPack, Wanted, writerVars, Inv
<1>4. CASE UNCHANGED <<writePackIndex, readPackIndex, timeout>>
  BY <1>4 DEF Inv
<1> QED
  BY <1>1, <1>2, <1>3, <1>4
  DEF Next, Sender, Stop, FrameArrives, AddPack, SenderWakes, SendMessage,
      writerVars, readerVars, vars

(* Every reachable state satisfies the inductive invariant.                *)
THEOREM Invariance == Spec => []Inv
<1>1. Init => Inv
  BY PipelineAssumption
  DEF Init, Inv, TypeOK, Partition, Ordered, OvertakesOnlyOnTimeout, Queued, ToSet
<1>2. Inv /\ [Next]_vars => Inv'
  BY TypeStep, PartitionStep, OrderedStep, OvertakesStep DEF Inv
<1> QED BY <1>1, <1>2, PTL DEF Spec

-----------------------------------------------------------------------------
(* The indices stay in their ranges.                                       *)
THEOREM TypeCorrect == Spec => []TypeOK
BY Invariance, PTL DEF Inv

(* No frame vanishes or is counted twice.                                  *)
THEOREM FramesConserved == Spec => []FrameConserved
<1>1. Inv => FrameConserved
  BY DEF Inv, Partition, FrameConserved
<1> QED BY <1>1, Invariance, PTL

(* The reader overtakes the writer only after a row of misses.             *)
THEOREM OvertakingNeedsTimeout == Spec => []OvertakesOnlyOnTimeout
BY Invariance, PTL DEF Inv

(* A waiting pack is passed over in one case only: it came, under the very *)
(* index that timed out, after the last miss.                              *)
THEOREM AheadIsNeverSkipped == Spec => NeverSkipsAhead
<1>1. ASSUME TypeOK, [Next]_vars, NEW i \in packMap_, readPackIndex <= i, i < readPackIndex'
      PROVE  i \notin packMap_' \/ (i = readPackIndex /\ timeout > MaxMiss)
  <2>0. i \in Nat /\ readPackIndex \in Nat
    BY <1>1, PipelineAssumption DEF TypeOK, Frames
  <2>1. CASE TakePack
    BY <1>1, <2>0, <2>1 DEF TakePack, Wanted
  <2>2. CASE MissPack
    BY <1>1, <2>0, <2>2 DEF MissPack, Wanted
  <2>3. CASE readPackIndex' = readPackIndex
    BY <1>1, <2>0, <2>3
  <2> QED
    BY <1>1, <2>1, <2>2, <2>3
    DEF Next, Sender, Stop, FrameArrives, FrameNumbered, AddPack, SenderWakes,
        SendMessage, readerVars, vars
<1>2. TypeOK /\ [Next]_vars =>
        [\A i \in packMap_ :
           readPackIndex <= i /\ i < readPackIndex' =>
             \/ i \notin packMap_'
             \/ i = readPackIndex /\ timeout > MaxMiss]_vars
  BY <1>1
<1> QED BY <1>2, TypeCorrect, PTL DEF Spec, NeverSkipsAhead

(* The pipeline implements the lossy FIFO: the decoder's numbering writes, *)
(* the message thread delivers, and every other step stutters.             *)
THEOREM Refinement == Spec => RefinesLossyFifo
<1>1. Init => Fifo!FifoInit
  BY DEF Init, Fifo!FifoInit
<1>2. Inv /\ [Next]_vars => [Fifo!FifoNext]_Fifo!fifoVars
  <2> SUFFICES ASSUME Inv, [Next]_vars
               PROVE  [Fifo!FifoNext]_Fifo!fifoVars
    OBVIOUS
  <2> USE DEF Fifo!FifoNext, Fifo!fifoVars
  <2>1. CASE FrameNumbered
    BY <2>1 DEF FrameNumbered, Fifo!Write
  <2>2. CASE SendMessage
    <3> DEFINE i == Head(storeQueue)
    <3>1. storeQueue \in Seq(Frames) /\ storeQueue # <<>>
      BY <2>2 DEF SendMessage, Inv, TypeOK
    <3>2. 1 \in 1..Len(storeQueue) /\ i = storeQueue[1] /\ i \in Queued
      BY <3>1, HeadOnce
    <3>3. i \in 0..(writePackIndex - 1)
      BY <3>2 DEF Inv, Partition
    <3>4. \A j \in sent : j < i
      BY <3>2 DEF Inv, Ordered
    <3> QED BY <2>2, <3>3, <3>4 DEF SendMessage, writerVars, Fifo!Deliver
  <2>3. CASE UNCHANGED <<writePackIndex, sent>>
    BY <2>3
  <2> QED
    BY <2>1, <2>2, <2>3
    DEF Next, Sender, Stop, FrameArrives, AddPack, SenderWakes, TakePack,
    MissPack,
        writerVars, outVars, vars
<1> QED BY <1>1, <1>2, Invariance, PTL DEF Spec, RefinesLossyFifo, Fifo!FifoSpec

-----------------------------------------------------------------------------
(* The second part: SharedPools.                                           *)

(* Every step of the pools is a step of the pipeline or leaves it alone.   *)
LEMMA SharedStepIsStep == TypeOK /\ [SharedNext]_sharedVars => [Next]_vars
<1> SUFFICES ASSUME TypeOK, [SharedNext]_sharedVars
             PROVE  [Next]_vars
  OBVIOUS
<1>1. CASE OthersWork \/ \E w \in DecodeThreads : StartsJob(w)
  BY <1>1 DEF OthersWork, StartsJob
<1>2. CASE TaskSteps
  BY <1>2 DEF TaskSteps, Next, Sender
<1>3. CASE FrameQueued
  BY <1>3 DEF FrameQueued, Next
<1>4. ASSUME NEW w \in DecodeThreads, EndsJob(w)
      PROVE  [Next]_vars
  <2>1. CASE running[w] = Other
    BY <1>4, <2>1 DEF EndsJob
  <2>2. CASE running[w] # Other
    <3>1. AddPack(running[w])
      BY <1>4, <2>2 DEF EndsJob
    <3>2. running[w] \in Frames
      BY <3>1 DEF AddPack, TypeOK
    <3> QED BY <3>1, <3>2 DEF Next
  <2> QED BY <2>1, <2>2
<1>5. CASE MessageQueued
  BY <1>5 DEF MessageQueued, Next, Sender
<1>6. CASE MessageDone
  BY <1>6 DEF MessageDone, Next
<1>7. CASE UNCHANGED sharedVars
  BY <1>7 DEF sharedVars
<1> QED BY <1>1, <1>2, <1>3, <1>4, <1>5, <1>6, <1>7 DEF SharedNext

(* With shared pools the task behaves as its pipeline does alone: the      *)
(* theorems of the first part hold under any load.                         *)
THEOREM SharedImplementsPipeline == SharedSpec => Spec
<1>1. SharedInit => Init /\ TypeOK
  BY PipelineAssumption DEF SharedInit, Init, TypeOK
<1>2. TypeOK /\ [SharedNext]_sharedVars => TypeOK'
  BY SharedStepIsStep, TypeStep
<1> QED BY <1>1, <1>2, SharedStepIsStep, PTL DEF SharedSpec, Spec

(* ... such as the conservation and the order of the frames.               *)
THEOREM SharedConserves == SharedSpec => []FrameConserved /\ RefinesLossyFifo
BY SharedImplementsPipeline, FramesConserved, Refinement, PTL

-----------------------------------------------------------------------------
(* No frame is twice in the queue.                                         *)
Once(q) ==
  \A k, l \in 1..Len(q) : q[k] = q[l] /\ k # l => q[k] \notin Frames

SharedInv == Inv /\ SharedTypeOK /\ JobsMatch /\ Once(decodeQueue)

(* What Execute and the start of a job do to a queue.                      *)
LEMMA Arrives ==
  ASSUME NEW q \in Seq(Jobs), NEW x \in Jobs
  PROVE  /\ Append(q, x) \in Seq(Jobs)
         /\ Len(Append(q, x)) = Len(q) + 1
         /\ ToSet(Append(q, x)) = ToSet(q) \cup {x}
         /\ Once(q) /\ x \notin ToSet(q) \cap Frames => Once(Append(q, x))
<1> DEFINE r == Append(q, x)
<1>1. /\ r \in Seq(Jobs)
      /\ Len(r) = Len(q) + 1 /\ Len(q) \in Nat
      /\ \A k \in 1..Len(q) : r[k] = q[k]
      /\ r[Len(q) + 1] = x
  OBVIOUS
<1> HIDE DEF r
<1>2. ASSUME NEW y
      PROVE  y \in ToSet(r) <=> y \in ToSet(q) \cup {x}
  BY <1>1 DEF ToSet
<1>3. ASSUME Once(q), x \notin ToSet(q) \cap Frames
      PROVE  Once(r)
  <2>1. \A k \in 1..Len(q) : q[k] = x => x \notin Frames
    BY <1>3 DEF ToSet
  <2>2. \A k \in 1..Len(r) : k \in 1..Len(q) \/ k = Len(q) + 1
    BY <1>1
  <2> QED BY <1>1, <1>3, <2>1, <2>2 DEF Once
<1> QED BY <1>1, <1>2, <1>3 DEF r

LEMMA Leaves ==
  ASSUME NEW q \in Seq(Jobs), q # <<>>
  PROVE  /\ Tail(q) \in Seq(Jobs) /\ Head(q) \in Jobs
         /\ Len(Tail(q)) <= Len(q)
         /\ ToSet(q) = ToSet(Tail(q)) \cup {Head(q)}
         /\ Once(q) => Once(Tail(q)) /\ Head(q) \notin ToSet(Tail(q)) \cap Frames
<1> DEFINE r == Tail(q)
<1>1. /\ r \in Seq(Jobs) /\ Head(q) \in Jobs
      /\ Len(q) \in Nat \ {0}
      /\ Head(q) = q[1]
      /\ Len(r) = Len(q) - 1
      /\ \A k \in 1..Len(r) : r[k] = q[k + 1]
  OBVIOUS
<1> HIDE DEF r
<1>2. /\ \A k \in 1..Len(r) : k + 1 \in 1..Len(q)
      /\ \A k \in 1..Len(q) : k = 1 \/ k - 1 \in 1..Len(r)
      /\ \A k \in 1..Len(q) : k # 1 => r[k - 1] = q[k]
      /\ 1 \in 1..Len(q)
  BY <1>1
<1>3. ASSUME NEW y \in ToSet(q)
      PROVE  y \in ToSet(r) \cup {Head(q)}
  BY <1>1, <1>2 DEF ToSet
<1>4. ASSUME NEW y \in ToSet(r) \cup {Head(q)}
      PROVE  y \in ToSet(q)
  <2>1. CASE y = Head(q)
    BY <1>1, <1>2, <2>1 DEF ToSet
  <2>2. CASE y \in ToSet(r)
    <3>1. PICK k \in 1..Len(r) : r[k] = y
      BY <2>2 DEF ToSet
    <3>2. k + 1 \in 1..Len(q) /\ q[k + 1] = y
      BY <1>1, <1>2, <3>1
    <3> QED BY <3>2 DEF ToSet
  <2> QED BY <1>4, <2>1, <2>2
<1>5. ASSUME Once(q)
      PROVE  Once(r) /\ Head(q) \notin ToSet(r) \cap Frames
  <2>1. ASSUME NEW k \in 1..Len(r), NEW l \in 1..Len(r), r[k] = r[l], k # l
        PROVE  r[k] \notin Frames
    <3>1. k + 1 \in 1..Len(q) /\ l + 1 \in 1..Len(q) /\ k + 1 # l + 1
      BY <1>1, <1>2, <2>1
    <3>2. q[k + 1] = r[k] /\ q[l + 1] = r[l]
      BY <1>1
    <3> QED BY <1>5, <2>1, <3>1, <3>2 DEF Once
  <2>2. ASSUME NEW k \in 1..Len(r), r[k] = Head(q)
        PROVE  Head(q) \notin Frames
    <3>1. k + 1 \in 1..Len(q) /\ 1 \in 1..Len(q) /\ k + 1 # 1
      BY <1>1, <1>2
    <3>2. q[k + 1] = r[k] /\ q[1] = Head(q)
      BY <1>1
    <3> QED BY <1>5, <2>2, <3>1, <3>2 DEF Once
  <2>3. Once(r)
    BY <2>1 DEF Once
  <2>4. Head(q) \notin ToSet(r) \cap Frames
    <3> SUFFICES ASSUME Head(q) \in ToSet(r)
                 PROVE  Head(q) \notin Frames
      OBVIOUS
    <3>1. PICK k \in 1..Len(r) : Head(q) = r[k]
      BY <1>1 DEF ToSet
    <3> QED BY <2>2, <3>1
  <2> QED BY <2>3, <2>4
<1> QED BY <1>1, <1>3, <1>4, <1>5 DEF r

-----------------------------------------------------------------------------
LEMMA SharedTypeStep ==
  TypeOK /\ SharedTypeOK /\ [SharedNext]_sharedVars => SharedTypeOK'
<1> SUFFICES ASSUME TypeOK, SharedTypeOK, [SharedNext]_sharedVars
             PROVE  SharedTypeOK'
  OBVIOUS
<1> USE PoolsAssumption DEF SharedTypeOK
<1>0. /\ Frames \subseteq Jobs /\ Other \in Jobs
      /\ Len(decodeQueue) \in Nat /\ Len(messageQueue) \in Nat
  BY DEF Jobs
<1>1. CASE OthersWork
  <2>1. /\ Append(decodeQueue, Other) \in Seq(Jobs)
        /\ Len(Append(decodeQueue, Other)) = Len(decodeQueue) + 1
        /\ Append(messageQueue, Other) \in Seq(Jobs)
        /\ Len(Append(messageQueue, Other)) = Len(messageQueue) + 1
    BY <1>0
  <2>2. running' = running
    BY <1>1 DEF OthersWork
  <2>3. CASE /\ Accepts(decodeQueue)
             /\ decodeQueue' = Append(decodeQueue, Other)
             /\ UNCHANGED messageQueue
    BY <1>0, <2>1, <2>2, <2>3 DEF Accepts
  <2>4. CASE /\ Accepts(messageQueue)
             /\ messageQueue' = Append(messageQueue, Other)
             /\ UNCHANGED decodeQueue
    BY <1>0, <2>1, <2>2, <2>4 DEF Accepts
  <2> QED BY <1>1, <2>3, <2>4 DEF OthersWork
<1>2. CASE TaskSteps
  BY <1>2 DEF TaskSteps, poolVars
<1>3. CASE FrameQueued
  <2>1. writePackIndex \in Jobs
    BY <1>0, <1>3, PipelineAssumption DEF FrameQueued, FrameNumbered, TypeOK, Frames
  <2> QED BY <1>0, <1>3, <2>1, Arrives DEF FrameQueued, Accepts
<1>4. ASSUME NEW w \in DecodeThreads, StartsJob(w)
      PROVE  SharedTypeOK'
  <2>1. /\ Tail(decodeQueue) \in Seq(Jobs) /\ Head(decodeQueue) \in Jobs
        /\ Len(Tail(decodeQueue)) <= Len(decodeQueue)
        /\ Len(Tail(decodeQueue)) \in Nat
    BY <1>4, Leaves DEF StartsJob
  <2> QED BY <1>0, <1>4, <2>1 DEF StartsJob
<1>5. ASSUME NEW w \in DecodeThreads, EndsJob(w)
      PROVE  SharedTypeOK'
  BY <1>5 DEF EndsJob
<1>6. CASE MessageQueued
  <2>1. Wanted \in Jobs
    BY <1>0, <1>6 DEF MessageQueued, TakePack, TypeOK
  <2> QED BY <1>0, <1>6, <2>1, Arrives DEF MessageQueued, Accepts
<1>7. CASE MessageDone
  <2>1. /\ Tail(messageQueue) \in Seq(Jobs)
        /\ Len(Tail(messageQueue)) <= Len(messageQueue)
        /\ Len(Tail(messageQueue)) \in Nat
    BY <1>7, Leaves DEF MessageDone
  <2> QED BY <1>0, <1>7, <2>1 DEF MessageDone
<1>8. CASE UNCHANGED sharedVars
  BY <1>8 DEF sharedVars, poolVars
<1> QED
  BY <1>1, <1>2, <1>3, <1>4, <1>5, <1>6, <1>7, <1>8 DEF SharedNext

(* Jobs move between the queue and the threads, and a frame is new when it *)
(* is queued.                                                              *)
LEMMA JobsStep ==
  SharedInv /\ [SharedNext]_sharedVars => (JobsMatch /\ Once(decodeQueue))'
<1> SUFFICES ASSUME SharedInv, [SharedNext]_sharedVars
             PROVE  (JobsMatch /\ Once(decodeQueue))'
  OBVIOUS
<1> DEFINE onThreads == {running[w] : w \in DecodeThreads}
<1>0. /\ decodeQueue \in Seq(Jobs) /\ running \in [DecodeThreads -> Jobs \cup {Idle}]
      /\ Once(decodeQueue)
      /\ decoding = (ToSet(decodeQueue) \cup onThreads) \cap Frames
      /\ decoding \subseteq Frames
      /\ Other \in Jobs /\ Other \notin Frames /\ Idle \notin Frames /\ Idle # Other
      /\ Frames \subseteq Jobs
  BY PoolsAssumption DEF SharedInv, Inv, TypeOK, SharedTypeOK, JobsMatch, InPool, Jobs, Frames
<1>1. CASE OthersWork
  <2>1. decoding' = decoding /\ running' = running
    BY <1>1 DEF OthersWork, vars, packVars
  <2>2. CASE decodeQueue' = decodeQueue
    BY <2>1, <2>2 DEF SharedInv, JobsMatch, InPool, Once
  <2>3. CASE decodeQueue' = Append(decodeQueue, Other)
    <3>1. ToSet(decodeQueue') = ToSet(decodeQueue) \cup {Other} /\ Once(decodeQueue')
      BY <1>0, <2>3, Arrives
    <3> QED BY <1>0, <2>1, <3>1 DEF SharedInv, JobsMatch, InPool, Once
  <2> QED BY <1>1, <2>2, <2>3 DEF OthersWork
<1>2. CASE TaskSteps \/ MessageQueued
  BY <1>2 DEF TaskSteps, MessageQueued, poolVars, Stop, FrameArrives,
     SenderWakes, MissPack, TakePack, packVars, SharedInv, JobsMatch, InPool, Once
<1>3. CASE FrameQueued
  <2> DEFINE i == writePackIndex
  <2>1. i \in Frames /\ i \notin decoding /\ running' = running
    <3>1. i \in Frames
      BY <1>3, PipelineAssumption
      DEF FrameQueued, FrameNumbered, SharedInv, Inv, TypeOK, Frames
    <3>2. decoding \subseteq 0..(i - 1)
      BY DEF SharedInv, Inv, Partition
    <3> QED BY <1>3, <3>1, <3>2 DEF FrameQueued, Frames
  <2>2. CASE Accepts(decodeQueue)
    <3>1. decodeQueue' = Append(decodeQueue, i) /\ decoding' = decoding \cup {i}
      BY <1>3, <2>1, <2>2 DEF FrameQueued, FrameNumbered
    <3>2. i \notin ToSet(decodeQueue) /\ i \notin onThreads
      BY <1>0, <2>1
    <3>3. ToSet(decodeQueue') = ToSet(decodeQueue) \cup {i} /\ Once(decodeQueue')
      BY <1>0, <2>1, <3>1, <3>2, Arrives
    <3> QED BY <1>0, <2>1, <3>1, <3>2, <3>3 DEF SharedInv, JobsMatch, InPool, Once
  <2>3. CASE ~Accepts(decodeQueue)
    <3>1. decodeQueue' = decodeQueue /\ decoding' = decoding
      BY <1>3, <2>1, <2>3 DEF FrameQueued, FrameNumbered
    <3> QED BY <2>1, <3>1 DEF SharedInv, JobsMatch, InPool, Once
  <2> QED BY <2>2, <2>3
<1>4. ASSUME NEW w \in DecodeThreads, StartsJob(w)
      PROVE  (JobsMatch /\ Once(decodeQueue))'
  <2> DEFINE j == Head(decodeQueue)
  <2>1. /\ decoding' = decoding /\ decodeQueue' = Tail(decodeQueue)
        /\ running[w] = Idle /\ running' = [running EXCEPT ![w] = j]
        /\ decodeQueue # <<>>
    BY <1>4 DEF StartsJob, vars, packVars
  <2>2. /\ ToSet(decodeQueue) = ToSet(decodeQueue') \cup {j}
        /\ Once(decodeQueue') /\ j \notin ToSet(decodeQueue') \cap Frames
    BY <1>0, <2>1, Leaves
  <2> HIDE DEF j
  <2>3. /\ running'[w] = j
        /\ \A v \in DecodeThreads : v # w => running'[v] = running[v]
    BY <1>0, <2>1
  <2>4. \A v \in DecodeThreads : running[v] \in Frames =>
          running[v] \in decoding /\ running[v] \notin ToSet(decodeQueue)
    BY <1>0 DEF SharedInv, JobsMatch, InPool
  <2>5. decoding' = (ToSet(decodeQueue') \cup {running'[v] : v \in DecodeThreads}) \cap Frames
    BY <1>0, <2>1, <2>2, <2>3
  <2>6. \A i \in decoding', v \in DecodeThreads : running'[v] = i =>
          i \notin ToSet(decodeQueue')
    BY <1>0, <2>1, <2>2, <2>3, <2>4
  <2>7. \A u, v \in DecodeThreads : running'[u] = running'[v] /\ u # v =>
          running'[u] \notin Frames
    BY <1>0, <2>1, <2>2, <2>3, <2>4 DEF SharedInv, JobsMatch, InPool
  <2> QED BY <2>2, <2>5, <2>6, <2>7 DEF JobsMatch, InPool, Once
<1>5. ASSUME NEW w \in DecodeThreads, EndsJob(w)
      PROVE  (JobsMatch /\ Once(decodeQueue))'
  <2>1. /\ decodeQueue' = decodeQueue
        /\ running' = [running EXCEPT ![w] = Idle]
        /\ decoding' = IF running[w] = Other THEN decoding ELSE decoding \ {running[w]}
    BY <1>5 DEF EndsJob, AddPack, vars, packVars
  <2>2. /\ running'[w] = Idle
        /\ \A v \in DecodeThreads : v # w => running'[v] = running[v]
    BY <1>0, <2>1
  <2>3. decoding' = decoding \ {running[w]}
    BY <1>0, <2>1
  <2>4. \A v \in DecodeThreads : running[v] \in Frames =>
          /\ running[v] \in decoding /\ running[v] \notin ToSet(decodeQueue)
          /\ v # w => running[v] # running[w]
    BY <1>0 DEF SharedInv, JobsMatch, InPool
  <2>5. decoding' = (ToSet(decodeQueue') \cup {running'[v] : v \in DecodeThreads}) \cap Frames
    BY <1>0, <2>1, <2>2, <2>3, <2>4
  <2>6. \A i \in decoding', v \in DecodeThreads : running'[v] = i =>
          i \notin ToSet(decodeQueue')
    BY <1>0, <2>1, <2>2, <2>3, <2>4
  <2>7. \A u, v \in DecodeThreads : running'[u] = running'[v] /\ u # v =>
          running'[u] \notin Frames
    BY <1>0, <2>2 DEF SharedInv, JobsMatch, InPool
  <2> QED BY <1>0, <2>1, <2>5, <2>6, <2>7 DEF JobsMatch, InPool, Once
<1>6. CASE MessageDone
  BY <1>6 DEF MessageDone, SendMessage, vars, packVars, SharedInv, JobsMatch, InPool, Once
<1>7. CASE UNCHANGED sharedVars
  BY <1>7 DEF sharedVars, poolVars, vars, packVars, SharedInv, JobsMatch, InPool, Once
<1> QED
  BY <1>1, <1>2, <1>3, <1>4, <1>5, <1>6, <1>7 DEF SharedNext

THEOREM SharedInvariance == SharedSpec => []SharedInv
<1>1. SharedInit => JobsMatch /\ Once(decodeQueue) /\ SharedTypeOK
  <2> SUFFICES ASSUME SharedInit
               PROVE  JobsMatch /\ Once(decodeQueue) /\ SharedTypeOK
    OBVIOUS
  <2>1. /\ decoding = {} /\ decodeQueue = <<>> /\ messageQueue = <<>>
        /\ Len(decodeQueue) = 0
        /\ \A w \in DecodeThreads : running[w] = Idle
        /\ running \in [DecodeThreads -> Jobs \cup {Idle}]
    BY DEF SharedInit, Init
  <2>2. ToSet(decodeQueue) = {}
    BY <2>1 DEF ToSet
  <2>3. Idle \notin Frames
    BY PoolsAssumption DEF Frames
  <2>4. JobsMatch
    BY <2>1, <2>2, <2>3 DEF JobsMatch, InPool
  <2>5. Once(decodeQueue)
    BY <2>1 DEF Once
  <2> QED BY <2>1, <2>4, <2>5, PoolsAssumption DEF SharedTypeOK
<1>2. SharedInv /\ [SharedNext]_sharedVars =>
        (JobsMatch /\ Once(decodeQueue))' /\ SharedTypeOK'
  BY JobsStep, SharedTypeStep DEF SharedInv, Inv
<1>3. ASSUME Inv, SharedTypeOK, JobsMatch, Once(decodeQueue)
      PROVE  SharedInv
  BY <1>3 DEF SharedInv
<1>4. SharedSpec => []Inv
  BY SharedImplementsPipeline, Invariance, PTL
<1> QED BY <1>1, <1>2, <1>3, <1>4, PTL DEF SharedSpec, SharedInv

(* The pools never grow beyond their capacity.                             *)
THEOREM PoolsBounded == SharedSpec => []SharedTypeOK
BY SharedInvariance, PTL DEF SharedInv

(* The pointer to a task is in a decode pool once for each frame that the  *)
(* task counts as being decoded, and for no other.                         *)
THEOREM JobsAlwaysMatch == SharedSpec => []JobsMatch
BY SharedInvariance, PTL DEF SharedInv

-----------------------------------------------------------------------------
(* A message for a frame above all frames in the queue keeps them in order. *)
LEMMA AscendingArrives ==
  ASSUME NEW q \in Seq(Jobs), NEW x \in Jobs, Ascending(q),
         x \in Frames => \A y \in ToSet(q) \cap Frames : y < x
  PROVE  Ascending(Append(q, x))
<1> DEFINE r == Append(q, x)
<1>1. /\ Len(q) \in Nat
      /\ Len(r) = Len(q) + 1
      /\ \A k \in 1..Len(q) : r[k] = q[k]
      /\ r[Len(q) + 1] = x
  OBVIOUS
<1> HIDE DEF r
<1> SUFFICES ASSUME NEW k \in 1..Len(r), NEW l \in 1..Len(r), k < l,
                    r[k] \in Frames, r[l] \in Frames
             PROVE  r[k] < r[l]
  BY DEF r, Ascending
<1>2. k \in 1..Len(q) /\ r[k] = q[k] /\ q[k] \in ToSet(q)
  BY <1>1 DEF ToSet
<1>3. CASE l \in 1..Len(q)
  BY <1>1, <1>2, <1>3 DEF Ascending
<1>4. CASE l = Len(q) + 1
  BY <1>1, <1>2, <1>4
<1> QED BY <1>1, <1>3, <1>4

(* Taking the first message keeps the order, and a frame among the others  *)
(* has a higher number.                                                    *)
LEMMA AscendingLeaves ==
  ASSUME NEW q \in Seq(Jobs), q # <<>>, Ascending(q)
  PROVE  /\ Ascending(Tail(q))
         /\ Head(q) \in Frames => \A y \in ToSet(Tail(q)) \cap Frames : Head(q) < y
<1> DEFINE r == Tail(q)
<1>1. /\ Len(q) \in Nat \ {0}
      /\ Head(q) = q[1]
      /\ Len(r) = Len(q) - 1
      /\ \A k \in 1..Len(r) : r[k] = q[k + 1]
      /\ DOMAIN r = 1..Len(r)
  OBVIOUS
<1> HIDE DEF r
<1>2. \A k \in 1..Len(r) : k + 1 \in 1..Len(q) /\ r[k] = q[k + 1] /\ 1 < k + 1
  BY <1>1
<1>3. ASSUME NEW k \in 1..Len(r), NEW l \in 1..Len(r), k < l,
             r[k] \in Frames, r[l] \in Frames
      PROVE  r[k] < r[l]
  <2>1. k + 1 < l + 1
    BY <1>1, <1>3
  <2> QED BY <1>2, <1>3, <2>1 DEF Ascending
<1>4. ASSUME Head(q) \in Frames, NEW y \in ToSet(r) \cap Frames
      PROVE  Head(q) < y
  <2>1. PICK k \in 1..Len(r) : r[k] = y
    BY <1>1 DEF ToSet
  <2>2. 1 \in 1..Len(q)
    BY <1>1
  <2> QED BY <1>1, <1>2, <1>4, <2>1, <2>2 DEF Ascending
<1> QED BY <1>3, <1>4 DEF r, Ascending

(* A message of this task that has come to the front of its pool is the    *)
(* first of those that the task counts as queued.                          *)
LEMMA FrontsAgree ==
  ASSUME Inv, SharedTypeOK, MessagesMatch, messageQueue # <<>>,
         Head(messageQueue) \in Frames
  PROVE  storeQueue # <<>> /\ Head(storeQueue) = Head(messageQueue)
<1> DEFINE m == Head(messageQueue)
<1>1. /\ storeQueue \in Seq(Frames) /\ messageQueue \in Seq(Jobs)
      /\ Frames \subseteq Nat
  BY PipelineAssumption DEF Inv, TypeOK, SharedTypeOK, Frames
<1>2. m \in Queued /\ m \in Nat
  <2>1. m \in ToSet(messageQueue)
    BY <1>1, Leaves
  <2> QED BY <1>1, <2>1 DEF MessagesMatch
<1>3. PICK k \in 1..Len(storeQueue) : storeQueue[k] = m
  BY <1>1, <1>2, QueueMembers DEF Queued
<1>4. storeQueue # <<>>
  BY <1>1, <1>3
<1> DEFINE s == Head(storeQueue)
<1>5. s = storeQueue[1] /\ s \in Queued /\ s \in Frames /\ Len(storeQueue) \in Nat
  BY <1>1, <1>4, QueueTail DEF Queued
<1>6. s <= m
  <2>1. CASE k = 1
    BY <1>2, <1>3, <1>5, <2>1
  <2>2. CASE 1 < k
    <3>1. 1 \in 1..Len(storeQueue)
      BY <1>3, <1>5
    <3>2. storeQueue[1] < storeQueue[k]
      BY <1>3, <2>2, <3>1 DEF Inv, Ordered
    <3>3. s < m
      BY <1>3, <1>5, <3>2
    <3>4. s \in Nat
      BY <1>1, <1>5
    <3> HIDE DEF m, s
    <3> QED BY <1>2, <3>3, <3>4
  <2> QED BY <1>3, <1>5, <2>1, <2>2
<1>7. s \in ToSet(messageQueue) \cap Frames
  BY <1>5 DEF MessagesMatch
<1>8. CASE s \in ToSet(Tail(messageQueue))
  <2>1. m < s
    BY <1>1, <1>7, <1>8, AscendingLeaves DEF MessagesMatch
  <2>2. s \in Nat
    BY <1>1, <1>5
  <2> HIDE DEF m, s
  <2> QED BY <1>2, <1>6, <2>1, <2>2
<1>9. s \in ToSet(Tail(messageQueue)) \/ s = m
  BY <1>1, <1>7, Leaves
<1> QED BY <1>4, <1>8, <1>9

LEMMA MessagesStep ==
  ASSUME Inv, SharedTypeOK, MessagesMatch, [SharedNext]_sharedVars
  PROVE  MessagesMatch'
<1>0. /\ storeQueue \in Seq(Frames) /\ messageQueue \in Seq(Jobs)
      /\ Other \in Jobs /\ Other \notin Frames /\ Frames \subseteq Jobs
      /\ Frames \subseteq Nat
  BY PoolsAssumption, PipelineAssumption
  DEF Inv, TypeOK, SharedTypeOK, Jobs, Frames
<1>1. CASE UNCHANGED <<storeQueue, messageQueue>>
  BY <1>1 DEF MessagesMatch, Queued, Ascending
<1>2. CASE OthersWork
  <2>1. storeQueue' = storeQueue
    BY <1>2 DEF OthersWork, vars, outVars
  <2>2. CASE messageQueue' = Append(messageQueue, Other)
    <3>1. ToSet(messageQueue') = ToSet(messageQueue) \cup {Other}
      BY <1>0, <2>2, Arrives
    <3>2. Ascending(messageQueue')
      BY <1>0, <2>2, AscendingArrives DEF MessagesMatch
    <3> QED BY <1>0, <2>1, <3>1, <3>2 DEF MessagesMatch, Queued, Ascending
  <2> QED BY <1>1, <1>2, <2>1, <2>2 DEF OthersWork
<1>3. CASE MessageQueued
  <2> DEFINE w == Wanted
  <2>1. /\ w \in Frames /\ readPackIndex \in Nat /\ readPackIndex <= w
        /\ \/ storeQueue' = Append(storeQueue, w)
           \/ storeQueue' = storeQueue
    BY <1>3, TakeQueue, PipelineAssumption DEF MessageQueued, Inv, TypeOK
  <2>2. \A y \in Queued : y < w
    <3>1. \A k \in 1..Len(storeQueue) : storeQueue[k] < readPackIndex
      BY DEF Inv, Ordered
    <3>2. \A y \in Queued : y < readPackIndex /\ y \in Nat
      <4> SUFFICES ASSUME NEW y \in Queued
                   PROVE  y < readPackIndex /\ y \in Nat
        OBVIOUS
      <4>1. PICK k \in 1..Len(storeQueue) : storeQueue[k] = y
        BY <1>0, QueueMembers DEF Queued
      <4>2. storeQueue[k] \in Frames
        BY <1>0
      <4> QED BY <1>0, <3>1, <4>1, <4>2
    <3> QED BY <1>0, <2>1, <3>2
  <2>3. \/ UNCHANGED <<storeQueue, messageQueue>>
        \/ /\ storeQueue' = Append(storeQueue, w)
           /\ messageQueue' = Append(messageQueue, w)
    BY <1>3, <2>1 DEF MessageQueued
  <2> HIDE DEF w
  <2>4. CASE /\ storeQueue' = Append(storeQueue, w)
             /\ messageQueue' = Append(messageQueue, w)
    <3>1. ToSet(messageQueue') = ToSet(messageQueue) \cup {w}
      BY <1>0, <2>1, <2>4, Arrives
    <3>2. ToSet(storeQueue') = ToSet(storeQueue) \cup {w}
      BY <1>0, <2>1, <2>4, QueueAppend
    <3>3. Ascending(messageQueue')
      BY <1>0, <2>1, <2>2, <2>4, AscendingArrives DEF MessagesMatch
    <3> QED BY <2>1, <3>1, <3>2, <3>3 DEF MessagesMatch, Queued, Ascending
  <2> QED BY <1>1, <2>3, <2>4
<1>4. CASE MessageDone
  <2>1. messageQueue # <<>> /\ messageQueue' = Tail(messageQueue)
    BY <1>4 DEF MessageDone
  <2>2. /\ ToSet(messageQueue) = ToSet(messageQueue') \cup {Head(messageQueue)}
        /\ Head(messageQueue) \in Jobs
    BY <1>0, <2>1, Leaves
  <2>3. /\ Ascending(messageQueue')
        /\ Head(messageQueue) \in Frames =>
             \A y \in ToSet(messageQueue') \cap Frames : Head(messageQueue) < y
    BY <1>0, <2>1, AscendingLeaves DEF MessagesMatch
  <2>4. CASE Head(messageQueue) = Other
    <3>1. storeQueue' = storeQueue
      BY <1>4, <2>4 DEF MessageDone, vars, outVars
    <3> QED BY <1>0, <2>2, <2>3, <2>4, <3>1 DEF MessagesMatch, Queued, Ascending
  <2>5. CASE Head(messageQueue) # Other
    <3>1. Head(messageQueue) \in Frames
      BY <2>2, <2>5 DEF Jobs
    <3>2. storeQueue # <<>> /\ Head(storeQueue) = Head(messageQueue)
      BY <2>1, <3>1, FrontsAgree
    <3>3. storeQueue' = Tail(storeQueue)
      BY <1>4, <2>5 DEF MessageDone, SendMessage
    <3>4. /\ Queued = {Head(messageQueue)} \cup ToSet(storeQueue')
          /\ Head(messageQueue) \notin ToSet(storeQueue')
      BY <3>2, <3>3, HeadOnce, Zenon
    <3>5. Head(messageQueue) \notin ToSet(messageQueue')
      <4>1. Head(messageQueue) \in ToSet(messageQueue') =>
              Head(messageQueue) < Head(messageQueue)
        BY <2>3, <3>1
      <4>2. Head(messageQueue) \in Nat
        BY <1>0, <3>1
      <4> QED BY <4>1, <4>2
    <3>6. ToSet(messageQueue') \cap Frames = ToSet(storeQueue')
      BY <2>2, <3>1, <3>4, <3>5 DEF MessagesMatch
    <3> QED BY <2>3, <3>6 DEF MessagesMatch, Queued, Ascending
  <2> QED BY <2>4, <2>5
<1> QED
  BY <1>1, <1>2, <1>3, <1>4
  DEF SharedNext, TaskSteps, FrameQueued, StartsJob, EndsJob, Stop, FrameArrives,
      SenderWakes, MissPack, FrameNumbered, AddPack, sharedVars, poolVars, vars,
      outVars

(* The messages of a task leave a pool shared with others in the order of  *)
(* its frames: those in the pool are the ones it counts as queued.         *)
THEOREM MessagesAlwaysMatch == SharedSpec => []MessagesMatch
<1>1. SharedInit => MessagesMatch
  BY DEF SharedInit, Init, MessagesMatch, Queued, Ascending, ToSet
<1>2. SharedInv /\ MessagesMatch /\ [SharedNext]_sharedVars => MessagesMatch'
  BY MessagesStep DEF SharedInv
<1> QED BY <1>1, <1>2, SharedInvariance, PTL DEF SharedSpec

(* What the thread of the message pool hands to Kafka is the frame whose   *)
(* turn it is.                                                             *)
THEOREM DoneAlwaysSent == SharedSpec => DoneIsSent
<1>1. SharedInv /\ MessagesMatch /\ [SharedNext]_sharedVars =>
        [MessageDone /\ Head(messageQueue) \in Frames =>
           sent' = sent \cup {Head(messageQueue)}]_sharedVars
  <2> SUFFICES ASSUME SharedInv, MessagesMatch, MessageDone,
                      Head(messageQueue) \in Frames
               PROVE  sent' = sent \cup {Head(messageQueue)}
    OBVIOUS
  <2>1. Head(messageQueue) # Other
    BY PoolsAssumption DEF Frames
  <2>2. Head(storeQueue) = Head(messageQueue)
    BY FrontsAgree DEF MessageDone, SharedInv
  <2> QED BY <2>1, <2>2 DEF MessageDone, SendMessage
<1> QED BY <1>1, SharedInvariance, MessagesAlwaysMatch, PTL DEF SharedSpec, DoneIsSent
=============================================================================
