--------------------------- MODULE FramePipeline ---------------------------
(***************************************************************************)
(* The frames of one playing task: DecCBFun numbers them (hk_api.cpp), the *)
(* ten threads of a decode pool turn them into packs in any order          *)
(* (play.cpp), the sender looks for them in the order of their numbers and *)
(* gives up on a number after MaxMiss misses in a row (play_task.cpp,      *)
(* dvr_control.cpp), and one thread per message pool sends them on.        *)
(* Both pools are shared with other tasks and refuse work when full.       *)
(***************************************************************************)
EXTENDS Naturals, Sequences, SequencesExt

CONSTANTS
  HasTopic,     (* whether /playreal or /playback named a topic             *)
  MaxMiss,      (* misses in a row the reader accepts: 10 in the code       *)
  PurgePeriod,  (* packMap_ is purged at multiples of this index: 1000      *)
  PurgeSlack,   (* of packs that are more than this behind: 100             *)
  MaxFrames,    (* bound: frames the decoder delivers                       *)
  MaxIndex      (* bound: index from which the reader is not followed       *)

ASSUME PipelineAssumption ==
  /\ HasTopic \in BOOLEAN
  /\ MaxMiss \in Nat
  /\ PurgePeriod \in Nat \ {0}
  /\ PurgeSlack \in Nat
  /\ MaxFrames \in Nat
  /\ MaxIndex \in Nat /\ MaxFrames <= MaxIndex

VARIABLES
  status,          (* PlayTask::status                                      *)
  decoder,         (* the decoder's thread: idle, or admitted by DecCBFun   *)
  writePackIndex,  (* PlayTask::writePackIndex                              *)
  decoding,        (* frames queued or running in the decode pool           *)
  packMap_,        (* indices of the packs in PlayTask::packMap_            *)
  blank,           (* those of them whose image is empty                    *)
  readPackIndex,   (* PlayTask::readPackIndex                               *)
  timeout,         (* PlayTask::timeout, up to MaxMiss + 1                  *)
  senderPc,        (* where sendThd is                                      *)
  storeQueue,      (* messages of this task waiting in the message pool     *)
  sent,            (* history: frames handed to Kafka                       *)
  dropped,         (* history: frames refused by a pool, blank, or without  *)
                   (* a topic                                               *)
  purged           (* history: packs removed because they were far behind   *)

writerVars == <<status, decoder, writePackIndex>>
readerVars == <<readPackIndex, timeout, senderPc>>
packVars == <<decoding, packMap_, blank>>
outVars == <<storeQueue, sent, dropped, purged>>
vars == <<writerVars, readerVars, packVars, outVars>>

Frames == 0..(MaxFrames - 1)

TypeOK ==
  /\ status \in {"START", "STOP"}
  /\ decoder \in {"idle", "admitted"}
  /\ writePackIndex \in 0..MaxFrames
  /\ decoder = "admitted" => writePackIndex < MaxFrames
  /\ decoding \in SUBSET Frames
  /\ packMap_ \in SUBSET Frames
  /\ blank \in SUBSET packMap_
  /\ readPackIndex \in 0..MaxIndex
  /\ timeout \in 0..(MaxMiss + 1)
  /\ senderPc \in {"starting", "draining", "sleeping", "exited"}
  /\ storeQueue \in Seq(Frames)
  /\ sent \in SUBSET Frames
  /\ dropped \in SUBSET Frames
  /\ purged \in SUBSET Frames

-----------------------------------------------------------------------------
(* The task has just been started, its sender sleeps for 2 s.              *)
Init ==
  /\ status = "START"
  /\ decoder = "idle"
  /\ writePackIndex = 0
  /\ decoding = {} /\ packMap_ = {} /\ blank = {}
  /\ readPackIndex = 0
  /\ timeout = 0
  /\ senderPc = "starting"
  /\ storeQueue = <<>>
  /\ sent = {} /\ dropped = {} /\ purged = {}

(* setStatus(STOP) in stopPlayTask, whatever the other threads do.         *)
Stop ==
  /\ status = "START"
  /\ status' = "STOP"
  /\ UNCHANGED <<decoder, writePackIndex, readerVars, packVars, outVars>>

-----------------------------------------------------------------------------
(* DecCBFun reads the status once, then asks the SDK for the position and  *)
(* the time stamp; only then the frame gets its number.                    *)
FrameArrives ==
  /\ decoder = "idle"
  /\ status = "START"
  /\ writePackIndex < MaxFrames
  /\ decoder' = "admitted"
  /\ UNCHANGED <<status, writePackIndex, readerVars, packVars, outVars>>

FrameNumbered ==
  /\ decoder = "admitted"
  /\ decoder' = "idle"
  /\ writePackIndex' = writePackIndex + 1
  /\ \/ decoding' = decoding \cup {writePackIndex} /\ UNCHANGED dropped
     \/ dropped' = dropped \cup {writePackIndex} /\ UNCHANGED decoding
  /\ UNCHANGED <<status, readerVars, packMap_, blank, storeQueue, sent, purged>>

(* Mutant of AddPack: packMap_ is filled under the next index.             *)
AddPackOffByOne(i) ==
  /\ i \in decoding
  /\ decoding' = decoding \ {i}
  /\ packMap_' = packMap_ \cup {i + 1}
  /\ UNCHANGED <<writerVars, readerVars, outVars, blank>>

(* DecodeTask::Run: the pack is added even when the image stayed empty.    *)
AddPack(i) ==
  /\ i \in decoding
  /\ decoding' = decoding \ {i}
  /\ packMap_' = packMap_ \cup {i}
  /\ blank' \in {blank, blank \cup {i}}
  /\ UNCHANGED <<writerVars, readerVars, outVars>>

-----------------------------------------------------------------------------
(* Mutant of SenderWakes: the loop does not look at the status.            *)
SenderWakesAlways ==
  /\ senderPc \in {"starting", "sleeping"}
  /\ senderPc' = "draining"
  /\ UNCHANGED <<writerVars, packVars, outVars, readPackIndex, timeout>>

(* sendThd reads the status after its first sleep and after every poll.    *)
SenderWakes ==
  /\ senderPc \in {"starting", "sleeping"}
  /\ senderPc' = IF status = "START" THEN "draining" ELSE "exited"
  /\ UNCHANGED <<writerVars, packVars, outVars, readPackIndex, timeout>>

(* Mutant of Wanted: a reader that has waited long catches up faster.      *)
WantedJumps ==
  IF timeout > MaxMiss /\ readPackIndex + 1 < MaxIndex THEN readPackIndex + 2 ELSE readPackIndex

(* The index getPack looks for: it moves on first and looks afterwards.    *)
(* No frame has an index from MaxIndex on, there the reader may stand.     *)
Wanted ==
  IF timeout > MaxMiss /\ readPackIndex < MaxIndex THEN readPackIndex + 1 ELSE readPackIndex

(* Mutants of TakePack: the pack is not erased; timeout is not reset.      *)
TakePackKeeps ==
  /\ senderPc = "draining"
  /\ Wanted \in packMap_
  /\ readPackIndex' = Wanted + 1
  /\ timeout' = 0
  /\ storeQueue' = Append(storeQueue, Wanted)
  /\ UNCHANGED <<writerVars, packVars, senderPc, sent, dropped, purged>>

TakePackNoReset ==
  /\ senderPc = "draining"
  /\ Wanted \in packMap_
  /\ packMap_' = packMap_ \ {Wanted}
  /\ blank' = blank \ {Wanted}
  /\ readPackIndex' = Wanted + 1
  /\ storeQueue' = Append(storeQueue, Wanted)
  /\ UNCHANGED <<writerVars, decoding, timeout, senderPc, sent, dropped, purged>>

(* getPack finds its pack.  An empty image ends the draining; otherwise    *)
(* the message is queued if there is a topic, and the message pool may     *)
(* refuse it.                                                              *)
TakePack ==
  /\ senderPc = "draining"
  /\ Wanted \in packMap_
  /\ packMap_' = packMap_ \ {Wanted}
  /\ blank' = blank \ {Wanted}
  /\ readPackIndex' = Wanted + 1
  /\ timeout' = 0
  /\ \/ /\ Wanted \notin blank
        /\ HasTopic
        /\ storeQueue' = Append(storeQueue, Wanted)
        /\ UNCHANGED <<dropped, senderPc>>
     \/ /\ Wanted \notin blank
        /\ dropped' = dropped \cup {Wanted}
        /\ UNCHANGED <<storeQueue, senderPc>>
     \/ /\ Wanted \in blank
        /\ senderPc' = "sleeping"
        /\ dropped' = dropped \cup {Wanted}
        /\ UNCHANGED storeQueue
  /\ UNCHANGED <<writerVars, decoding, sent, purged>>

Purged ==
  IF Wanted % PurgePeriod = 0
  THEN {i \in packMap_ : i + PurgeSlack < Wanted}
  ELSE {}

(* Mutant of MissPack: every miss gives the index up.                      *)
MissPackMovesOn ==
  /\ senderPc = "draining"
  /\ Wanted \notin packMap_
  /\ Wanted < MaxIndex
  /\ readPackIndex' = Wanted + 1
  /\ timeout' = IF timeout > MaxMiss THEN timeout ELSE timeout + 1
  /\ senderPc' = "sleeping"
  /\ UNCHANGED <<writerVars, packVars, outVars>>

(* getPack finds nothing.                                                  *)
MissPack ==
  /\ senderPc = "draining"
  /\ Wanted \notin packMap_
  /\ readPackIndex' = Wanted
  /\ timeout' = IF timeout > MaxMiss THEN timeout ELSE timeout + 1
  /\ packMap_' = packMap_ \ Purged
  /\ blank' = blank \ Purged
  /\ purged' = purged \cup Purged
  /\ senderPc' = "sleeping"
  /\ UNCHANGED <<writerVars, decoding, storeQueue, sent, dropped>>

-----------------------------------------------------------------------------
(* Mutant of SendMessage: a message pool of several threads.               *)
SendAnyMessage ==
  /\ \E k \in 1..Len(storeQueue) :
       /\ sent' = sent \cup {storeQueue[k]}
       /\ storeQueue' = RemoveAt(storeQueue, k)
  /\ UNCHANGED <<writerVars, readerVars, packVars, dropped, purged>>

(* MessageTask::Run on the only thread of the message pool.                *)
SendMessage ==
  /\ storeQueue # <<>>
  /\ sent' = sent \cup {Head(storeQueue)}
  /\ storeQueue' = Tail(storeQueue)
  /\ UNCHANGED <<writerVars, readerVars, packVars, dropped, purged>>

Sender == SenderWakes \/ TakePack \/ MissPack

Next ==
  \/ Stop
  \/ FrameArrives
  \/ FrameNumbered
  \/ \E i \in Frames : AddPack(i)
  \/ Sender
  \/ SendMessage

Spec == Init /\ [][Next]_vars

(* The sender's thread and the message thread run; a decoder that was      *)
(* admitted returns; the pools work through their queues.  The SDK may     *)
(* stop delivering frames and nobody has to stop the task.                 *)
Fairness ==
  /\ WF_vars(FrameNumbered)
  /\ \A i \in Frames : WF_vars(AddPack(i))
  /\ WF_vars(Sender)
  /\ WF_vars(SendMessage)

FairSpec == Spec /\ Fairness

-----------------------------------------------------------------------------
Queued == ToSet(storeQueue)

(* No frame is duplicated, and none vanishes: every numbered frame is in   *)
(* exactly one place of the pipeline, or was sent, dropped or purged.      *)
FrameConserved ==
  LET places == <<decoding, packMap_, Queued, sent, dropped, purged>> IN
  /\ UNION {places[p] : p \in 1..6} = 0..(writePackIndex - 1)
  /\ \A p, q \in 1..6 : p # q => places[p] \cap places[q] = {}

(* The consumer of the topic sees a lossy FIFO.                            *)
Fifo == INSTANCE LossyFifo WITH written <- writePackIndex, delivered <- sent
RefinesLossyFifo == Fifo!FifoSpec

(* The reader gets ahead of the writer only in a row of more than MaxMiss  *)
(* misses: packs may have come meanwhile, but none under the index it was  *)
(* at.                                                                     *)
OvertakesOnlyOnTimeout ==
  readPackIndex > writePackIndex => timeout > MaxMiss

(* The only pack that waits and is passed over all the same is one that    *)
(* came, under the very index the reader stood at, after its last miss.    *)
NeverSkipsAhead ==
  [][\A i \in packMap_ :
       readPackIndex <= i /\ i < readPackIndex' =>
         \/ i \notin packMap_'
         \/ i = readPackIndex /\ timeout > MaxMiss]_vars

(* A pack that is ahead of the reader is taken, whatever frames before it  *)
(* were refused by the pool or are still being decoded.                    *)
AheadIsTaken ==
  \A i \in Frames :
    i \in packMap_ /\ i > readPackIndex
      ~> senderPc = "exited" \/ i \in Queued \cup sent \cup dropped

(* The sender of a stopped task exits, although it reads the status only   *)
(* between two rounds of draining.                                         *)
StoppedSenderExits == status = "STOP" ~> senderPc = "exited"
=============================================================================
