----------------------------- MODULE SharedPools -----------------------------
(***************************************************************************)
(* The pools of play.cpp between the steps of a FramePipeline: one decode  *)
(* pool and one message pool, found by taskId & 0xf and shared with every  *)
(* other task that has the same four bits.  The others are not told apart: *)
(* their jobs may arrive at any time and without end.                      *)
(***************************************************************************)
EXTENDS FramePipeline

CONSTANTS
  DecodeThreads,  (* threads of a decode pool: 10 in the code               *)
  Capacity,       (* MAX_DECODE_TASK                                        *)
  Other, Idle

ASSUME PoolsAssumption ==
  /\ DecodeThreads # {}
  /\ Capacity \in Nat \ {0}
  /\ Other \notin Nat /\ Idle \notin Nat /\ Other # Idle

Jobs == Frames \cup {Other}

VARIABLES
  decodeQueue,   (* jobs waiting in executorService[taskId & 0xf]           *)
  running,       (* the job of each of its threads                          *)
  messageQueue   (* jobs in executorServiceMessage[taskId & 0xf], of which  *)
                 (* the one thread works on the first                       *)

poolVars == <<decodeQueue, running, messageQueue>>
sharedVars == <<vars, poolVars>>

SharedTypeOK ==
  /\ decodeQueue \in Seq(Jobs)
  /\ running \in [DecodeThreads -> Jobs \cup {Idle}]
  /\ messageQueue \in Seq(Jobs)
  /\ Len(decodeQueue) <= Capacity
  /\ Len(messageQueue) <= Capacity

SharedInit ==
  /\ Init
  /\ decodeQueue = <<>>
  /\ running = [w \in DecodeThreads |-> Idle]
  /\ messageQueue = <<>>

-----------------------------------------------------------------------------
(* Execute: a full pool refuses the job and calls its ErrorMsg.            *)
Accepts(queue) == Len(queue) < Capacity

OthersWork ==
  /\ \/ /\ Accepts(decodeQueue)
        /\ decodeQueue' = Append(decodeQueue, Other)
        /\ UNCHANGED messageQueue
     \/ /\ Accepts(messageQueue)
        /\ messageQueue' = Append(messageQueue, Other)
        /\ UNCHANGED decodeQueue
  /\ UNCHANGED <<vars, running>>

(* Steps of the task that touch no pool.                                   *)
TaskSteps ==
  /\ Stop \/ FrameArrives \/ SenderWakes \/ MissPack
  /\ UNCHANGED poolVars

FrameQueued ==
  /\ FrameNumbered
  /\ Accepts(decodeQueue) <=> writePackIndex \in decoding'
  /\ decodeQueue' = IF Accepts(decodeQueue)
                    THEN Append(decodeQueue, writePackIndex)
                    ELSE decodeQueue
  /\ UNCHANGED <<running, messageQueue>>

(* Mutant of StartsJob: the youngest job first.                            *)
StartsLastJob(w) ==
  /\ running[w] = Idle
  /\ decodeQueue # <<>>
  /\ running' = [running EXCEPT ![w] = Last(decodeQueue)]
  /\ decodeQueue' = Front(decodeQueue)
  /\ UNCHANGED <<vars, messageQueue>>

StartsJob(w) ==
  /\ running[w] = Idle
  /\ decodeQueue # <<>>
  /\ running' = [running EXCEPT ![w] = Head(decodeQueue)]
  /\ decodeQueue' = Tail(decodeQueue)
  /\ UNCHANGED <<vars, messageQueue>>

EndsJob(w) ==
  /\ running[w] # Idle
  /\ running' = [running EXCEPT ![w] = Idle]
  /\ IF running[w] = Other THEN UNCHANGED vars ELSE AddPack(running[w])
  /\ UNCHANGED <<decodeQueue, messageQueue>>

(* A pack with an image and a topic is refused only by a full pool.        *)
MessageQueued ==
  /\ TakePack
  /\ IF Wanted \notin blank /\ HasTopic /\ Accepts(messageQueue)
     THEN /\ storeQueue' # storeQueue
          /\ messageQueue' = Append(messageQueue, Wanted)
     ELSE /\ storeQueue' = storeQueue
          /\ UNCHANGED messageQueue
  /\ UNCHANGED <<decodeQueue, running>>

MessageDone ==
  /\ messageQueue # <<>>
  /\ IF Head(messageQueue) = Other THEN UNCHANGED vars ELSE SendMessage
  /\ messageQueue' = Tail(messageQueue)
  /\ UNCHANGED <<decodeQueue, running>>

SharedNext ==
  \/ OthersWork
  \/ TaskSteps
  \/ FrameQueued
  \/ \E w \in DecodeThreads : StartsJob(w) \/ EndsJob(w)
  \/ MessageQueued
  \/ MessageDone

SharedSpec == SharedInit /\ [][SharedNext]_sharedVars

(* Every thread of the service runs; the other tasks owe nothing.          *)
SharedFairness ==
  /\ WF_sharedVars(FrameQueued)
  /\ \A w \in DecodeThreads : WF_sharedVars(StartsJob(w) \/ EndsJob(w))
  /\ WF_sharedVars(MessageQueued \/ (TaskSteps /\ (SenderWakes \/ MissPack)))
  /\ WF_sharedVars(MessageDone)

FairSharedSpec == SharedSpec /\ SharedFairness

-----------------------------------------------------------------------------
(* The jobs of this task in its decode pool, by their frames.              *)
InPool == (ToSet(decodeQueue) \cup {running[w] : w \in DecodeThreads}) \cap Frames

(* A pointer to this task (TaskParam::task_) is in a decode pool for each  *)
(* frame the task counts as being decoded, and for no other: once, in the  *)
(* queue or on one thread.                                                 *)
JobsMatch ==
  /\ decoding = InPool
  /\ \A i \in decoding, w \in DecodeThreads : running[w] = i =>
       i \notin ToSet(decodeQueue)
  /\ \A v, w \in DecodeThreads : running[v] = running[w] /\ v # w =>
       running[v] \notin Frames

(* The frames among the jobs of a message queue have ascending numbers.    *)
Ascending(queue) ==
  \A k, l \in 1..Len(queue) :
    k < l /\ queue[k] \in Frames /\ queue[l] \in Frames => queue[k] < queue[l]

(* The messages of this task in its message pool are those it counts as    *)
(* queued, in the order of their frames, whatever lies between them.       *)
MessagesMatch ==
  /\ ToSet(messageQueue) \cap Frames = Queued
  /\ Ascending(messageQueue)

(* The message that the pool's thread has done is the one the task counts  *)
(* as sent.                                                                *)
DoneIsSent ==
  [][MessageDone /\ Head(messageQueue) \in Frames =>
       sent' = sent \cup {Head(messageQueue)}]_sharedVars

(* What a FramePipeline takes for granted of the pools holds when others   *)
(* share them: a full pool may refuse a frame, but one that was accepted   *)
(* is decoded and sent in the end, under any load by other tasks.          *)
RefinesPipeline == FairSpec

(* The task pointer in TaskParam::task_: from some time after the stop on, *)
(* no job holds it any more.                                               *)
StoppedLeavesPool == status = "STOP" ~> [](InPool = {})
=============================================================================
