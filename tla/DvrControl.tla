----------------------------- MODULE DvrControl -----------------------------
(***************************************************************************)
(* The task registry (dvr_control.cpp), the life of a PlayTask             *)
(* (play_task.h) and the SDK streams that hold a raw pointer to it         *)
(* (hk_api.cpp).  Four kinds of threads interleave:                        *)
(*   - the HTTP thread, one handler at a time, with the steps at which     *)
(*     others can run in between (pc);                                     *)
(*   - the heartbeat thread, taskHeartCheck every 30 s;                    *)
(*   - the SDK, calling hkDataCallBack for every open stream;              *)
(*   - one sendThd per played task.                                        *)
(* Requests that change nothing (a missing task, a bad parameter) are      *)
(* stuttering steps and have no action, unless their answer matters.       *)
(***************************************************************************)
EXTENDS Naturals, LoginControl

CONSTANTS
  Tasks,         (* PlayTask objects; a freed one is never used again       *)
  TaskIds,       (* task ids clients may ask for                            *)
  Numbers,       (* numbers the SDK gives to streams                        *)
  NoTask, NoParam, NoHandle, NoStream, NoReply,
  TASK_TIMEOUT   (* TASK_TIMEOUT_SECONDS in ticks of 120/TASK_TIMEOUT s     *)

PlayTypes == {"PLAYREAL", "PLAYBACK"}

(* The SDK numbers live streams and playbacks apart.  The code keeps the   *)
(* number only: stopPlay closes a stream by the numbering of its task's    *)
(* type, the commands for playbacks always mean a playback.                *)
Handles == [type : PlayTypes, num : Numbers]

ASSUME DvrAssumption ==
  /\ NoTask \notin Tasks
  /\ NoHandle \notin Handles
  /\ TASK_TIMEOUT \in Nat \ {0}

Params == [id : TaskIds, user : UserIds, type : PlayTypes]
ASSUME NoParamAssumption == NoParam \notin Params

(* Why the service stopped caring for a stream that is still open.         *)
Losses == {"no",           (* it has not                                     *)
           "no_callback",  (* hk_api.cpp:231, the data callback was refused  *)
           "not_started",  (* hk_api.cpp:237, neither started nor closed     *)
           "erased",       (* dvr_control.cpp:103, task gone at the 2nd lock *)
           "no_api",       (* dvr_control.cpp:89, user logged out            *)
           "no_player",    (* hk_api.cpp:177, playback without player index  *)
           "refused"}      (* hk_api.cpp:182 and 189, the SDK said no        *)

Streams == [task : Tasks, cb : BOOLEAN, lost : Losses]
ASSUME NoStreamAssumption == NoStream \notin Streams

Messages == {"OK", "stop play failed", "no such task"}
Replies == [id : TaskIds, msg : Messages]
ASSUME NoReplyAssumption == NoReply \notin Replies

VARIABLES
  playTaskMap,  (* DVRControl::playTaskMap                                  *)
  param,        (* constructor arguments of a PlayTask, NoParam before      *)
  status,       (* PlayTask::status                                         *)
  playHandle,   (* PlayTask::playHandle, with the numbering it is from      *)
  updateAge,    (* whole ticks since PlayTask::updateTime, up to the limit  *)
  sendThd,      (* the sender thread of the task                            *)
  inCallback,   (* tasks with a thread inside hkDataCallBack                *)
  streams,      (* SDK side: open streams                                   *)
  pc,           (* where the HTTP thread is                                 *)
  held,         (* the shared_ptr of its current handler                    *)
  lid,          (* the stream handle play() has opened and not yet stored   *)
  reply         (* last answer to /stopplayback, until the next request     *)

taskVars == <<playTaskMap, param, status, playHandle, updateAge>>
httpVars == <<pc, held, lid, reply>>
dvrVars == <<taskVars, sendThd, inCallback, streams, httpVars>>
vars == <<loginVars, dvrVars>>

TypeOK ==
  /\ LoginTypeOK
  /\ playTaskMap \in [TaskIds -> Tasks \cup {NoTask}]
  /\ param \in [Tasks -> Params \cup {NoParam}]
  /\ status \in [Tasks -> {"START", "STOP"}]
  /\ playHandle \in [Tasks -> Handles \cup {NoHandle}]
  /\ updateAge \in [Tasks -> 0..TASK_TIMEOUT]
  /\ sendThd \in [Tasks -> {"none", "starting", "polling", "exited"}]
  /\ inCallback \in SUBSET Tasks
  /\ streams \in [Handles -> Streams \cup {NoStream}]
  /\ pc \in {"idle", "added", "opened", "stopping", "marked", "unlocked"}
  /\ held \in Tasks \cup {NoTask}
  /\ lid \in Handles \cup {NoHandle}
  /\ reply \in Replies \cup {NoReply}
  /\ pc = "idle" <=> held = NoTask
  /\ pc = "opened" <=> lid # NoHandle

-----------------------------------------------------------------------------
Init ==
  /\ LoginInit
  /\ playTaskMap = [id \in TaskIds |-> NoTask]
  /\ param = [t \in Tasks |-> NoParam]
  /\ status = [t \in Tasks |-> "STOP"]
  /\ playHandle = [t \in Tasks |-> NoHandle]
  /\ updateAge = [t \in Tasks |-> 0]
  /\ sendThd = [t \in Tasks |-> "none"]
  /\ inCallback = {}
  /\ streams = [h \in Handles |-> NoStream]
  /\ pc = "idle"
  /\ held = NoTask
  /\ lid = NoHandle
  /\ reply = NoReply

Registered(t) == \E id \in TaskIds : playTaskMap[id] = t

(* A PlayTask lives while the map or the running handler has a shared_ptr; *)
(* every other pointer to it is a raw one.                                 *)
Alive(t) == Registered(t) \/ held = t

(* DVRControl::lock is kept over play() and over the sleep(1) of           *)
(* stopPlayTask; all its other critical sections are single steps.         *)
LockFree == pc \notin {"opened", "marked"}

(* What play() and hkDataCallBack do between two readings of a clock takes *)
(* seconds, a tick is of the order of a minute: time that counts towards   *)
(* the timeout does not pass for a task while it is busy.                  *)
Busy(t) ==
  \/ t \in inCallback
  \/ sendThd[t] = "starting"
  \/ held = t /\ pc \in {"added", "opened"}

(* Mutant of EndRequest: the handler's shared_ptr outlives it.             *)
EndRequestHolding(answer) ==
  /\ pc' = "idle"
  /\ lid' = NoHandle
  /\ reply' = answer
  /\ UNCHANGED held

EndRequest(answer) ==
  /\ pc' = "idle"
  /\ held' = NoTask
  /\ lid' = NoHandle
  /\ reply' = answer

-----------------------------------------------------------------------------
(* /login and /logout.                                                     *)
UserRequest ==
  /\ pc = "idle"
  /\ \E u \in UserIds : Logout(u) \/ \E ip \in Ips : Login(ip, u)
  /\ EndRequest(NoReply)
  /\ UNCHANGED <<taskVars, sendThd, inCallback, streams>>

(* Mutant of AddTask: the id is not looked up first.                       *)
AddTaskOverwrites(t, p) ==
  /\ param[t] = NoParam
  /\ param' = [param EXCEPT ![t] = p]
  /\ playTaskMap' = [playTaskMap EXCEPT ![p.id] = t]

(* A new PlayTask is entered in the map unless a task has its id.          *)
AddTask(t, p) ==
  /\ param[t] = NoParam
  /\ playTaskMap[p.id] = NoTask
  /\ param' = [param EXCEPT ![t] = p]
  /\ playTaskMap' = [playTaskMap EXCEPT ![p.id] = t]

(* /playreal, /playback: the user's recorder is known, there is a file to  *)
(* play, and the task could be added; play() comes next.                   *)
PlayRequest(t, p) ==
  /\ pc = "idle"
  /\ HasApi(GetIp(p.user))
  /\ AddTask(t, p)
  /\ pc' = "added"
  /\ held' = t
  /\ reply' = NoReply
  /\ UNCHANGED <<loginVars, status, playHandle, updateAge, sendThd, inCallback,
                 streams, lid>>

(* play(): SdkApi could not open the stream, or closed it again.  The      *)
(* sender is started whatever the result.  That play() finds the task and  *)
(* its SdkApi is PlayFindsItsTask.                                         *)
PlayFails ==
  /\ pc = "added"
  /\ sendThd' = [sendThd EXCEPT ![held] = "starting"]
  /\ EndRequest(NoReply)
  /\ UNCHANGED <<loginVars, taskVars, inCallback, streams>>

(* playByTime also fails, and leaves the playback open, when its callback  *)
(* cannot be set, or when it neither starts nor stops.                     *)
PlayFailsOpen(h) ==
  /\ pc = "added"
  /\ param[held].type = "PLAYBACK" /\ h.type = "PLAYBACK"
  /\ streams[h] = NoStream
  /\ \/ streams' = [streams EXCEPT
           ![h] = [task |-> held, cb |-> FALSE, lost |-> "no_callback"]]
     \/ streams' = [streams EXCEPT
           ![h] = [task |-> held, cb |-> TRUE, lost |-> "not_started"]]
  /\ sendThd' = [sendThd EXCEPT ![held] = "starting"]
  /\ EndRequest(NoReply)
  /\ UNCHANGED <<loginVars, taskVars, inCallback>>

(* The stream is open and its callbacks arrive, the task still says STOP.  *)
PlayOpens(h) ==
  /\ pc = "added"
  /\ h.type = param[held].type
  /\ streams[h] = NoStream
  /\ streams' = [streams EXCEPT ![h] = [task |-> held, cb |-> TRUE, lost |-> "no"]]
  /\ pc' = "opened"
  /\ lid' = h
  /\ UNCHANGED <<loginVars, taskVars, sendThd, inCallback, held, reply>>

(* Mutants of PlayStarts: setStatus or setPlayHandle is forgotten.         *)
PlayStartsUnmarked ==
  /\ pc = "opened"
  /\ playHandle' = [playHandle EXCEPT ![held] = lid]
  /\ sendThd' = [sendThd EXCEPT ![held] = "starting"]
  /\ EndRequest(NoReply)
  /\ UNCHANGED <<loginVars, playTaskMap, param, status, updateAge, inCallback,
                 streams>>

PlayStartsUnhandled ==
  /\ pc = "opened"
  /\ status' = [status EXCEPT ![held] = "START"]
  /\ sendThd' = [sendThd EXCEPT ![held] = "starting"]
  /\ EndRequest(NoReply)
  /\ UNCHANGED <<loginVars, playTaskMap, param, playHandle, updateAge,
                 inCallback, streams>>

(* setPlayHandle and setStatus, still under the lock; then the sender.     *)
PlayStarts ==
  /\ pc = "opened"
  /\ playHandle' = [playHandle EXCEPT ![held] = lid]
  /\ status' = [status EXCEPT ![held] = "START"]
  /\ sendThd' = [sendThd EXCEPT ![held] = "starting"]
  /\ EndRequest(NoReply)
  /\ UNCHANGED <<loginVars, playTaskMap, param, updateAge, inCallback, streams>>

-----------------------------------------------------------------------------
(* /stopplayback: getByTaskId.                                             *)
StopRequest(id) ==
  /\ pc = "idle"
  /\ IF playTaskMap[id] = NoTask
     THEN EndRequest([id |-> id, msg |-> "no such task"])
     ELSE /\ pc' = "stopping"
          /\ held' = playTaskMap[id]
          /\ reply' = NoReply
          /\ UNCHANGED lid
  /\ UNCHANGED <<loginVars, taskVars, sendThd, inCallback, streams>>

StopFailed == [id |-> param[held].id, msg |-> "stop play failed"]

(* Mutant of StopMarks: it asks whether the handle is open, and not for the *)
(* status; the handle may be open for another task by now.                 *)
StopMarksByHandle ==
  /\ pc = "stopping"
  /\ IF \/ playTaskMap[param[held].id] = NoTask
        \/ playHandle[held] = NoHandle
        \/ streams[playHandle[held]] = NoStream
     THEN /\ EndRequest(StopFailed)
          /\ UNCHANGED status
     ELSE /\ status' = [status EXCEPT ![held] = "STOP"]
          /\ pc' = "marked"
          /\ UNCHANGED <<held, lid, reply>>
  /\ UNCHANGED <<loginVars, playTaskMap, param, playHandle, updateAge, sendThd,
                 inCallback, streams>>

(* First critical section of stopPlayTask, up to its sleep(1).             *)
StopMarks ==
  /\ pc = "stopping"
  /\ IF playTaskMap[param[held].id] = NoTask \/ status[held] = "STOP"
     THEN /\ EndRequest(StopFailed)
          /\ UNCHANGED status
     ELSE /\ status' = [status EXCEPT ![held] = "STOP"]
          /\ pc' = "marked"
          /\ UNCHANGED <<held, lid, reply>>
  /\ UNCHANGED <<loginVars, playTaskMap, param, playHandle, updateAge, sendThd,
                 inCallback, streams>>

(* Mutant of StopUnlocks: no sleep.                                        *)
StopUnlocksAtOnce ==
  /\ pc = "marked"
  /\ pc' = "unlocked"
  /\ UNCHANGED <<loginVars, taskVars, sendThd, inCallback, streams, held, lid,
                 reply>>

(* The sleep ends.  It is 25 times the period at which sendThd polls.      *)
StopUnlocks ==
  /\ pc = "marked"
  /\ sendThd[held] # "polling"
  /\ pc' = "unlocked"
  /\ UNCHANGED <<loginVars, taskVars, sendThd, inCallback, streams, held, lid,
                 reply>>

LoseStream(h, why) == streams' = [streams EXCEPT ![h].lost = why]

(* Mutant of StopFinishes: it waits until it finds the task.               *)
StopFinishesFound ==
  /\ pc = "unlocked"
  /\ playTaskMap[param[held].id] # NoTask
  /\ streams' = [streams EXCEPT ![playHandle[held]] = NoStream]
  /\ EndRequest([id |-> param[held].id, msg |-> "OK"])
  /\ UNCHANGED <<loginVars, taskVars, sendThd, inCallback>>

(* Second critical section: the task and its SdkApi are looked up again.   *)
(* The result of HkApi::stopPlay is ignored.                               *)
StopFinishes ==
  /\ pc = "unlocked"
  /\ \/ /\ playTaskMap[param[held].id] = NoTask
        /\ LoseStream(playHandle[held], "erased")
        /\ EndRequest(StopFailed)
     \/ /\ playTaskMap[param[held].id] # NoTask
        /\ ~HasApi(GetIp(param[held].user))
        /\ LoseStream(playHandle[held], "no_api")
        /\ EndRequest(StopFailed)
     \/ /\ playTaskMap[param[held].id] # NoTask
        /\ HasApi(GetIp(param[held].user))
        /\ \/ streams' = [streams EXCEPT ![playHandle[held]] = NoStream]
           \/ LoseStream(playHandle[held], "refused")
           \/ param[held].type = "PLAYBACK" /\ LoseStream(playHandle[held], "no_player")
        /\ EndRequest([id |-> param[held].id, msg |-> "OK"])
  /\ UNCHANGED <<loginVars, taskVars, sendThd, inCallback>>

(* /heart on a playing task; LoginControl::heartBeat under the same lock.  *)
HeartBeat(id) ==
  /\ pc = "idle"
  /\ playTaskMap[id] # NoTask
  /\ status[playTaskMap[id]] = "START"
  /\ updateAge' = [updateAge EXCEPT ![playTaskMap[id]] = 0]
  /\ UserHeartBeat(param[playTaskMap[id]].user)
  /\ EndRequest(NoReply)
  /\ UNCHANGED <<playTaskMap, param, status, playHandle, sendThd, inCallback,
                 streams>>

-----------------------------------------------------------------------------
(* Mutants of Expired: one of its two tests is missing.                    *)
ExpiredWhilePlaying(t) == updateAge[t] >= TASK_TIMEOUT
ExpiredAtOnce(t) == status[t] # "START"

Expired(t) == updateAge[t] >= TASK_TIMEOUT /\ status[t] # "START"

(* The heartbeat thread erases every expired task in one critical section. *)
TaskHeartCheck ==
  /\ LockFree
  /\ \E t \in Tasks : Registered(t) /\ Expired(t)
  /\ playTaskMap' = [id \in TaskIds |->
       IF playTaskMap[id] # NoTask /\ Expired(playTaskMap[id])
       THEN NoTask ELSE playTaskMap[id]]
  /\ UNCHANGED <<loginVars, param, status, playHandle, updateAge, sendThd,
                 inCallback, streams, httpVars>>

(* Mutant of StreamData: the task is refreshed before its status is read.  *)
StreamDataAnyStatus(h) ==
  /\ streams[h] # NoStream
  /\ streams[h].cb
  /\ LET t == streams[h].task IN
     /\ Alive(t)
     /\ t \notin inCallback
     /\ updateAge' = [updateAge EXCEPT ![t] = 0]
     /\ inCallback' = inCallback \cup {t}
  /\ UNCHANGED <<loginVars, playTaskMap, param, status, playHandle, sendThd,
                 streams, httpVars>>

(* hkDataCallBack on a task that plays: updateTime is refreshed first, the *)
(* data is then fed to the decoder, which can take three retries of 1 s.   *)
(* Once the task is freed the callback is undefined: the model only        *)
(* follows it while the task is alive, see DanglingOnlyIfLost.             *)
StreamData(h) ==
  /\ streams[h] # NoStream
  /\ streams[h].cb
  /\ LET t == streams[h].task IN
     /\ Alive(t)
     /\ t \notin inCallback
     /\ status[t] = "START"
     /\ updateAge' = [updateAge EXCEPT ![t] = 0]
     /\ inCallback' = inCallback \cup {t}
  /\ UNCHANGED <<loginVars, playTaskMap, param, status, playHandle, sendThd,
                 streams, httpVars>>

StreamDataDone(t) ==
  /\ t \in inCallback
  /\ inCallback' = inCallback \ {t}
  /\ UNCHANGED <<loginVars, taskVars, sendThd, streams, httpVars>>

(* sendThd: after sleep(2), and then every 40 ms, it looks at the status.  *)
SenderPolls(t) ==
  /\ sendThd[t] \in {"starting", "polling"}
  /\ sendThd' = [sendThd EXCEPT ![t] = IF status[t] = "START" THEN "polling" ELSE "exited"]
  /\ UNCHANGED <<loginVars, taskVars, inCallback, streams, httpVars>>

(* One more tick since updateTime; only the comparison with the timeout    *)
(* matters, so the age stops there.                                        *)
Ages(t) ==
  /\ param[t] # NoParam
  /\ ~Busy(t)
  /\ updateAge[t] < TASK_TIMEOUT
  /\ updateAge' = [updateAge EXCEPT ![t] = @ + 1]
  /\ UNCHANGED <<loginVars, playTaskMap, param, status, playHandle, sendThd,
                 inCallback, streams, httpVars>>

-----------------------------------------------------------------------------
HttpStep ==
  \/ PlayFails
  \/ \E h \in Handles : PlayFailsOpen(h) \/ PlayOpens(h)
  \/ PlayStarts
  \/ StopMarks
  \/ StopUnlocks
  \/ StopFinishes

Next ==
  \/ UserRequest
  \/ \E t \in Tasks, p \in Params : PlayRequest(t, p)
  \/ \E id \in TaskIds : StopRequest(id) \/ HeartBeat(id)
  \/ HttpStep
  \/ TaskHeartCheck
  \/ \E h \in Handles : StreamData(h)
  \/ \E t \in Tasks : StreamDataDone(t) \/ SenderPolls(t) \/ Ages(t)

Spec == Init /\ [][Next]_vars

(* Threads that are able to run do, callbacks return, clocks advance.      *)
(* Clients may stay silent.  The heartbeat thread competes for the lock    *)
(* with a thread that keeps giving it back: strong fairness.               *)
Fairness ==
  /\ WF_vars(HttpStep)
  /\ SF_vars(TaskHeartCheck)
  /\ \A t \in Tasks :
       /\ WF_vars(StreamDataDone(t))
       /\ WF_vars(SenderPolls(t))
       /\ WF_vars(Ages(t))

FairSpec == Spec /\ Fairness

-----------------------------------------------------------------------------
(* A task in state START is in the map under its own id, and its handle is *)
(* the open stream that reports to it: the heartbeat check never takes a   *)
(* playing task away, nor does a stop of another task.                     *)
StartedIsStreaming ==
  \A t \in Tasks : status[t] = "START" =>
    /\ playTaskMap[param[t].id] = t
    /\ playHandle[t] \in Handles
    /\ streams[playHandle[t]] = [task |-> t, cb |-> TRUE, lost |-> "no"]

(* play() finds the task its handler has just added, and an SdkApi for it. *)
PlayFindsItsTask ==
  pc = "added" => /\ playTaskMap[param[held].id] = held
                  /\ HasApi(GetIp(param[held].user))

(* No thread runs with a raw pointer to a freed task: not a data callback  *)
(* that was admitted, not the sender, which sleep(1) gives time to leave.  *)
NoUseAfterFree ==
  \A t \in Tasks : t \in inCallback \/ sendThd[t] \in {"starting", "polling"} =>
    Alive(t)

(* The SDK holds the address of a freed task only for a stream one of the  *)
(* six early exits gave up.                                                *)
DanglingOnlyIfLost ==
  \A h \in Handles :
    streams[h] # NoStream /\ streams[h].cb /\ ~Alive(streams[h].task) =>
      streams[h].lost # "no"

(* Every open stream the service still cares for is playing, being opened  *)
(* or being stopped, and the handle by which it will be closed is known.   *)
StreamAccounted ==
  \A h \in Handles :
    streams[h] # NoStream /\ streams[h].lost = "no" =>
      LET t == streams[h].task IN
      \/ status[t] = "START" /\ playHandle[t] = h
      \/ pc = "opened" /\ held = t /\ lid = h
      \/ pc \in {"marked", "unlocked"} /\ held = t /\ playHandle[t] = h

(* Messages carry the task id only: two streams never play under one id.   *)
OneStreamPerId ==
  \A g, h \in Handles :
    /\ g # h
    /\ streams[g] # NoStream /\ streams[g].lost = "no"
    /\ streams[h] # NoStream /\ streams[h].lost = "no"
    => param[streams[g].task].id # param[streams[h].task].id

(* A stream is closed by the stop request for its own task and by nothing  *)
(* else, whatever handles the SDK gives out again.                         *)
ClosedByItsStop ==
  [][\A h \in Handles :
       streams[h] # NoStream /\ streams'[h] = NoStream =>
         pc = "unlocked" /\ held = streams[h].task]_vars

(* stopPlay gets a number and the type of the task: these always name the  *)
(* stream that was opened, and never one of the other numbering.           *)
KindKept ==
  /\ \A t \in Tasks : playHandle[t] # NoHandle =>
       playHandle[t].type = param[t].type
  /\ \A h \in Handles : streams[h] # NoStream =>
       h.type = param[streams[h].task].type
  /\ pc = "opened" => lid.type = param[held].type

(* A stop is final: a task that played plays at most once, under the same  *)
(* handle, and a task that has left the map never comes back to it.        *)
StopIsFinal ==
  [][\A t \in Tasks :
       /\ playHandle[t] # NoHandle =>
            /\ playHandle'[t] = playHandle[t]
            /\ status[t] = "STOP" => status'[t] = "STOP"
       /\ param[t] # NoParam /\ ~Registered(t) => ~Registered(t)']_vars

(* The entry of an id is never overwritten: it is cleared, and then only   *)
(* of a stopped task that no thread is at work on.                         *)
EntryKept ==
  [][\A id \in TaskIds : LET t == playTaskMap[id] IN
       t # NoTask /\ playTaskMap'[id] # t =>
         /\ playTaskMap'[id] = NoTask
         /\ status[t] = "STOP" /\ t \notin inCallback
         /\ sendThd[t] \in {"none", "exited"}]_vars

(* What a client sees of its id: the abstract registry is implemented.     *)
Phase(id) ==
  LET t == playTaskMap[id] IN
  IF t = NoTask THEN "free"
  ELSE IF status[t] = "START" THEN "playing"
  ELSE IF held = t /\ pc \in {"added", "opened"} THEN "reserved"
  ELSE "stopped"

Registry == INSTANCE TaskRegistry WITH phase <- [id \in TaskIds |-> Phase(id)]
RefinesRegistry == Registry!RegistrySpec

(* A stopped or failed task gives its id back: the timeout is eventually   *)
(* reached and nothing keeps refreshing it.                                *)
StoppedIsCleared ==
  \A t \in Tasks :
    Registered(t) /\ status[t] = "STOP" ~> ~Registered(t) \/ status[t] = "START"

(* The only thread that serves requests always gets back to the next one:  *)
(* none of its waits, for a lock or a sleep with or without one, lasts.    *)
HandlerReturns == pc # "idle" ~> pc = "idle"

(* The stream of a task that has played under this id is still open.       *)
StillOpen(id) ==
  \E h \in Handles :
    /\ streams[h] # NoStream
    /\ playHandle[streams[h].task] = h
    /\ param[streams[h].task].id = id

(* http-server.cpp:239 answers "stop play failed" when the stop fails, so  *)
(* "OK" should mean that the stream is closed.  stopPlayTask ignores what  *)
(* HkApi::stopPlay returns.                                                *)
OkMeansClosed ==
  reply # NoReply /\ reply.msg = "OK" => ~StillOpen(reply.id)
=============================================================================
