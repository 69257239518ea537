-------------------------- MODULE DvrControlProofs --------------------------
(***************************************************************************)
(* Proofs about DvrControl for every number of recorders, logins, tasks,   *)
(* ids and stream handles, and for every timeout.                          *)
(***************************************************************************)
EXTENDS DvrControl, TLAPS

-----------------------------------------------------------------------------
(* The inductive invariant, in parts.                                      *)

(* A task is filed under its own id and so under no other, the running     *)
(* handler and the SDK only know tasks that were constructed, and nothing  *)
(* has happened yet to the others.                                         *)
TasksFiled ==
  /\ held # NoTask => param[held] \in Params
  /\ \A id \in TaskIds : playTaskMap[id] # NoTask =>
       param[playTaskMap[id]] \in Params /\ param[playTaskMap[id]].id = id
  /\ \A h \in Handles : streams[h] # NoStream => param[streams[h].task] \in Params
  /\ \A t \in Tasks : param[t] = NoParam =>
       /\ status[t] = "STOP"
       /\ playHandle[t] = NoHandle
       /\ sendThd[t] = "none"
       /\ updateAge[t] = 0

(* What play() and stopPlayTask know of their task between two steps.      *)
HandlerKnows ==
  /\ pc \in {"added", "opened"} =>
       /\ playTaskMap[param[held].id] = held
       /\ HasApi(GetIp(param[held].user))
       /\ status[held] = "STOP"
       /\ playHandle[held] = NoHandle
       /\ sendThd[held] = "none"
       /\ updateAge[held] = 0
  /\ pc = "opened" => streams[lid] = [task |-> held, cb |-> TRUE, lost |-> "no"]
  /\ pc \in {"marked", "unlocked"} =>
       /\ status[held] = "STOP"
       /\ playHandle[held] \in Handles
       /\ streams[playHandle[held]] = [task |-> held, cb |-> TRUE, lost |-> "no"]
  /\ pc = "marked" => playTaskMap[param[held].id] = held
  /\ pc = "unlocked" => playTaskMap[param[held].id] \in {held, NoTask}

(* A busy task was refreshed a moment ago and is still in the map; a       *)
(* sender that polls does so for a task that plays, or for one whose stop  *)
(* sleeps to let it see the status.                                        *)
ThreadsKnown ==
  \A t \in Tasks :
    /\ t \in inCallback \/ sendThd[t] = "starting" =>
         updateAge[t] = 0 /\ param[t] \in Params /\ playTaskMap[param[t].id] = t
    /\ sendThd[t] = "polling" =>
         status[t] = "START" \/ (pc = "marked" /\ held = t)

Inv ==
  /\ TypeOK
  /\ LoginBacked
  /\ TasksFiled
  /\ HandlerKnows
  /\ ThreadsKnown
  /\ StartedIsStreaming
  /\ StreamAccounted

-----------------------------------------------------------------------------
(* Each action keeps the variables in their types.                         *)
LEMMA TypeStep ==
  ASSUME TypeOK, TasksFiled, HandlerKnows, [Next]_vars
  PROVE  TypeOK'
<1> USE LoginAssumption, DvrAssumption
    DEF TypeOK, LoginTypeOK, loginVars, taskVars, httpVars
<1>a. 0 \in 0..TASK_TIMEOUT
  OBVIOUS
<1>1. CASE UserRequest
  <2>1. /\ pc' = "idle" /\ held' = NoTask /\ lid' = NoHandle /\ reply' = NoReply
        /\ UNCHANGED <<taskVars, sendThd, inCallback, streams>>
    BY <1>1 DEF UserRequest, EndRequest
  <2>2. LoginTypeOK'
    BY <1>1 DEF UserRequest, Login, Logout
  <2> QED BY <2>1, <2>2
<1>2. ASSUME NEW t \in Tasks, NEW p \in Params, PlayRequest(t, p)
      PROVE  TypeOK'
  BY <1>2 DEF PlayRequest, AddTask, Params
<1>3. ASSUME NEW id \in TaskIds, StopRequest(id)
      PROVE  TypeOK'
  <2>1. [id |-> id, msg |-> "no such task"] \in Replies
    BY DEF Replies, Messages
  <2> QED BY <1>3, <2>1 DEF StopRequest, EndRequest
<1>4. ASSUME NEW id \in TaskIds, HeartBeat(id)
      PROVE  TypeOK'
  <2>1. param[playTaskMap[id]].user \in UserIds
    BY <1>4 DEF HeartBeat, TasksFiled, Params
  <2>2. LoginTypeOK'
    BY <1>4, <2>1 DEF HeartBeat, UserHeartBeat, GetIp
  <2> QED BY <1>4, <1>a, <2>2 DEF HeartBeat, EndRequest
<1>5. CASE PlayFails
  BY <1>5 DEF PlayFails, EndRequest
<1>6. ASSUME NEW h \in Handles, PlayFailsOpen(h)
      PROVE  TypeOK'
  <2>1. held \in Tasks
    BY <1>6 DEF PlayFailsOpen
  <2>2. /\ [task |-> held, cb |-> FALSE, lost |-> "no_callback"] \in Streams
        /\ [task |-> held, cb |-> TRUE, lost |-> "not_started"] \in Streams
    BY <2>1 DEF Streams, Losses
  <2>3. streams' \in [Handles -> Streams \cup {NoStream}]
    BY <1>6, <2>2 DEF PlayFailsOpen
  <2> QED BY <1>6, <2>3 DEF PlayFailsOpen, EndRequest
<1>7. ASSUME NEW h \in Handles, PlayOpens(h)
      PROVE  TypeOK'
  <2>1. [task |-> held, cb |-> TRUE, lost |-> "no"] \in Streams
    BY <1>7 DEF PlayOpens, Streams, Losses
  <2> QED BY <1>7, <2>1 DEF PlayOpens
<1>8. CASE PlayStarts
  BY <1>8 DEF PlayStarts, EndRequest
<1>9. CASE StopMarks
  <2>1. StopFailed \in Replies
    BY <1>9 DEF StopMarks, StopFailed, TasksFiled, Params, Replies, Messages
  <2> QED BY <1>9, <2>1 DEF StopMarks, EndRequest
<1>10. CASE StopUnlocks
  BY <1>10 DEF StopUnlocks
<1>11. CASE StopFinishes
  <2>1. param[held].id \in TaskIds
    BY <1>11 DEF StopFinishes, TasksFiled, Params
  <2>2. StopFailed \in Replies /\ [id |-> param[held].id, msg |-> "OK"] \in Replies
    BY <2>1 DEF StopFailed, Replies, Messages
  <2>3. pc' = "idle" /\ held' = NoTask /\ lid' = NoHandle /\ reply' \in Replies
    BY <1>11, <2>2 DEF StopFinishes, EndRequest
  <2>4. ASSUME NEW why \in Losses
        PROVE  [streams EXCEPT ![playHandle[held]].lost = why]
                 \in [Handles -> Streams \cup {NoStream}]
    <3>1. /\ held \in Tasks
          /\ playHandle[held] \in Handles
          /\ streams[playHandle[held]] = [task |-> held, cb |-> TRUE, lost |-> "no"]
      BY <1>11 DEF StopFinishes, HandlerKnows
    <3>2. streams[playHandle[held]] \in Streams
      BY <3>1 DEF Streams, Losses
    <3>3. [streams[playHandle[held]] EXCEPT !.lost = why] \in Streams
      BY <3>2 DEF Streams
    <3> QED BY <3>1, <3>3
  <2>5. streams' \in [Handles -> Streams \cup {NoStream}]
    BY <1>11, <2>4 DEF StopFinishes, LoseStream, Losses
  <2>6. UNCHANGED <<loginVars, taskVars, sendThd, inCallback>>
    BY <1>11 DEF StopFinishes
  <2> QED BY <2>3, <2>5, <2>6
<1>12. CASE TaskHeartCheck
  BY <1>12 DEF TaskHeartCheck
<1>13. ASSUME NEW h \in Handles, StreamData(h)
       PROVE  TypeOK'
  <2>1. streams[h].task \in Tasks
    BY <1>13 DEF StreamData, Streams
  <2> QED BY <1>13, <1>a, <2>1 DEF StreamData
<1>14. ASSUME NEW t \in Tasks, StreamDataDone(t)
       PROVE  TypeOK'
  BY <1>14 DEF StreamDataDone
<1>15. ASSUME NEW t \in Tasks, SenderPolls(t)
       PROVE  TypeOK'
  BY <1>15 DEF SenderPolls
<1>16. ASSUME NEW t \in Tasks, Ages(t)
       PROVE  TypeOK'
  BY <1>16 DEF Ages
<1>17. CASE UNCHANGED vars
  BY <1>17 DEF vars, dvrVars
<1> QED
  BY <1>1, <1>2, <1>3, <1>4, <1>5, <1>6, <1>7, <1>8, <1>9, <1>10, <1>11, <1>12,
     <1>13, <1>14, <1>15, <1>16, <1>17 DEF Next, HttpStep
-----------------------------------------------------------------------------
(* Each action keeps the invariant.                                        *)
LEMMA InvStep == Inv /\ [Next]_vars => Inv'
<1> SUFFICES ASSUME Inv, [Next]_vars
             PROVE  Inv'
  OBVIOUS
<1> USE LoginAssumption, DvrAssumption, NoParamAssumption, NoStreamAssumption
    DEF Inv, TypeOK, LoginTypeOK, loginVars, taskVars, httpVars
<1>0. TypeOK'
  BY TypeStep
<1>1. CASE UserRequest
  <2>1. /\ LoginBacked' /\ TasksFiled' /\ HandlerKnows'
        /\ ThreadsKnown' /\ StartedIsStreaming' /\ StreamAccounted'
    BY <1>1 DEF UserRequest, Login, Logout, EndRequest, LoginBacked, TasksFiled,
           HandlerKnows, ThreadsKnown, StartedIsStreaming, StreamAccounted,
           GetIp, HasApi
  <2> QED BY <1>0, <2>1
<1>2. ASSUME NEW t \in Tasks, NEW p \in Params, PlayRequest(t, p)
      PROVE  Inv'
  <2>1. /\ LoginBacked' /\ TasksFiled' /\ ThreadsKnown'
        /\ StartedIsStreaming' /\ StreamAccounted'
    BY <1>2 DEF PlayRequest, AddTask, LoginBacked, TasksFiled, ThreadsKnown,
           StartedIsStreaming, StreamAccounted
  <2>2. HandlerKnows'
    <3>1. /\ status[t] = "STOP" /\ playHandle[t] = NoHandle
          /\ sendThd[t] = "none" /\ updateAge[t] = 0
      BY <1>2 DEF PlayRequest, AddTask, TasksFiled
    <3>2. pc' = "added" /\ held' = t /\ param'[t] = p /\ playTaskMap'[p.id] = t
      BY <1>2 DEF PlayRequest, AddTask, Params
    <3> QED BY <1>2, <3>1, <3>2 DEF PlayRequest, AddTask, HandlerKnows, HasApi,
    GetIp
  <2> QED BY <1>0, <2>1, <2>2
<1>3. ASSUME NEW id \in TaskIds, StopRequest(id)
      PROVE  Inv'
  <2>1. /\ LoginBacked' /\ TasksFiled' /\ HandlerKnows'
        /\ ThreadsKnown' /\ StartedIsStreaming' /\ StreamAccounted'
    BY <1>3 DEF StopRequest, EndRequest, LoginBacked, TasksFiled, HandlerKnows,
           ThreadsKnown, StartedIsStreaming, StreamAccounted, GetIp, HasApi
  <2> QED BY <1>0, <2>1
<1>4. ASSUME NEW id \in TaskIds, HeartBeat(id)
      PROVE  Inv'
  <2>1. /\ LoginBacked' /\ TasksFiled' /\ HandlerKnows'
        /\ ThreadsKnown' /\ StartedIsStreaming' /\ StreamAccounted'
    BY <1>4 DEF HeartBeat, UserHeartBeat, EndRequest, LoginBacked, TasksFiled,
           HandlerKnows, ThreadsKnown, StartedIsStreaming, StreamAccounted,
           GetIp, HasApi
  <2> QED BY <1>0, <2>1
<1>5. CASE PlayFails
  <2>1. /\ LoginBacked' /\ TasksFiled' /\ HandlerKnows'
        /\ StartedIsStreaming' /\ StreamAccounted'
    BY <1>5 DEF PlayFails, EndRequest, LoginBacked, TasksFiled, HandlerKnows,
           StartedIsStreaming, StreamAccounted, GetIp, HasApi
  <2>2. ThreadsKnown'
    BY <1>5 DEF PlayFails, EndRequest, ThreadsKnown, TasksFiled, HandlerKnows
  <2> QED BY <1>0, <2>1, <2>2
<1>6. ASSUME NEW h \in Handles, PlayFailsOpen(h)
      PROVE  Inv'
  <2>1. LoginBacked' /\ TasksFiled' /\ HandlerKnows' /\ StreamAccounted'
    BY <1>6 DEF PlayFailsOpen, EndRequest, LoginBacked, TasksFiled,
           HandlerKnows, StreamAccounted, GetIp, HasApi
  <2>2. ThreadsKnown'
    BY <1>6 DEF PlayFailsOpen, EndRequest, ThreadsKnown, TasksFiled,
           HandlerKnows
  <2>3. StartedIsStreaming'
    <3> SUFFICES ASSUME NEW t \in Tasks, status[t] = "START"
                 PROVE  streams'[playHandle[t]] = streams[playHandle[t]]
      BY <1>6 DEF PlayFailsOpen, StartedIsStreaming
    <3>1. [task |-> t, cb |-> TRUE, lost |-> "no"] \in Streams
      BY DEF Streams, Losses
    <3>2. streams[playHandle[t]] # NoStream
      BY <3>1 DEF StartedIsStreaming
    <3> QED BY <1>6, <3>2 DEF PlayFailsOpen, StartedIsStreaming
  <2> QED BY <1>0, <2>1, <2>2, <2>3
<1>7. ASSUME NEW h \in Handles, PlayOpens(h)
      PROVE  Inv'
  <2>1. /\ LoginBacked' /\ TasksFiled' /\ HandlerKnows'
        /\ ThreadsKnown' /\ StreamAccounted'
    BY <1>7 DEF PlayOpens, LoginBacked, TasksFiled, HandlerKnows, ThreadsKnown,
           StreamAccounted, GetIp, HasApi
  <2>2. StartedIsStreaming'
    <3> SUFFICES ASSUME NEW t \in Tasks, status[t] = "START"
                 PROVE  streams'[playHandle[t]] = streams[playHandle[t]]
      BY <1>7 DEF PlayOpens, StartedIsStreaming
    <3>1. [task |-> t, cb |-> TRUE, lost |-> "no"] \in Streams
      BY DEF Streams, Losses
    <3>2. streams[playHandle[t]] # NoStream
      BY <3>1 DEF StartedIsStreaming
    <3> QED BY <1>7, <3>2 DEF PlayOpens, StartedIsStreaming
  <2> QED BY <1>0, <2>1, <2>2
<1>8. CASE PlayStarts
  <2>1. LoginBacked' /\ TasksFiled' /\ HandlerKnows'
    BY <1>8 DEF PlayStarts, EndRequest, LoginBacked, TasksFiled, HandlerKnows,
           GetIp, HasApi
  <2>2. ThreadsKnown'
    BY <1>8 DEF PlayStarts, EndRequest, ThreadsKnown, TasksFiled, HandlerKnows
  <2>3. StartedIsStreaming'
    <3> SUFFICES ASSUME NEW t \in Tasks, status'[t] = "START"
                 PROVE  /\ playTaskMap[param[t].id] = t
                        /\ playHandle'[t] \in Handles
                        /\ streams[playHandle'[t]]
                             = [task |-> t, cb |-> TRUE, lost |-> "no"]
      BY <1>8 DEF PlayStarts, StartedIsStreaming
    <3>1. CASE t = held
      BY <1>8, <3>1 DEF PlayStarts, HandlerKnows
    <3>2. CASE t # held
      BY <1>8, <3>2 DEF PlayStarts, StartedIsStreaming
    <3> QED BY <3>1, <3>2
  <2>4. StreamAccounted'
    BY <1>8 DEF PlayStarts, EndRequest, StreamAccounted, HandlerKnows
  <2> QED BY <1>0, <2>1, <2>2, <2>3, <2>4
<1>9. CASE StopMarks
  <2>1. LoginBacked' /\ TasksFiled' /\ ThreadsKnown' /\ StartedIsStreaming'
    BY <1>9 DEF StopMarks, EndRequest, LoginBacked, TasksFiled, ThreadsKnown,
           StartedIsStreaming
  <2>2. HandlerKnows'
    BY <1>9 DEF StopMarks, EndRequest, HandlerKnows, StartedIsStreaming, GetIp,
           HasApi
  <2>3. StreamAccounted'
    <3> SUFFICES ASSUME NEW h \in Handles, streams[h] # NoStream, streams[h].lost = "no"
                 PROVE  LET t == streams[h].task IN
                        \/ status'[t] = "START" /\ playHandle[t] = h
                        \/ pc' = "marked" /\ held' = t /\ playHandle[t] = h
      BY <1>9 DEF StopMarks, StreamAccounted
    <3>1. streams[h].task \in Tasks
      BY DEF Streams
    <3>2. status[streams[h].task] = "START" /\ playHandle[streams[h].task] = h
      BY <1>9 DEF StopMarks, StreamAccounted
    <3> QED BY <1>9, <3>1, <3>2 DEF StopMarks
  <2> QED BY <1>0, <2>1, <2>2, <2>3
<1>10. CASE StopUnlocks
  <2>1. /\ LoginBacked' /\ TasksFiled' /\ HandlerKnows'
        /\ ThreadsKnown' /\ StartedIsStreaming' /\ StreamAccounted'
    BY <1>10 DEF StopUnlocks, LoginBacked, TasksFiled, HandlerKnows,
           ThreadsKnown, StartedIsStreaming, StreamAccounted, GetIp, HasApi
  <2> QED BY <1>0, <2>1
<1>11. CASE StopFinishes
  <2>1. LoginBacked' /\ HandlerKnows' /\ ThreadsKnown'
    BY <1>11 DEF StopFinishes, EndRequest, LoseStream, LoginBacked,
           HandlerKnows, ThreadsKnown, GetIp, HasApi
  <2>2. TasksFiled'
    BY <1>11 DEF StopFinishes, EndRequest, LoseStream, TasksFiled, HandlerKnows
  <2>3. StartedIsStreaming'
    BY <1>11 DEF StopFinishes, EndRequest, LoseStream, StartedIsStreaming,
           HandlerKnows
  <2>4. StreamAccounted'
    BY <1>11 DEF StopFinishes, EndRequest, LoseStream, StreamAccounted,
           HandlerKnows
  <2> QED BY <1>0, <2>1, <2>2, <2>3, <2>4
<1>12. CASE TaskHeartCheck
  <2>1. ASSUME NEW t \in Tasks, NEW id \in TaskIds, playTaskMap[id] = t,
               updateAge[t] = 0 \/ status[t] = "START"
        PROVE  playTaskMap'[id] = t
    BY <1>12, <2>1 DEF TaskHeartCheck, Expired
  <2>2. UNCHANGED <<loginVars, param, status, playHandle, updateAge, sendThd,
                    inCallback, streams, httpVars>>
    BY <1>12 DEF TaskHeartCheck
  <2>3. ASSUME NEW id \in TaskIds
        PROVE  playTaskMap'[id] \in {playTaskMap[id], NoTask}
    BY <1>12 DEF TaskHeartCheck
  <2>4. LoginBacked' /\ TasksFiled' /\ StreamAccounted'
    BY <2>2, <2>3 DEF LoginBacked, TasksFiled, StreamAccounted
  <2>5. HandlerKnows'
    <3>1. pc # "marked"
      BY <1>12 DEF TaskHeartCheck, LockFree
    <3>2. held # NoTask => held \in Tasks /\ param[held].id \in TaskIds
      BY DEF TasksFiled, Params
    <3> QED BY <2>1, <2>2, <2>3, <3>1, <3>2 DEF HandlerKnows, HasApi, GetIp
  <2>6. ThreadsKnown'
    <3> SUFFICES ASSUME NEW t \in Tasks, t \in inCallback \/ sendThd[t] = "starting"
                 PROVE  playTaskMap'[param[t].id] = t
      BY <2>2 DEF ThreadsKnown
    <3>1. updateAge[t] = 0 /\ param[t].id \in TaskIds /\ playTaskMap[param[t].id] = t
      BY DEF ThreadsKnown, Params
    <3> QED BY <2>1, <3>1
  <2>7. StartedIsStreaming'
    <3> SUFFICES ASSUME NEW t \in Tasks, status[t] = "START"
                 PROVE  playTaskMap'[param[t].id] = t
      BY <2>2 DEF StartedIsStreaming
    <3>1. param[t] \in Params
      BY DEF TasksFiled
    <3>2. param[t].id \in TaskIds /\ playTaskMap[param[t].id] = t
      BY <3>1 DEF StartedIsStreaming, Params
    <3> QED BY <2>1, <3>2
  <2> QED BY <1>0, <2>4, <2>5, <2>6, <2>7
<1>13. ASSUME NEW h \in Handles, StreamData(h)
      PROVE  Inv'
  <2>1. /\ LoginBacked' /\ TasksFiled' /\ HandlerKnows'
        /\ StartedIsStreaming' /\ StreamAccounted'
    BY <1>13 DEF StreamData, LoginBacked, TasksFiled, HandlerKnows,
           StartedIsStreaming, StreamAccounted, GetIp, HasApi
  <2>2. ThreadsKnown'
    <3> DEFINE s == streams[h].task
    <3>1. s \in Tasks /\ status[s] = "START"
      BY <1>13 DEF StreamData, Streams
    <3> HIDE DEF s
    <3>2. param[s] \in Params
      BY <3>1 DEF TasksFiled
    <3>3. playTaskMap[param[s].id] = s
      BY <3>1, <3>2 DEF StartedIsStreaming
    <3>4. updateAge' = [updateAge EXCEPT ![s] = 0] /\ inCallback' = inCallback \cup {s}
      BY <1>13 DEF StreamData, s
    <3>5. UNCHANGED <<playTaskMap, param, status, sendThd, pc, held>>
      BY <1>13 DEF StreamData
    <3> QED BY <3>1, <3>2, <3>3, <3>4, <3>5 DEF ThreadsKnown
  <2> QED BY <1>0, <2>1, <2>2
<1>14. ASSUME NEW t \in Tasks, StreamDataDone(t)
      PROVE  Inv'
  <2>1. /\ LoginBacked' /\ TasksFiled' /\ HandlerKnows'
        /\ ThreadsKnown' /\ StartedIsStreaming' /\ StreamAccounted'
    BY <1>14 DEF StreamDataDone, LoginBacked, TasksFiled, HandlerKnows,
           ThreadsKnown, StartedIsStreaming, StreamAccounted, GetIp, HasApi
  <2> QED BY <1>0, <2>1
<1>15. ASSUME NEW t \in Tasks, SenderPolls(t)
      PROVE  Inv'
  <2>1. /\ LoginBacked' /\ TasksFiled' /\ HandlerKnows'
        /\ ThreadsKnown' /\ StartedIsStreaming' /\ StreamAccounted'
    BY <1>15 DEF SenderPolls, LoginBacked, TasksFiled, HandlerKnows,
           ThreadsKnown, StartedIsStreaming, StreamAccounted, GetIp, HasApi
  <2> QED BY <1>0, <2>1
<1>16. ASSUME NEW t \in Tasks, Ages(t)
      PROVE  Inv'
  <2>1. /\ LoginBacked' /\ TasksFiled' /\ HandlerKnows'
        /\ ThreadsKnown' /\ StartedIsStreaming' /\ StreamAccounted'
    BY <1>16 DEF Ages, Busy, LoginBacked, TasksFiled, HandlerKnows,
           ThreadsKnown, StartedIsStreaming, StreamAccounted, GetIp, HasApi
  <2> QED BY <1>0, <2>1
<1>17. CASE UNCHANGED vars
  BY <1>0, <1>17 DEF vars, dvrVars, LoginBacked, TasksFiled, HandlerKnows,
     ThreadsKnown,
     StartedIsStreaming, StreamAccounted, HasApi, GetIp
<1> QED
  BY <1>1, <1>2, <1>3, <1>4, <1>5, <1>6, <1>7, <1>8, <1>9, <1>10, <1>11, <1>12,
     <1>13, <1>14, <1>15, <1>16, <1>17 DEF Next, HttpStep

LEMMA InvInit == Init => Inv
<1> USE LoginAssumption, DvrAssumption, NoParamAssumption, NoStreamAssumption
<1> SUFFICES ASSUME Init
             PROVE  Inv
  OBVIOUS
<1>1. TypeOK
  BY DEF Init, LoginInit, TypeOK, LoginTypeOK
<1>2. LoginBacked /\ TasksFiled /\ HandlerKnows
  BY DEF Init, LoginInit, LoginBacked, TasksFiled, HandlerKnows
<1>3. ThreadsKnown /\ StartedIsStreaming /\ StreamAccounted
  BY DEF Init, ThreadsKnown, StartedIsStreaming, StreamAccounted
<1> QED BY <1>1, <1>2, <1>3 DEF Inv

(* Every reachable state satisfies the inductive invariant.                *)
THEOREM Invariance == Spec => []Inv
BY InvInit, InvStep, PTL DEF Spec

-----------------------------------------------------------------------------
(* The variables stay in their types, and the handler holds a task exactly *)
(* while it runs.                                                          *)
THEOREM TypeCorrect == Spec => []TypeOK
BY Invariance, PTL DEF Inv

(* The heartbeat check and the stops of other tasks leave a playing task   *)
(* in the map and its stream open.                                         *)
THEOREM StartedAlwaysStreaming == Spec => []StartedIsStreaming
BY Invariance, PTL DEF Inv

(* Every open stream is accounted for, or was lost at one of the six exits.*)
THEOREM StreamsAlwaysAccounted == Spec => []StreamAccounted
BY Invariance, PTL DEF Inv

(* An address the service trusts is backed by an open SDK login.           *)
THEOREM LoginAlwaysBacked == Spec => []LoginBacked
BY Invariance, PTL DEF Inv

(* No SDK login is forgotten, but for a refused NET_DVR_Logout.            *)
THEOREM SessionsAlwaysAccounted == Spec => []SessionAccounted
<1>1. Init => SessionAccounted
  BY DEF Init, LoginInit, SessionAccounted
<1>2. SessionAccounted /\ Inv /\ [Next]_vars => SessionAccounted'
  <2> SUFFICES ASSUME SessionAccounted, Inv, [Next]_vars
               PROVE  SessionAccounted'
    OBVIOUS
  <2>1. CASE UserRequest
    BY <2>1 DEF UserRequest, Login, Logout, SessionAccounted, Inv, TypeOK,
       LoginTypeOK
  <2>2. CASE \E id \in TaskIds : HeartBeat(id)
    BY <2>2 DEF HeartBeat, UserHeartBeat, GetIp, SessionAccounted, Inv, TypeOK,
       LoginTypeOK
  <2>3. CASE UNCHANGED loginVars
    BY <2>3 DEF loginVars, SessionAccounted
  <2> QED
    BY <2>1, <2>2, <2>3
    DEF Next, HttpStep, PlayRequest, AddTask, StopRequest, PlayFails,
    PlayFailsOpen, PlayOpens,
        PlayStarts, StopMarks, StopUnlocks, StopFinishes, TaskHeartCheck,
        StreamData, StreamDataDone, SenderPolls, Ages, vars
<1> QED BY <1>1, <1>2, Invariance, PTL DEF Spec

(* play() always finds its task and the SdkApi of its recorder.            *)
THEOREM PlayAlwaysFindsItsTask == Spec => []PlayFindsItsTask
<1>1. Inv => PlayFindsItsTask
  BY DEF Inv, HandlerKnows, PlayFindsItsTask
<1> QED BY <1>1, Invariance, PTL

(* Neither an admitted data callback nor a sender runs on a freed task.    *)
THEOREM NeverUsedAfterFree == Spec => []NoUseAfterFree
<1>1. ASSUME Inv, NEW t \in Tasks, t \in inCallback \/ sendThd[t] \in {"starting", "polling"}
      PROVE  Alive(t)
  <2>1. status[t] = "START" => param[t] \in Params
    BY <1>1 DEF Inv, TypeOK, TasksFiled
  <2>2. CASE sendThd[t] = "polling" /\ status[t] # "START"
    BY <1>1, <2>2 DEF Inv, ThreadsKnown, Alive
  <2>3. CASE sendThd[t] = "polling" /\ status[t] = "START"
    BY <1>1, <2>1, <2>3 DEF Inv, StartedIsStreaming, Params, Alive, Registered
  <2>4. CASE t \in inCallback \/ sendThd[t] = "starting"
    BY <1>1, <2>4 DEF Inv, ThreadsKnown, Params, Alive, Registered
  <2> QED BY <1>1, <2>2, <2>3, <2>4
<1>2. Inv => NoUseAfterFree
  BY <1>1 DEF NoUseAfterFree
<1> QED BY <1>2, Invariance, PTL

(* The SDK keeps the address of a freed task only for lost streams.        *)
THEOREM DanglingAlwaysLost == Spec => []DanglingOnlyIfLost
<1>1. ASSUME Inv, NEW h \in Handles, streams[h] # NoStream, streams[h].lost = "no"
      PROVE  Alive(streams[h].task)
  <2> DEFINE t == streams[h].task
  <2>1. t \in Tasks /\ param[t] \in Params
    BY <1>1 DEF Inv, TypeOK, Streams, TasksFiled
  <2>2. status[t] = "START" \/ held = t
    BY <1>1 DEF Inv, StreamAccounted
  <2>3. status[t] = "START" => playTaskMap[param[t].id] = t
    BY <1>1, <2>1 DEF Inv, StartedIsStreaming
  <2> HIDE DEF t
  <2>4. Alive(t)
    BY <2>1, <2>2, <2>3 DEF Alive, Registered, Params
  <2> QED BY <2>4 DEF t
<1>2. Inv => DanglingOnlyIfLost
  BY <1>1 DEF DanglingOnlyIfLost
<1> QED BY <1>2, Invariance, PTL

(* The stream of a task, as long as it is not lost, decides what the map   *)
(* holds under the id of that task.                                        *)
LEMMA StreamHoldsId ==
  ASSUME Inv, NEW h \in Handles, streams[h] # NoStream, streams[h].lost = "no"
  PROVE  LET t == streams[h].task IN
         /\ t \in Tasks
         /\ playTaskMap[param[t].id] = t \/ (pc = "unlocked" /\ held = t)
         /\ playHandle[t] = h \/ (pc = "opened" /\ held = t /\ lid = h)
<1> DEFINE t == streams[h].task
<1>1. t \in Tasks
  BY DEF Inv, TypeOK, Streams
<1>2. \/ status[t] = "START" /\ playHandle[t] = h
      \/ pc = "opened" /\ held = t /\ lid = h
      \/ pc \in {"marked", "unlocked"} /\ held = t /\ playHandle[t] = h
  BY DEF Inv, StreamAccounted
<1> HIDE DEF t
<1>3. playTaskMap[param[t].id] = t \/ (pc = "unlocked" /\ held = t)
  BY <1>1, <1>2 DEF Inv, StartedIsStreaming, HandlerKnows
<1> QED BY <1>1, <1>2, <1>3 DEF t

(* Two streams the service cares for never play under one task id.         *)
THEOREM AlwaysOneStreamPerId == Spec => []OneStreamPerId
<1>1. ASSUME Inv, NEW g \in Handles, NEW h \in Handles, g # h,
             streams[g] # NoStream, streams[g].lost = "no",
             streams[h] # NoStream, streams[h].lost = "no",
             param[streams[g].task].id = param[streams[h].task].id
      PROVE  FALSE
  <2> DEFINE s == streams[g].task
             t == streams[h].task
  <2>1. /\ s \in Tasks /\ t \in Tasks /\ param[s].id = param[t].id
        /\ playTaskMap[param[s].id] = s \/ (pc = "unlocked" /\ held = s)
        /\ playTaskMap[param[t].id] = t \/ (pc = "unlocked" /\ held = t)
        /\ playHandle[s] = g \/ (pc = "opened" /\ held = s /\ lid = g)
        /\ playHandle[t] = h \/ (pc = "opened" /\ held = t /\ lid = h)
    BY <1>1, StreamHoldsId
  <2>2. /\ NoTask \notin Tasks
        /\ pc = "unlocked" => playTaskMap[param[held].id] \in {held, NoTask}
        /\ pc = "opened" => playHandle[held] = NoHandle
        /\ NoHandle \notin Handles
    BY <1>1, DvrAssumption DEF Inv, HandlerKnows
  <2> HIDE DEF s, t
  <2>3. s = t
    BY <2>1, <2>2
  <2> QED BY <1>1, <2>1, <2>2, <2>3
<1>2. Inv => OneStreamPerId
  BY <1>1 DEF OneStreamPerId
<1> QED BY <1>2, Invariance, PTL

(* A stream is closed by the stop request for its own task only, although  *)
(* the SDK reuses handles and stopPlay is given nothing but a handle.      *)
THEOREM AlwaysClosedByItsStop == Spec => ClosedByItsStop
<1>1. ASSUME Inv, [Next]_vars, NEW h \in Handles,
             streams[h] # NoStream, streams'[h] = NoStream
      PROVE  pc = "unlocked" /\ held = streams[h].task
  <2>1. CASE \E g \in Handles : PlayFailsOpen(g) \/ PlayOpens(g)
    <3>1. held \in Tasks
      BY <1>1, <2>1 DEF PlayFailsOpen, PlayOpens, Inv, TypeOK
    <3>2. ASSUME NEW b \in BOOLEAN, NEW why \in Losses
          PROVE  [task |-> held, cb |-> b, lost |-> why] # NoStream
      BY <3>1, NoStreamAssumption DEF Streams
    <3>3. streams'[h] # NoStream
      BY <1>1, <2>1, <3>2 DEF PlayFailsOpen, PlayOpens, Inv, TypeOK, Losses
    <3> QED BY <1>1, <3>3
  <2>2. CASE StopFinishes
    <3>1. /\ pc = "unlocked"
          /\ playHandle[held] \in Handles
          /\ streams[playHandle[held]].task = held
      BY <1>1, <2>2 DEF StopFinishes, Inv, HandlerKnows
    <3>2. h # playHandle[held] => streams'[h] = streams[h]
      BY <1>1, <2>2 DEF StopFinishes, LoseStream, Inv, TypeOK
    <3> QED BY <1>1, <3>1, <3>2
  <2>3. CASE UNCHANGED streams
    BY <1>1, <2>3
  <2> QED
    BY <1>1, <2>1, <2>2, <2>3
    DEF Next, HttpStep, UserRequest, PlayRequest, AddTask, StopRequest,
        HeartBeat, PlayFails, PlayStarts, StopMarks, StopUnlocks,
        TaskHeartCheck, StreamData,
        StreamDataDone, SenderPolls, Ages, vars, dvrVars
<1>2. Inv /\ [Next]_vars =>
        [\A h \in Handles : streams[h] # NoStream /\ streams'[h] = NoStream =>
           pc = "unlocked" /\ held = streams[h].task]_vars
  BY <1>1
<1> QED BY <1>2, Invariance, PTL DEF Spec, ClosedByItsStop

(* The type a stop reads from its task is that of the call by which the    *)
(* stream was opened, whatever numbers the SDK gives out in between.       *)
THEOREM AlwaysKindKept == Spec => []KindKept
<1>1. Init => KindKept
  BY DEF Init, KindKept
<1>2. ASSUME Inv, KindKept, [Next]_vars
      PROVE  KindKept'
  <2> USE DEF Inv, TypeOK
  <2>1. ASSUME NEW t \in Tasks, NEW p \in Params, PlayRequest(t, p)
        PROVE  KindKept'
    <3>1. /\ param[t] = NoParam /\ pc' = "added"
          /\ UNCHANGED <<playHandle, streams>>
          /\ \A u \in Tasks : u # t => param'[u] = param[u]
      BY <1>2, <2>1 DEF PlayRequest, AddTask
    <3>2. playHandle[t] = NoHandle
      BY <1>2, <3>1 DEF TasksFiled
    <3>3. \A h \in Handles : streams[h] # NoStream =>
            streams[h].task \in Tasks /\ streams[h].task # t
      BY <1>2, <3>1, NoParamAssumption DEF TasksFiled, Streams
    <3> QED BY <1>2, <3>1, <3>2, <3>3 DEF KindKept
  <2>2. ASSUME NEW h \in Handles, PlayFailsOpen(h) \/ PlayOpens(h)
        PROVE  KindKept'
    <3>1. /\ UNCHANGED <<playHandle, param>>
          /\ h.type = param[held].type
          /\ \A g \in Handles : g # h => streams'[g] = streams[g]
          /\ streams'[h].task = held
          /\ pc' = "opened" => lid' = h /\ held' = held
      BY <1>2, <2>2 DEF PlayFailsOpen, PlayOpens, EndRequest, taskVars
    <3> QED BY <1>2, <3>1 DEF KindKept
  <2>3. CASE PlayStarts
    <3>1. /\ held \in Tasks /\ pc = "opened" /\ pc' = "idle"
          /\ playHandle' = [playHandle EXCEPT ![held] = lid]
          /\ UNCHANGED <<param, streams>>
      BY <1>2, <2>3 DEF PlayStarts, EndRequest
    <3>2. playHandle'[held].type = param[held].type
      BY <1>2, <3>1 DEF KindKept
    <3> QED BY <1>2, <3>1, <3>2 DEF KindKept
  <2>4. CASE StopFinishes
    <3> DEFINE h == playHandle[held]
               s == [task |-> held, cb |-> TRUE, lost |-> "no"]
    <3>1. /\ UNCHANGED <<playHandle, param>> /\ pc' = "idle"
          /\ held \in Tasks /\ h \in Handles /\ streams[h] = s
      BY <1>2, <2>4 DEF StopFinishes, EndRequest, taskVars, HandlerKnows
    <3>2. s \in Streams /\ s.task = held
      BY <3>1 DEF Streams, Losses
    <3>3. s # NoStream
      BY <3>2, NoStreamAssumption
    <3>4. \A g \in Handles : g # h => streams'[g] = streams[g]
      BY <1>2, <2>4 DEF StopFinishes, LoseStream
    <3>5. streams'[h] # NoStream => streams'[h].task = held
      BY <1>2, <2>4, <3>1 DEF StopFinishes, LoseStream
    <3> HIDE DEF h, s
    <3> QED BY <1>2, <3>1, <3>2, <3>3, <3>4, <3>5 DEF KindKept
  <2>5. ASSUME UNCHANGED <<param, playHandle, streams>>,
               pc' = "opened" => pc = "opened" /\ held' = held /\ lid' = lid
        PROVE  KindKept'
    BY <1>2, <2>5 DEF KindKept
  <2> QED
    BY <1>2, <2>1, <2>2, <2>3, <2>4, <2>5
    DEF Next, HttpStep, UserRequest, StopRequest, HeartBeat, PlayFails,
        StopMarks, StopUnlocks, TaskHeartCheck, StreamData, StreamDataDone,
        SenderPolls, Ages, EndRequest, vars, dvrVars, taskVars, httpVars
<1> QED BY <1>1, <1>2, Invariance, PTL DEF Spec

(* A stop is final and a cleared task stays out: play() runs once for each *)
(* task, so that what a stop read of a task stays true of it.              *)
THEOREM AlwaysFinalStop == Spec => StopIsFinal
<1> DEFINE Same ==
             \A t \in Tasks : playHandle[t] # NoHandle =>
               /\ playHandle'[t] = playHandle[t]
               /\ status[t] = "STOP" => status'[t] = "STOP"
           Out == \A t \in Tasks :
                    param[t] # NoParam /\ ~Registered(t) => ~Registered(t)'
<1>1. ASSUME Inv, [Next]_vars
      PROVE  Same
  <2>1. CASE PlayStarts
    <3>1. held \in Tasks /\ playHandle[held] = NoHandle
      BY <1>1, <2>1 DEF PlayStarts, Inv, HandlerKnows, TypeOK
    <3> QED BY <1>1, <2>1, <3>1 DEF PlayStarts, Inv, TypeOK
  <2>2. CASE StopMarks
    BY <1>1, <2>2 DEF StopMarks, Inv, TypeOK
  <2>3. CASE UNCHANGED <<playHandle, status>>
    BY <2>3
  <2> HIDE DEF Same
  <2> QED
    BY <1>1, <2>1, <2>2, <2>3
    DEF Next, HttpStep, UserRequest, PlayRequest, AddTask, StopRequest,
        HeartBeat, PlayFails, PlayFailsOpen, PlayOpens, StopUnlocks,
        StopFinishes, TaskHeartCheck, StreamData, StreamDataDone, SenderPolls,
        Ages, vars, dvrVars, taskVars
<1>2. ASSUME Inv, [Next]_vars
      PROVE  Out
  <2>1. CASE \E t \in Tasks, p \in Params : PlayRequest(t, p)
    BY <1>2, <2>1, DvrAssumption, NoParamAssumption
    DEF PlayRequest, AddTask, Params, Inv, TypeOK, Registered
  <2>2. CASE TaskHeartCheck
    BY <1>2, <2>2, DvrAssumption DEF TaskHeartCheck, Registered, Inv, TypeOK
  <2>3. CASE UNCHANGED playTaskMap
    BY <2>3 DEF Registered
  <2> HIDE DEF Out
  <2> QED
    BY <1>2, <2>1, <2>2, <2>3
    DEF Next, HttpStep, UserRequest, StopRequest,
        HeartBeat, PlayFails, PlayFailsOpen, PlayOpens, PlayStarts, StopMarks,
        StopUnlocks, StopFinishes, StreamData, StreamDataDone, SenderPolls,
        Ages, vars, dvrVars, taskVars
<1>3. Inv /\ [Next]_vars =>
        [\A t \in Tasks :
           /\ playHandle[t] # NoHandle =>
                /\ playHandle'[t] = playHandle[t]
                /\ status[t] = "STOP" => status'[t] = "STOP"
           /\ param[t] # NoParam /\ ~Registered(t) => ~Registered(t)']_vars
  BY <1>1, <1>2
<1> QED BY <1>3, Invariance, PTL DEF Spec, StopIsFinal

(* No play request and no heartbeat check takes the id of a task that      *)
(* plays, or that a callback or a sender still works on.                   *)
THEOREM EntryAlwaysKept == Spec => EntryKept
<1> DEFINE Kept(id) ==
             LET t == playTaskMap[id] IN
             t # NoTask /\ playTaskMap'[id] # t =>
               /\ playTaskMap'[id] = NoTask
               /\ status[t] = "STOP" /\ t \notin inCallback
               /\ sendThd[t] \in {"none", "exited"}
<1>1. ASSUME Inv, [Next]_vars, NEW id \in TaskIds
      PROVE  Kept(id)
  <2>1. CASE \E t \in Tasks, p \in Params : PlayRequest(t, p)
    BY <1>1, <2>1 DEF PlayRequest, AddTask, Params, Inv, TypeOK
  <2>2. CASE TaskHeartCheck
    <3> SUFFICES ASSUME playTaskMap[id] # NoTask,
                        playTaskMap'[id] # playTaskMap[id]
                 PROVE  Kept(id)
      OBVIOUS
    <3> DEFINE t == playTaskMap[id]
    <3>1. /\ t \in Tasks /\ Expired(t) /\ playTaskMap'[id] = NoTask /\ LockFree
      BY <1>1, <2>2 DEF TaskHeartCheck, Inv, TypeOK
    <3> HIDE DEF t
    <3>2. status[t] = "STOP" /\ updateAge[t] # 0 /\ pc # "marked"
      BY <1>1, <3>1, DvrAssumption DEF Expired, LockFree, Inv, TypeOK
    <3>3. t \notin inCallback /\ sendThd[t] \in {"none", "exited"}
      BY <1>1, <3>1, <3>2 DEF Inv, ThreadsKnown, TypeOK
    <3> QED BY <3>1, <3>2, <3>3 DEF t
  <2>3. CASE UNCHANGED playTaskMap
    BY <2>3
  <2> HIDE DEF Kept
  <2> QED
    BY <1>1, <2>1, <2>2, <2>3
    DEF Next, HttpStep, UserRequest, StopRequest,
        HeartBeat, PlayFails, PlayFailsOpen, PlayOpens, PlayStarts, StopMarks,
        StopUnlocks, StopFinishes, StreamData, StreamDataDone, SenderPolls,
        Ages, vars, dvrVars, taskVars
<1>2. Inv /\ [Next]_vars => [\A id \in TaskIds : Kept(id)]_vars
  BY <1>1
<1> QED BY <1>2, Invariance, PTL DEF Spec, EntryKept

(* What each step of the service does to the phase of the ids: at most one *)
(* id moves, except that the heartbeat check clears several.               *)
LEMMA PhaseMoves ==
  ASSUME Inv, [Next]_vars
  PROVE  [Registry!RegistryNext]_[id \in TaskIds |-> Phase(id)]
<1> DEFINE phases == [id \in TaskIds |-> Phase(id)]
<1> USE DEF Registry!RegistryNext
<1>id. ASSUME NEW t \in Tasks, param[t] \in Params
       PROVE  param[t].id \in TaskIds
  BY <1>id DEF Params
<1>1. CASE \E t \in Tasks, p \in Params : PlayRequest(t, p)
  <2> PICK t \in Tasks, p \in Params : PlayRequest(t, p)
    BY <1>1
  <2> PICK id \in TaskIds : id = p.id
    BY DEF Params
  <2>1. /\ playTaskMap[id] = NoTask /\ held = NoTask
        /\ playTaskMap' = [playTaskMap EXCEPT ![id] = t]
        /\ pc = "idle" /\ pc' = "added" /\ held' = t /\ status' = status
        /\ param[t] = NoParam /\ status[t] = "STOP"
    BY DEF PlayRequest, AddTask, Params, Inv, TypeOK, TasksFiled
  <2>2. ASSUME NEW other \in TaskIds, other # id
        PROVE  Phase(other)' = Phase(other) /\ Phase(other) # "reserved"
    <3>1. playTaskMap[other] # t
      BY <2>1, NoParamAssumption, DvrAssumption DEF Inv, TasksFiled, TypeOK
    <3>2. playTaskMap'[other] = playTaskMap[other]
      BY <2>1, <2>2 DEF Inv, TypeOK
    <3> QED BY <2>1, <3>1, <3>2 DEF Phase
  <2>3. Phase(id) = "free" /\ Phase(id)' = "reserved"
    <3>1. playTaskMap'[id] = t /\ t # NoTask
      BY <2>1, DvrAssumption DEF Inv, TypeOK
    <3> QED BY <2>1, <3>1 DEF Phase
  <2>4. Registry!Reserve(id)
    BY <2>1, <2>2, <2>3 DEF Registry!Reserve, Registry!Moves
  <2> QED BY <2>1, <2>4
<1>2. CASE PlayFails \/ PlayStarts \/ \E h \in Handles : PlayFailsOpen(h)
  <2>1. /\ held \in Tasks /\ param[held].id \in TaskIds
        /\ playTaskMap[param[held].id] = held
        /\ pc \in {"added", "opened"} /\ pc' = "idle" /\ held' = NoTask
        /\ status[held] = "STOP" /\ playTaskMap' = playTaskMap
        /\ status' = status \/ status' = [status EXCEPT ![held] = "START"]
    BY <1>2, <1>id DEF PlayFails, PlayStarts, PlayFailsOpen, EndRequest, Inv,
      TypeOK, TasksFiled, HandlerKnows, taskVars
  <2> PICK id \in TaskIds : id = param[held].id
    BY <2>1
  <2>2. ASSUME NEW other \in TaskIds, other # id
        PROVE  Phase(other)' = Phase(other)
    <3>1. playTaskMap[other] # held
      BY <2>1, <2>2, DvrAssumption DEF Inv, TasksFiled
    <3> QED BY <2>1, <3>1, DvrAssumption DEF Phase, Inv, TypeOK
  <2>3. Phase(id) = "reserved" /\ Phase(id)' \in {"playing", "stopped"}
    <3>1. playTaskMap[id] = held /\ playTaskMap'[id] = held /\ held # NoTask
      BY <2>1, DvrAssumption
    <3> QED BY <2>1, <3>1 DEF Phase
  <2>4. Registry!Start(id) \/ Registry!Fail(id)
    BY <2>2, <2>3 DEF Registry!Start, Registry!Fail, Registry!Moves
  <2> QED BY <2>4
<1>3. CASE StopMarks /\ pc' = "marked"
  <2>1. /\ held \in Tasks /\ pc = "stopping" /\ held' = held
        /\ status[held] = "START" /\ playTaskMap' = playTaskMap
        /\ status' = [status EXCEPT ![held] = "STOP"]
    BY <1>3 DEF StopMarks, EndRequest, Inv, TypeOK
  <2>a. param[held].id \in TaskIds /\ playTaskMap[param[held].id] = held
    BY <2>1, <1>id DEF Inv, StartedIsStreaming, TasksFiled, TypeOK, HandlerKnows
  <2> PICK id \in TaskIds : id = param[held].id
    BY <2>a
  <2>2. ASSUME NEW other \in TaskIds, other # id
        PROVE  Phase(other)' = Phase(other)
    <3>1. playTaskMap[other] # held
      BY <2>1, <2>2, DvrAssumption DEF Inv, TasksFiled
    <3> QED BY <1>3, <2>1, <3>1, DvrAssumption DEF Phase, Inv, TypeOK
  <2>3. Phase(id) = "playing" /\ Phase(id)' = "stopped"
    <3>1. playTaskMap[id] = held /\ playTaskMap'[id] = held /\ held # NoTask
      BY <2>1, <2>a, DvrAssumption
    <3>2. status'[held] = "STOP"
      BY <2>1 DEF Inv, TypeOK
    <3> QED BY <1>3, <2>1, <3>1, <3>2 DEF Phase
  <2>4. Registry!Stop(id)
    BY <2>2, <2>3 DEF Registry!Stop, Registry!Moves
  <2> QED BY <2>4
<1>4. CASE TaskHeartCheck
  <2> DEFINE ids == {id \in TaskIds : playTaskMap[id] # NoTask /\ Expired(playTaskMap[id])}
  <2>1. /\ UNCHANGED <<status, held, pc>>
        /\ playTaskMap' = [id \in TaskIds |-> IF id \in ids THEN NoTask ELSE playTaskMap[id]]
    BY <1>4 DEF TaskHeartCheck, httpVars
  <2>2. ASSUME NEW id \in ids
        PROVE  Phase(id) = "stopped"
    BY DvrAssumption DEF Phase, Expired, Inv, TypeOK, HandlerKnows
  <2>3. phases' = [id \in TaskIds |-> IF id \in ids THEN "free" ELSE phases[id]]
    BY <2>1 DEF Phase
  <2>4. ids \in SUBSET TaskIds
    OBVIOUS
  <2>5. \A id \in ids : phases[id] = "stopped"
    BY <2>2, <2>4
  <2> HIDE DEF ids
  <2>6. Registry!Clear(ids)
    BY <2>3, <2>5 DEF Registry!Clear
  <2> QED BY <2>4, <2>6
<1>5. CASE /\ UNCHANGED <<playTaskMap, status>>
           /\ UNCHANGED <<held, pc>> \/ {pc, pc'} \cap {"added"} = {}
           /\ UNCHANGED <<held, pc>> \/ pc # "opened"
           /\ UNCHANGED <<held, pc>> \/ pc' # "opened"
  <2>1. phases' = phases
    BY <1>5 DEF Phase
  <2> QED BY <2>1
<1>6. CASE \E h \in Handles : PlayOpens(h)
  <2>1. phases' = phases
    BY <1>6 DEF PlayOpens, taskVars, Phase
  <2> QED BY <2>1
<1> QED
  BY <1>1, <1>2, <1>3, <1>4, <1>5, <1>6
  DEF Next, HttpStep, UserRequest, StopRequest, HeartBeat, StopMarks,
      StopUnlocks, StopFinishes, StreamData, StreamDataDone, SenderPolls, Ages,
      EndRequest, vars, dvrVars, taskVars, httpVars

(* The service implements the abstract registry of task ids.               *)
THEOREM ImplementsRegistry == Spec => RefinesRegistry
<1>1. Init => Registry!RegistryInit
  BY DEF Init, Registry!RegistryInit, Phase
<1> QED
  BY <1>1, PhaseMoves, Invariance, PTL
  DEF Spec, RefinesRegistry, Registry!RegistrySpec
=============================================================================
