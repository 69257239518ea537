-------------------------- MODULE HttpServerProofs --------------------------
(***************************************************************************)
(* The request handlers only do what DvrControl lets them do, so what is   *)
(* proved there holds here; and what a client was told stays true.         *)
(***************************************************************************)
EXTENDS HttpServer, DvrControlProofs

-----------------------------------------------------------------------------
(* Every step of the server is a step of DvrControl or leaves it alone.    *)
LEMMA HttpStepIsStep == [HttpNext]_allVars => [Next]_vars
BY DEF HttpNext, BadRequest, PlayRejected, PlayAccepted, PlayRefused,
       PlayConfirmed, StopAsked, StopMarked, StopAnswered, HeartAnswered,
       UserAnswered, UserRejected, PlayControl, ShowTask, SecondPasses,
       Unanswered, Next, HttpStep, allVars

(* The server implements the task registry's specification: the theorems   *)
(* of DvrControlProofs are theorems about it.                              *)
THEOREM HttpImplementsDvr == HttpSpec => Spec
<1>1. HttpInit => Init
  BY DEF HttpInit
<1> QED BY <1>1, HttpStepIsStep, PTL DEF HttpSpec, Spec

(* ... such as the registry of task ids that clients see.                  *)
THEOREM HttpImplementsRegistry == HttpSpec => RefinesRegistry
BY HttpImplementsDvr, ImplementsRegistry, PTL

-----------------------------------------------------------------------------
(* What was said against the state: a confirmed play is one in state START *)
(* that no stop request holds, and conversely a task in state START was    *)
(* confirmed, unless a stop request has just arrived.                      *)
SaidIsSo ==
  /\ said \in [TaskIds -> {"nothing", "playok", "stopping"}]
  /\ \A id \in TaskIds : said[id] = "playok" =>
       /\ playTaskMap[id] # NoTask
       /\ status[playTaskMap[id]] = "START"
       /\ held # playTaskMap[id]
  /\ \A t \in Tasks : status[t] = "START" =>
       \/ said[param[t].id] = "playok"
       \/ pc = "stopping" /\ held = t /\ said[param[t].id] = "stopping"
  /\ pc \in {"marked", "unlocked"} => said[param[held].id] = "stopping"

HttpInv == Inv /\ SaidIsSo

(* A task in state START, and the one a handler holds, have ids.           *)
LEMMA IdsKnown ==
  ASSUME Inv
  PROVE  /\ \A t \in Tasks : status[t] = "START" => param[t].id \in TaskIds
         /\ held # NoTask => held \in Tasks /\ param[held].id \in TaskIds
BY NoParamAssumption DEF Inv, TypeOK, TasksFiled, Params

LEMMA SaidStep == HttpInv /\ [HttpNext]_allVars => SaidIsSo'
<1> SUFFICES ASSUME Inv, SaidIsSo, [HttpNext]_allVars
             PROVE  SaidIsSo'
  BY DEF HttpInv
<1> USE DvrAssumption
<1>0. /\ \A t \in Tasks : status[t] = "START" =>
           param[t].id \in TaskIds /\ playTaskMap[param[t].id] = t
      /\ held # NoTask => held \in Tasks /\ param[held].id \in TaskIds
      /\ \A id \in TaskIds : playTaskMap[id] # NoTask =>
           playTaskMap[id] \in Tasks /\ param[playTaskMap[id]].id = id
  <2>1. \A t \in Tasks : status[t] = "START" => playTaskMap[param[t].id] = t
    BY DEF Inv, StartedIsStreaming
  <2>2. \A id \in TaskIds : playTaskMap[id] # NoTask =>
          playTaskMap[id] \in Tasks /\ param[playTaskMap[id]].id = id
    BY DEF Inv, TypeOK, TasksFiled
  <2> QED BY <2>1, <2>2, IdsKnown
<1>1. ASSUME NEW t \in Tasks, NEW p \in Params, PlayAccepted(t, p)
      PROVE  SaidIsSo'
  <2>1. /\ UNCHANGED <<status, said>> /\ pc = "idle" /\ pc' = "added" /\ held' = t
        /\ param[t] = NoParam /\ p.id \in TaskIds /\ playTaskMap[p.id] = NoTask
        /\ param' = [param EXCEPT ![t] = p]
        /\ playTaskMap' = [playTaskMap EXCEPT ![p.id] = t]
    BY <1>1 DEF PlayAccepted, PlayRequest, AddTask, Params
  <2>2. status[t] = "STOP"
    BY <2>1 DEF Inv, TasksFiled
  <2>3. \A id \in TaskIds : playTaskMap[id] # t
    BY <2>1, NoParamAssumption DEF Inv, TasksFiled
  <2> QED BY <2>1, <2>2, <2>3 DEF SaidIsSo, Inv, TypeOK
<1>2. CASE PlayConfirmed
  <2>1. /\ UNCHANGED <<param, playTaskMap>> /\ pc' = "idle" /\ held' = NoTask
        /\ status' = [status EXCEPT ![held] = "START"]
        /\ said' = [said EXCEPT ![param[held].id] = "playok"]
        /\ held \in Tasks /\ playTaskMap[param[held].id] = held
        /\ pc = "opened"
    BY <1>2, <1>0 DEF PlayConfirmed, PlayStarts, EndRequest, Say, Inv, TypeOK,
       HandlerKnows
  <2> QED BY <2>1, <1>0 DEF SaidIsSo, Inv, TypeOK
<1>3. ASSUME NEW id \in TaskIds, StopAsked(id)
      PROVE  SaidIsSo'
  <2>1. UNCHANGED <<playTaskMap, param, status>> /\ pc = "idle" /\ held = NoTask
    BY <1>3 DEF StopAsked, StopRequest, taskVars, Inv, TypeOK
  <2>2. CASE playTaskMap[id] = NoTask
    <3>1. pc' = "idle" /\ held' = NoTask /\ said' = said
      BY <1>3, <2>2 DEF StopAsked, StopRequest, EndRequest
    <3> QED BY <2>1, <3>1 DEF SaidIsSo
  <2>3. CASE playTaskMap[id] # NoTask
    <3>1. /\ pc' = "stopping" /\ held' = playTaskMap[id]
          /\ said' = [said EXCEPT ![id] =
                        IF said[id] = "playok" THEN "stopping" ELSE said[id]]
      BY <1>3, <2>3 DEF StopAsked, StopRequest, Say
    <3>2. \A other \in TaskIds : other # id => playTaskMap[other] # playTaskMap[id]
      BY <1>0, <2>3
    <3>3. status[playTaskMap[id]] = "START" =>
            param[playTaskMap[id]].id = id /\ said'[id] = "stopping"
      BY <1>0, <2>1, <2>3, <3>1 DEF SaidIsSo
    <3> QED BY <1>0, <2>1, <2>3, <3>1, <3>2, <3>3 DEF SaidIsSo
  <2> QED BY <2>2, <2>3
<1>4. CASE StopMarked
  <2>1. UNCHANGED <<playTaskMap, param, said>> /\ pc = "stopping" /\ held # NoTask
    BY <1>4 DEF StopMarked, StopMarks, Inv, TypeOK
  <2>2. CASE status[held] = "STOP"
    <3>1. UNCHANGED status /\ pc' = "idle" /\ held' = NoTask
      BY <1>4, <2>2 DEF StopMarked, StopMarks, EndRequest
    <3> QED BY <1>0, <2>1, <2>2, <3>1 DEF SaidIsSo
  <2>3. CASE status[held] = "START"
    <3>1. /\ status' = [status EXCEPT ![held] = "STOP"]
          /\ pc' = "marked" /\ held' = held
      BY <1>0, <1>4, <2>1, <2>3 DEF StopMarked, StopMarks, EndRequest
    <3>2. said[param[held].id] = "stopping"
      BY <1>0, <2>1, <2>3 DEF SaidIsSo
    <3> QED BY <1>0, <2>1, <3>1, <3>2 DEF SaidIsSo, Inv, TypeOK
  <2> QED BY <1>0, <2>1, <2>2, <2>3 DEF Inv, TypeOK
<1>5. CASE StopAnswered
  <2>1. /\ UNCHANGED <<playTaskMap, param, status>> /\ held' = NoTask
        /\ pc = "unlocked" /\ pc' = "idle" /\ held # NoTask
        /\ status[held] = "STOP" /\ playTaskMap[param[held].id] \in {held, NoTask}
        /\ said' = [said EXCEPT ![param[held].id] = "nothing"]
    BY <1>5 DEF StopAnswered, StopFinishes, EndRequest, Say, taskVars, Inv,
       TypeOK, HandlerKnows
  <2> QED BY <1>0, <2>1 DEF SaidIsSo
<1>6. CASE TaskHeartCheck /\ UNCHANGED said
  <2>1. /\ UNCHANGED <<param, status, held, pc, said>>
        /\ \A id \in TaskIds : playTaskMap'[id] =
             IF playTaskMap[id] # NoTask /\ Expired(playTaskMap[id])
             THEN NoTask ELSE playTaskMap[id]
    BY <1>6 DEF TaskHeartCheck, httpVars
  <2> QED BY <2>1 DEF SaidIsSo, Expired
<1>7. CASE StopUnlocks /\ UNCHANGED said
  BY <1>7 DEF StopUnlocks, taskVars, SaidIsSo
<1>8. CASE PlayRefused \/ (UNCHANGED said /\ \E h \in Handles : PlayOpens(h))
  <2>1. /\ UNCHANGED <<playTaskMap, param, status, said>> /\ pc = "added"
        /\ \/ pc' = "opened" /\ held' = held
           \/ pc' = "idle" /\ held' = NoTask
    BY <1>8 DEF PlayRefused, PlayFails, PlayFailsOpen, PlayOpens, EndRequest,
       taskVars
  <2> QED BY <2>1 DEF SaidIsSo
<1>9. CASE UserAnswered \/ \E id \in TaskIds : HeartAnswered(id)
  <2>1. /\ UNCHANGED <<playTaskMap, param, status, said>>
        /\ pc = "idle" /\ pc' = "idle" /\ held = NoTask /\ held' = NoTask
    BY <1>9 DEF UserAnswered, UserRequest, HeartAnswered, HeartBeat, EndRequest,
       vars, dvrVars, taskVars, httpVars, Inv, TypeOK
  <2> QED BY <2>1 DEF SaidIsSo
<1>10. CASE UNCHANGED <<playTaskMap, param, status, said, held, pc>>
  BY <1>10 DEF SaidIsSo
<1> QED
  BY <1>1, <1>2, <1>3, <1>4, <1>5, <1>6, <1>7, <1>8, <1>9, <1>10
  DEF HttpNext, BadRequest, PlayRejected, UserRejected, PlayControl, ShowTask,
      SecondPasses, Unanswered, StreamData, StreamDataDone, SenderPolls, Ages,
      allVars, answerVars, vars, dvrVars, taskVars, httpVars

THEOREM HttpInvariance == HttpSpec => []HttpInv
<1>1. HttpInit => HttpInv
  BY InvInit, NoParamAssumption DEF HttpInit, HttpInv, SaidIsSo, Init
<1>2. HttpInv /\ [HttpNext]_allVars => HttpInv'
  BY SaidStep, HttpStepIsStep, InvStep DEF HttpInv
<1> QED BY <1>1, <1>2, PTL DEF HttpSpec

-----------------------------------------------------------------------------
(* A play that was confirmed is registered, in state START and streaming   *)
(* until its own client asks to stop it.                                   *)
THEOREM PlayokHoldsUntilStopped == HttpSpec => []PlayokUntilStopped
<1>1. HttpInv => PlayokUntilStopped
  BY DEF HttpInv, SaidIsSo, Inv, TypeOK, StartedIsStreaming, PlayokUntilStopped
<1> QED BY <1>1, HttpInvariance, PTL

(* A stop that gets as far as the SDK ends a play that was confirmed, and  *)
(* ends it for the first time.                                             *)
THEOREM EachStopEndsOnePlayok == HttpSpec => StopsOnePlayok
<1>1. HttpInv /\ [HttpNext]_allVars =>
        [StopFinishes => said[param[held].id] = "stopping"]_allVars
  BY DEF HttpInv, SaidIsSo, StopFinishes
<1> QED BY <1>1, HttpInvariance, PTL DEF HttpSpec, StopsOnePlayok

(* Only playbacks obey a control command, and the command for a task that  *)
(* plays one reaches that playback: the stored number is that of a         *)
(* playback (KindKept), and still its own (StartedIsStreaming).            *)
THEOREM ControlAlwaysHitsItsTask == HttpSpec => []ControlHitsItsTask
<1>1. HttpInit => ControlHitsItsTask
  BY DEF HttpInit, ControlHitsItsTask
<1>2. HttpInv /\ KindKept /\ ControlHitsItsTask /\ [HttpNext]_allVars
        => ControlHitsItsTask'
  <2> SUFFICES ASSUME Inv, KindKept, ControlHitsItsTask, [HttpNext]_allVars
               PROVE  ControlHitsItsTask'
    BY DEF HttpInv
  <2>1. ASSUME NEW id \in TaskIds, PlayControl(id)
        PROVE  ControlHitsItsTask'
    <3> DEFINE t == playTaskMap[id]
               g == Playback(t)
    <3>1. CASE obeyed' = <<>>
      BY <3>1 DEF ControlHitsItsTask
    <3>2. CASE /\ t # NoTask /\ playHandle[t] # NoHandle
               /\ streams[g] # NoStream
               /\ obeyed' = <<t, streams[g].task>>
      <4>1. /\ t \in Tasks /\ status' = status /\ param' = param
            /\ playHandle[t] \in Handles
        BY <2>1, <3>2 DEF PlayControl, Inv, TypeOK, vars, dvrVars, taskVars
      <4>2. g \in Handles /\ g.type = "PLAYBACK"
        BY <4>1 DEF Playback, Handles, PlayTypes
      <4>3. param[streams[g].task].type = "PLAYBACK"
        BY <3>2, <4>2 DEF KindKept
      <4>4. ASSUME status[t] = "START", param[t].type = "PLAYBACK"
            PROVE  streams[g].task = t
        <5>1. playHandle[t].type = "PLAYBACK"
          BY <3>2, <4>1, <4>4 DEF KindKept
        <5>2. playHandle[t] = g
          BY <4>1, <5>1 DEF Playback, Handles
        <5>3. streams[playHandle[t]] = [task |-> t, cb |-> TRUE, lost |-> "no"]
          BY <4>1, <4>4 DEF Inv, StartedIsStreaming
        <5> HIDE DEF t, g
        <5> QED BY <5>2, <5>3
      <4> HIDE DEF t, g
      <4> QED BY <3>2, <4>1, <4>3, <4>4 DEF ControlHitsItsTask
    <3> QED BY <2>1, <3>1, <3>2 DEF PlayControl
  <2>2. CASE obeyed' = <<>>
    BY <2>2 DEF ControlHitsItsTask
  <2>3. CASE UNCHANGED allVars
    BY <2>3 DEF allVars, answerVars, vars, dvrVars, taskVars, ControlHitsItsTask
  <2>4. CASE ShowTask
    <3>1. obeyed' \in {<<>>, obeyed} /\ status' = status /\ param' = param
      BY <2>4 DEF ShowTask, Answer, vars, dvrVars, taskVars
    <3> QED BY <3>1 DEF ControlHitsItsTask
  <2> QED
    BY <2>1, <2>2, <2>3, <2>4
    DEF HttpNext, BadRequest, PlayRejected, PlayAccepted, PlayRefused,
        PlayConfirmed, StopAsked, StopMarked, StopAnswered, HeartAnswered,
        UserAnswered, UserRejected, SecondPasses, Unanswered, Answer, Accepted,
        Silent
<1> QED BY <1>1, <1>2, HttpInvariance, HttpImplementsDvr, AlwaysKindKept, PTL DEF HttpSpec

-----------------------------------------------------------------------------
(* Every answer is one of the handlers' own, and, while the process lives, *)
(* a request is owed an answer exactly while its handler is under way: no  *)
(* handler ends without an answer and none answers twice.                  *)
THEOREM HttpTypeCorrect == HttpSpec => []HttpTypeOK
<1>1. HttpInit => HttpTypeOK
  <2> SUFFICES ASSUME HttpInit
               PROVE  HttpTypeOK
    OBVIOUS
  <2>1. pc = "idle" /\ owed = FALSE /\ down = FALSE
    BY DEF HttpInit, Init
  <2>2. answer \in [code : {0, -1, -2, -3, SdkError}, msg : Msgs]
    BY DEF HttpInit, Msgs
  <2>3. said \in [TaskIds -> {"nothing", "playok", "stopping"}]
    BY DEF HttpInit
  <2>4. fresh \in SUBSET Tasks /\ obeyed = <<>>
    BY DEF HttpInit
  <2> QED BY <2>1, <2>2, <2>3, <2>4 DEF HttpTypeOK
<1>2. HttpInv /\ HttpTypeOK /\ [HttpNext]_allVars => HttpTypeOK'
  <2> SUFFICES ASSUME Inv, SaidIsSo, HttpTypeOK, [HttpNext]_allVars
               PROVE  HttpTypeOK'
    BY DEF HttpInv
  <2>1. SaidIsSo'
    BY SaidStep DEF HttpInv
  <2>2. (fresh \in SUBSET Tasks)'
    BY DEF HttpTypeOK, HttpNext, BadRequest, PlayRejected, PlayAccepted,
       PlayRefused, PlayConfirmed, StopAsked, StopMarked, StopAnswered,
       HeartAnswered, UserAnswered, UserRejected, PlayControl, ShowTask,
       SecondPasses, Unanswered, allVars, answerVars
  <2>3. (answer \in [code : {0, -1, -2, -3, SdkError}, msg : Msgs])'
    <3>1. ASSUME NEW c \in {0, -1, -2, -3, SdkError}, NEW m \in Msgs, Answer(c, m)
          PROVE  answer' \in [code : {0, -1, -2, -3, SdkError}, msg : Msgs]
      BY <3>1 DEF Answer
    <3>2. {"OK", "playok", "param error", "no taskId", "no such user",
           "cann't find file", "add task failed", "play failed", "no such task",
           "stop play failed", "error", "control failed", "logout failed"}
             \subseteq Msgs
      BY DEF Msgs
    <3>3. CASE \/ \E id \in TaskIds : PlayControl(id) \/ StopAsked(id)
               \/ StopMarked \/ StopAnswered
      <4>1. CASE \E id \in TaskIds : PlayControl(id)
        <5>1. answer' = [code |-> -1, msg |-> "control failed"]
          BY <4>1 DEF PlayControl
        <5> QED BY <3>2, <5>1
      <4>2. CASE \/ \E id \in TaskIds : StopAsked(id)
                 \/ StopMarked \/ StopAnswered
        BY <3>1, <3>2, <4>2
        DEF StopAsked, StopMarked, StopAnswered, Accepted, Silent, HttpTypeOK
      <4> QED BY <3>3, <4>1, <4>2
    <3>4. CASE \/ BadRequest \/ UserAnswered \/ UserRejected \/ ShowTask
               \/ \E id \in TaskIds : HeartAnswered(id)
      BY <3>1, <3>2, <3>4
      DEF BadRequest, UserAnswered, UserRejected, ShowTask, HeartAnswered,
          HttpTypeOK
    <3>5. CASE \/ \E p \in Params : PlayRejected(p) \/ \E t \in Tasks : PlayAccepted(t, p)
               \/ PlayRefused \/ PlayConfirmed
      BY <3>1, <3>2, <3>5
      DEF PlayRejected, PlayAccepted, PlayRefused, PlayConfirmed, Accepted,
          HttpTypeOK
    <3>6. CASE SecondPasses \/ Unanswered \/ UNCHANGED allVars
      BY <3>6 DEF SecondPasses, Unanswered, Silent, HttpTypeOK, allVars, answerVars
    <3> QED BY <3>3, <3>4, <3>5, <3>6 DEF HttpNext
  <2>4. (obeyed \in {<<>>} \cup (Tasks \X Tasks))'
    <3>1. ASSUME NEW id \in TaskIds, PlayControl(id)
          PROVE  (obeyed \in {<<>>} \cup (Tasks \X Tasks))'
      <4> DEFINE t == playTaskMap[id]
                 s == streams[Playback(t)]
      <4>1. CASE t # NoTask /\ playHandle[t] # NoHandle /\ s # NoStream
                 /\ obeyed' = <<t, s.task>>
        <5>1. t \in Tasks
          BY <4>1 DEF Inv, TypeOK
        <5>2. Playback(t) \in Handles /\ s \in Streams
          BY <4>1, <5>1 DEF Inv, TypeOK, Playback, Handles, PlayTypes
        <5>3. s.task \in Tasks
          BY <5>2 DEF Streams
        <5> QED BY <4>1, <5>1, <5>3
      <4> QED BY <3>1, <4>1 DEF PlayControl
    <3>2. CASE obeyed' = <<>>
      BY <3>2
    <3>3. CASE UNCHANGED obeyed
      BY <3>3 DEF HttpTypeOK
    <3>4. CASE ShowTask
      BY <3>4, <3>2, <3>3 DEF ShowTask, Answer
    <3>5. CASE UNCHANGED allVars
      BY <3>5, <3>3 DEF allVars, answerVars
    <3> QED
      BY <3>1, <3>2, <3>4, <3>5
      DEF HttpNext, BadRequest, PlayRejected, PlayAccepted, PlayRefused,
          PlayConfirmed, StopAsked, StopMarked, StopAnswered, HeartAnswered,
          UserAnswered, UserRejected, SecondPasses, Unanswered, Answer, Accepted,
          Silent
  <2>5. /\ (owed \in BOOLEAN /\ down \in BOOLEAN)'
        /\ (~down => (owed <=> pc # "idle"))'
    <3> DEFINE Done == owed' = FALSE /\ UNCHANGED down /\ pc' = "idle"
    <3>1. CASE Done
      BY <3>1 DEF HttpTypeOK
    <3>2. CASE \/ BadRequest \/ UserRejected
               \/ \E p \in Params : PlayRejected(p)
      BY <3>1, <3>2 DEF BadRequest, UserRejected, PlayRejected, Answer, vars,
         dvrVars, httpVars
    <3>3. CASE UserAnswered
      BY <3>1, <3>3 DEF UserAnswered, UserRequest, EndRequest, Answer
    <3>4. CASE \E id \in TaskIds : HeartAnswered(id)
      BY <3>1, <3>4 DEF HeartAnswered, HeartBeat, EndRequest, Answer, vars,
         dvrVars, httpVars
    <3>5. CASE PlayRefused \/ PlayConfirmed \/ StopAnswered
      BY <3>1, <3>5 DEF PlayRefused, PlayConfirmed, StopAnswered, StopFinishes,
         Answer, PlayFails, PlayFailsOpen, PlayStarts, EndRequest
    <3>6. ASSUME NEW t \in Tasks, NEW p \in Params, PlayAccepted(t, p)
          PROVE  owed' = TRUE /\ UNCHANGED down /\ pc' = "added"
      BY <3>6 DEF PlayAccepted, PlayRequest, Accepted
    <3>7. ASSUME NEW id \in TaskIds, StopAsked(id)
          PROVE  Done \/ (owed' = TRUE /\ UNCHANGED down /\ pc' = "stopping")
      <4>1. CASE playTaskMap[id] = NoTask
        BY <3>7, <4>1 DEF StopAsked, StopRequest, EndRequest, Answer
      <4>2. CASE playTaskMap[id] # NoTask
        BY <3>7, <4>2 DEF StopAsked, StopRequest, Accepted
      <4> QED BY <4>1, <4>2
    <3>8. CASE StopMarked
      <4>1. pc = "stopping" /\ (pc' = "idle" \/ pc' = "marked")
        BY <3>8 DEF StopMarked, StopMarks, EndRequest
      <4>2. CASE pc' = "idle"
        BY <3>1, <3>8, <4>2 DEF StopMarked, Answer
      <4>3. CASE pc' = "marked"
        BY <3>8, <4>1, <4>3 DEF StopMarked, Silent, HttpTypeOK
      <4> QED BY <4>1, <4>2, <4>3
    <3>9. CASE \E id \in TaskIds : PlayControl(id)
      <4>1. UNCHANGED <<owed, down, pc>>
        BY <3>9 DEF PlayControl, vars, dvrVars, httpVars
      <4> QED BY <4>1 DEF HttpTypeOK
    <3>10. CASE ShowTask
      BY <3>10 DEF ShowTask, Answer, HttpTypeOK, vars, dvrVars, httpVars
    <3>11. CASE SecondPasses \/ Unanswered \/ UNCHANGED allVars
      <4>1. UNCHANGED <<owed, down>> /\ (pc' = "idle" <=> pc = "idle")
        BY <3>11 DEF SecondPasses, Unanswered, Silent, PlayOpens, StreamData,
           StopUnlocks, TaskHeartCheck, StreamDataDone, SenderPolls, Ages,
           allVars, answerVars, vars, dvrVars, httpVars
      <4> QED BY <4>1 DEF HttpTypeOK
    <3> HIDE DEF Done
    <3>12. CASE \E p \in Params : \E t \in Tasks : PlayAccepted(t, p)
      BY <3>6, <3>12 DEF HttpTypeOK
    <3>13. CASE \E id \in TaskIds : StopAsked(id)
      BY <3>1, <3>7, <3>13 DEF HttpTypeOK
    <3> QED
      BY <3>2, <3>3, <3>4, <3>5, <3>8, <3>9, <3>10, <3>11, <3>12, <3>13
      DEF HttpNext
  <2> QED BY <2>1, <2>2, <2>3, <2>4, <2>5 DEF HttpTypeOK, SaidIsSo
<1> QED BY <1>1, <1>2, HttpInvariance, PTL DEF HttpSpec
=============================================================================
