-------------------------- MODULE HkServiceProofs --------------------------
(***************************************************************************)
(* The registry and the streams put together implement each of the two     *)
(* modules: what HkStream supposes of its surroundings is what DvrControl  *)
(* does, so the theorems of both hold of the whole service.                *)
(***************************************************************************)
EXTENDS HkService, DvrControlProofs

(* What relates the two: HkApi::stopPlay runs inside the handler's request *)
(* and for a known task, a callback at work is one that was admitted, the  *)
(* SDK has no stream yet for a task that is to be played, and never two    *)
(* for one task.                                                           *)
OneStream ==
  /\ pc = "added" => \A h \in Handles : streams[h] # NoStream => streams[h].task # held
  /\ \A g, h \in Handles :
       /\ streams[g] # NoStream /\ streams[h] # NoStream
       /\ streams[g].task = streams[h].task
       => g = h

Link ==
  /\ closing # NoTask => pc = "idle" /\ closing \in Tasks
  /\ closing = NoTask => port = NoPort
  /\ WorkIsKnown
  /\ OneStream

ServiceInv == Inv /\ Link /\ Stream!Inv

(* What the provers need of the assumptions on the constants.              *)
LEMMA StreamAssumed == Stream!StreamAssumption
BY DvrAssumption, ServiceAssumption DEF Stream!StreamAssumption

-----------------------------------------------------------------------------
(* Every step of the service is one of the registry, or leaves it alone.   *)
LEMMA DvrStep == [ServiceNext]_serviceVars => [Next]_vars
<1> SUFFICES ASSUME ServiceNext
             PROVE  Next \/ UNCHANGED vars
  BY DEF serviceVars
<1>1. CASE OtherRequest
  BY <1>1 DEF OtherRequest, Next, HttpStep
<1>2. CASE Marks \/ Unlocks \/ Finishes
  BY <1>2 DEF Marks, Unlocks, Finishes, Next, HttpStep
<1>3. CASE Frees \/ \E t \in Tasks : Works(t)
  BY <1>3 DEF Frees, Works
<1>4. CASE HeartCheck
  BY <1>4 DEF HeartCheck, Next
<1>5. CASE \/ \E h \in Handles : ComesIn(h)
           \/ \E t \in Tasks : GoesOut(t) \/ Elsewhere(t)
  BY <1>5 DEF ComesIn, GoesOut, Elsewhere, Next
<1> QED BY <1>1, <1>2, <1>3, <1>4, <1>5 DEF ServiceNext

(* What HkStream sees does not change unless one of these does.            *)
LEMMA Unseen ==
  ASSUME UNCHANGED <<param, playTaskMap, streams>>,
         (pc # "added" /\ pc' # "added") \/ UNCHANGED <<pc, held>>
  PROVE  StreamStates' = StreamStates /\ Erased' = Erased
BY DEF StreamStates, StreamOf, Calling, Erased, Registered

LEMMA Stutters ==
  ASSUME UNCHANGED <<status, callVars, stopVars, grace, StreamStates, Erased,
                     StreamPc, StreamHeld>>
  PROVE  UNCHANGED Stream!vars
BY DEF callVars, stopVars, Stream!vars, Stream!taskVars, Stream!sdkVars,
       Stream!httpVars, Stream!history

-----------------------------------------------------------------------------
(* play(): from a task that was added to a stream that is open or not.     *)
LEMMA OtherStep ==
  ASSUME ServiceInv, UNCHANGED grace, OtherRequest
  PROVE  [Stream!Next]_(Stream!vars)
<1> USE DEF ServiceInv, Inv, TypeOK, callVars, stopVars
<1>1. closing = NoTask /\ closing' = NoTask
  BY DEF OtherRequest
<1>2. CASE UserRequest \/ \E id \in TaskIds : StopRequest(id) \/ HeartBeat(id)
  <2>1. /\ UNCHANGED <<param, playTaskMap, streams, status>>
        /\ pc = "idle" /\ pc' \in {"idle", "stopping"}
    BY <1>2 DEF UserRequest, StopRequest, HeartBeat, EndRequest, taskVars
  <2>2. UNCHANGED <<StreamPc, StreamHeld>>
    BY <1>1, <2>1 DEF StreamPc, StreamHeld, StopsOrOpens
  <2> QED BY <2>1, <2>2, Unseen, Stutters DEF OtherRequest
<1>3. ASSUME NEW t \in Tasks, NEW p \in Params, PlayRequest(t, p)
      PROVE  UNCHANGED Stream!vars
  <2>1. /\ param[t] = NoParam /\ playTaskMap[p.id] = NoTask /\ p.id \in TaskIds
        /\ param' = [param EXCEPT ![t] = p]
        /\ playTaskMap' = [playTaskMap EXCEPT ![p.id] = t]
        /\ pc = "idle" /\ pc' = "added" /\ held' = t
        /\ UNCHANGED <<status, streams>>
    BY <1>3 DEF PlayRequest, AddTask, Params
  <2>2. ASSUME NEW u \in Tasks
        PROVE  StreamOf(u)' = StreamOf(u)
    BY <2>1 DEF StreamOf, Calling
  <2>3. ASSUME NEW u \in Tasks, u # t
        PROVE  Registered(u)' <=> Registered(u)
    BY <2>1, <2>3, DvrAssumption DEF Registered
  <2>4. Registered(t)'
    BY <2>1 DEF Registered
  <2>5. Erased' = Erased
    BY <2>1, <2>3, <2>4 DEF Erased
  <2>6. StreamStates' = StreamStates
    BY <2>2 DEF StreamStates
  <2>7. UNCHANGED <<StreamPc, StreamHeld>>
    BY <1>1, <2>1 DEF StreamPc, StreamHeld, StopsOrOpens
  <2> QED BY <2>1, <2>5, <2>6, <2>7, Stutters DEF OtherRequest
<1>4. ASSUME pc = "added", UNCHANGED <<param, playTaskMap, status>>,
             pc' # "added", NEW t \in Tasks, t = held,
             NEW left \in {"open", "closed"},
             \A u \in Tasks : u # t => (Calling(u)' <=> Calling(u)),
             Calling(t)' <=> left = "open"
      PROVE  /\ StreamStates[t] = "new"
             /\ StreamStates' = [StreamStates EXCEPT ![t] = left]
             /\ Erased' = Erased
             /\ StreamPc = "idle" /\ StreamHeld = NoTask
  <2>1. param[t] # NoParam
    BY <1>4, DvrAssumption, NoParamAssumption DEF TasksFiled
  <2>2. StreamOf(t) = "new" /\ StreamOf(t)' = left
    BY <1>4, <2>1 DEF StreamOf
  <2>3. \A u \in Tasks : u # t => StreamOf(u)' = StreamOf(u)
    BY <1>4 DEF StreamOf
  <2> QED
    BY <1>1, <1>4, <2>1, <2>2, <2>3
    DEF StreamStates, Erased, Registered, StreamPc, StreamHeld, StopsOrOpens
<1>5. CASE PlayFails \/ \E h \in Handles : PlayFailsOpen(h)
  <2>1. /\ pc = "added" /\ pc' = "idle" /\ held' = NoTask
        /\ UNCHANGED <<param, playTaskMap, status>>
    BY <1>5 DEF PlayFails, PlayFailsOpen, EndRequest, taskVars
  <2> PICK t \in Tasks : t = held
    BY <2>1
  <2>2. /\ \A u \in Tasks : u # t => (Calling(u)' <=> Calling(u))
        /\ ~Calling(t)
    BY <1>5, <2>1 DEF PlayFails, PlayFailsOpen, Link, OneStream, Calling
  <2>3. PICK left \in {"open", "closed"} : Calling(t)' <=> left = "open"
    OBVIOUS
  <2>4. /\ StreamStates[t] = "new"
        /\ StreamStates' = [StreamStates EXCEPT ![t] = left]
        /\ Erased' = Erased /\ StreamPc = "idle" /\ StreamHeld = NoTask
    BY <1>4, <2>1, <2>2, <2>3
  <2>5. StreamPc' = "idle" /\ StreamHeld' = NoTask
    BY <1>1, <2>1 DEF StreamPc, StreamHeld, StopsOrOpens
  <2>6. Stream!PlayFails(t)
    BY <2>1, <2>4, <2>5
    DEF OtherRequest, Stream!PlayFails, Stream!taskVars, Stream!httpVars,
        Stream!history
  <2> QED BY <2>6 DEF Stream!Next, Stream!Request
<1>6. ASSUME NEW h \in Handles, PlayOpens(h)
      PROVE  Stream!Next
  <2>1. /\ pc = "added" /\ pc' = "opened" /\ held' = held
        /\ UNCHANGED <<param, playTaskMap, status>>
        /\ streams[h] = NoStream
        /\ streams' = [streams EXCEPT ![h] = [task |-> held, cb |-> TRUE, lost |-> "no"]]
    BY <1>6 DEF PlayOpens, taskVars
  <2> PICK t \in Tasks : t = held
    BY <2>1
  <2>2. [task |-> t, cb |-> TRUE, lost |-> "no"] \in Streams
    BY DEF Streams, Losses
  <2>3. streams'[h] = [task |-> t, cb |-> TRUE, lost |-> "no"] /\ streams'[h] # NoStream
    BY <2>1, <2>2, NoStreamAssumption
  <2>4. \A g \in Handles : g # h => streams'[g] = streams[g]
    BY <2>1
  <2>5. /\ \A u \in Tasks : u # t => (Calling(u)' <=> Calling(u))
        /\ Calling(t)'
    BY <2>1, <2>3, <2>4 DEF Calling
  <2>6. /\ StreamStates[t] = "new"
        /\ StreamStates' = [StreamStates EXCEPT ![t] = "open"]
        /\ Erased' = Erased /\ StreamPc = "idle" /\ StreamHeld = NoTask
    BY <1>4, <2>1, <2>5
  <2>7. StreamPc' = "opened" /\ StreamHeld' = t
    BY <1>1, <2>1 DEF StreamPc, StreamHeld, StopsOrOpens
  <2>8. Stream!Opens(t)
    BY <2>1, <2>6, <2>7
    DEF OtherRequest, Stream!Opens, Stream!taskVars, Stream!history
  <2> QED BY <2>8 DEF Stream!Next, Stream!Request
<1>7. CASE PlayStarts
  <2>1. /\ pc = "opened" /\ pc' = "idle" /\ held' = NoTask
        /\ status' = [status EXCEPT ![held] = "START"]
        /\ UNCHANGED <<param, playTaskMap, streams>>
    BY <1>7 DEF PlayStarts, EndRequest
  <2>2. /\ StreamPc = "opened" /\ StreamPc' = "idle"
        /\ StreamHeld = held /\ StreamHeld' = NoTask
    BY <1>1, <2>1 DEF StreamPc, StreamHeld, StopsOrOpens
  <2>3. UNCHANGED <<StreamStates, Erased>>
    BY <2>1, Unseen
  <2>4. port = NoPort
    BY <1>1 DEF Link
  <2>5. Stream!Started
    BY <2>1, <2>2, <2>3, <2>4
    DEF OtherRequest, Stream!Started, Stream!EndRequest, Stream!sdkVars,
        Stream!history
  <2> QED BY <2>5 DEF Stream!Next, Stream!Request
<1> QED BY <1>2, <1>3, <1>5, <1>6, <1>7 DEF OtherRequest

(* A stream that is given up goes on calling back for its task.            *)
LEMMA LostStillCalls ==
  ASSUME streams \in [Handles -> Streams \cup {NoStream}],
         NEW h \in Handles, streams[h] \in Streams,
         NEW why \in Losses, LoseStream(h, why)
  PROVE  /\ streams'[h] # NoStream /\ streams'[h].lost = why
         /\ \A t \in Tasks : Calling(t)' <=> Calling(t)
<1>1. streams'[h] = [streams[h] EXCEPT !.lost = why]
  BY DEF LoseStream
<1>2. [streams[h] EXCEPT !.lost = why] \in Streams
  BY DEF Streams
<1>3. streams'[h] # NoStream /\ streams[h] # NoStream
  BY <1>1, <1>2, NoStreamAssumption
<1>4. /\ streams'[h].lost = why
      /\ streams'[h].task = streams[h].task
      /\ streams'[h].cb = streams[h].cb
  BY <1>1 DEF Streams
<1>5. \A g \in Handles : g # h => streams'[g] = streams[g]
  BY DEF LoseStream
<1>6. ASSUME NEW t \in Tasks
      PROVE  Calling(t)' <=> Calling(t)
  BY <1>3, <1>4, <1>5 DEF Calling
<1> QED BY <1>3, <1>4, <1>6

(* stopPlayTask: marking, the sleep, closing the stream and giving back    *)
(* the port.                                                               *)
LEMMA StopStep ==
  ASSUME ServiceInv, UNCHANGED grace, Marks \/ Unlocks \/ Finishes \/ Frees
  PROVE  [Stream!Next]_(Stream!vars)
<1> USE DEF ServiceInv, Inv, TypeOK, callVars, stopVars
<1>1. CASE Marks /\ pc' = "marked"
  <2>1. /\ closing = NoTask /\ closing' = NoTask
        /\ pc = "stopping" /\ held' = held /\ status[held] = "START"
        /\ status' = [status EXCEPT ![held] = "STOP"]
        /\ stop' = [stop EXCEPT ![held] = "marked"]
        /\ UNCHANGED <<param, playTaskMap, streams>>
    BY <1>1 DEF Marks, StopMarks, EndRequest
  <2> PICK t \in Tasks : t = held
    BY <2>1
  <2>2. t \notin Erased
    BY <2>1 DEF StartedIsStreaming, TasksFiled, Params, Erased, Registered
  <2>3. UNCHANGED <<StreamStates, Erased>>
    BY <1>1, <2>1, Unseen
  <2>4. /\ StreamPc = "idle" /\ StreamPc' = "marked" /\ StreamHeld' = t
    BY <1>1, <2>1 DEF StreamPc, StreamHeld, StopsOrOpens
  <2>5. Stream!StopMarks(t)
    BY <1>1, <2>1, <2>2, <2>3, <2>4 DEF Marks, Stream!StopMarks, Stream!sdkVars
  <2> QED BY <2>5 DEF Stream!Next, Stream!Request
<1>2. CASE Marks /\ pc' # "marked"
  <2>1. /\ closing = NoTask /\ closing' = NoTask
        /\ pc = "stopping" /\ pc' = "idle"
        /\ UNCHANGED <<status, stop, param, playTaskMap, streams>>
    BY <1>2 DEF Marks, StopMarks, EndRequest
  <2>2. UNCHANGED <<StreamPc, StreamHeld>>
    BY <2>1 DEF StreamPc, StreamHeld, StopsOrOpens
  <2> QED BY <1>2, <2>1, <2>2, Unseen, Stutters DEF Marks
<1>3. CASE Unlocks
  <2>1. /\ closing = NoTask /\ closing' = NoTask
        /\ pc = "marked" /\ pc' = "unlocked" /\ held' = held
        /\ UNCHANGED <<status, param, playTaskMap, streams>>
    BY <1>3 DEF Unlocks, StopUnlocks, taskVars
  <2>2. UNCHANGED <<StreamStates, Erased>>
    BY <2>1, Unseen
  <2>3. /\ StreamPc = "marked" /\ StreamPc' = "unlocked"
        /\ StreamHeld = held /\ StreamHeld' = held
    BY <2>1 DEF StreamPc, StreamHeld, StopsOrOpens
  <2>4. Stream!StopUnlocks
    BY <1>3, <2>1, <2>2, <2>3
    DEF Unlocks, Stream!StopUnlocks, Stream!taskVars, Stream!sdkVars,
        Stream!history
  <2> QED BY <2>4 DEF Stream!Next, Stream!Request
<1>4. CASE Finishes
  <2> DEFINE h == playHandle[held]
  <2>1. /\ closing = NoTask /\ port = NoPort
        /\ pc = "unlocked" /\ pc' = "idle" /\ held' = NoTask
        /\ UNCHANGED <<status, param, playTaskMap, playHandle>>
    BY <1>4 DEF Finishes, StopFinishes, EndRequest, Link, taskVars
  <2> PICK t \in Tasks : t = held
    BY <2>1
  <2>2. h \in Handles /\ streams[h] = [task |-> t, cb |-> TRUE, lost |-> "no"]
    BY <2>1 DEF HandlerKnows
  <2>0. streams[h] # NoStream
    <3>1. [task |-> t, cb |-> TRUE, lost |-> "no"] \in Streams
      BY DEF Streams, Losses
    <3> QED BY <2>2, <3>1, NoStreamAssumption
  <2>3. ASSUME NEW why \in Losses, LoseStream(h, why)
        PROVE  UNCHANGED StreamStates /\ streams'[h] # NoStream /\ streams'[h].lost = why
    <3>1. streams[h] \in Streams
      BY <2>2, <2>0
    <3> HIDE DEF h
    <3>2. /\ streams'[h] # NoStream /\ streams'[h].lost = why
          /\ \A u \in Tasks : Calling(u)' <=> Calling(u)
      BY <2>2, <2>3, <3>1, LostStillCalls
    <3> QED BY <2>1, <3>2 DEF StreamStates, StreamOf
  <2>4. ASSUME streams' = [streams EXCEPT ![h] = NoStream]
        PROVE  StreamStates' = [StreamStates EXCEPT ![t] = "closed"]
    <3>1. streams'[h] = NoStream
      BY <2>2, <2>4
    <3>2. \A g \in Handles : g # h => streams'[g] = streams[g]
      BY <2>2, <2>4
    <3>4. \A g \in Handles : g # h /\ streams[g] # NoStream => streams[g].task # t
      BY <2>2, <2>0 DEF Link, OneStream
    <3> HIDE DEF h
    <3>5. ~Calling(t)' /\ \A u \in Tasks : u # t => (Calling(u)' <=> Calling(u))
      BY <2>2, <3>1, <3>2, <3>4 DEF Calling
    <3>6. param[t] # NoParam
      BY DvrAssumption, NoParamAssumption DEF TasksFiled
    <3>7. StreamOf(t)' = "closed"
      BY <2>1, <3>5, <3>6 DEF StreamOf
    <3>8. \A u \in Tasks : u # t => StreamOf(u)' = StreamOf(u)
      BY <2>1, <3>5 DEF StreamOf
    <3> QED BY <3>7, <3>8 DEF StreamStates
  <2>5. UNCHANGED Erased /\ StreamPc = "unlocked" /\ StreamHeld = t
    BY <2>1 DEF Erased, Registered, StreamPc, StreamHeld, StopsOrOpens
  <2>6. ASSUME NEW why \in {"gave_up", "refused"}, GivesUp(why), UNCHANGED StreamStates
        PROVE  Stream!StopGivesUp
    <3>1. closing' = NoTask /\ port' = NoPort
      BY <2>1, <2>6 DEF GivesUp
    <3>2. StreamPc' = "idle" /\ StreamHeld' = NoTask
      BY <2>1, <3>1 DEF StreamPc, StreamHeld, StopsOrOpens
    <3> QED
      BY <1>4, <2>1, <2>5, <2>6, <3>1, <3>2
      DEF Finishes, GivesUp, Stream!StopGivesUp, Stream!EndRequest,
          Stream!taskVars, Stream!sdkVars
  <2>7. ASSUME Closes, playTaskMap[param[held].id] # NoTask,
               StreamStates' = [StreamStates EXCEPT ![t] = "closed"]
               \/ UNCHANGED StreamStates
        PROVE  Stream!StopCloses
    <3>1. closing' = t /\ t # NoTask /\ port' = dePort[t]
      BY <2>7, DvrAssumption DEF Closes
    <3>2. StreamPc' = "closing" /\ StreamHeld' = t
      BY <3>1 DEF StreamPc, StreamHeld
    <3>3. playTaskMap[param[t].id] = t /\ param[t].id \in TaskIds
      BY <2>1, <2>7, DvrAssumption DEF HandlerKnows, TasksFiled, Params
    <3>4. t \notin Erased
      BY <3>3 DEF Erased, Registered
    <3> QED
      BY <1>4, <2>1, <2>5, <2>7, <3>1, <3>2, <3>4
      DEF Finishes, Closes, Stream!StopCloses, Stream!taskVars
  <2>8. CASE LoseStream(h, "erased") \/ LoseStream(h, "no_api")
    <3>1. UNCHANGED StreamStates /\ streams'[h] # NoStream
          /\ streams'[h].lost \in {"erased", "no_api"}
      BY <2>3, <2>8 DEF Losses
    <3>2. GivesUp("gave_up")
      BY <1>4, <3>1 DEF Finishes
    <3> QED BY <2>6, <3>1, <3>2 DEF Stream!Next, Stream!Request
  <2>9. CASE LoseStream(h, "refused")
    <3>1. UNCHANGED StreamStates /\ streams'[h] # NoStream /\ streams'[h].lost = "refused"
      BY <2>3, <2>9 DEF Losses
    <3>2. GivesUp("refused")
      BY <1>4, <3>1 DEF Finishes
    <3> QED BY <2>6, <3>1, <3>2 DEF Stream!Next, Stream!Request
  <2>10. CASE /\ playTaskMap[param[held].id] # NoTask
              /\ streams' = [streams EXCEPT ![h] = NoStream] \/ LoseStream(h, "no_player")
    <3>1. \/ StreamStates' = [StreamStates EXCEPT ![t] = "closed"] /\ streams'[h] = NoStream
          \/ /\ UNCHANGED StreamStates
             /\ streams'[h] # NoStream /\ streams'[h].lost = "no_player"
      BY <2>2, <2>3, <2>4, <2>10 DEF Losses
    <3>2. Closes
      BY <1>4, <3>1 DEF Finishes
    <3> QED BY <2>7, <2>10, <3>1, <3>2 DEF Stream!Next, Stream!Request
  <2> QED BY <1>4, <2>8, <2>9, <2>10 DEF Finishes, StopFinishes
<1>5. CASE Frees
  BY <1>5 DEF Frees, Stream!Next, Stream!Request
<1> QED BY <1>1, <1>2, <1>3, <1>4, <1>5

(* taskHeartCheck erases tasks no callback is inside of: each callback has *)
(* refreshed its task, and time does not count while it runs.              *)
LEMMA HeartStep ==
  ASSUME ServiceInv, UNCHANGED grace, HeartCheck
  PROVE  Stream!Next
<1> USE DEF ServiceInv, Inv, TypeOK, callVars, stopVars
<1> DEFINE ts == {t \in Tasks : Registered(t) /\ Expired(t)}
<1>1. /\ closing = NoTask /\ closing' = NoTask /\ LockFree
      /\ ts # {}
      /\ playTaskMap' = [id \in TaskIds |->
           IF playTaskMap[id] # NoTask /\ Expired(playTaskMap[id])
           THEN NoTask ELSE playTaskMap[id]]
      /\ UNCHANGED <<param, status, streams, pc, held>>
  BY DEF HeartCheck, TaskHeartCheck, httpVars
<1>2. ASSUME NEW t \in Tasks
      PROVE  Registered(t)' <=> Registered(t) /\ ~Expired(t)
  BY <1>1, DvrAssumption DEF Registered
<1>3. ASSUME NEW t \in ts
      PROVE  /\ param[t] # NoParam /\ status[t] = "STOP" /\ cb[t].at = "out"
             /\ StreamStates[t] # "new"
  <2>1. t \in Tasks /\ Registered(t) /\ Expired(t)
    OBVIOUS
  <2> HIDE DEF ts
  <2>2. param[t] # NoParam
    BY <2>1, DvrAssumption, NoParamAssumption DEF Registered, TasksFiled
  <2>3. updateAge[t] # 0 /\ status[t] = "STOP"
    BY <2>1, DvrAssumption DEF Expired
  <2>4. cb[t].at = "out"
    BY <2>1, <2>3 DEF Link, WorkIsKnown, ThreadsKnown
  <2>5. ~(pc = "added" /\ held = t)
    BY <2>3 DEF HandlerKnows
  <2> QED BY <2>1, <2>2, <2>3, <2>4, <2>5 DEF StreamStates, StreamOf
<1>4. Erased' = Erased \cup ts
  BY <1>1, <1>2, <1>3 DEF Erased
<1> HIDE DEF ts
<1>5. UNCHANGED <<StreamStates, StreamPc, StreamHeld>>
  BY <1>1 DEF StreamStates, StreamOf, Calling, StreamPc, StreamHeld, StopsOrOpens
<1>6. StreamPc \notin {"opened", "marked", "closing"}
  BY <1>1 DEF StreamPc, StopsOrOpens, LockFree
<1>7. Stream!Erased(ts)
  BY <1>1, <1>3, <1>4, <1>5, <1>6
  DEF HeartCheck, Stream!Erased, Stream!sdkVars, Stream!httpVars, Stream!history
<1>8. ts \in SUBSET Tasks
  BY DEF ts
<1> QED BY <1>7, <1>8 DEF Stream!Next

(* The callbacks, which do what HkStream says, and all other threads.      *)
LEMMA CallStep ==
  ASSUME ServiceInv, UNCHANGED grace,
         \/ \E h \in Handles : ComesIn(h)
         \/ \E t \in Tasks : Works(t) \/ GoesOut(t) \/ Elsewhere(t)
  PROVE  [Stream!Next]_(Stream!vars)
<1> USE DEF ServiceInv, Inv, TypeOK
<1>1. ASSUME UNCHANGED <<param, playTaskMap, streams, status, httpVars, closing>>
      PROVE  UNCHANGED <<StreamStates, Erased, StreamPc, StreamHeld>>
  BY <1>1, Unseen DEF StreamPc, StreamHeld, StopsOrOpens, httpVars
<1>2. ASSUME NEW h \in Handles, ComesIn(h)
      PROVE  [Stream!Next]_(Stream!vars)
  <2>1. PICK t \in Tasks : t = streams[h].task
    BY <1>2 DEF ComesIn, StreamData, Streams
  <2>2. CASE Stream!HeaderArrives(t) \/ Stream!DataArrives(t)
    BY <2>2 DEF Stream!Next, Stream!Callback
  <2>3. CASE UNCHANGED cb
    BY <1>1, <1>2, <2>3, Stutters DEF ComesIn, StreamData, callVars, stopVars
  <2> QED BY <1>2, <2>1, <2>2, <2>3 DEF ComesIn
<1>3. ASSUME NEW t \in Tasks, Works(t)
      PROVE  Stream!Next
  BY <1>3 DEF Works, Stream!Next, Stream!Callback
<1>4. ASSUME NEW t \in Tasks, GoesOut(t) \/ Elsewhere(t)
      PROVE  UNCHANGED Stream!vars
  BY <1>1, <1>4, Stutters
  DEF GoesOut, Elsewhere, StreamDataDone, SenderPolls, Ages, stopVars, taskVars
<1> QED BY <1>2, <1>3, <1>4

(* Every step of the service is one of the streams, or leaves them alone.  *)
LEMMA StreamStep ==
  ServiceInv /\ [ServiceNext]_serviceVars => [Stream!Next]_(Stream!vars)
<1>1. ASSUME ServiceInv, ServiceNext
      PROVE  [Stream!Next]_(Stream!vars)
  BY <1>1, OtherStep, StopStep, HeartStep, CallStep DEF ServiceNext
<1>2. ASSUME ServiceInv, UNCHANGED serviceVars
      PROVE  UNCHANGED Stream!vars
  BY <1>2, Unseen, Stutters
  DEF serviceVars, vars, dvrVars, taskVars, httpVars, callVars, stopVars,
      StreamPc, StreamHeld, StopsOrOpens
<1> QED BY <1>1, <1>2

-----------------------------------------------------------------------------
(* The SDK never has two streams for one task: play() runs once for it.    *)
LEMMA OneStreamStep == Inv /\ OneStream /\ [Next]_vars => OneStream'
<1> SUFFICES ASSUME Inv, OneStream, [Next]_vars
             PROVE  OneStream'
  OBVIOUS
<1> USE DEF Inv, TypeOK
<1>1. ASSUME NEW t \in Tasks, NEW p \in Params, PlayRequest(t, p)
      PROVE  OneStream'
  <2>1. /\ pc' = "added" /\ held' = t /\ streams' = streams
        /\ param[t] = NoParam
    BY <1>1 DEF PlayRequest, AddTask
  <2>2. \A h \in Handles : streams[h] # NoStream => streams[h].task # t
    BY <2>1, NoParamAssumption DEF TasksFiled
  <2> QED BY <2>1, <2>2 DEF OneStream
<1>2. ASSUME NEW h \in Handles, pc = "added", pc' # "added",
             streams[h] = NoStream, streams'[h].task = held,
             \A g \in Handles : g # h => streams'[g] = streams[g]
      PROVE  OneStream'
  BY <1>2 DEF OneStream
<1>3. ASSUME NEW h \in Handles, PlayFailsOpen(h) \/ PlayOpens(h)
      PROVE  OneStream'
  BY <1>2, <1>3 DEF PlayFailsOpen, PlayOpens, EndRequest
<1>4. CASE StopFinishes
  <2> DEFINE h == playHandle[held]
  <2>1. /\ pc' = "idle" /\ h \in Handles
        /\ streams[h] = [task |-> held, cb |-> TRUE, lost |-> "no"]
    BY <1>4 DEF StopFinishes, EndRequest, HandlerKnows
  <2>2. \A g \in Handles : g # h => streams'[g] = streams[g]
    BY <1>4, <2>1 DEF StopFinishes, LoseStream
  <2>3. streams[h] \in Streams
    BY <1>4, <2>1 DEF StopFinishes, Streams, Losses
  <2>4. \/ streams'[h] = NoStream
        \/ \E why \in Losses : LoseStream(h, why)
    BY <1>4, <2>1 DEF StopFinishes, Losses
  <2>5. streams[h] # NoStream
    BY <2>3, NoStreamAssumption
  <2> HIDE DEF h
  <2>6. streams'[h] # NoStream => streams'[h].task = streams[h].task
    BY <2>1, <2>3, <2>4 DEF LoseStream, Streams
  <2> QED BY <2>1, <2>2, <2>5, <2>6 DEF OneStream
<1>5. CASE UNCHANGED streams /\ (pc' # "added" \/ UNCHANGED <<pc, held>>)
  BY <1>5 DEF OneStream
<1> QED
  BY <1>1, <1>3, <1>4, <1>5
  DEF Next, HttpStep, UserRequest, StopRequest, HeartBeat, PlayFails,
      PlayStarts, StopMarks, StopUnlocks, TaskHeartCheck, StreamData,
      StreamDataDone, SenderPolls, Ages, EndRequest, vars, dvrVars, httpVars

LEMMA LinkStep == ServiceInv /\ [ServiceNext]_serviceVars => Link'
<1> SUFFICES ASSUME ServiceInv, [ServiceNext]_serviceVars
             PROVE  Link'
  OBVIOUS
<1> USE DEF ServiceInv, Link
<1>1. OneStream'
  BY DvrStep, OneStreamStep
<1>2. /\ closing' # NoTask => pc' = "idle" /\ closing' \in Tasks
      /\ closing' = NoTask => port' = NoPort
  <2>1. CASE OtherRequest \/ Marks \/ Unlocks
    BY <2>1 DEF OtherRequest, Marks, Unlocks, stopVars
  <2>2. CASE Finishes
    BY <2>2
    DEF Finishes, GivesUp, Closes, StopFinishes, EndRequest, Inv, TypeOK
  <2>3. CASE Frees
    BY <2>3 DEF Frees, Stream!StopFrees, Stream!EndRequest
  <2>4. CASE UNCHANGED <<closing, port, pc>>
    BY <2>4
  <2>5. CASE HeartCheck \/ \E h \in Handles : ComesIn(h)
    BY <2>4, <2>5
    DEF HeartCheck, TaskHeartCheck, ComesIn, StreamData, httpVars, stopVars
  <2>6. CASE \E t \in Tasks : Works(t) \/ GoesOut(t) \/ Elsewhere(t)
    BY <2>4, <2>6
    DEF Works, GoesOut, Elsewhere, StreamDataDone, SenderPolls, Ages, httpVars,
        stopVars, vars, dvrVars
  <2>7. CASE UNCHANGED serviceVars
    BY <2>4, <2>7 DEF serviceVars, vars, dvrVars, httpVars, stopVars
  <2> QED BY <2>1, <2>2, <2>3, <2>5, <2>6, <2>7 DEF ServiceNext
<1>3. WorkIsKnown'
  <2> USE DEF WorkIsKnown
  <2>t. cb \in [Tasks -> Stream!Calls]
    BY DEF Stream!Inv, Stream!TypeOK
  <2>1. CASE UNCHANGED <<cb, inCallback>>
    BY <2>1
  <2>2. CASE OtherRequest
    BY <2>1, <2>2
    DEF OtherRequest, UserRequest, PlayRequest, StopRequest, HeartBeat,
        PlayFails, PlayFailsOpen, PlayOpens, PlayStarts, callVars
  <2>3. CASE Marks \/ Unlocks \/ Finishes \/ Frees \/ HeartCheck
    BY <2>1, <2>3
    DEF Marks, StopMarks, Unlocks, StopUnlocks, Finishes, StopFinishes, Frees,
        Stream!StopFrees, HeartCheck, TaskHeartCheck, callVars, vars, dvrVars
  <2>4. ASSUME NEW h \in Handles, ComesIn(h)
        PROVE  WorkIsKnown'
    BY <2>t, <2>4
    DEF ComesIn, StreamData, Stream!HeaderArrives, Stream!DataArrives,
        Stream!Enters
  <2>5. ASSUME NEW t \in Tasks, Works(t)
        PROVE  WorkIsKnown'
    <3>1. UNCHANGED inCallback
      BY <2>5 DEF Works, vars, dvrVars
    <3>2. CASE Stream!Drops(t)
      BY <2>1, <3>1, <3>2 DEF Stream!Drops
    <3>3. CASE Stream!GetsPort(t) \/ Stream!KeepsPort(t) \/ Stream!SetsUp(t)
               \/ Stream!Feeds(t)
      <4>1. t \in inCallback /\ \A u \in Tasks : u # t => cb'[u] = cb[u]
        BY <2>t, <3>3
        DEF Stream!GetsPort, Stream!KeepsPort, Stream!SetsUp, Stream!Feeds,
            Stream!Returns, Stream!At
      <4> QED BY <3>1, <4>1
    <3> QED BY <2>5, <3>2, <3>3 DEF Works
  <2>6. ASSUME NEW t \in Tasks, GoesOut(t)
        PROVE  WorkIsKnown'
    BY <2>6 DEF GoesOut, StreamDataDone, callVars
  <2>7. CASE \E t \in Tasks : Elsewhere(t)
    BY <2>1, <2>7 DEF Elsewhere, SenderPolls, Ages, callVars
  <2>8. CASE UNCHANGED serviceVars
    BY <2>1, <2>8 DEF serviceVars, vars, dvrVars, callVars
  <2> QED BY <2>2, <2>3, <2>4, <2>5, <2>6, <2>7, <2>8 DEF ServiceNext
<1> QED BY <1>1, <1>2, <1>3

-----------------------------------------------------------------------------
LEMMA StreamInit == ServiceInit => Stream!Init
<1> SUFFICES ASSUME ServiceInit
             PROVE  Stream!Init
  OBVIOUS
<1>1. /\ StreamStates = [t \in Tasks |-> "new"]
      /\ Erased = {} /\ StreamPc = "idle" /\ StreamHeld = NoTask
  BY DEF ServiceInit, Init, StreamStates, StreamOf, Erased, StreamPc,
         StreamHeld, StopsOrOpens
<1> QED BY <1>1 DEF ServiceInit, Init, Stream!Init

LEMMA ServiceStep == ServiceInv /\ [ServiceNext]_serviceVars => ServiceInv'
<1> SUFFICES ASSUME ServiceInv, [ServiceNext]_serviceVars
             PROVE  ServiceInv'
  OBVIOUS
<1>1. Inv'
  BY DvrStep, InvStep DEF ServiceInv
<1>2. Stream!Inv'
  BY StreamStep, Stream!NextInv, StreamAssumed DEF ServiceInv
<1> QED BY <1>1, <1>2, LinkStep DEF ServiceInv

(* The invariants of both modules, and what links them.                    *)
THEOREM ServiceInvariance == ServiceSpec => []ServiceInv
<1>1. ServiceInit => ServiceInv
  <2> SUFFICES ASSUME ServiceInit
               PROVE  ServiceInv
    OBVIOUS
  <2>1. Inv
    BY InvInit DEF ServiceInit
  <2>2. Link
    BY DEF ServiceInit, Init, Link, OneStream, WorkIsKnown, Stream!Out, Stream!Call
  <2>3. Stream!Inv
    BY StreamInit, Stream!InitInv, StreamAssumed
  <2> QED BY <2>1, <2>2, <2>3 DEF ServiceInv
<1> QED BY <1>1, ServiceStep, PTL DEF ServiceSpec

(* The service implements the registry of DvrControl, timing included.     *)
THEOREM ServiceImplementsDvr == ServiceSpec => Spec
<1>1. ServiceInit => Init
  BY DEF ServiceInit
<1> QED BY <1>1, DvrStep, PTL DEF ServiceSpec, Spec

(* The service implements HkStream: what that module supposes of the       *)
(* registry and of the SDK is what they do.                                *)
THEOREM ServiceImplementsStream == ServiceSpec => RefinesStream
BY StreamInit, StreamStep, ServiceInvariance, PTL
DEF ServiceSpec, RefinesStream, Stream!Spec

(* What HkStreamProofs says of ports holds with logins, ids, timeouts and  *)
(* refusals: none leaks by a late header, frames go to their owner, and a  *)
(* decoder points at an erased task only on a port that was lost.          *)
THEOREM ServiceKeepsPorts ==
  ServiceSpec => [](Stream!PortAccounted /\ Stream!NoLateLeak
                    /\ Stream!FramesOfOwner /\ Stream!NoDanglingDecoder)
BY ServiceImplementsStream, StreamAssumed, Stream!PortsAlwaysAccounted,
   Stream!NeverLateLeak, Stream!FramesGoToOwner, Stream!DecoderNeverDangles, PTL
DEF RefinesStream

(* ... and the ports are the leases of PortLease.                          *)
THEOREM ServiceImplementsLease == ServiceSpec => Stream!RefinesLease
BY ServiceImplementsStream, StreamAssumed, Stream!ImplementsLease, PTL
DEF RefinesStream

(* A callback at work is one the registry knows of, so that the ages of    *)
(* DvrControl keep its task from being erased.                             *)
THEOREM WorkAlwaysKnown == ServiceSpec => []WorkIsKnown
<1>1. ServiceInv => WorkIsKnown
  BY DEF ServiceInv, Link
<1> QED BY <1>1, ServiceInvariance, PTL

(* A confirmed play whose header was accepted is served from end to end,   *)
(* whatever other tasks, requests and threads do.                          *)
THEOREM PlayingAlwaysServed == ServiceSpec => []PlayingIsServed
<1>1. Stream!Inv => Stream!PlayingSees
  BY StreamAssumed
  DEF Stream!Inv, Stream!StreamAssumption, Stream!PlayingSees,
      Stream!TaskLife, Stream!HookKept, Stream!PortFiled
<1>2. ServiceInv => PlayingIsServed
  <2> SUFFICES ASSUME ServiceInv, grace, NEW t \in Tasks,
                      status[t] = "START", header[t] = "done"
               PROVE  /\ Registered(t)
                      /\ playHandle[t] \in Handles
                      /\ streams[playHandle[t]] = [task |-> t, cb |-> TRUE, lost |-> "no"]
                      /\ dePort[t] \in Ports
                      /\ owner[dePort[t]] = t /\ decUser[dePort[t]] = t
    BY DEF PlayingIsServed
  <2>1. Registered(t)
    <3>1. param[t] \in Params
      BY DEF ServiceInv, Inv, TypeOK, TasksFiled
    <3> QED BY <3>1 DEF ServiceInv, Inv, StartedIsStreaming, Params, Registered
  <2>2. /\ playHandle[t] \in Handles
        /\ streams[playHandle[t]] = [task |-> t, cb |-> TRUE, lost |-> "no"]
    BY DEF ServiceInv, Inv, StartedIsStreaming
  <2>3. dePort[t] \in Ports /\ owner[dePort[t]] = t /\ decUser[dePort[t]] = t
    BY <1>1 DEF ServiceInv, Stream!PlayingSees
  <2> QED BY <2>1, <2>2, <2>3
<1> QED BY <1>2, ServiceInvariance, PTL

-----------------------------------------------------------------------------
(* A stream that was given up is never closed nor used for another task.   *)
LEMMA GivenUpForEver ==
  ASSUME Inv, [Next]_vars, NEW t \in Tasks, GivenUp(t)
  PROVE  GivenUp(t)'
<1> USE DEF Inv, TypeOK
<1> DEFINE h == playHandle[t]
<1>1. /\ h \in Handles /\ streams[h] # NoStream /\ streams[h].task = t
      /\ streams[h].lost \in {"erased", "no_api", "refused"}
  BY DEF GivenUp
<1>2. CASE PlayStarts
  <2>1. playHandle[held] = NoHandle
    BY <1>2 DEF PlayStarts, HandlerKnows
  <2>2. playHandle'[t] = playHandle[t] /\ streams' = streams
    BY <1>1, <1>2, <2>1, DvrAssumption DEF PlayStarts
  <2> QED BY <1>1, <2>2 DEF GivenUp
<1>3. ASSUME UNCHANGED playHandle, streams'[h] = streams[h]
      PROVE  GivenUp(t)'
  BY <1>1, <1>3 DEF GivenUp
<1>4. ASSUME NEW g \in Handles, PlayFailsOpen(g) \/ PlayOpens(g)
      PROVE  GivenUp(t)'
  <2>1. streams'[h] = streams[h] /\ UNCHANGED playHandle
    BY <1>1, <1>4 DEF PlayFailsOpen, PlayOpens, taskVars
  <2> QED BY <1>3, <2>1
<1>5. CASE StopFinishes
  <2>1. playHandle[held] # h
    BY <1>1, <1>5 DEF StopFinishes, HandlerKnows
  <2>2. streams'[h] = streams[h] /\ UNCHANGED playHandle
    BY <1>1, <1>5, <2>1 DEF StopFinishes, LoseStream, taskVars
  <2> QED BY <1>3, <2>2
<1>6. CASE UNCHANGED <<streams, playHandle>>
  BY <1>3, <1>6
<1> QED
  BY <1>2, <1>4, <1>5, <1>6
  DEF Next, HttpStep, UserRequest, PlayRequest, AddTask, StopRequest, HeartBeat,
      PlayFails, StopMarks, StopUnlocks, TaskHeartCheck, StreamData,
      StreamDataDone, SenderPolls, Ages, vars, dvrVars, taskVars

(* A stream that was not given up is given up by the end of its own stop,  *)
(* if at all.                                                              *)
LEMMA NotGivenUpElsewhere ==
  ASSUME Inv, [Next]_vars, NEW t \in Tasks, ~GivenUp(t),
         ~(pc = "unlocked" /\ held = t)
  PROVE  ~GivenUp(t)'
<1> USE DEF Inv, TypeOK
<1> DEFINE h == playHandle[t]
<1>1. CASE PlayStarts
  <2>1. CASE t = held
    <3>1. playHandle'[t] = lid /\ streams'[lid].lost = "no"
      BY <1>1, <2>1 DEF PlayStarts, HandlerKnows, taskVars
    <3> QED BY <3>1 DEF GivenUp
  <2>2. CASE t # held
    BY <1>1, <2>2 DEF PlayStarts, GivenUp
  <2> QED BY <2>1, <2>2
<1>2. ASSUME NEW g \in Handles, PlayFailsOpen(g) \/ PlayOpens(g)
      PROVE  ~GivenUp(t)'
  <2>1. /\ UNCHANGED playHandle
        /\ \A i \in Handles :
             \/ streams'[i] = streams[i]
             \/ streams'[i].lost \in {"no", "no_callback", "not_started"}
    BY <1>2 DEF PlayFailsOpen, PlayOpens, taskVars
  <2> QED BY <2>1 DEF GivenUp
<1>3. CASE StopFinishes
  <2>1. /\ held # t /\ UNCHANGED playHandle
        /\ playHandle[held] \in Handles
        /\ streams[playHandle[held]] = [task |-> held, cb |-> TRUE, lost |-> "no"]
    BY <1>3 DEF StopFinishes, HandlerKnows, taskVars
  <2>2. \A i \in Handles : i # playHandle[held] => streams'[i] = streams[i]
    BY <1>3 DEF StopFinishes, LoseStream
  <2>3. streams'[playHandle[held]] # NoStream =>
          streams'[playHandle[held]].task = held
    BY <1>3, <2>1 DEF StopFinishes, LoseStream
  <2> QED BY <2>1, <2>2, <2>3 DEF GivenUp
<1>4. CASE UNCHANGED <<streams, playHandle>>
  BY <1>4 DEF GivenUp
<1> QED
  BY <1>1, <1>2, <1>3, <1>4
  DEF Next, HttpStep, UserRequest, PlayRequest, AddTask, StopRequest, HeartBeat,
      PlayFails, StopMarks, StopUnlocks, TaskHeartCheck, StreamData,
      StreamDataDone, SenderPolls, Ages, vars, dvrVars, taskVars

(* A port that a stop gives up belongs to a stream given up by it.         *)
LEMMA GaveUpStep ==
  ASSUME ServiceInv, LostWithItsStream, [ServiceNext]_serviceVars
  PROVE  \A p \in Ports :
           owner'[p] # NoTask /\ leak'[p] \in {"gave_up", "refused"} =>
             GivenUp(owner[p])'
<1> SUFFICES ASSUME NEW p \in Ports, owner'[p] # NoTask,
                    leak'[p] \in {"gave_up", "refused"},
                    NEW t \in Tasks, t = owner'[p]
             PROVE  GivenUp(t)'
  BY ServiceStep DEF LostWithItsStream, ServiceInv, Stream!Inv, Stream!TypeOK
<1> USE DEF ServiceInv
<1>t. /\ owner \in [Ports -> Tasks \cup {NoTask}]
      /\ leak \in [Ports -> Stream!Leaks]
  BY DEF Stream!Inv, Stream!TypeOK
<1>1. ASSUME owner'[p] = owner[p], leak'[p] = leak[p]
      PROVE  GivenUp(t)'
  BY <1>1, DvrStep, GivenUpForEver DEF LostWithItsStream
<1>2. CASE Finishes
  <2>1. /\ pc = "unlocked" /\ closing = NoTask
        /\ playHandle' = playHandle /\ owner' = owner
    BY <1>2 DEF Finishes, StopFinishes, taskVars
  <2>2. StreamHeld = held
    BY <2>1 DEF StreamHeld, StopsOrOpens
  <2>3. CASE t # held
    BY <1>1, <1>2, <1>t, <2>1, <2>2, <2>3
    DEF Finishes, GivesUp, Closes, Stream!Leaking
  <2>4. CASE t = held
    <3>1. /\ playHandle[t] \in Handles
          /\ streams[playHandle[t]] = [task |-> t, cb |-> TRUE, lost |-> "no"]
      BY <2>1, <2>4 DEF Inv, HandlerKnows
    <3>2. ~GivenUp(t)
      BY <3>1 DEF GivenUp
    <3>3. leak[p] \notin {"gave_up", "refused"}
      BY <2>1, <3>2 DEF LostWithItsStream
    <3>4. ~Closes
      BY <1>t, <2>1, <2>2, <2>4, <3>3 DEF Closes, Stream!Leaking
    <3> DEFINE h == playHandle[t]
    <3>5. /\ streams'[h] # NoStream
          /\ streams'[h].lost \in {"erased", "no_api", "refused"}
      BY <1>2, <2>4, <3>4 DEF Finishes
    <3>6. \E why \in Losses : LoseStream(h, why)
      BY <1>2, <2>4, <3>1, <3>5
      DEF Finishes, StopFinishes, Losses, Inv, TypeOK
    <3>7. streams[h] \in Streams
      BY <3>1 DEF Streams, Losses
    <3>8. streams'[h].task = t
      BY <3>1, <3>6, <3>7 DEF LoseStream, Streams, Inv, TypeOK
    <3> QED BY <2>1, <3>1, <3>5, <3>8 DEF GivenUp
  <2> QED BY <2>3, <2>4
<1>3. CASE Frees
  <2>1. port \in Ports \cup {NoPort}
    BY DEF Stream!Inv, Stream!TypeOK
  <2> QED BY <1>1, <1>3, <1>t, <2>1 DEF Frees, Stream!StopFrees
<1>4. ASSUME NEW u \in Tasks, Works(u)
      PROVE  GivenUp(t)'
  <2>1. CASE Stream!GetsPort(u)
    BY <1>1, <1>t, <2>1 DEF Stream!GetsPort
  <2>2. CASE Stream!KeepsPort(u) \/ Stream!SetsUp(u) \/ Stream!Feeds(u)
             \/ Stream!Drops(u)
    BY <1>1, <2>2
    DEF Stream!KeepsPort, Stream!SetsUp, Stream!Feeds, Stream!Drops,
        Stream!sdkVars, Stream!history
  <2> QED BY <1>4, <2>1, <2>2 DEF Works
<1>5. CASE UNCHANGED <<owner, leak>>
  BY <1>1, <1>5
<1> QED
  BY <1>2, <1>3, <1>4, <1>5
  DEF ServiceNext, OtherRequest, Marks, Unlocks, HeartCheck, ComesIn, GoesOut,
      Elsewhere, serviceVars, callVars, stopVars

(* A port is stuck only after the stop got beyond giving the stream up.    *)
ClosedNotGivenUp == closing # NoTask => ~GivenUp(closing)

LEMMA StuckStep ==
  ASSUME ServiceInv, LostWithItsStream, ClosedNotGivenUp,
         [ServiceNext]_serviceVars
  PROVE  /\ \A p \in Ports :
              owner'[p] # NoTask /\ leak'[p] = "stuck" => ~GivenUp(owner[p])'
         /\ ClosedNotGivenUp'
<1> USE DEF ServiceInv
<1>t. /\ owner \in [Ports -> Tasks \cup {NoTask}]
      /\ leak \in [Ports -> Stream!Leaks]
      /\ port \in Ports \cup {NoPort}
      /\ owner' \in [Ports -> Tasks \cup {NoTask}]
  BY ServiceStep DEF Stream!Inv, Stream!TypeOK
<1>1. ASSUME NEW p \in Ports, owner[p] # NoTask, leak[p] = "stuck"
      PROVE  /\ owner[p] \in Tasks /\ ~GivenUp(owner[p])
             /\ ~(pc = "unlocked" /\ closing = NoTask /\ held = owner[p])
  <2>1. stop[owner[p]] = "read"
    BY <1>t, <1>1 DEF Stream!Inv, Stream!PortFiled
  <2>2. pc = "unlocked" /\ closing = NoTask => stop[held] = "marked"
    BY DEF Stream!Inv, Stream!HandlerKnows, StreamPc, StreamHeld, StopsOrOpens
  <2> QED BY <1>t, <1>1, <2>1, <2>2 DEF LostWithItsStream
<1>2. closing # NoTask => closing \in Tasks /\ pc = "idle" /\ ~GivenUp(closing)
  BY DEF Link, ClosedNotGivenUp
<1>3. ASSUME NEW p \in Ports, owner[p] # NoTask, leak[p] = "stuck",
             owner'[p] = owner[p]
      PROVE  ~GivenUp(owner[p])'
  <2> PICK t \in Tasks : t = owner[p]
    BY <1>1, <1>3
  <2>1. ~GivenUp(t)'
    BY <1>1, <1>2, <1>3, DvrStep, NotGivenUpElsewhere
  <2> QED BY <1>3, <2>1 DEF GivenUp
<1>4. closing # NoTask /\ closing' = closing => ~GivenUp(closing)'
  <2> SUFFICES ASSUME NEW t \in Tasks, t = closing, closing' = closing
               PROVE  ~GivenUp(closing)'
    BY <1>2
  <2>1. ~GivenUp(t)'
    BY <1>2, DvrStep, NotGivenUpElsewhere, DvrAssumption
  <2> QED BY <2>1 DEF GivenUp
<1>5. CASE Finishes
  <2>1. closing = NoTask /\ owner' = owner /\ UNCHANGED playHandle
    BY <1>5 DEF Finishes, StopFinishes, taskVars
  <2>2. \A p \in Ports : leak'[p] = "stuck" => leak[p] = "stuck"
    BY <1>5, <1>t DEF Finishes, GivesUp, Closes, Stream!Leaking
  <2>3. ASSUME closing' # NoTask
        PROVE  ~GivenUp(closing)'
    <3>1. /\ closing' = held
          /\ \/ streams'[playHandle[held]] = NoStream
             \/ streams'[playHandle[held]].lost \in {"no", "no_player"}
      BY <1>5, <2>1, <2>3 DEF Finishes, GivesUp, Closes
    <3> QED BY <2>1, <3>1 DEF GivenUp
  <2> QED BY <1>3, <2>1, <2>2, <2>3 DEF ClosedNotGivenUp
<1>6. CASE Frees
  <2>1. closing # NoTask /\ closing' = NoTask
    BY <1>6 DEF Frees
  <2>2. port # NoPort => port \in Ports /\ owner[port] = closing
    BY <1>2, <2>1, <1>t
    DEF Stream!Inv, Stream!HandlerKnows, StreamPc, StreamHeld
  <2>3. ASSUME NEW p \in Ports, owner'[p] # NoTask, leak'[p] = "stuck"
        PROVE  ~GivenUp(owner[p])'
    <3>1. /\ owner'[p] = owner[p]
          /\ leak[p] = "stuck" \/ (p = port /\ port # NoPort)
      BY <1>6, <1>t, <2>3 DEF Frees, Stream!StopFrees
    <3>2. CASE leak[p] = "stuck"
      BY <1>3, <2>3, <3>1, <3>2
    <3>3. CASE p = port /\ port # NoPort
      <4> PICK t \in Tasks : t = closing
        BY <1>2, <2>1
      <4>1. ~GivenUp(t)'
        BY <1>2, <2>1, DvrStep, NotGivenUpElsewhere
      <4> QED BY <2>2, <3>1, <3>3, <4>1 DEF GivenUp
    <3> QED BY <3>1, <3>2, <3>3
  <2> QED BY <2>1, <2>3 DEF ClosedNotGivenUp
<1>7. ASSUME closing' = closing,
             \A p \in Ports : owner'[p] # NoTask /\ leak'[p] = "stuck" =>
               owner'[p] = owner[p] /\ leak[p] = "stuck"
      PROVE  /\ \A p \in Ports :
                  owner'[p] # NoTask /\ leak'[p] = "stuck" => ~GivenUp(owner[p])'
             /\ ClosedNotGivenUp'
  BY <1>3, <1>4, <1>7 DEF ClosedNotGivenUp
<1>8. ASSUME NEW u \in Tasks, Works(u)
      PROVE  /\ closing' = closing
             /\ \A p \in Ports : owner'[p] # NoTask /\ leak'[p] = "stuck" =>
                  owner'[p] = owner[p] /\ leak[p] = "stuck"
  <2>1. CASE Stream!GetsPort(u)
    BY <1>8, <1>t, <2>1 DEF Works, Stream!GetsPort
  <2>2. CASE Stream!KeepsPort(u) \/ Stream!SetsUp(u) \/ Stream!Feeds(u)
             \/ Stream!Drops(u)
    BY <1>8, <2>2
    DEF Works, Stream!KeepsPort, Stream!SetsUp, Stream!Feeds, Stream!Drops,
        Stream!sdkVars, Stream!history
  <2> QED BY <1>8, <2>1, <2>2 DEF Works
<1>9. CASE UNCHANGED <<owner, leak, closing>>
  BY <1>7, <1>9
<1> QED
  BY <1>5, <1>6, <1>7, <1>8, <1>9
  DEF ServiceNext, OtherRequest, Marks, Unlocks, HeartCheck, ComesIn, GoesOut,
      Elsewhere, serviceVars, callVars, stopVars

(* What a stop left behind, port and stream together: a port it gave up    *)
(* belongs to a stream that is open and given up; a port that was not      *)
(* freed though the stop went through belongs to one that was not given up. *)
THEOREM LostAlwaysWithItsStream == ServiceSpec => []LostWithItsStream
<1>1. ServiceInit => LostWithItsStream /\ ClosedNotGivenUp
  BY DEF ServiceInit, LostWithItsStream, ClosedNotGivenUp
<1>2. ServiceInv /\ LostWithItsStream /\ ClosedNotGivenUp
        /\ [ServiceNext]_serviceVars
        => (LostWithItsStream /\ ClosedNotGivenUp)'
  <2> SUFFICES ASSUME ServiceInv, LostWithItsStream, ClosedNotGivenUp,
                      [ServiceNext]_serviceVars
               PROVE  (LostWithItsStream /\ ClosedNotGivenUp)'
    OBVIOUS
  <2>1. \A p \in Ports :
          owner'[p] # NoTask /\ leak'[p] \in {"gave_up", "refused"} =>
            GivenUp(owner[p])'
    BY GaveUpStep
  <2>2. /\ \A p \in Ports :
             owner'[p] # NoTask /\ leak'[p] = "stuck" => ~GivenUp(owner[p])'
        /\ ClosedNotGivenUp'
    BY StuckStep
  <2> QED BY <2>1, <2>2 DEF LostWithItsStream
<1> QED BY <1>1, <1>2, ServiceInvariance, PTL DEF ServiceSpec
=============================================================================
