----------------------------- MODULE HttpServer -----------------------------
(***************************************************************************)
(* The request handlers of http-server.cpp: DvrControl, step by step, with *)
(* what each request is answered and what a client may conclude from it.   *)
(* A handler answers once, at its end; libevent runs one at a time.        *)
(* Parameters are reduced to whether the handler accepts them, numbers of  *)
(* replies to success, the handler's own codes and SdkError.               *)
(***************************************************************************)
EXTENDS DvrControl, Integers

SdkError == 1  (* any error code of the SDK, none of which is 0            *)

Msgs ==
  {"OK", "playok", "param error", "no taskId", "no such user", "cann't find file",
   "add task failed", "play failed", "no such task", "stop play failed",
   "error", "control failed", "logout failed"}

VARIABLES
  owed,    (* a request has arrived and is not answered                     *)
  answer,  (* the last answer sent                                          *)
  said,    (* what a client was last told about a task id                   *)
  fresh,   (* tasks created in the current second of time(NULL)             *)
  obeyed,  (* <<addressed, reached>> task of the control just obeyed, or <<>> *)
  down     (* the process has died                                          *)

answerVars == <<owed, answer, said, fresh, obeyed, down>>
allVars == <<vars, answerVars>>

HttpTypeOK ==
  /\ owed \in BOOLEAN
  /\ answer \in [code : {0, -1, -2, -3, SdkError}, msg : Msgs]
  /\ said \in [TaskIds -> {"nothing", "playok", "stopping"}]
  /\ fresh \in SUBSET Tasks
  /\ obeyed \in {<<>>} \cup (Tasks \X Tasks)
  /\ down \in BOOLEAN
  /\ ~down => (owed <=> pc # "idle")

HttpInit ==
  /\ Init
  /\ owed = FALSE
  /\ answer = [code |-> 0, msg |-> "OK"]
  /\ said = [id \in TaskIds |-> "nothing"]
  /\ fresh = {}
  /\ obeyed = <<>>
  /\ down = FALSE

Answer(code, msg) ==
  /\ answer' = [code |-> code, msg |-> msg]
  /\ owed' = FALSE
  /\ obeyed' = <<>>
  /\ UNCHANGED down

Accepted ==
  /\ owed' = TRUE
  /\ obeyed' = <<>>
  /\ UNCHANGED <<answer, down>>

Silent ==
  /\ obeyed' = <<>>
  /\ UNCHANGED <<owed, answer, down>>

Say(id, what) == said' = [said EXCEPT ![id] = what]

-----------------------------------------------------------------------------
(* A parameter is missing or no number: rc is still 0 in most handlers.    *)
BadRequest ==
  /\ pc = "idle"
  /\ \/ Answer(0, "param error")      (* playcontrol, stopplayback, playback, *)
                                      (* logout, login                        *)
     \/ Answer(-1, "param error")     (* playreal                             *)
     \/ Answer(-1, "no taskId")       (* heart                                *)
  /\ UNCHANGED <<vars, said, fresh>>

(* /playreal and /playback that go no further.                             *)
PlayRejected(p) ==
  /\ pc = "idle"
  /\ \/ /\ ~HasApi(GetIp(p.user))
        /\ Answer(-1, "no such user")
     \/ /\ HasApi(GetIp(p.user))
        /\ p.type = "PLAYBACK"
        /\ Answer(-2, "cann't find file")
     \/ /\ HasApi(GetIp(p.user))
        /\ playTaskMap[p.id] # NoTask
        /\ Answer(IF p.type = "PLAYBACK" THEN -3 ELSE -2, "add task failed")
  /\ UNCHANGED <<vars, said, fresh>>

PlayAccepted(t, p) ==
  /\ PlayRequest(t, p)
  /\ Accepted
  /\ fresh' = fresh \cup {t}
  /\ UNCHANGED said

PlayRefused ==
  /\ PlayFails \/ \E h \in Handles : PlayFailsOpen(h)
  /\ Answer(SdkError, "play failed")
  /\ UNCHANGED <<said, fresh>>

PlayConfirmed ==
  /\ PlayStarts
  /\ Answer(0, "playok")
  /\ Say(param[held].id, "playok")
  /\ UNCHANGED fresh

StopAsked(id) ==
  /\ StopRequest(id)
  /\ IF playTaskMap[id] = NoTask
     THEN Answer(-1, "no such task") /\ UNCHANGED said
     ELSE Accepted /\ Say(id, IF said[id] = "playok" THEN "stopping" ELSE said[id])
  /\ UNCHANGED fresh

(* A stop request of a task already in state STOP ends here.               *)
StopMarked ==
  /\ StopMarks
  /\ IF pc' = "idle" THEN Answer(-1, "stop play failed") ELSE Silent
  /\ UNCHANGED <<said, fresh>>

(* Mutant of StopAnswered: a failed stop returns without an answer.        *)
StopAnsweredOnSuccess ==
  /\ StopFinishes
  /\ IF reply'.msg = "OK" THEN Answer(0, "OK") ELSE Silent
  /\ Say(param[held].id, "nothing")
  /\ UNCHANGED fresh

StopAnswered ==
  /\ StopFinishes
  /\ IF reply'.msg = "OK"
     THEN Answer(0, "OK")
     ELSE Answer(-1, "stop play failed")
  /\ Say(param[held].id, "nothing")
  /\ UNCHANGED fresh

HeartAnswered(id) ==
  /\ \/ HeartBeat(id) /\ Answer(0, "OK")
     \/ /\ pc = "idle"
        /\ ~(playTaskMap[id] # NoTask /\ status[playTaskMap[id]] = "START")
        /\ Answer(-1, "error")
        /\ UNCHANGED vars
  /\ UNCHANGED <<said, fresh>>

(* logout() has no return statement on its way to success: what the caller *)
(* takes for its result may be anything.                                   *)
UserAnswered ==
  /\ UserRequest
  /\ IF \E u \in UserIds : userMap[u] # NoEntry /\ userMap'[u] = NoEntry
     THEN Answer(0, "OK") \/ Answer(SdkError, "logout failed")
     ELSE Answer(0, "OK")
  /\ UNCHANGED <<said, fresh>>

(* An unknown user, an unknown recorder, a login the SDK refuses.          *)
UserRejected ==
  /\ pc = "idle"
  /\ \/ (\E u \in UserIds : ~HasApi(GetIp(u))) /\ Answer(-1, "logout failed")
     \/ Answer(-1, "error")
  /\ UNCHANGED <<vars, said, fresh>>

(* The playback that NET_DVR_PlayBackControl_V40 takes the handle for.     *)
Playback(t) == [type |-> "PLAYBACK", num |-> playHandle[t].num]

(* Mutant of PlayControl: any task of the user will do.                    *)
PlayControlOfUser(id) ==
  /\ pc = "idle"
  /\ answer' = [code |-> -1, msg |-> "control failed"]
  /\ \E other \in TaskIds :
       LET t == playTaskMap[id]  s == playTaskMap[other] IN
       /\ t # NoTask /\ s # NoTask
       /\ playHandle[s] # NoHandle
       /\ streams[Playback(s)] # NoStream
       /\ obeyed' = <<t, streams[Playback(s)].task>>
  /\ UNCHANGED <<vars, owed, said, fresh, down>>

(* playControl: the handle is used whatever the status and the type of the *)
(* task; the result is -1 in every case.  A stream that obeys is noted.    *)
PlayControl(id) ==
  /\ pc = "idle"
  /\ answer' = [code |-> -1, msg |-> "control failed"]
  /\ LET t == playTaskMap[id] IN
     \/ obeyed' = <<>>
     \/ /\ t # NoTask
        /\ HasApi(GetIp(param[t].user))
        /\ playHandle[t] # NoHandle
        /\ streams[Playback(t)] # NoStream
        /\ obeyed' = <<t, streams[Playback(t)].task>>
  /\ UNCHANGED <<vars, owed, said, fresh, down>>

(* getTaskInfo divides by the age of each task in seconds.                 *)
ShowTask ==
  /\ pc = "idle"
  /\ IF \E id \in TaskIds : playTaskMap[id] \in fresh
     THEN /\ owed' = TRUE
          /\ down' = TRUE
          /\ UNCHANGED <<answer, obeyed>>
     ELSE Answer(0, "OK")
  /\ UNCHANGED <<vars, said, fresh>>

SecondPasses ==
  /\ fresh # {}
  /\ fresh' = {}
  /\ Silent
  /\ UNCHANGED <<vars, said>>

(* What threads do between requests and within them; sleeps and ticks are  *)
(* at least a second.                                                      *)
Unanswered ==
  /\ \/ \E h \in Handles : PlayOpens(h) \/ StreamData(h)
     \/ StopUnlocks /\ fresh = {}
     \/ TaskHeartCheck
     \/ \E t \in Tasks :
          \/ StreamDataDone(t)
          \/ SenderPolls(t) /\ t \notin fresh
          \/ Ages(t) /\ fresh = {}
  /\ Silent
  /\ UNCHANGED <<said, fresh>>

HttpNext ==
  /\ ~down
  /\ \/ BadRequest
     \/ \E p \in Params : PlayRejected(p) \/ \E t \in Tasks : PlayAccepted(t, p)
     \/ PlayRefused \/ PlayConfirmed
     \/ \E id \in TaskIds : StopAsked(id) \/ HeartAnswered(id) \/ PlayControl(id)
     \/ StopMarked \/ StopAnswered
     \/ UserAnswered \/ UserRejected
     \/ ShowTask
     \/ SecondPasses
     \/ Unanswered

HttpSpec == HttpInit /\ [][HttpNext]_allVars

(* The fairness of DvrControl, for as long as the process lives.           *)
HttpFairness ==
  /\ WF_allVars(~down /\ (PlayRefused \/ PlayConfirmed))
  /\ WF_allVars(~down /\ (StopMarked \/ StopAnswered))
  /\ WF_allVars(HttpNext /\ (StopUnlocks \/ \E h \in Handles : PlayOpens(h)))
  /\ WF_allVars(HttpNext /\ SecondPasses)
  /\ \A t \in Tasks : WF_allVars(HttpNext /\ SenderPolls(t))

FairHttpSpec == HttpSpec /\ HttpFairness

-----------------------------------------------------------------------------
(* "playok" holds until the client asks to stop: the task is in the map,   *)
(* in state START, and its stream reports to it, however many other tasks  *)
(* stop, time out or fail, and whoever logs out.                           *)
PlayokUntilStopped ==
  \A id \in TaskIds : said[id] = "playok" =>
    LET t == playTaskMap[id] IN
    /\ t # NoTask
    /\ status[t] = "START"
    /\ streams[playHandle[t]] = [task |-> t, cb |-> TRUE, lost |-> "no"]

(* Only playbacks obey a control command, and a task that plays one steers *)
(* its own.  Another's is reached in two ways: by the handle a stopped     *)
(* task has kept and the SDK gave out again, and by that of a live stream, *)
(* whose number a playback may have as well (hk_api.cpp:265).              *)
ControlHitsItsTask ==
  obeyed # <<>> => LET t == obeyed[1]  reached == obeyed[2] IN
    /\ param[reached].type = "PLAYBACK"
    /\ status[t] = "START" /\ param[t].type = "PLAYBACK" => reached = t

(* Every stop that succeeds ends a play that was confirmed, and no play is *)
(* stopped twice.                                                          *)
StopsOnePlayok ==
  [][StopFinishes => said[param[held].id] = "stopping"]_allVars

(* http-server.cpp:510-512 on every evhttp callback: "it must eventually   *)
(* call evhttp_send_error() or evhttp_send_reply()".                       *)
MustReply == owed ~> ~owed
=============================================================================
