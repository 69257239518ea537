------------------------------ MODULE HkStream ------------------------------
(***************************************************************************)
(* The data callback of a stream (HkApi::hkDataCallBack), the decoder port *)
(* it acquires, and the stop request that gives the port back while a      *)
(* callback may still be under way (HkApi::stopPlay, called by             *)
(* DVRControl::stopPlayTask).  The HTTP thread runs one request at a time; *)
(* the SDK calls back for all open streams at once, but for each stream    *)
(* one call after the other.                                               *)
(*                                                                         *)
(* The tasks are those of DvrControl.  Left out here: ids, users and the   *)
(* age of a task, which DvrControl follows; the type of a task, since each *)
(* outcome below that exists for playbacks only rules out no other step.   *)
(***************************************************************************)
EXTENDS Naturals

CONSTANTS
  Tasks,    (* PlayTask objects                                             *)
  Ports,    (* ports of the PlayM4 decoder library                          *)
  NoTask, NoPort,
  Retries   (* maxCount, further attempts at PlayM4_InputData               *)

ASSUME StreamAssumption ==
  /\ NoTask \notin Tasks
  /\ NoPort \notin Ports
  /\ Retries \in Nat

(* Why a port was taken and is not going to be given back.                 *)
Leaks == {"no",       (* it is                                              *)
          "late",     (* taken when the stop had already looked for it      *)
          "gave_up",  (* dvr_control.cpp:89 and 103, no recorder or no task *)
          "refused",  (* hk_api.cpp:182 and 189, the stream was not closed  *)
          "stuck"}    (* hk_api.cpp:203, PlayM4_FreePort failed             *)

Steps == {"out", "head", "got", "setup", "data"}
Calls == [at : Steps, port : Ports \cup {NoPort}, left : 0..Retries]
Call(step, p, n) == [at |-> step, port |-> p, left |-> n]
Out == Call("out", NoPort, 0)

VARIABLES
  status,   (* PlayTask::status                                             *)
  dePort,   (* PlayTask::dePort                                             *)
  gone,     (* tasks erased from DVRControl::playTaskMap                    *)
  stream,   (* SDK side: the stream whose callback has the task's address   *)
  cb,       (* its callback: where it is, its nPort, its maxCount           *)
  owner,    (* library side: the task for which a port was allocated        *)
  decUser,  (* library side: the task whose decode callback is on the port  *)
  pc,       (* where the HTTP thread is                                     *)
  held,     (* the task its request is about                                *)
  port,     (* the argument of HkApi::stopPlay                              *)
  header,   (* history: what became of the stream header of the task        *)
  stop,     (* history: how far a stop of the task has come                 *)
  leak,     (* history: why a port will stay allocated                      *)
  grace     (* fixed: whether sleep(1) outlasts what a callback does        *)
            (* without sleeping itself                                      *)

taskVars == <<status, dePort, gone>>
sdkVars == <<stream, owner, decUser>>
httpVars == <<pc, held, port>>
history == <<header, stop, leak>>
vars == <<taskVars, sdkVars, cb, httpVars, history, grace>>

TypeOK ==
  /\ status \in [Tasks -> {"START", "STOP"}]
  /\ dePort \in [Tasks -> Ports \cup {NoPort}]
  /\ gone \in SUBSET Tasks
  /\ stream \in [Tasks -> {"new", "open", "closed"}]
  /\ cb \in [Tasks -> Calls]
  /\ owner \in [Ports -> Tasks \cup {NoTask}]
  /\ decUser \in [Ports -> Tasks \cup {NoTask}]
  /\ pc \in {"idle", "opened", "marked", "unlocked", "closing"}
  /\ held \in Tasks \cup {NoTask}
  /\ port \in Ports \cup {NoPort}
  /\ header \in [Tasks -> {"unsent", "dropped", "refused", "done"}]
  /\ stop \in [Tasks -> {"no", "marked", "read"}]
  /\ leak \in [Ports -> Leaks]
  /\ grace \in BOOLEAN

-----------------------------------------------------------------------------
Init ==
  /\ status = [t \in Tasks |-> "STOP"]
  /\ dePort = [t \in Tasks |-> NoPort]
  /\ gone = {}
  /\ stream = [t \in Tasks |-> "new"]
  /\ cb = [t \in Tasks |-> Out]
  /\ owner = [p \in Ports |-> NoTask]
  /\ decUser = [p \in Ports |-> NoTask]
  /\ pc = "idle"
  /\ held = NoTask
  /\ port = NoPort
  /\ header = [t \in Tasks |-> "unsent"]
  /\ stop = [t \in Tasks |-> "no"]
  /\ leak = [p \in Ports |-> "no"]
  /\ grace \in BOOLEAN

EndRequest ==
  /\ pc' = "idle"
  /\ held' = NoTask
  /\ port' = NoPort

-----------------------------------------------------------------------------
(* playReal, playByTime: callbacks may come from here on.                  *)
Opens(t) ==
  /\ pc = "idle"
  /\ stream[t] = "new"
  /\ stream' = [stream EXCEPT ![t] = "open"]
  /\ pc' = "opened"
  /\ held' = t
  /\ UNCHANGED <<taskVars, owner, decUser, cb, port, history>>

(* The SDK opens no stream, or one that is closed or given up before any   *)
(* callback came.                                                          *)
PlayFails(t) ==
  /\ pc = "idle"
  /\ stream[t] = "new"
  /\ \E left \in {"open", "closed"} : stream' = [stream EXCEPT ![t] = left]
  /\ UNCHANGED <<taskVars, owner, decUser, cb, httpVars, history>>

(* The playback does not start and is closed again, if the SDK likes.      *)
NotStarted ==
  /\ pc = "opened"
  /\ \/ stream' = [stream EXCEPT ![held] = "closed"]
     \/ UNCHANGED stream
  /\ EndRequest
  /\ UNCHANGED <<taskVars, owner, decUser, cb, history>>

Started ==
  /\ pc = "opened"
  /\ status' = [status EXCEPT ![held] = "START"]
  /\ EndRequest
  /\ UNCHANGED <<dePort, gone, sdkVars, cb, history>>

(* Mutant of StopMarks: a task is stopped again.                           *)
StopMarksAgain(t) ==
  /\ pc = "idle"
  /\ stream[t] # "new"
  /\ t \notin gone
  /\ status' = [status EXCEPT ![t] = "STOP"]
  /\ stop' = [stop EXCEPT ![t] = "marked"]
  /\ pc' = "marked"
  /\ held' = t
  /\ UNCHANGED <<dePort, gone, sdkVars, cb, port, header, leak>>

(* First critical section of stopPlayTask.                                 *)
StopMarks(t) ==
  /\ pc = "idle"
  /\ t \notin gone
  /\ status[t] = "START"
  /\ status' = [status EXCEPT ![t] = "STOP"]
  /\ stop' = [stop EXCEPT ![t] = "marked"]
  /\ pc' = "marked"
  /\ held' = t
  /\ UNCHANGED <<dePort, gone, sdkVars, cb, port, header, leak>>

(* Between two attempts the callback sleeps as long as the stop does.      *)
Retrying(t) == cb[t].at = "data" /\ cb[t].left < Retries

(* Mutant of StopUnlocks: the sleep is left out.                           *)
StopUnlocksAtOnce ==
  /\ pc = "marked"
  /\ pc' = "unlocked"
  /\ UNCHANGED <<taskVars, sdkVars, cb, held, port, history>>

(* The end of sleep(1).                                                    *)
StopUnlocks ==
  /\ pc = "marked"
  /\ grace => cb[held].at = "out" \/ Retrying(held)
  /\ pc' = "unlocked"
  /\ UNCHANGED <<taskVars, sdkVars, cb, held, port, history>>

(* From now on nobody looks for a port of the task any more: those it has, *)
(* but for the one passed to stopPlay, are leaked.                         *)
Leaking(known, why) ==
  /\ stop' = [stop EXCEPT ![held] = "read"]
  /\ leak' = [p \in Ports |->
       IF owner[p] # held \/ p = known THEN leak[p]
       ELSE IF p = dePort[held] THEN why ELSE "late"]
  /\ UNCHANGED header

(* Second critical section: the task has been erased, its user has logged  *)
(* out, or the SDK does not close the stream.                              *)
StopGivesUp ==
  /\ pc = "unlocked"
  /\ \E why \in {"gave_up", "refused"} : Leaking(NoPort, why)
  /\ EndRequest
  /\ UNCHANGED <<taskVars, sdkVars, cb>>

(* dePort is read as an argument before the stream is closed.  A playback  *)
(* without a player index stays open.  The SDK is not assumed to wait for  *)
(* a callback that is under way.                                           *)
StopCloses ==
  /\ pc = "unlocked"
  /\ held \notin gone
  /\ port' = dePort[held]
  /\ Leaking(dePort[held], "late")
  /\ \/ stream' = [stream EXCEPT ![held] = "closed"]
     \/ UNCHANGED stream
  /\ pc' = "closing"
  /\ UNCHANGED <<taskVars, owner, decUser, cb, held>>

(* PlayM4_Stop, PlayM4_CloseStream, PlayM4_FreePort; dePort is kept.       *)
StopFrees ==
  /\ pc = "closing"
  /\ \/ /\ port = NoPort
        /\ UNCHANGED <<owner, decUser, leak>>
     \/ /\ port # NoPort
        /\ owner' = [owner EXCEPT ![port] = NoTask]
        /\ decUser' = [decUser EXCEPT ![port] = NoTask]
        /\ UNCHANGED leak
     \/ /\ port # NoPort
        /\ leak' = [leak EXCEPT ![port] = "stuck"]
        /\ UNCHANGED <<owner, decUser>>
  /\ EndRequest
  /\ UNCHANGED <<taskVars, stream, cb, header, stop>>

(* taskHeartCheck erases tasks that do not play, all in one critical       *)
(* section; DVRControl::lock is kept over play(), over sleep(1) and over   *)
(* HkApi::stopPlay.  That no callback is then inside one of them, and that *)
(* a stop can lose its task between its critical sections, is shown where  *)
(* the ages of tasks are known: HkService.                                 *)
Erased(ts) ==
  /\ pc \notin {"opened", "marked", "closing"}
  /\ ts # {}
  /\ \A t \in ts : stream[t] # "new" /\ status[t] = "STOP" /\ cb[t].at = "out"
  /\ gone' = gone \cup ts
  /\ UNCHANGED <<status, dePort, sdkVars, cb, httpVars, history>>

-----------------------------------------------------------------------------
(* A callback arrives for a live task.                                     *)
CallsBack(t) ==
  /\ stream[t] = "open"
  /\ t \notin gone \/ held = t
  /\ cb[t].at = "out"

Enters(t, step) == cb' = [cb EXCEPT ![t] = Call(step, dePort[t], Retries)]
At(t, step) == cb' = [cb EXCEPT ![t].at = step]
Returns(t) == cb' = [cb EXCEPT ![t] = Out]

(* A header or data for a task that does not play is dropped.              *)
Drops(t) ==
  /\ CallsBack(t)
  /\ status[t] = "STOP"
  /\ header[t] = "unsent"
  /\ header' = [header EXCEPT ![t] = "dropped"]
  /\ UNCHANGED <<taskVars, sdkVars, cb, httpVars, stop, leak>>

(* Mutant of HeaderArrives: the status is not looked at.                   *)
HeaderArrivesAnyway(t) ==
  /\ CallsBack(t)
  /\ Enters(t, IF dePort[t] = NoPort THEN "head" ELSE "setup")
  /\ UNCHANGED <<taskVars, sdkVars, httpVars, history>>

(* Mutant of HeaderArrives: every header takes a new port.                 *)
HeaderArrivesAnew(t) ==
  /\ CallsBack(t)
  /\ status[t] = "START"
  /\ Enters(t, "head")
  /\ UNCHANGED <<taskVars, sdkVars, httpVars, history>>

(* NET_DVR_SYSHEAD, the first thing a stream sends; sent once more after   *)
(* each reconnection.                                                      *)
HeaderArrives(t) ==
  /\ CallsBack(t)
  /\ status[t] = "START"
  /\ Enters(t, IF dePort[t] = NoPort THEN "head" ELSE "setup")
  /\ UNCHANGED <<taskVars, sdkVars, httpVars, history>>

Refused(t) ==
  header' = [header EXCEPT ![t] = IF @ = "done" THEN "done" ELSE "refused"]

(* PlayM4_GetPort, which may fail.                                         *)
GetsPort(t) ==
  /\ cb[t].at = "head"
  /\ \/ /\ Refused(t)
        /\ Returns(t)
        /\ UNCHANGED <<owner, leak>>
     \/ \E p \in Ports :
          /\ owner[p] = NoTask
          /\ owner' = [owner EXCEPT ![p] = t]
          /\ leak' = [leak EXCEPT ![p] =
               IF stop[t] = "read" THEN "late" ELSE "no"]
          /\ cb' = [cb EXCEPT ![t] = Call("got", p, @.left)]
          /\ UNCHANGED header
  /\ UNCHANGED <<taskVars, stream, decUser, httpVars, stop>>

(* Mutant of KeepsPort: the port is used but not stored in the task.       *)
KeepsPortToItself(t) ==
  /\ cb[t].at = "got"
  /\ At(t, "setup")
  /\ UNCHANGED <<taskVars, sdkVars, httpVars, history>>

KeepsPort(t) ==
  /\ cb[t].at = "got"
  /\ dePort' = [dePort EXCEPT ![t] = cb[t].port]
  /\ At(t, "setup")
  /\ UNCHANGED <<status, gone, sdkVars, httpVars, history>>

(* PlayM4_SetStreamOpenMode, OpenStream, SetDecCallBackMend and Play: each *)
(* may fail, and does so on a port that is not allocated.                  *)
SetsUp(t) ==
  /\ cb[t].at = "setup"
  /\ \/ /\ Refused(t)
        /\ UNCHANGED decUser
     \/ /\ owner[cb[t].port] # NoTask
        /\ decUser' = [decUser EXCEPT ![cb[t].port] = t]
        /\ \/ Refused(t)
           \/ header' = [header EXCEPT ![t] = "done"]
  /\ Returns(t)
  /\ UNCHANGED <<taskVars, stream, owner, httpVars, stop, leak>>

(* NET_DVR_STREAMDATA with a decoder to feed.                              *)
DataArrives(t) ==
  /\ CallsBack(t)
  /\ status[t] = "START"
  /\ header[t] # "unsent"
  /\ dePort[t] # NoPort
  /\ Enters(t, "data")
  /\ UNCHANGED <<taskVars, sdkVars, httpVars, history>>

(* PlayM4_InputData: accepted, or tried again a second later, or given up. *)
Feeds(t) ==
  /\ cb[t].at = "data"
  /\ \/ Returns(t)
     \/ /\ cb[t].left > 0
        /\ cb' = [cb EXCEPT ![t] = Call("data", @.port, @.left - 1)]
  /\ UNCHANGED <<taskVars, sdkVars, httpVars, history>>

-----------------------------------------------------------------------------
Request ==
  \/ \E t \in Tasks : Opens(t) \/ PlayFails(t) \/ StopMarks(t)
  \/ NotStarted \/ Started
  \/ StopUnlocks \/ StopGivesUp \/ StopCloses \/ StopFrees

Callback(t) ==
  \/ Drops(t)
  \/ HeaderArrives(t) \/ GetsPort(t) \/ KeepsPort(t) \/ SetsUp(t)
  \/ DataArrives(t) \/ Feeds(t)

Next ==
  /\ UNCHANGED grace
  /\ \/ Request
     \/ \E t \in Tasks : Callback(t)
     \/ \E ts \in SUBSET Tasks : Erased(ts)

Spec == Init /\ [][Next]_vars

-----------------------------------------------------------------------------
(* An allocated port that nobody has given up on is the one its task       *)
(* stores, or is about to store, and a stop that will free it is still to  *)
(* come: no port is leaked but for the reasons in Leaks.                   *)
PortAccounted ==
  \A p \in Ports : owner[p] # NoTask /\ leak[p] = "no" =>
    LET t == owner[p] IN
    /\ dePort[t] = p \/ (cb[t].at = "got" /\ cb[t].port = p)
    /\ stop[t] = "read" => pc = "closing" /\ held = t /\ port = p

(* What the sleep(1) in stopPlayTask is for: the stop finds the port, and  *)
(* no header takes one after the stop has looked.                          *)
NoLateLeak ==
  grace => \A p \in Ports : owner[p] # NoTask => leak[p] # "late"

(* A callback works on a port that still belongs to its task, but for one  *)
(* that was stopped meanwhile: hk_api.cpp:117 sleeps up to three times as  *)
(* long as the stop waits, and then feeds whoever has the port by then.    *)
CallbackOwnsPort ==
  \A t \in Tasks : cb[t].port # NoPort =>
    \/ owner[cb[t].port] = t
    \/ stop[t] = "read" /\ (grace => Retrying(t))

(* Frames decoded on a port go to the task the port belongs to: no header  *)
(* callback outlives its task's hold on the port.                          *)
FramesOfOwner ==
  grace => \A p \in Ports : decUser[p] \in {NoTask, owner[p]}

(* The decoder has the address of an erased task only on a leaked port.    *)
NoDanglingDecoder ==
  grace => \A p \in Ports :
    decUser[p] \in gone /\ held # decUser[p] => leak[p] # "no"

(* A playing task whose header was accepted by the decoder has a port, of  *)
(* its own and hooked to itself, whatever other tasks stop meanwhile.      *)
PlayingSees ==
  grace => \A t \in Tasks : status[t] = "START" /\ header[t] = "done" =>
    /\ dePort[t] \in Ports
    /\ owner[dePort[t]] = t
    /\ decUser[dePort[t]] = t

(* A task never holds two ports, however often its header is sent again.   *)
OnePort ==
  \A p, q \in Ports : owner[p] # NoTask /\ owner[p] = owner[q] => p = q

(* A port is freed by the stop of the task it was taken for and by nothing *)
(* else; it is given to a task that has none, and a task forgets none.      *)
FreedByItsStop ==
  [][/\ \A p \in Ports : owner'[p] # owner[p] =>
          IF owner[p] # NoTask
          THEN pc = "closing" /\ held = owner[p] /\ owner'[p] = NoTask
          ELSE /\ dePort[owner'[p]] = NoPort
               /\ \A q \in Ports : owner[q] # owner'[p]
     /\ \A t \in Tasks : dePort[t] # NoPort => dePort'[t] = dePort[t]]_vars

(* The history of each task and port is one of the abstract lease.         *)
Stage(t) ==
  IF stop[t] # "no" THEN "ended"
  ELSE IF status[t] = "START" THEN "playing" ELSE "new"

Stages == [t \in Tasks |-> Stage(t)]
Had == {t \in Tasks : dePort[t] # NoPort \/ cb[t].at = "got"}

Lease == INSTANCE PortLease WITH lease <- owner, had <- Had, stage <- Stages

RefinesLease == Lease!LeaseSpec
=============================================================================
