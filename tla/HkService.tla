----------------------------- MODULE HkService -----------------------------
(***************************************************************************)
(* The task registry and the streams put together: DvrControl decides when *)
(* streams are opened, stopped and forgotten and when callbacks may run,   *)
(* HkStream says what the callbacks and the end of a stop do with decoder  *)
(* ports.  What HkStream takes from its surroundings is derived here from  *)
(* DvrControl: which task has an open stream, which tasks are erased,      *)
(* where the HTTP thread is.                                               *)
(***************************************************************************)
EXTENDS DvrControl

CONSTANTS Ports, NoPort, Retries

ASSUME ServiceAssumption ==
  /\ NoPort \notin Ports
  /\ Retries \in Nat

VARIABLES
  dePort, cb, owner, decUser, port, header, stop, leak, grace, (* HkStream  *)
  closing   (* the task whose stream HkApi::stopPlay has closed, while it   *)
            (* gives the port back; DVRControl::lock is kept meanwhile      *)

callVars == <<dePort, cb, owner, decUser, header>>
stopVars == <<port, stop, leak, closing>>
serviceVars == <<vars, callVars, stopVars, grace>>

-----------------------------------------------------------------------------
(* What there is for a callback of the task.                               *)
Calling(t) ==
  \E h \in Handles :
    streams[h] # NoStream /\ streams[h].task = t /\ streams[h].cb

StreamOf(t) ==
  IF param[t] = NoParam \/ (pc = "added" /\ held = t) THEN "new"
  ELSE IF Calling(t) THEN "open" ELSE "closed"

StreamStates == [t \in Tasks |-> StreamOf(t)]

Erased == {t \in Tasks : param[t] # NoParam /\ ~Registered(t)}

(* Adding a task and looking one up do not concern the streams.            *)
StopsOrOpens == pc \in {"opened", "marked", "unlocked"}
StreamPc ==
  IF closing # NoTask THEN "closing" ELSE IF StopsOrOpens THEN pc ELSE "idle"
StreamHeld ==
  IF closing # NoTask THEN closing ELSE IF StopsOrOpens THEN held ELSE NoTask

(* HkStream with its theorems.                                             *)
Stream == INSTANCE HkStreamProofs
  WITH gone <- Erased, stream <- StreamStates, pc <- StreamPc, held <- StreamHeld

-----------------------------------------------------------------------------
ServiceInit ==
  /\ Init
  /\ dePort = [t \in Tasks |-> NoPort]
  /\ cb = [t \in Tasks |-> Stream!Out]
  /\ owner = [p \in Ports |-> NoTask]
  /\ decUser = [p \in Ports |-> NoTask]
  /\ port = NoPort
  /\ header = [t \in Tasks |-> "unsent"]
  /\ stop = [t \in Tasks |-> "no"]
  /\ leak = [p \in Ports |-> "no"]
  /\ grace \in BOOLEAN
  /\ closing = NoTask

(* Requests, and the steps of play(), that leave the decoder alone.        *)
OtherRequest ==
  /\ closing = NoTask
  /\ \/ UserRequest
     \/ \E t \in Tasks, p \in Params : PlayRequest(t, p)
     \/ \E id \in TaskIds : StopRequest(id) \/ HeartBeat(id)
     \/ PlayFails \/ \E h \in Handles : PlayFailsOpen(h) \/ PlayOpens(h)
     \/ PlayStarts
  /\ UNCHANGED <<callVars, stopVars>>

Marks ==
  /\ closing = NoTask
  /\ StopMarks
  /\ stop' = IF pc' = "marked" THEN [stop EXCEPT ![held] = "marked"] ELSE stop
  /\ UNCHANGED <<callVars, port, leak, closing>>

(* The sleep lets the sender see the status; it may be long enough for the *)
(* callback as well.                                                       *)
Unlocks ==
  /\ closing = NoTask
  /\ StopUnlocks
  /\ grace => cb[held].at = "out" \/ Stream!Retrying(held)
  /\ UNCHANGED <<callVars, stopVars>>

(* stopPlayTask has given up, or the SDK has refused to close the stream.  *)
GivesUp(why) ==
  /\ Stream!Leaking(NoPort, why)
  /\ UNCHANGED <<port, closing>>

(* The stream is closed, or a playback without player index left open; the *)
(* port was read before.                                                   *)
Closes ==
  /\ Stream!Leaking(dePort[held], "late")
  /\ port' = dePort[held]
  /\ closing' = held

Finishes ==
  /\ closing = NoTask
  /\ StopFinishes
  /\ LET left == streams'[playHandle[held]]
         lost == IF left = NoStream THEN "no" ELSE left.lost IN
     \/ lost \in {"erased", "no_api"} /\ GivesUp("gave_up")
     \/ lost = "refused" /\ GivesUp("refused")
     \/ lost \in {"no", "no_player"} /\ Closes
  /\ UNCHANGED <<dePort, cb, owner, decUser>>

Frees ==
  /\ closing # NoTask
  /\ closing' = NoTask
  /\ UNCHANGED vars
  /\ Stream!StopFrees

HeartCheck ==
  /\ closing = NoTask
  /\ TaskHeartCheck
  /\ UNCHANGED <<callVars, stopVars>>

(* A callback comes in: a header, data to feed, or data without a decoder. *)
ComesIn(h) ==
  /\ StreamData(h)
  /\ UNCHANGED <<dePort, owner, decUser, header, stopVars>>
  /\ LET t == streams[h].task IN
     Stream!HeaderArrives(t) \/ Stream!DataArrives(t) \/ UNCHANGED cb

(* Inside the callback, or one for a task that does not play.              *)
Works(t) ==
  /\ UNCHANGED <<vars, port, closing>>
  /\ \/ Stream!GetsPort(t) \/ Stream!KeepsPort(t) \/ Stream!SetsUp(t)
     \/ Stream!Feeds(t) \/ Stream!Drops(t)

GoesOut(t) ==
  /\ cb[t].at = "out"
  /\ StreamDataDone(t)
  /\ UNCHANGED <<callVars, stopVars>>

Elsewhere(t) ==
  /\ SenderPolls(t) \/ Ages(t)
  /\ UNCHANGED <<callVars, stopVars>>

ServiceNext ==
  /\ UNCHANGED grace
  /\ \/ OtherRequest \/ Marks \/ Unlocks \/ Finishes \/ Frees
     \/ HeartCheck
     \/ \E h \in Handles : ComesIn(h)
     \/ \E t \in Tasks : Works(t) \/ GoesOut(t) \/ Elsewhere(t)

ServiceSpec == ServiceInit /\ [][ServiceNext]_serviceVars

-----------------------------------------------------------------------------
(* Together, the registry and the SDK behave as HkStream supposes: no task *)
(* is erased with a callback inside, streams open and close in its order,  *)
(* a task is stopped once.                                                 *)
RefinesStream == Stream!Spec

(* The stream of a task was opened, and is still open, but the service has *)
(* given it up.                                                            *)
GivenUp(t) ==
  /\ playHandle[t] \in Handles
  /\ streams[playHandle[t]] # NoStream
  /\ streams[playHandle[t]].task = t
  /\ streams[playHandle[t]].lost \in {"erased", "no_api", "refused"}

(* What a stop has left behind, port and stream together.  A port that was *)
(* given up by an early return (dvr_control.cpp:89 and 103, hk_api.cpp:182 *)
(* and 189) belongs to a task whose stream is open and was given up, too.  *)
(* One that PlayM4_FreePort failed to free (hk_api.cpp:203) belongs to a   *)
(* task whose stop got beyond these returns: its stream was closed, or is  *)
(* a playback that was left open for want of a player index.               *)
LostWithItsStream ==
  \A p \in Ports : owner[p] # NoTask =>
    /\ leak[p] \in {"gave_up", "refused"} => GivenUp(owner[p])
    /\ leak[p] = "stuck" => ~GivenUp(owner[p])

(* A confirmed play whose header was accepted is served from end to end:   *)
(* the task is in the map, its own open stream calls it back, and it       *)
(* decodes on a port of its own.                                           *)
PlayingIsServed ==
  grace => \A t \in Tasks : status[t] = "START" /\ header[t] = "done" =>
    /\ Registered(t)
    /\ playHandle[t] \in Handles
    /\ streams[playHandle[t]] = [task |-> t, cb |-> TRUE, lost |-> "no"]
    /\ dePort[t] \in Ports
    /\ owner[dePort[t]] = t /\ decUser[dePort[t]] = t

(* A callback at work on a port is one the registry knows of.              *)
WorkIsKnown == \A t \in Tasks : cb[t].at # "out" => t \in inCallback
=============================================================================
