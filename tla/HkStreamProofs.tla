--------------------------- MODULE HkStreamProofs ---------------------------
(***************************************************************************)
(* Theorems about HkStream, for any number of tasks and ports and with or  *)
(* without the assumption on the length of the sleep (grace).              *)
(***************************************************************************)
EXTENDS HkStream, TLAPS

(* What the HTTP thread knows at each of its points, and that a stop which *)
(* has not read the port yet is the one it is executing.                   *)
HandlerKnows ==
  /\ pc = "idle" <=> held = NoTask
  /\ pc = "opened" =>
       /\ status[held] = "STOP" /\ stop[held] = "no"
       /\ stream[held] # "new" /\ held \notin gone
  /\ pc \in {"marked", "unlocked"} => stop[held] = "marked"
  /\ pc = "closing" =>
       /\ stop[held] = "read"
       /\ port # NoPort => port = dePort[held] /\ owner[port] = held
  /\ \A t \in Tasks : stop[t] = "marked" =>
       pc \in {"marked", "unlocked"} /\ held = t

(* A task plays from its start to its stop, and is erased only afterwards. *)
TaskLife ==
  \A t \in Tasks :
    /\ stream[t] = "new" =>
         status[t] = "STOP" /\ stop[t] = "no" /\ t \notin gone
    /\ stop[t] # "no" => status[t] = "STOP"
    /\ status[t] = "START" => t \notin gone /\ ~(held = t /\ pc = "opened")
    /\ status[t] = "STOP" /\ stop[t] = "no" =>
         /\ dePort[t] = NoPort
         /\ cb[t] = Out
         /\ header[t] \in {"unsent", "dropped"}

(* The port a callback works with is the one its task stores, but while    *)
(* there is none or it is not stored yet.                                  *)
CallbackKnows ==
  \A t \in Tasks :
    /\ cb[t].at = "out" => cb[t] = Out
    /\ cb[t].at = "head" => cb[t].port = NoPort /\ dePort[t] = NoPort
    /\ cb[t].at = "got" =>
         cb[t].port \in Ports /\ dePort[t] = NoPort /\ owner[cb[t].port] = t
    /\ cb[t].at \in {"setup", "data"} =>
         cb[t].port \in Ports /\ cb[t].port = dePort[t]

(* A task owns at most the port it stores or is about to store; until its  *)
(* stop has looked for the port it does own it, and the port is not leaked. *)
PortFiled ==
  /\ \A p \in Ports : owner[p] # NoTask =>
       LET t == owner[p] IN
       /\ dePort[t] = p \/ (cb[t].at = "got" /\ cb[t].port = p)
       /\ stop[t] # "read" => leak[p] = "no"
       /\ stop[t] = "read" /\ leak[p] = "no" =>
            pc = "closing" /\ held = t /\ port = p
  /\ \A t \in Tasks : dePort[t] # NoPort /\ stop[t] # "read" =>
       owner[dePort[t]] = t

(* With grace: once the sleep is over the callback of the task is between  *)
(* two attempts, or not there.                                             *)
SleepSuffices ==
  grace => \A t \in Tasks :
    stop[t] = "read" \/ (held = t /\ pc = "unlocked") =>
      cb[t].at = "out" \/ Retrying(t)

(* With grace: a header that was accepted hooked the port to its task.     *)
HookKept ==
  grace => \A t \in Tasks : header[t] = "done" /\ stop[t] # "read" =>
    dePort[t] \in Ports /\ decUser[dePort[t]] = t

Inv ==
  /\ TypeOK /\ HandlerKnows /\ TaskLife /\ CallbackKnows /\ PortFiled
  /\ SleepSuffices /\ NoLateLeak /\ FramesOfOwner /\ HookKept

(* The invariant holds initially and is kept by every step.                *)
LEMMA InitInv == Init => Inv
BY StreamAssumption
DEF Init, Inv, TypeOK, HandlerKnows, TaskLife, CallbackKnows, PortFiled,
    SleepSuffices, NoLateLeak, FramesOfOwner, HookKept, Retrying, Calls, Call,
    Out, Steps, Leaks

LEMMA NextInv == Inv /\ [Next]_vars => Inv'
<1> SUFFICES ASSUME Inv, [Next]_vars
             PROVE  Inv'
  OBVIOUS
<1>0. UNCHANGED grace
  BY DEF Next, vars
<1> USE <1>0, StreamAssumption
    DEF Inv, TypeOK, HandlerKnows, TaskLife, CallbackKnows, PortFiled,
        SleepSuffices, NoLateLeak, FramesOfOwner, HookKept, Retrying, Calls,
        Call, Out, Steps, Leaks, taskVars, sdkVars, httpVars, history
<1>1. ASSUME NEW t \in Tasks, Opens(t)
      PROVE  Inv'
  BY <1>1 DEF Opens
<1>2. ASSUME NotStarted
      PROVE  Inv'
  BY <1>2 DEF NotStarted, EndRequest
<1>3. ASSUME Started
      PROVE  Inv'
  BY <1>3 DEF Started, EndRequest
<1>4. ASSUME NEW t \in Tasks, StopMarks(t)
      PROVE  Inv'
  BY <1>4 DEF StopMarks
<1>5. ASSUME StopUnlocks
      PROVE  Inv'
  BY <1>5 DEF StopUnlocks
<1>6. ASSUME StopGivesUp
      PROVE  Inv'
  BY <1>6 DEF StopGivesUp, EndRequest, Leaking
<1>7. ASSUME StopCloses
      PROVE  Inv'
  <2>1. TypeOK'
    <3>1. held \in Tasks
      BY <1>7 DEF StopCloses
    <3> HIDE DEF HandlerKnows, TaskLife, CallbackKnows, PortFiled,
                 SleepSuffices, NoLateLeak, FramesOfOwner, HookKept
    <3> QED BY <1>7, <3>1 DEF StopCloses, Leaking
  <2>2. HandlerKnows' /\ TaskLife' /\ CallbackKnows'
    BY <1>7 DEF StopCloses, Leaking
  <2>3. PortFiled' /\ SleepSuffices' /\ NoLateLeak'
    BY <1>7 DEF StopCloses, Leaking
  <2>4. FramesOfOwner' /\ HookKept'
    BY <1>7 DEF StopCloses, Leaking
  <2> QED BY <2>1, <2>2, <2>3, <2>4
<1>8. ASSUME StopFrees
      PROVE  Inv'
  <2>1. TypeOK'
    <3> HIDE DEF HandlerKnows, TaskLife, CallbackKnows, PortFiled,
                 SleepSuffices, NoLateLeak, FramesOfOwner, HookKept
    <3>1. owner' \in [Ports -> Tasks \cup {NoTask}]
      BY <1>8 DEF StopFrees
    <3>2. decUser' \in [Ports -> Tasks \cup {NoTask}]
      BY <1>8 DEF StopFrees
    <3>3. leak' \in [Ports -> Leaks]
      BY <1>8 DEF StopFrees
    <3> QED BY <1>8, <3>1, <3>2, <3>3 DEF StopFrees, EndRequest
  <2>2. HandlerKnows' /\ TaskLife' /\ CallbackKnows'
    BY <1>8 DEF StopFrees, EndRequest
  <2>3. PortFiled' /\ SleepSuffices' /\ NoLateLeak'
    BY <1>8 DEF StopFrees, EndRequest
  <2>4. FramesOfOwner' /\ HookKept'
    BY <1>8 DEF StopFrees, EndRequest
  <2> QED BY <2>1, <2>2, <2>3, <2>4
<1>9. ASSUME NEW ts \in SUBSET Tasks, Erased(ts)
      PROVE  Inv'
  BY <1>9 DEF Erased
<1>10. ASSUME NEW t \in Tasks, Drops(t)
      PROVE  Inv'
  BY <1>10 DEF Drops, CallsBack
<1>11. ASSUME NEW t \in Tasks, HeaderArrives(t)
      PROVE  Inv'
  BY <1>11 DEF HeaderArrives, CallsBack, Enters
<1>12. ASSUME NEW t \in Tasks, GetsPort(t)
      PROVE  Inv'
  <2>1. CASE Refused(t) /\ Returns(t) /\ UNCHANGED <<owner, leak>>
    BY <1>12, <2>1 DEF GetsPort, Returns, Refused
  <2>2. ASSUME NEW p \in Ports, owner[p] = NoTask,
               owner' = [owner EXCEPT ![p] = t],
               leak' = [leak EXCEPT ![p] =
                 IF stop[t] = "read" THEN "late" ELSE "no"],
               cb' = [cb EXCEPT ![t] = Call("got", p, @.left)],
               UNCHANGED header
        PROVE  Inv'
    <3>1. /\ cb'[t] = Call("got", p, cb[t].left)
          /\ cb' \in [Tasks -> Calls]
          /\ \A u \in Tasks : u # t => cb'[u] = cb[u]
      BY <2>2
    <3>2. TypeOK'
      <4> HIDE DEF HandlerKnows, TaskLife, CallbackKnows, PortFiled,
                   SleepSuffices, NoLateLeak, FramesOfOwner, HookKept
      <4> QED BY <1>12, <2>2, <3>1 DEF GetsPort
    <3>3. HandlerKnows' /\ TaskLife' /\ CallbackKnows'
      BY <1>12, <2>2, <3>1 DEF GetsPort
    <3>4. PortFiled' /\ SleepSuffices' /\ NoLateLeak'
      BY <1>12, <2>2, <3>1 DEF GetsPort
    <3>5. FramesOfOwner' /\ HookKept'
      BY <1>12, <2>2, <3>1 DEF GetsPort
    <3> QED BY <3>2, <3>3, <3>4, <3>5
  <2> QED BY <1>12, <2>1, <2>2 DEF GetsPort
<1>13. ASSUME NEW t \in Tasks, KeepsPort(t)
      PROVE  Inv'
  BY <1>13 DEF KeepsPort, At
<1>14. ASSUME NEW t \in Tasks, SetsUp(t)
      PROVE  Inv'
  <2>1. TypeOK'
    <3> HIDE DEF HandlerKnows, TaskLife, CallbackKnows, PortFiled,
                 SleepSuffices, NoLateLeak, FramesOfOwner, HookKept
    <3>1. decUser' \in [Ports -> Tasks \cup {NoTask}]
      BY <1>14 DEF SetsUp
    <3>2. header' \in [Tasks -> {"unsent", "dropped", "refused", "done"}]
      BY <1>14 DEF SetsUp, Refused
    <3>3. cb' \in [Tasks -> Calls]
      BY <1>14 DEF SetsUp, Returns
    <3> QED BY <1>14, <3>1, <3>2, <3>3 DEF SetsUp
  <2>2. HandlerKnows' /\ TaskLife' /\ CallbackKnows'
    BY <1>14 DEF SetsUp, Returns, Refused
  <2>3. PortFiled' /\ SleepSuffices' /\ NoLateLeak'
    BY <1>14 DEF SetsUp, Returns, Refused
  <2>4. FramesOfOwner' /\ HookKept'
    BY <1>14 DEF SetsUp, Returns, Refused
  <2> QED BY <2>1, <2>2, <2>3, <2>4
<1>15. ASSUME NEW t \in Tasks, DataArrives(t)
      PROVE  Inv'
  BY <1>15 DEF DataArrives, CallsBack, Enters
<1>16. ASSUME NEW t \in Tasks, Feeds(t)
      PROVE  Inv'
  <2>1. /\ cb' \in [Tasks -> Calls]
        /\ \/ cb'[t] = Out
           \/ /\ cb'[t].at = "data" /\ cb'[t].port = cb[t].port
              /\ cb'[t].left < Retries
        /\ \A u \in Tasks : u # t => cb'[u] = cb[u]
    <3>1. CASE /\ cb[t].left > 0
               /\ cb' = [cb EXCEPT ![t] = Call("data", @.port, @.left - 1)]
      <4>1. /\ cb[t] \in Calls /\ cb[t].at = "data"
            /\ cb[t].left - 1 \in 0..Retries
            /\ cb[t].left - 1 < Retries
        BY <1>16, <3>1 DEF Feeds
      <4>2. cb'[t] = Call("data", cb[t].port, cb[t].left - 1)
        BY <3>1
      <4>3. cb'[t] \in Calls /\ cb'[t].left < Retries
        BY <4>1, <4>2
      <4> QED BY <3>1, <4>1, <4>2, <4>3
    <3>2. CASE Returns(t)
      BY <3>2 DEF Returns
    <3> QED BY <1>16, <3>1, <3>2 DEF Feeds
  <2>2. UNCHANGED <<taskVars, sdkVars, httpVars, history>> /\ cb[t].at = "data"
    BY <1>16 DEF Feeds
  <2>3. TypeOK' /\ HandlerKnows' /\ TaskLife'
    <3>1. TypeOK'
      <4> HIDE DEF HandlerKnows, TaskLife, CallbackKnows, PortFiled,
                   SleepSuffices, NoLateLeak, FramesOfOwner, HookKept
      <4> QED BY <2>1, <2>2
    <3>2. HandlerKnows'
      BY <2>2
    <3>3. cb[t] # Out
      BY <2>2
    <3>4. TaskLife'
      BY <2>1, <2>2, <3>3
    <3> QED BY <3>1, <3>2, <3>4
  <2>4. /\ UNCHANGED <<status, dePort, owner, stop, leak, pc, held, port>>
        /\ cb[t].at = "data" /\ cb[t].port = dePort[t] /\ cb[t].port \in Ports
    BY <2>2
  <2>5. CallbackKnows'
    BY <2>1, <2>4 DEF CallbackKnows
  <2>6. PortFiled'
    BY <2>1, <2>4 DEF PortFiled
  <2>7. SleepSuffices' /\ NoLateLeak' /\ FramesOfOwner' /\ HookKept'
    BY <2>1, <2>2
  <2> QED BY <2>3, <2>5, <2>6, <2>7
<1>17. ASSUME NEW t \in Tasks, PlayFails(t)
       PROVE  Inv'
  BY <1>17 DEF PlayFails
<1>18. CASE UNCHANGED vars
  BY <1>18 DEF vars, taskVars, sdkVars, httpVars, history
<1> QED
  BY <1>1, <1>2, <1>3, <1>4, <1>5, <1>6, <1>7, <1>8, <1>9, <1>10, <1>11, <1>12,
     <1>13, <1>14, <1>15, <1>16, <1>17, <1>18
  DEF Next, Request, Callback

(* The inductive invariant holds in every reachable state.                 *)
THEOREM Invariance == Spec => []Inv
BY InitInv, NextInv, PTL DEF Spec

(* Types are kept, for any number of tasks, ports and retries.             *)
THEOREM TypeCorrect == Spec => []TypeOK
<1>1. Inv => TypeOK
  BY DEF Inv
<1> QED BY <1>1, Invariance, PTL

(* Every allocated port is known to its task, and a stop is still going to *)
(* free it, or it was leaked for one of the named reasons.                 *)
THEOREM PortsAlwaysAccounted == Spec => []PortAccounted
<1>1. Inv => PortAccounted
  BY DEF Inv, PortFiled, PortAccounted
<1> QED BY <1>1, Invariance, PTL

(* If the sleep outlasts the callback, a stop always finds the port.       *)
THEOREM NeverLateLeak == Spec => []NoLateLeak
<1>1. Inv => NoLateLeak
  BY DEF Inv
<1> QED BY <1>1, Invariance, PTL

(* Data reaches another task's decoder only when it is tried again after   *)
(* its own task was stopped.                                               *)
THEOREM CallbacksOwnTheirPort == Spec => []CallbackOwnsPort
<1>1. Inv => CallbackOwnsPort
  <2> SUFFICES ASSUME Inv, NEW t \in Tasks, cb[t].port # NoPort
               PROVE  \/ owner[cb[t].port] = t
                      \/ stop[t] = "read" /\ (grace => Retrying(t))
    BY DEF CallbackOwnsPort
  <2>1. cb[t].at \in {"got", "setup", "data"}
    BY DEF Inv, TypeOK, CallbackKnows, Calls, Steps, Out, Call
  <2> QED
    BY <2>1, StreamAssumption DEF Inv, CallbackKnows, PortFiled, SleepSuffices
<1> QED BY <1>1, Invariance, PTL

(* Decoded frames are attributed to the task that has the port.            *)
THEOREM FramesGoToOwner == Spec => []FramesOfOwner
<1>1. Inv => FramesOfOwner
  BY DEF Inv
<1> QED BY <1>1, Invariance, PTL

(* The decoder keeps no address of an erased task, but on a leaked port.   *)
THEOREM DecoderNeverDangles == Spec => []NoDanglingDecoder
<1>1. Inv => NoDanglingDecoder
  <2> SUFFICES ASSUME Inv, grace, NEW p \in Ports, decUser[p] \in gone,
                      held # decUser[p], leak[p] = "no"
               PROVE  FALSE
    BY DEF NoDanglingDecoder
  <2> DEFINE t == decUser[p]
  <2>1. t \in Tasks /\ owner[p] = t /\ status[t] = "STOP"
    BY StreamAssumption DEF Inv, TypeOK, FramesOfOwner, TaskLife
  <2>2. stop[t] # "no"
    BY <2>1, StreamAssumption DEF Inv, TaskLife, PortFiled, Out, Call
  <2>3. stop[t] = "read"
    BY <2>1, <2>2 DEF Inv, TypeOK, HandlerKnows
  <2> QED BY <2>1, <2>3, StreamAssumption DEF Inv, PortFiled
<1> QED BY <1>1, Invariance, PTL

(* A playing task whose header was accepted decodes on a port of its own.  *)
THEOREM PlayingAlwaysSees == Spec => []PlayingSees
<1>1. Inv => PlayingSees
  BY StreamAssumption DEF Inv, PlayingSees, TaskLife, HookKept, PortFiled
<1> QED BY <1>1, Invariance, PTL

(* A task never holds two ports of the decoder.                            *)
THEOREM AlwaysOnePort == Spec => []OnePort
<1>1. Inv => OnePort
  BY StreamAssumption DEF Inv, TypeOK, OnePort, PortFiled, CallbackKnows
<1> QED BY <1>1, Invariance, PTL

(* Ports are freed by the stop of their own task only, and are given to    *)
(* tasks without one: no port passes from one task to another.             *)
THEOREM AlwaysFreedByItsStop == Spec => FreedByItsStop
<1> DEFINE Kept == UNCHANGED owner /\ UNCHANGED dePort
           Step ==
             /\ \A p \in Ports : owner'[p] # owner[p] =>
                  IF owner[p] # NoTask
                  THEN pc = "closing" /\ held = owner[p] /\ owner'[p] = NoTask
                  ELSE /\ dePort[owner'[p]] = NoPort
                       /\ \A q \in Ports : owner[q] # owner'[p]
             /\ \A t \in Tasks : dePort[t] # NoPort => dePort'[t] = dePort[t]
<1>1. ASSUME Inv, [Next]_vars
      PROVE  Step
  <2> USE StreamAssumption DEF Inv, TypeOK
  <2>1. CASE StopFrees
    BY <1>1, <2>1 DEF StopFrees, HandlerKnows, taskVars
  <2>2. ASSUME NEW t \in Tasks, GetsPort(t)
        PROVE  Step
    <3>1. /\ dePort[t] = NoPort /\ dePort' = dePort
          /\ \A q \in Ports : owner[q] # t
      BY <1>1, <2>2 DEF GetsPort, CallbackKnows, PortFiled, taskVars
    <3>2. \A p \in Ports : owner'[p] # owner[p] =>
            owner[p] = NoTask /\ owner'[p] = t
      BY <1>1, <2>2 DEF GetsPort
    <3> QED BY <3>1, <3>2
  <2>3. ASSUME NEW t \in Tasks, KeepsPort(t)
        PROVE  Step
    BY <1>1, <2>3 DEF KeepsPort, CallbackKnows, sdkVars
  <2>4. CASE Kept
    BY <2>4
  <2>5. ASSUME NEW t \in Tasks,
               \/ Drops(t) \/ HeaderArrives(t) \/ SetsUp(t)
               \/ DataArrives(t) \/ Feeds(t)
        PROVE  Kept
    BY <2>5
    DEF Drops, HeaderArrives, SetsUp, DataArrives, Feeds, taskVars, sdkVars
  <2>6. ASSUME NEW t \in Tasks, Opens(t) \/ PlayFails(t) \/ StopMarks(t)
        PROVE  Kept
    BY <2>6 DEF Opens, PlayFails, StopMarks, taskVars, sdkVars
  <2>7. CASE NotStarted \/ Started \/ StopUnlocks \/ StopGivesUp \/ StopCloses
    BY <2>7
    DEF NotStarted, Started, StopUnlocks, StopGivesUp, StopCloses, taskVars,
        sdkVars
  <2>8. CASE UNCHANGED vars \/ \E ts \in SUBSET Tasks : Erased(ts)
    BY <2>8 DEF Erased, vars, taskVars, sdkVars
  <2> HIDE DEF Step, Kept
  <2> QED
    BY <1>1, <2>1, <2>2, <2>3, <2>4, <2>5, <2>6, <2>7, <2>8
    DEF Next, Request, Callback
<1>2. Inv /\ [Next]_vars => [Step]_vars
  BY <1>1
<1> QED BY <1>2, Invariance, PTL DEF Spec, FreedByItsStop

(* Every step of the streams is one of the abstract lease of ports, or     *)
(* leaves it alone.                                                        *)
LEMMA LeaseStep ==
  Inv /\ [Next]_vars => [Lease!LeaseNext]_<<owner, Had, Stages>>
<1> SUFFICES ASSUME Inv, [Next]_vars
             PROVE  Lease!LeaseNext \/ UNCHANGED <<owner, Had, Stages>>
  OBVIOUS
<1> USE StreamAssumption DEF Inv, TypeOK
<1>1. CASE Started
  <2>1. held \in Tasks
    BY <1>1 DEF Started, HandlerKnows
  <2>2. UNCHANGED <<owner, Had>>
    BY <1>1 DEF Started, Had, sdkVars
  <2>3. Stages[held] = "new" /\ Stages' = [Stages EXCEPT ![held] = "playing"]
    BY <1>1, <2>1 DEF Started, HandlerKnows, Stages, Stage, history
  <2>4. Lease!Starts(held)
    BY <2>1, <2>2, <2>3 DEF Lease!Starts
  <2> QED BY <2>1, <2>4 DEF Lease!LeaseNext
<1>2. ASSUME NEW t \in Tasks, StopMarks(t)
      PROVE  Lease!LeaseNext
  <2>1. UNCHANGED <<owner, Had>>
    BY <1>2 DEF StopMarks, Had, sdkVars
  <2>2. Stages[t] = "playing" /\ Stages' = [Stages EXCEPT ![t] = "ended"]
    BY <1>2 DEF StopMarks, TaskLife, Stages, Stage
  <2> QED BY <2>1, <2>2 DEF Lease!Ends, Lease!LeaseNext
<1>3. ASSUME NEW t \in Tasks, GetsPort(t)
      PROVE  Lease!LeaseNext \/ UNCHANGED <<owner, Had, Stages>>
  <2>1. UNCHANGED Stages
    BY <1>3 DEF GetsPort, Stages, Stage, taskVars
  <2>2. CASE Refused(t) /\ Returns(t) /\ UNCHANGED <<owner, leak>>
    <3>1. UNCHANGED Had
      BY <1>3, <2>2 DEF GetsPort, Returns, Had, Out, Call, taskVars
    <3> QED BY <2>1, <2>2, <3>1
  <2>3. ASSUME NEW p \in Ports, owner[p] = NoTask,
               owner' = [owner EXCEPT ![p] = t],
               cb' = [cb EXCEPT ![t] = Call("got", p, @.left)]
        PROVE  Lease!LeaseNext
    <3>1. t \notin Had /\ Stages[t] # "new"
      BY <1>3
      DEF GetsPort, Had, Stages, Stage, CallbackKnows, TaskLife, Out, Call
    <3>2. Had' = Had \cup {t}
      BY <1>3, <2>3 DEF GetsPort, Had, taskVars, Calls, Call
    <3> QED BY <2>1, <2>3, <3>1, <3>2 DEF Lease!Takes, Lease!LeaseNext
  <2> QED BY <1>3, <2>1, <2>2, <2>3 DEF GetsPort
<1>4. CASE StopFrees
  <2>1. UNCHANGED <<Had, Stages>>
    BY <1>4 DEF StopFrees, Had, Stages, Stage, taskVars
  <2>2. CASE port # NoPort /\ owner' = [owner EXCEPT ![port] = NoTask]
    <3>1. held \in Tasks /\ port \in Ports /\ owner[port] = held
      BY <1>4, <2>2 DEF StopFrees, HandlerKnows
    <3>2. Stages[held] = "ended"
      BY <1>4, <3>1 DEF StopFrees, HandlerKnows, Stages, Stage
    <3>3. Lease!Gives(held, port)
      BY <2>1, <2>2, <3>1, <3>2 DEF Lease!Gives
    <3> QED BY <3>1, <3>3 DEF Lease!LeaseNext
  <2> QED BY <1>4, <2>1, <2>2 DEF StopFrees
<1>5. ASSUME NEW t \in Tasks, KeepsPort(t)
      PROVE  UNCHANGED <<owner, Had, Stages>>
  <2>1. Had' = Had
    BY <1>5 DEF KeepsPort, At, Had, CallbackKnows, Calls
  <2> QED BY <1>5, <2>1 DEF KeepsPort, Stages, Stage, sdkVars, history
<1>6. ASSUME NEW t \in Tasks,
             HeaderArrives(t) \/ SetsUp(t) \/ DataArrives(t) \/ Feeds(t)
      PROVE  UNCHANGED <<owner, Had, Stages>>
  <2>1. /\ cb[t].at # "got" /\ cb'[t].at # "got"
        /\ \A u \in Tasks : u # t => cb'[u] = cb[u]
        /\ UNCHANGED <<owner, dePort, status, stop>>
    BY <1>6
    DEF HeaderArrives, SetsUp, DataArrives, Feeds, CallsBack, Enters, Returns,
        Call, Out, Calls, taskVars, sdkVars, history
  <2>2. Had' = Had
    BY <2>1 DEF Had
  <2> QED BY <2>1, <2>2 DEF Stages, Stage
<1>7. ASSUME UNCHANGED <<owner, dePort, cb, status>>,
             \A t \in Tasks : stop[t] # "no" <=> stop'[t] # "no"
      PROVE  UNCHANGED <<owner, Had, Stages>>
  <2>1. Had' = Had
    BY <1>7 DEF Had
  <2> QED BY <1>7, <2>1 DEF Stages, Stage
<1>8. CASE StopGivesUp \/ StopCloses
  BY <1>7, <1>8
  DEF StopGivesUp, StopCloses, Leaking, HandlerKnows, taskVars, sdkVars
<1>9. CASE NotStarted \/ StopUnlocks \/ UNCHANGED vars
  BY <1>7, <1>9 DEF NotStarted, StopUnlocks, vars, taskVars, sdkVars, history
<1>10. ASSUME NEW t \in Tasks, Opens(t) \/ PlayFails(t) \/ Drops(t)
       PROVE  UNCHANGED <<owner, Had, Stages>>
  BY <1>7, <1>10 DEF Opens, PlayFails, Drops, taskVars, sdkVars, history
<1>11. CASE \E ts \in SUBSET Tasks : Erased(ts)
  BY <1>7, <1>11 DEF Erased, sdkVars, history
<1> QED
  BY <1>1, <1>2, <1>3, <1>4, <1>5, <1>6, <1>8, <1>9, <1>10, <1>11
  DEF Next, Request, Callback

(* The streams implement the abstract lease of decoder ports.              *)
THEOREM ImplementsLease == Spec => RefinesLease
<1>1. Init => Lease!LeaseInit
  BY StreamAssumption DEF Init, Lease!LeaseInit, Had, Stages, Stage, Out, Call
<1> QED
  BY <1>1, LeaseStep, Invariance, PTL DEF Spec, RefinesLease, Lease!LeaseSpec
=============================================================================
