# hkVido in TLA+

hkVido is a video service for Hikvision recorders: an HTTP interface (libevent)
logs users in, starts and stops live and recorded streams through the vendor's
SDK, decodes them, and sends every frame as a JPEG in a JSON message to Kafka.
This directory models its control logic in TLA+, checks it with TLC and proves
the central safety properties with TLAPS.

Paths below are relative to `src/linux64/`.

## 1. Inventory

### Threads

| thread | runs | locks |
|---|---|---|
| HTTP | one libevent loop, one handler at a time (`http-server.cpp:712-726`, `:776`) | `DVRControl::lock`, `LoginControl::lock` |
| heartbeat | every 30 s `taskHeartCheck`, then `userHeartCheck`, which returns at once (`dvr_control.cpp:238-245`, `login.cpp:35`) | `DVRControl::lock` |
| SDK, per stream | `hkDataCallBack` (`hk_api.cpp:66-130`) | none |
| decoder, per port | `DecCBFun` (`hk_api.cpp:25-64`) | none |
| decode pools | 16 pools of 10 threads, queue of 100, chosen by `taskId & 0xf` (`play.cpp:33-41`) | `PlayTask::lock_` |
| message pools | 16 pools of 1 thread, queue of 100 | none |
| sender, per task | detached `sendThd` (`dvr_control.cpp:247-283`) | `PlayTask::lock_` |

### Components

| component | state | operations | what makes it correct |
|---|---|---|---|
| LoginControl (`login.*`) | `userMap` | login, logout, heartBeat, getIp | a trusted address is backed by an open SDK login; no login is forgotten |
| device tables (`sdk_init.cpp`, `channel.*`) | `sdkApiMap`, `dvrChannel`, written once | sdkInit, getSdkApi, getDVR, ChannelDVR::init, showChannel | both have the same keys; three numberings of the same channels agree |
| DVRControl (`dvr_control.*`) | `playTaskMap`, `lock` | addTask, play, stopPlayTask, heartBeat, taskHeartCheck, playControl, getTaskInfo | a playing task keeps its place and its stream; streams do not leak; a stopped task gives its id back |
| PlayTask (`play_task.*`) | status, handle, port, update time, pack map, indices | setters, getPack, addPack | never used after it is freed |
| HkApi (`hk_api.*`) | none of its own; SDK streams and decoder ports | playReal, playByTime, stopPlay, callbacks, file search | what it opens is closed or its handle kept; a decoder port belongs to one task and is given back; the window searched is the window played |
| frame pipeline (`play.cpp`, `play_task.cpp`, `sendThd`) | decode and message pools, `packMap_`, read and write index | DecCBFun, DecodeTask, getPack, MessageTask | frames leave in order, at most once; the reader does not wait for ever |
| store (`kafka_store.*`, `store*.cpp`) | the producer | Send | – |
| HTTP server (`http-server.cpp`) | none between requests | ten handlers | one reply per request that tells the truth |
| face detection (`face.cpp`, not built) | a list of classifiers | borrow, return | a classifier is used by one thread at a time and never lost |
| image conversion (`jpg.cpp`) | none | yuv420sp_to_yuv420p, yuv2Jpg | not called (`play.cpp:94-99`) |

### How they interact

The HTTP thread calls DVRControl and LoginControl. DVRControl owns tasks by
`shared_ptr`; everything else has a raw `PlayTask*`: the SDK gets it as user
data of the stream, the decoder as user data of the port, the sender as its
argument, and each frame in `TaskParam::task_`. Nobody joins the sender or waits
for callbacks: the lifetime of a task rests on the order of events and on times
(a 1 s sleep in the stop, a timeout of 120 s without data).

### What is hard

The full list, with lines, is `hazards` in `PROJECT.json`. In short: the stop
has two critical sections with a gap between them; a logout or a refusal of the
SDK between start and stop leaves a stream nobody can close; callbacks run
without locks on a task that may be freed; SDK handles are given out again; the
decode pool reorders and refuses frames that already have a number; the reader
gives numbers up on a timeout and then moves *before* it looks.

## 2. Modules

| module | models | checked with | proved in |
|---|---|---|---|
| `LoginControl` | `login.cpp`, the lookups of `sdk_init.cpp` and `channel.h` | `MCDvrControl` | `DvrControlProofs` |
| `DvrControl` (EXTENDS `LoginControl`) | `dvr_control.cpp`, life of a `PlayTask`, streams of `hk_api.cpp`, the handlers that use them | `MCDvrControl` | `DvrControlProofs` |
| `TaskRegistry` | abstract: what the service promises for a task id | by refinement from `DvrControl` | `DvrControlProofs` |
| `HttpServer` (EXTENDS `DvrControl`) | every handler of `http-server.cpp` with its answers; `playControl`, `getTaskInfo` | `MCHttpServer`, itself | `HttpServerProofs` |
| `HkService` (EXTENDS `DvrControl`, instances `HkStream`) | registry and streams in one model | `MCHkService` | `HkServiceProofs` |
| `HkStream` | `hkDataCallBack` and `HkApi::stopPlay` in their steps, decoder ports | `MCHkStream` | `HkStreamProofs` |
| `PortLease` | abstract: what streams promise about ports | by refinement from `HkStream` | `HkStreamProofs` |
| `FramePipeline` | one task from `DecCBFun` to Kafka | itself | `PipelineProofs` |
| `LossyFifo` | abstract: what the consumer of a topic may rely on | by refinement from `FramePipeline` | `PipelineProofs` |
| `SharedPools` (EXTENDS `FramePipeline`) | the bounded pools of `play.cpp`, shared with other tasks | itself | `PipelineProofs` |
| `PlaybackWindow` | the times of `hasFilePlay` and `playByTime` | itself | itself |
| `ChannelTable` | `channel.cpp`, `getChannelIp`, the channel parameter of play requests | itself | itself |
| `ClassifierPool` | `face.cpp` | itself | `ClassifierPoolProofs` |

How they compose: `HttpServer` is `DvrControl` with answers, and each of its steps is
one of `DvrControl` or leaves it alone (`HttpImplementsDvr`). `DvrControl`
implements `TaskRegistry`. `SharedPools` is `FramePipeline` with pools instead
of choices, and implements it, fairness included (`RefinesPipeline`). `HkStream`
refines the time in `DvrControl` when a stream is open: what `DvrControl` takes as
one bracket (`StreamData`, `StreamDataDone`) it takes apart, and leaves out ids,
users and ages instead. What `HkStream` takes from its surroundings, such as that no
callback is inside an erased task (the guard of `Erased`), is not left as an assumption:
`HkService` puts the two together and implements both.

### LoginControl and DvrControl

State and code correspond by name: `playTaskMap`, `status`, `playHandle`,
`userMap`, `sdkApiMap`. Four things need an explanation.

* **`pc`, `held`, `lid`: the HTTP thread.** Handlers run one at a time, so one
  program counter is enough. A handler has a step for each place where another
  thread can get in: `added` (after `addTask`), `opened` (inside `play`, the
  stream is open and the task still STOP, lock held), `stopping` (between
  `getByTaskId` and `stopPlayTask`), `marked` (in the `sleep(1)`, lock held),
  `unlocked` (between the two critical sections). `held` is the handler's
  `shared_ptr`. /stopplayback ends with `logout(-1)` (`http-server.cpp:216,241`),
  which finds no user and changes nothing.
* **`streams`: the SDK.** An open stream has the task whose address it was
  given. A handle is a number and a kind (`Handles`), because the SDK numbers
  live streams (`NET_DVR_RealPlay_V40`) and playbacks (`NET_DVR_PlayBackByTime`)
  apart. The code stores the number only: `stopPlay` takes the kind from the type
  of the task (`hk_api.cpp:175`, `:186`), `playBackControl` takes every number for
  that of a playback. That the kind kept with the handle in the model is the one
  the code goes by is `KindKept`. Handles are given out again once closed. When the code drops a stream
  that is still open, `lost` records at which of six lines (`Losses`). It
  is history only: no guard reads it.
* **Time.** `updateAge` counts ticks since `updateTime` up to the timeout.
  A task that is `Busy` (a callback inside it, its sender in the first
  `sleep(2)`, `play()` still running) does not age. These activities are
  bounded by seconds (at most three retries of 1 s in `hk_api.cpp:117-120`, the
  connect time of the SDK), the timeout is 120 s. `StopUnlocks` waits for
  the sender because the sleep of 1 s is 25 of its polling periods. These two
  are the timing assumptions, and `NoUseAfterFree` depends on them: it says the
  lifetime argument of the code is right *if* the times hold.
* **Undefined behaviour.** A callback on a freed task is not followed
  (`StreamData` needs `Alive`): what the process does then is undefined.
  `DanglingOnlyIfLost` says exactly when a stream can get there.

Requests that change nothing (bad parameter, unknown user, missing file) are
stuttering steps. A task whose `play` failed stays in the map, as in the code.

### FramePipeline

`FrameArrives`/`FrameNumbered` are the two halves of `DecCBFun`: the status is
read once, the number is taken after calls into the SDK. `AddPack` takes any
frame of `decoding`: the ten threads of a pool finish in any order, so the pool is
a set. Pools are shared by all tasks with the same `taskId & 0xf`, so from the
view of one task they may refuse a frame or message at any time. `Wanted` is
the index `getPack` looks for: after more than `MaxMiss` misses it moves on
first. `getPack` and the code around it are one step, because `addPack` and
`getPack` share a lock; the increment before the lock is only visible to the
reader. The inner loop of `sendThd` is left on a miss or on an empty image.
An empty image is possible when the converter finds no pixels (`play.cpp:59`).
A message pool has one thread, so `storeQueue` is a sequence.

`timeout` stops at `MaxMiss + 1`; only the comparison matters. The reader is not
followed beyond `MaxIndex`: it stays there, and no frame has such an index.

### TaskRegistry

An id is `free`, `reserved` by a play request, `playing` or `stopped`; one
request at a time has one reserved, only a stop ends playing, and only a stopped
id is given back. `DvrControl!Phase` reads this off map, status and program
counter.

### HttpServer

A handler answers once, at its end. `owed` is set while a request waits inside
one, `answer` is the last code and message, `said` what a client was told about
its id, `fresh` the tasks created in the current second of `time(NULL)` (what
`getTaskInfo` divides by), `obeyed` the task a control command was addressed to
and the task whose playback obeyed (the one with the stored number, `Playback`,
whatever the status and the type of the addressed task), `down` a dead process. Parameters are
reduced to whether the handler accepts them, and answers to their code and the
start of their text. The result of `logout`, which has no return statement on its
way to success, is any value. /showuser and /showchannel print and are left out.

### HkStream

`cb[t]` is the callback of the stream of task t: where it is in
`hkDataCallBack`, the port number it read at line 74 and the retries it has
left. The SDK calls back for one stream one call after the other, for all
streams at once, and is *not* assumed to wait in `NET_DVR_Stop...` for a callback
that is under way. `stopPlay` is two steps: the port is read as an argument and
the stream closed (`StopCloses`), then the port freed (`StopFrees`). `owner`
and `decUser` are the decoder library's side. Each of its calls may fail.
`leak` is history and names why an allocated port will not be freed.

`grace` is the one timing assumption, a variable that never changes: the
`sleep(1)` in the stop outlasts what a callback does without sleeping, so the
stop ends its sleep when the callback is outside or between two attempts at
`InputData`. Every behaviour is explored with and without it;
`PortAccounted` and `RefinesLease` do not depend on it, the other properties
say where they do. `header` follows only the fate of the header (SYSHEAD) that the
SDK sends first; a header that comes before `setStatus(START)` is dropped, and
then the task plays without a decoder, which the model has and no property denies.

### HkService

Every step is one of `DvrControl` together with what `HkStream` lets happen to
ports, callbacks and the argument of `stopPlay` in it, or a step inside a callback
or inside `stopPlay` that `DvrControl` does not see. The variables `HkStream` has of
its own for its surroundings are not state here but defined from the state of
`DvrControl`: `StreamStates` (a stream calls back while the SDK has one open with
the task's address), `Erased` (the tasks out of the map), `StreamPc` and
`StreamHeld`. `HkStream` is instantiated with these, and `RefinesStream` says that
its specification holds of them. `closing` is new: the task whose stream
`stopPlay` has closed while it still has the port to free; the lock is kept
meanwhile. `Unlocks` has both waits of the sleep: the sender's, which
`DvrControl` assumes always, and the callback's if `grace`.

### SharedPools

A decode pool with a bounded queue and several threads and a message pool with
one, both also used by tasks that are not told apart and owe nothing. A thread
takes the oldest job. The pool class is not in the repository: that a full queue refuses
(`ErrorMsg`) and that its threads run is taken from its use. The job a message thread
works on is the first of `messageQueue`.

### PlaybackWindow, ChannelTable, ClassifierPool

`PlaybackWindow` keeps a time as seconds and takes the fields that
`localtime_r` fills as minute and second: time zones are whole minutes apart.
`ChannelTable` has one recorder (the tables of several share nothing). Reads
outside the structures of the SDK (more than 64 channels, device id 0 or above
64) give any text, and so do the bytes behind an address, which `strncpy` leaves
without a terminating zero. That no recorder has a channel beyond the 512 of the
table is assumed. In `ClassifierPool` a thread that got a null pointer ends
the model: the behaviour of `detectMultiScale` on it is undefined.

## 3. Properties and runs

| run | instance | states | shows |
|---|---|---|---|
| `dvr_safety` | 2 tasks, 2 ids, 2 handle numbers of each kind, 2 recorders, 1 login handle, timeout 2 | 307,496 | `TypeOK`; `StartedIsStreaming`, `NoUseAfterFree`, `DanglingOnlyIfLost`, `StreamAccounted`, `OneStreamPerId`; `LoginBacked`, `SessionAccounted`; action property `ClosedByItsStop`; refinement `RefinesRegistry` |
| `dvr_live` | `FairSpec`, 2 tasks, 1 id, 2 numbers, 1 recorder | 79,194 | `StoppedIsCleared`, `HandlerReturns` |
| `dvr_ok` | as `dvr_live`, without fairness | violation | `OkMeansClosed` |
| `http_safety` | 2 tasks, 2 ids, 2 numbers of each kind, timeout 1 | 1,377,257 | `HttpTypeOK`, `PlayokUntilStopped`, `ControlHitsItsTask`; action property `StopsOnePlayok` |
| `http_reply` | `FairHttpSpec`, 1 task | violation | `MustReply` |
| `hk_stream` | 2 tasks, 2 ports, 2 retries, with and without `grace` | 63,989 | `PortAccounted`, `CallbackOwnsPort`, `NoLateLeak`, `FramesOfOwner`, `NoDanglingDecoder`; refinement `RefinesLease` |
| `hk_service` | 2 tasks, 1 id, 1 number of each kind, 1 recorder, 1 login handle, timeout 1, 1 port, 1 retry | 603,646 | `LostWithItsStream`, `PlayingIsServed`; refinement `RefinesStream` |
| `pipeline` | `FairSpec`, 4 frames, timeout after 2 misses, purge every 3 | 89,049 | `TypeOK`, `FrameConserved`, `OvertakesOnlyOnTimeout`; action property `NeverSkipsAhead`; refinement `RefinesLossyFifo`; `AheadIsTaken`, `StoppedSenderExits` |
| `pools_shared` | `FairSharedSpec`, 2 frames, 2 decode threads, queues of 2 | 36,252 | refinement with fairness `RefinesPipeline`; `StoppedLeavesPool` |
| `playback_window` | all pairs of times in 0..125 | 63,504 | `SearchedIsPlayed`, `WindowKept` |
| `channel_table` | every recorder of up to 3 channels, group of 2, byte of 4 | 255,938 | `RequestedIsListed`, `FilledIsListed` |
| `classifier_pool` | 3 classifiers, 4 threads | 474 | `Exclusive`; action property `NullOnlyWhenAllOut` |

**Why the bounds are enough.** Two tasks and two handle numbers of each
kind let a handle be given out again while another task has an old copy, and a live
stream and a playback have the same number; two ids let both tasks play, one
id lets the second wait for the first. In `hk_service` there is one id, so no two
tasks play at once, and one number of each kind, so two streams are open together
only as one live and one played back: what it says of a task among others that play
and stop rests on the theorems of `HkServiceProofs`. A timeout of 2 separates fresh, old and
expired; more ticks add only stuttering in between, and 1 is enough for the
answers. A login handle and two recorders let the handle move to another recorder;
`login.cpp` never relates two handles, so one is enough. Two ports for two tasks let a port move to the other task while the first
still has its number, and a third allocation find none; in `hk_service` one port lets
an allocation fail and a port pass from one task to the next. Four
frames with a reordering pool, `MaxMiss` 2, a purge period of 3 and an index
bound of 6 let the reader fall behind, overtake the writer, be caught again and
purge. Two frames, two threads and queues of 2 let a job wait behind another
task's, be refused, and overtake. Times over two minutes have every pair of
seconds in the same, the next and the next but one minute. A
group of 2 with 3 channels lets a recorder exceed its group, and the byte of 4 in
`channel_table` lets the list be as long as the recorder. More
threads than classifiers empty the pool. The theorems remove the bounds.

`CHECK_DEADLOCK FALSE` where the model stops because its finite tasks or frames
are used up (a freed task object is never used again; the program would go on
with new ones), its handler is done (`PlaybackWindow`) or the process has died
(`HttpServer`, `ClassifierPool`). `pools_shared` and `channel_table` check for
deadlock.

**Fairness.** Weak fairness for the service's own threads once they can run:
the handler (it has no wait but the lock and the sleep), callbacks that were
admitted (bounded retries), the sender, the pools, and the clock. Strong
fairness for `taskHeartCheck`: it needs a mutex that the HTTP thread takes and
gives back for ever. In `HttpServer` also the passing of a second, and all of it only
while the process lives. In `SharedPools` every thread of a pool runs, so the oldest job
is taken although others keep coming. Clients, other tasks and the SDK have
none: nobody must send a request, a frame or a job.

`HandlerReturns` with the last part of `HttpTypeOK` (a request is owed exactly
while a handler is under way, or the process has died) says that every request
is answered while the process lives. That it may die is `MustReply`.

Symmetry is used in `dvr_safety`, `http_safety`, `hk_stream`, `hk_service` and the violation runs
without fairness, over sets whose members no definition chooses from; the runs with
liveness properties have none.

**Findings**, each with its run and its quotation in `PROJECT.json`.

* `OkMeansClosed`: the result of `stopPlay` is ignored (`dvr_control.cpp:92`), so
  "OK" is answered for a stream that goes on.
* `MustReply`: /showtask in the second of a task's creation divides by zero
  (`dvr_control.cpp:163`).

Other defects that the models reproduce but that need no run to be seen:

* After a failed stop the task is erased 120 s later with its stream open, and a second
  stop is answered "no such task or task may already be closed"
  (`http-server.cpp:234`; `GivenUp` in `HkService`).
* `logout` has no return statement on success (`login.cpp:32`), so a logout that
  took place may be answered "logout failed" (`UserAnswered`).
* `playControl` returns -1 whatever happens (`dvr_control.cpp:118`), so a command
  that was carried out is answered "control failed" (`PlayControl`).
* A control command can steer another task's playback (`dvr_control.cpp:116`), in
  two ways: by the handle a stopped task has kept and the SDK gave out again, and by
  that of a task that plays live, as commands go to `NET_DVR_PlayBackControl_V40`
  whatever the type of the task (`hk_api.cpp:254`, `:265`) and a playback can have the
  same number. `ControlHitsItsTask` says that nothing else leads there: a task that
  plays a recording steers its own.
* Parameter errors are answered with code 0, that of success, in all handlers but
  /playreal and /heart (`BadRequest`).
* The high byte of the number of channels is dropped (`hk_api.cpp:157`; `Nums`),
  and device id 0, which `HCNetSDK.h:7613` calls not available, indexes the device
  table at -1 (`hk_api.cpp:366`; `Found`).

Every property of a passing run has a mutant of the code's action that breaks
it; mutants stand before the definition they change and are marked as such.

## 4. Proofs

`DvrControlProofs` proves, for every set of tasks, ids, handle numbers, users and
recorders and every timeout, all properties of the run `dvr_safety`. None is inductive alone. The invariant `Inv` adds to `TypeOK`,
`StartedIsStreaming`, `StreamAccounted` and `LoginBacked`

* `TasksFiled`: the map files a task under its own id only, so a lookup by the
  id of `held` finds `held` or nothing;
* `HandlerKnows`: what holds at each `pc`, for instance that at `unlocked` the
  handle in the task is an open stream that reports to it, though the task may
  be gone from the map;
* `ThreadsKnown`: a task with a callback or a starting sender has age 0, a
  polling sender belongs to a task that plays or is in the sleep of its stop.
  This is the timing argument, and `NoUseAfterFree` follows from it.

`OneStreamPerId` follows from `StreamAccounted` and `TasksFiled` through the
lemma `StreamHoldsId`; `ClosedByItsStop` from `HandlerKnows`.
`ImplementsRegistry` needs which steps change the phase of an id (`PhaseMoves`).
`PlayFindsItsTask` (why the two lookups of `play` cannot fail after `addTask`) and
`KindKept` (the kind of a handle is that of its task) are proved without a run of
their own, and so are two action properties: `StopIsFinal` (a task
is started once and a cleared one stays out of the map) and `EntryKept` (an entry
is never overwritten, and cleared only for a stopped task that no callback and no
sender is at work on).

`HttpServerProofs` shows that each step of the server is a step of `DvrControl` or
leaves it alone (`HttpStepIsStep`), so that all of the above holds for the
server, and that what was said holds: `SaidIsSo` ties "playok" to
state START, and, the other way round, state START to a confirmed play. Both
directions are needed: the second is why a stop that reaches the SDK ends a
play that was confirmed (`StopsOnePlayok`). `HttpTypeCorrect` proves the
safety half of "every request is answered": one is owed exactly while a handler
is under way or the process has died. `ControlHitsItsTask` rests on
`KindKept` (the number stored in a task that plays a recording is that of a
playback) and `StartedIsStreaming` (which is still its own).

`HkStreamProofs` proves the port properties for any numbers of tasks, ports and
retries, with and without `grace`: one invariant ties the port in the task, in the
callback, in the library and in the stop's argument together, and says what
may still be under way at each stage of a stop. The refinement of `PortLease`
follows from it. Proved only: `OnePort` (a task never holds two ports) and
`FreedByItsStop` (only the stop of its own task frees a port, it is given to a task
that has none, and no task forgets one).

`HkServiceProofs` composes the two. `ServiceImplementsDvr` and
`ServiceImplementsStream` say that each step of the service is a step of `DvrControl`
and one of the instantiated `HkStream`, or a stutter; the second is what makes
the interface of `HkStream` a theorem instead of an assumption. Its invariant
`ServiceInv` is `Inv` of both and `Link`, what relates their states: a callback
at work on a port is in `inCallback`, so the ages of `DvrControl` keep its task
(`WorkIsKnown`); the argument of `stopPlay` is a port only while it frees one; and
`OneStream`, the SDK never has two streams for one task, and none yet for a task that
is about to be played. There is one lemma per kind of
step (`OtherStep`, `StopStep`, `HeartStep`, `CallStep`). The composition found
two places where `HkStream` was wrong on its own: the heartbeat check could run while
`stopPlay` frees a port, although the lock is kept until it returns, and a play
request whose stream is closed or given up before a callback came was missing
(`PlayFails`). What follows: the port properties hold with logins, ids, timeouts and
refusals (`ServiceKeepsPorts`, `ServiceImplementsLease`); a confirmed play whose header
was accepted is served from the task map to its own decoder port
(`PlayingAlwaysServed`, which needs both invariants); and what a stop leaves behind,
port and stream together (`LostAlwaysWithItsStream`): a port given up by an early
return of the stop belongs to a stream that is open and given up with it (by
`GivenUpForEver`: such a stream keeps its handle and task for good), one that
`PlayM4_FreePort` failed to free to a stream that was not (by
`NotGivenUpElsewhere`: only the end of its own stop gives a stream up, and that is past).

The first part of `PipelineProofs` proves, for any number of frames, any limits and with or
without a topic, the safety properties and the refinement of `LossyFifo`. `Inv`
is `TypeOK`, `OvertakesOnlyOnTimeout`, `Partition` (the numbered frames are
partitioned over the six places they can be in, and the queue holds each once)
and `Ordered` (what was sent is below what is queued, the queue increases, and
all of it is below the reader's index). Lemmas about `Append`, `Tail` and the
members of the queue (`QueueMembers`, `QueueAppend`, `QueueTail`) carry the
sequence reasoning. Its second part shows that shared pools take only steps
of that pipeline, whatever other tasks do, so its theorems carry over, and
that frames being decoded and jobs in the pool are the same (`JobsMatch`, with `Once`:
no frame twice in the queue). `MessagesMatch` says the same of the message pool and
adds the order: the frames in `messageQueue` are those of `storeQueue`, ascending
between other tasks' jobs, stated without a filter, about which the prover knows
nothing. With it the first frames of the two queues agree (`FrontsAgree`), and
`DoneIsSent` follows: the job a message thread ends is the frame counted as sent.

`PlaybackWindow` and `ChannelTable` prove their properties for all times and all
recorders from what their one computation leaves; `ClassifierPoolProofs` that the
list and the threads partition the classifiers, and that with as many
classifiers as threads nobody comes away empty-handed (`EnoughClassifiers`).

Assumptions: the named `ASSUME`s on constants (special values are not members
of the sets they mark; limits are naturals; `MaxFrames <= MaxIndex`). TLC
evaluates them in every run.

Model-checked only: `StoppedIsCleared`, `AheadIsTaken`, `StoppedSenderExits`,
`HandlerReturns`, `StoppedLeavesPool` and the fairness part of
`RefinesPipeline` (liveness under fairness is out of the prover's reach), and the violations.
Proved and not a property of a run: `PlayFindsItsTask`, `KindKept`, `StopIsFinal`, `EntryKept`,
`PlayingSees` (which `PlayingIsServed` contains), `OnePort`, `FreedByItsStop`,
`WorkIsKnown`, `SharedTypeOK`, `MessagesMatch`, `DoneIsSent`, `JobsMatch`,
`Conserved`, `LostOnlyWithinMinute`, and `TypeOK` of `HkStream`, `PlaybackWindow`,
`ChannelTable` and `ClassifierPool`, the weaker parts of the invariants proved there.

## 5. Not modelled, and why

* Parameter parsing, JSON, Base64, colour conversion: data no property is about.
* `send_document_cb` (never registered), `getTaskStatus`, `setPlayHandle`,
  `getPos`, `getDevInfo`, `devStatcb` (no caller), `store.cpp` (never constructed),
  `decode.cpp` (not built), `jpg.cpp` (not called).
* `hasFilePlay`'s loop (`hk_api.cpp:321-343`) polls without a limit; whether it
  ends is up to the SDK, so no property of this code.
* The SDK, PlayM4, Kafka, Redis, libevent and the thread pool: external, modelled
  from how the code uses them.
* Memory: packs behind the reader stay until a purge that needs a miss on a
  multiple of 1000; no bound holds and none is claimed.
* `include/` is 43,796 lines of vendor headers (`HCNetSDK.h` alone 42,453), which
  declare structures and functions of closed libraries: nothing to model. Of
  the service's own some 2,850 lines, the modules cover what keeps state; the rest
  is parsing, printing, logging and conversion.

## 6. What is left

The planned modules are written. Further steps that would say more:

1. The safety halves of the liveness properties as theorems: what a handler, an
   erasing heartbeat check or the reader is waiting for, and that each step towards
   it stays possible (`StoppedIsCleared`, `HandlerReturns`, `AheadIsTaken`).
2. The answers of `HttpServer` over `HkService`: both extend `DvrControl`, so a theorem
   that relates a "playok" to a decoder port needs one model of the three.
3. A bound on the time a job waits in a decode pool, from which the lifetime of
   `TaskParam::task_` would follow; the code has none, so this needs a change
   of the code first.
