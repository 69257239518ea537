----------------------------- MODULE ChannelTable -----------------------------
(***************************************************************************)
(* The channel table of one recorder: channel.cpp fills it at start-up     *)
(* from what HkApi::getChannelIp reads, /showchannel lists it, and the     *)
(* play requests turn their channel parameter into a channel of the        *)
(* recorder.  Three files index the same channels, each in its own way.    *)
(* An address is the id of its device in the recorder's list, 1, 2...      *)
(***************************************************************************)
EXTENDS Integers, Sequences, TLAPS

CONSTANTS
  GroupSize,  (* channels, and devices, of a group: 64                      *)
  ByteSize,   (* values of a BYTE: 256                                      *)
  MaxStart,   (* largest byStartDChan                                       *)
  MaxCount,   (* most digital channels of a recorder                        *)
  MaxDevice,  (* largest device id in a recorder's configuration            *)
  Numbers,    (* bound: channel parameters of requests                      *)
  Junk        (* bytes nobody wrote                                         *)

(* channels[] has 512 entries; no recorder has a channel beyond them.      *)
ASSUME TableAssumption ==
  /\ GroupSize \in Nat \ {0} /\ ByteSize \in Nat \ {0}
  /\ MaxStart \in Nat \ {0} /\ MaxCount \in Nat /\ MaxDevice \in Nat
  /\ Numbers \subseteq Nat
  /\ Junk \notin Nat

VARIABLES
  recorder,  (* its first digital channel, their number, and the device of  *)
             (* each: 0 for none, -1 if it is off or no plain IP channel    *)
  read,      (* NET_DVR_GetDVRConfig succeeded                              *)
  channels,  (* ChannelDVR::channels[], reduced to the text in ip[16]       *)
  listed,    (* ChannelDVR::startChannel and nums                           *)
  asked,     (* the channel parameter of the last play request              *)
  playing,   (* the channel it was given                                    *)
  pc         (* starting, serving, or serving and a play was requested      *)

vars == <<recorder, read, channels, listed, asked, playing, pc>>

Table == 0..(MaxStart + MaxCount)
Indices == 0..(MaxCount - 1)
Recorders == [start : 1..MaxStart, count : 0..MaxCount,
              device : [Indices -> -1..MaxDevice]]

(* ip[16] is read up to a zero byte: strncpy is told to write none, and    *)
(* nobody has cleared the bytes behind the address.                        *)
Address(d) == {<<d>>, <<d, Junk>>}
Text == {<<>>, <<Junk>>} \cup UNION {Address(d) : d \in 1..MaxDevice}

TypeOK ==
  /\ recorder \in Recorders
  /\ read \in BOOLEAN
  /\ channels \in [Table -> Text]
  /\ listed \in [first : 0..MaxStart, nums : Nat]
  /\ asked \in Numbers \cup {0}
  /\ playing \in Nat
  /\ pc \in {"starting", "serving", "playing"}

-----------------------------------------------------------------------------
Init ==
  /\ recorder \in {r \in Recorders :
                     \A i \in Indices : i >= r.count => r.device[i] = -1}
  /\ read = FALSE
  /\ channels = [c \in Table |-> <<>>]
  /\ listed = [first |-> 0, nums |-> 0]
  /\ asked = 0 /\ playing = 0
  /\ pc = "starting"

(* getChannelIp reads group 0 but counts to dwDChanNum, so from GroupSize  *)
(* on it reads the memory behind struStreamMode[]; a device id that is 0   *)
(* or not of group 0 makes it read outside struIPDevInfo[].                *)
Found(i) ==
  LET d == recorder.device[i] IN
  IF i >= GroupSize \/ d = 0 \/ d > GroupSize THEN Text
  ELSE IF d = -1 THEN {<<>>}
  ELSE Address(d)

Slot(i) == i + recorder.start

(* Mutant of Nums: the table is listed without its last channel.           *)
NumsLess(count) == IF count = 0 THEN 0 ELSE (count - 1) % ByteSize

(* byIPChanNum is the low byte of the number.                              *)
Nums(count) == count % ByteSize

(* The start-up of the service, for this recorder, after its login.        *)
Attach ==
  /\ pc = "starting"
  /\ read' \in BOOLEAN
  /\ \E text \in [0..(recorder.count - 1) -> Text] :
       /\ \A i \in 0..(recorder.count - 1) :
            text[i] \in IF read' THEN Found(i) ELSE {<<>>}
       /\ channels' = [c \in Table |->
            IF \E i \in DOMAIN text : Slot(i) = c
            THEN text[CHOOSE i \in DOMAIN text : Slot(i) = c]
            ELSE <<>>]
  /\ listed' = [first |-> recorder.start, nums |-> Nums(recorder.count)]
  /\ pc' = "serving"
  /\ UNCHANGED <<recorder, asked, playing>>

(* Mutant of DeviceChannel: a channel too far.                             *)
DeviceChannelFromOne(number) == number \div 100 + recorder.start

DeviceChannel(number) == number \div 100 - 1 + recorder.start

(* /playreal and /playback; checkIsNum lets no sign through.               *)
Play(number) ==
  /\ pc # "starting"
  /\ asked' = number
  /\ playing' = DeviceChannel(number)
  /\ pc' = "playing"
  /\ UNCHANGED <<recorder, read, channels, listed>>

Next == Attach \/ \E number \in Numbers : Play(number)

Spec == Init /\ [][Next]_vars

-----------------------------------------------------------------------------
(* The channels of group 0 that the recorder has under devices it knows.   *)
Proper(i) ==
  i \in Indices /\ i < GroupSize /\ recorder.device[i] \in 1..GroupSize

(* A client that asks for number 100 k, the k-th IP channel, plays the     *)
(* channel at which /showchannel prints the address of that very camera:   *)
(* the numbering of http-server.cpp undoes that of channel.cpp.            *)
RequestedIsListed ==
  pc = "playing" /\ read /\ Proper(asked \div 100 - 1) =>
    /\ channels[playing] # <<>>
    /\ Head(channels[playing]) = recorder.device[asked \div 100 - 1]

(* /showchannel passes over no camera it knows an address of, if the       *)
(* number of channels fits in a byte.                                      *)
FilledIsListed ==
  pc # "starting" /\ recorder.count < ByteSize =>
    \A c \in Table : channels[c] # <<>> =>
      listed.first <= c /\ c < listed.first + listed.nums

-----------------------------------------------------------------------------
(* What the start-up leaves, and what the last request was given.          *)
Inv ==
  /\ TypeOK
  /\ \A i \in Indices : i >= recorder.count => recorder.device[i] = -1
  /\ pc # "starting" =>
       /\ listed = [first |-> recorder.start, nums |-> Nums(recorder.count)]
       /\ \A c \in Table : channels[c] # <<>> =>
            \E i \in 0..(recorder.count - 1) : Slot(i) = c
       /\ read => \A i \in Indices : Proper(i) =>
            channels[Slot(i)] \in Address(recorder.device[i])
  /\ pc = "playing" => playing = DeviceChannel(asked)

(* Slots differ and lie in the table.                                      *)
LEMMA Slots ==
  ASSUME recorder \in Recorders
  PROVE  \A i \in Indices : Slot(i) \in Table /\ Slot(i) - recorder.start = i
BY TableAssumption DEF Slot, Indices, Table, Recorders

(* The start-up establishes it, whatever the memory holds.                 *)
LEMMA AttachStep == Inv /\ Attach => Inv'
<1> SUFFICES ASSUME Inv, Attach
             PROVE  Inv'
  OBVIOUS
<1> DEFINE count == recorder.count
<1>1. /\ recorder \in Recorders /\ recorder' = recorder
      /\ asked' = asked /\ playing' = playing /\ pc' = "serving"
      /\ read' \in BOOLEAN
      /\ listed' = [first |-> recorder.start, nums |-> Nums(recorder.count)]
  BY DEF Inv, TypeOK, Attach
<1>2. PICK text \in [0..(count - 1) -> Text] :
        /\ \A i \in 0..(count - 1) :
             text[i] \in IF read' THEN Found(i) ELSE {<<>>}
        /\ channels' = [c \in Table |->
             IF \E i \in DOMAIN text : Slot(i) = c
             THEN text[CHOOSE i \in DOMAIN text : Slot(i) = c]
             ELSE <<>>]
  BY DEF Attach
<1>3. /\ count \in Nat /\ recorder.start \in Nat /\ count <= MaxCount
      /\ 0..(count - 1) \subseteq Indices /\ recorder.start \in 0..MaxStart
  BY <1>1, TableAssumption DEF Recorders, Indices
<1>4. ASSUME NEW c \in Table
      PROVE  \/ \E i \in 0..(count - 1) : Slot(i) = c /\ channels'[c] = text[i]
             \/ /\ ~ \E i \in 0..(count - 1) : Slot(i) = c
                /\ channels'[c] = <<>>
  <2>1. CASE \E i \in 0..(count - 1) : Slot(i) = c
    <3> DEFINE j == CHOOSE i \in 0..(count - 1) : Slot(i) = c
    <3>1. j \in 0..(count - 1) /\ Slot(j) = c
      BY <2>1
    <3>2. channels'[c] = text[j]
      BY <1>2, <2>1
    <3> HIDE DEF j
    <3> QED BY <3>1, <3>2
  <2>2. CASE ~ \E i \in 0..(count - 1) : Slot(i) = c
    BY <1>2, <2>2
  <2> QED BY <2>1, <2>2
<1>5. channels' \in [Table -> Text]
  <2>1. \A c \in Table : channels'[c] \in Text
    BY <1>4 DEF Text
  <2> QED BY <1>2, <2>1
<1>6. ASSUME read', NEW i \in Indices, Proper(i)
      PROVE  channels'[Slot(i)] \in Address(recorder.device[i])
  <2>1. i \in 0..(count - 1)
    BY <1>3, <1>6, TableAssumption DEF Inv, Proper, Indices
  <2>2. Slot(i) \in Table /\ channels'[Slot(i)] = text[i]
    <3>1. \A j \in 0..(count - 1) : Slot(j) = Slot(i) => j = i
      BY <1>1, <1>3, Slots, <2>1
    <3> QED BY <1>1, <1>4, Slots, <2>1, <3>1
  <2>3. /\ i \in Int /\ GroupSize \in Nat /\ i < GroupSize
        /\ recorder.device[i] \in 1..GroupSize
    BY <1>6, TableAssumption DEF Proper, Indices
  <2>4. Found(i) = Address(recorder.device[i])
    <3> DEFINE d == recorder.device[i]
    <3>1. /\ ~(i >= GroupSize) /\ d # 0 /\ ~(d > GroupSize) /\ d # -1
      BY <2>3
    <3> QED BY <3>1 DEF Found
  <2> QED BY <1>2, <1>6, <2>1, <2>2, <2>4
<1>7. \A c \in Table : channels'[c] # <<>> =>
        \E i \in 0..(count - 1) : Slot(i) = c
  BY <1>4
<1>8. Nums(count) \in Nat
  BY <1>3, TableAssumption DEF Nums
<1>9. TypeOK'
  BY <1>1, <1>3, <1>5, <1>8 DEF Inv, TypeOK
<1>10. /\ \A i \in Indices : i >= recorder'.count => recorder'.device[i] = -1
       /\ Nums(recorder.count)' = Nums(recorder.count)
       /\ \A i \in Indices :
            Slot(i)' = Slot(i) /\ (Proper(i)' <=> Proper(i))
       /\ \A i \in 0..(count - 1) : Slot(i)' = Slot(i)
  BY <1>1 DEF Inv, Nums, Slot, Proper
<1>11. \A c \in Table : channels'[c] # <<>> =>
         \E i \in 0..(recorder'.count - 1) : Slot(i)' = c
  BY <1>1, <1>7, <1>10
<1>12. read' => \A i \in Indices : Proper(i)' =>
         channels'[Slot(i)'] \in Address(recorder'.device[i])
  BY <1>1, <1>6, <1>10
<1>13. listed' = [first |-> recorder'.start, nums |-> Nums(recorder.count)']
  BY <1>1, <1>10
<1> QED BY <1>1, <1>9, <1>10, <1>11, <1>12, <1>13 DEF Inv

(* The tables stay what the start-up made them.                            *)
THEOREM Invariance == Spec => []Inv
<1>1. ASSUME Init
      PROVE  Inv
  <2>1. /\ recorder \in Recorders
        /\ \A i \in Indices : i >= recorder.count => recorder.device[i] = -1
    BY <1>1 DEF Init
  <2>2. channels \in [Table -> Text]
    BY <1>1 DEF Init, Text
  <2>3. listed \in [first : 0..MaxStart, nums : Nat]
    BY <1>1, TableAssumption DEF Init
  <2> QED BY <1>1, <2>1, <2>2, <2>3 DEF Init, Inv, TypeOK
<1>2. ASSUME Inv, NEW number \in Numbers, Play(number)
      PROVE  Inv'
  <2>1. DeviceChannel(number) \in Nat
    <3>1. number \in Nat /\ recorder.start \in Nat \ {0}
      BY <1>2, TableAssumption DEF Inv, TypeOK, Recorders
    <3> QED BY <3>1 DEF DeviceChannel
  <2> QED BY <1>2, <2>1 DEF Inv, TypeOK, Play, Slot, Proper, DeviceChannel
<1>3. Inv /\ UNCHANGED vars => Inv'
  BY DEF Inv, TypeOK, vars, Slot, Proper, DeviceChannel
<1>4. Inv /\ [Next]_vars => Inv'
  BY <1>2, <1>3, AttachStep DEF Next
<1> QED BY <1>1, <1>4, PTL DEF Spec

(* For any recorder: number 100 k plays the channel listed with camera k.  *)
THEOREM RequestedAlwaysListed == Spec => []RequestedIsListed
<1>1. ASSUME Inv, pc = "playing", read, Proper(asked \div 100 - 1)
      PROVE  /\ channels[playing] # <<>>
             /\ Head(channels[playing]) = recorder.device[asked \div 100 - 1]
  <2> DEFINE i == asked \div 100 - 1
  <2>1. i \in Indices /\ playing = Slot(i)
    BY <1>1 DEF Inv, Proper, Slot, DeviceChannel
  <2>2. channels[Slot(i)] \in Address(recorder.device[i])
    BY <1>1, <2>1 DEF Inv
  <2> HIDE DEF i
  <2>3. /\ channels[Slot(i)] # <<>>
        /\ Head(channels[Slot(i)]) = recorder.device[i]
    BY <2>2 DEF Address
  <2> QED BY <2>1, <2>3 DEF i
<1>2. Inv => RequestedIsListed
  BY <1>1 DEF RequestedIsListed
<1> QED BY <1>2, Invariance, PTL

(* No slot with a text is left out of the list of a small recorder.        *)
THEOREM FilledAlwaysListed == Spec => []FilledIsListed
<1>1. ASSUME Inv, pc # "starting", recorder.count < ByteSize,
             NEW c \in Table, channels[c] # <<>>
      PROVE  listed.first <= c /\ c < listed.first + listed.nums
  <2>1. recorder.count \in Nat /\ recorder.start \in Nat
    BY <1>1, TableAssumption DEF Inv, TypeOK, Recorders
  <2>2. Nums(recorder.count) = recorder.count
    BY <1>1, <2>1, TableAssumption DEF Nums
  <2>3. PICK i \in 0..(recorder.count - 1) : Slot(i) = c
    BY <1>1 DEF Inv
  <2>4. listed = [first |-> recorder.start, nums |-> recorder.count]
    BY <1>1, <2>2 DEF Inv
  <2> QED BY <2>1, <2>3, <2>4 DEF Slot
<1>2. Inv => FilledIsListed
  BY <1>1 DEF FilledIsListed
<1> QED BY <1>2, Invariance, PTL
=============================================================================
