--------------------------- MODULE PlaybackWindow ---------------------------
(***************************************************************************)
(* The time window of /playback: hasFilePlay asks the recorder whether it  *)
(* has a file in it and playByTime plays it.  Both turn the two times into *)
(* fields and take the seconds of the end from the start.  Times are in    *)
(* seconds from a full minute; zones are whole minutes apart, so the other *)
(* fields together are the minute.                                         *)
(***************************************************************************)
EXTENDS Integers, TLAPS

CONSTANT MaxTime  (* bound: times of requests                              *)

ASSUME WindowAssumption == MaxTime \in Nat

VARIABLES
  request,   (* startTime and endTime of the request                        *)
  searched,  (* the window given to NET_DVR_FindFile_V40                    *)
  played,    (* the window given to NET_DVR_PlayBackByTime                  *)
  pc         (* where the handler is                                        *)

vars == <<request, searched, played, pc>>

Times == 0..MaxTime
Windows == [start : Times, end : Nat]

TypeOK ==
  /\ request \in [start : Times, end : Times]
  /\ searched \in Windows
  /\ played \in Windows
  /\ pc \in {"accepted", "found", "playing", "rejected"}

(* A field-wise time: what localtime_r leaves of it.                       *)
Minute(time) == time \div 60
Second(time) == time % 60
NetTime(minute, second) == 60 * minute + second

-----------------------------------------------------------------------------
(* The handler compares start and end with nothing.                        *)
Init ==
  /\ request \in [start : Times, end : Times]
  /\ searched = [start |-> 0, end |-> 0]
  /\ played = [start |-> 0, end |-> 0]
  /\ pc = "accepted"

(* Mutant of SearchWindow: only one of the two places is corrected.        *)
SearchWindowCorrected(r) ==
  [start |-> NetTime(Minute(r.start), Second(r.start)),
   end   |-> NetTime(Minute(r.end), Second(r.end))]

SearchWindow(r) ==
  [start |-> NetTime(Minute(r.start), Second(r.start)),
   end   |-> NetTime(Minute(r.end), Second(r.start))]

(* Mutant of PlayWindow: the seconds are cut off.                          *)
PlayWindowCut(r) ==
  [start |-> NetTime(Minute(r.start), Second(r.start)),
   end   |-> NetTime(Minute(r.end), 0)]

PlayWindow(r) ==
  [start |-> NetTime(Minute(r.start), Second(r.start)),
   end   |-> NetTime(Minute(r.end), Second(r.start))]

HasFilePlay ==
  /\ pc = "accepted"
  /\ searched' = SearchWindow(request)
  /\ pc' \in {"found", "rejected"}
  /\ UNCHANGED <<request, played>>

PlayByTime ==
  /\ pc = "found"
  /\ played' = PlayWindow(request)
  /\ pc' = "playing"
  /\ UNCHANGED <<request, searched>>

Next == HasFilePlay \/ PlayByTime

Spec == Init /\ [][Next]_vars

-----------------------------------------------------------------------------
(* A file was found in exactly the window that is played (hk_api.cpp:221   *)
(* and :316 must agree).                                                   *)
SearchedIsPlayed == pc = "playing" => played = searched

(* The end that is played misses the one asked for by less than a minute,  *)
(* and a request whose times are in order never runs backwards.            *)
WindowKept ==
  pc = "playing" =>
    /\ played.start = request.start
    /\ played.end - request.end \in -59..59
    /\ request.start <= request.end => played.start <= played.end

(* A request for some time plays nothing only if it stays in one minute.   *)
LostOnlyWithinMinute ==
  pc = "playing" /\ request.start < request.end /\ played.end = played.start =>
    Minute(request.start) = Minute(request.end)

-----------------------------------------------------------------------------
(* What holds once the handler has computed its windows.                   *)
Inv ==
  /\ TypeOK
  /\ pc \in {"found", "playing"} => searched = SearchWindow(request)
  /\ pc = "playing" => played = PlayWindow(request)

LEMMA FieldsOfTime ==
  ASSUME NEW time \in Nat
  PROVE  /\ Minute(time) \in Nat /\ Second(time) \in 0..59
         /\ NetTime(Minute(time), Second(time)) = time
BY DEF Minute, Second, NetTime

(* The handler's windows are what its two conversions make of the request. *)
THEOREM Invariance == Spec => []Inv
<1>1. Init => Inv
  BY WindowAssumption DEF Init, Inv, TypeOK, Windows, Times
<1>2. Inv /\ [Next]_vars => Inv'
  <2> SUFFICES ASSUME Inv, [Next]_vars
               PROVE  Inv'
    OBVIOUS
  <2>1. /\ request.start \in Nat /\ request.end \in Nat
        /\ Minute(request.end) \in Nat /\ Second(request.start) \in 0..59
        /\ NetTime(Minute(request.start), Second(request.start)) = request.start
    BY FieldsOfTime, WindowAssumption DEF Inv, TypeOK, Times
  <2>2. NetTime(Minute(request.end), Second(request.start)) \in Nat
    BY <2>1 DEF NetTime
  <2>3. SearchWindow(request) \in Windows /\ PlayWindow(request) \in Windows
    BY <2>1, <2>2 DEF SearchWindow, PlayWindow, Windows, Inv, TypeOK
  <2> QED BY <2>3 DEF Inv, TypeOK, Next, HasFilePlay, PlayByTime, vars
<1> QED BY <1>1, <1>2, PTL DEF Spec

(* The window is searched and played alike.                                *)
THEOREM AlwaysSearchedIsPlayed == Spec => []SearchedIsPlayed
<1>1. Inv => SearchedIsPlayed
  BY DEF Inv, SearchedIsPlayed, SearchWindow, PlayWindow
<1> QED BY <1>1, Invariance, PTL

(* For any two times the window is at most 59 s off and keeps its order.   *)
THEOREM WindowAlwaysKept == Spec => []WindowKept
<1>1. ASSUME Inv, pc = "playing"
      PROVE  WindowKept
  <2>1. request.start \in Nat /\ request.end \in Nat
    BY <1>1, WindowAssumption DEF Inv, TypeOK, Times
  <2>2. /\ played.start = request.start
        /\ played.end = NetTime(Minute(request.end), Second(request.start))
    BY <1>1, <2>1, FieldsOfTime DEF Inv, PlayWindow
  <2>3. /\ played.end - request.end \in -59..59
        /\ request.start <= request.end => request.start <= played.end
    BY <2>1, <2>2 DEF NetTime, Minute, Second
  <2> QED BY <2>2, <2>3 DEF WindowKept
<1>2. Inv => WindowKept
  BY <1>1 DEF WindowKept
<1> QED BY <1>2, Invariance, PTL

(* Only requests within one minute are lost.                               *)
THEOREM AlwaysLostOnlyWithinMinute == Spec => []LostOnlyWithinMinute
<1>1. ASSUME Inv, pc = "playing", played.end = played.start
      PROVE  Minute(request.start) = Minute(request.end)
  <2>1. request.start \in Nat /\ request.end \in Nat
    BY <1>1, WindowAssumption DEF Inv, TypeOK, Times
  <2>2. NetTime(Minute(request.end), Second(request.start))
          = NetTime(Minute(request.start), Second(request.start))
    BY <1>1 DEF Inv, PlayWindow
  <2>3. ASSUME NEW m \in Nat, NEW n \in Nat, NEW s \in 0..59,
               NetTime(m, s) = NetTime(n, s)
        PROVE  m = n
    BY <2>3 DEF NetTime
  <2> QED BY <2>1, <2>2, <2>3, FieldsOfTime
<1>2. Inv => LostOnlyWithinMinute
  BY <1>1 DEF LostOnlyWithinMinute
<1> QED BY <1>2, Invariance, PTL
=============================================================================
