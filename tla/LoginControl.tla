---------------------------- MODULE LoginControl ----------------------------
(***************************************************************************)
(* The login table (login.cpp) and the device table it is checked against  *)
(* (sdk_init.cpp, channel.h).  Only the thread of the HTTP server calls    *)
(* these operations, so each handler is one step.                          *)
(*                                                                         *)
(* The module declares state, lookups and actions; DvrControl extends it   *)
(* and composes the actions with the play tasks.  The time field of a user *)
(* is left out: its only reader is userHeartCheck, which returns at once   *)
(* (login.cpp:35), and the listing of /showuser.                           *)
(***************************************************************************)
CONSTANTS
  Ips,      (* addresses of the recorders configured in main.cpp            *)
  UserIds,  (* login handles the SDK may give out after start-up            *)
  EmptyIp,  (* the empty std::string                                        *)
  NoEntry   (* marks a user id without an entry in userMap                  *)

ASSUME LoginAssumption ==
  /\ EmptyIp \notin Ips
  /\ NoEntry \notin Ips \cup {EmptyIp}

VARIABLES
  sdkApiMap,  (* recorders attached by sdkInit; also the keys of dvrChannel *)
  userMap,    (* LoginControl::userMap, reduced to the nvrIp of the entry   *)
  sdkUsers,   (* SDK side: the recorder a login handle is open on           *)
  strayUsers  (* history: handles whose NET_DVR_Logout the SDK refused      *)

loginVars == <<sdkApiMap, userMap, sdkUsers, strayUsers>>

LoginTypeOK ==
  /\ sdkApiMap \in SUBSET Ips
  /\ userMap \in [UserIds -> Ips \cup {EmptyIp, NoEntry}]
  /\ sdkUsers \in [UserIds -> Ips \cup {NoEntry}]
  /\ strayUsers \in SUBSET UserIds

-----------------------------------------------------------------------------
(* sdkInit attaches the recorders whose first login succeeds and gives up  *)
(* when there is none.  The handles of these first logins are never        *)
(* entered in userMap and never closed: they are not in UserIds.           *)
LoginInit ==
  /\ sdkApiMap \in SUBSET Ips \ {{}}
  /\ userMap = [u \in UserIds |-> NoEntry]
  /\ sdkUsers = [u \in UserIds |-> NoEntry]
  /\ strayUsers = {}

GetIp(u) == IF userMap[u] = NoEntry THEN EmptyIp ELSE userMap[u]

(* getSdkApi(ip) and getDVR(ip) find something for the same keys.          *)
HasApi(ip) == ip \in sdkApiMap

-----------------------------------------------------------------------------
(* /login on an attached recorder; the SDK picks a handle that is not open. *)
Login(ip, u) ==
  /\ HasApi(ip)
  /\ sdkUsers[u] = NoEntry
  /\ userMap' = [userMap EXCEPT ![u] = ip]
  /\ sdkUsers' = [sdkUsers EXCEPT ![u] = ip]
  /\ UNCHANGED <<sdkApiMap, strayUsers>>

(* Mutant of Logout: the entry survives the logout.                        *)
LogoutKeepsEntry(u) ==
  /\ userMap[u] # NoEntry
  /\ HasApi(userMap[u])
  /\ sdkUsers' = [sdkUsers EXCEPT ![u] = NoEntry]
  /\ UNCHANGED <<sdkApiMap, userMap, strayUsers>>

(* /logout: an unknown user and one whose address has no SdkApi are left   *)
(* alone.  The result of NET_DVR_Logout is ignored and the entry erased.   *)
Logout(u) ==
  /\ userMap[u] # NoEntry
  /\ HasApi(userMap[u])
  /\ \/ /\ sdkUsers' = [sdkUsers EXCEPT ![u] = NoEntry]
        /\ UNCHANGED strayUsers
     \/ /\ strayUsers' = strayUsers \cup {u}
        /\ UNCHANGED sdkUsers
  /\ userMap' = [userMap EXCEPT ![u] = NoEntry]
  /\ UNCHANGED sdkApiMap

(* Mutant of UserHeartBeat: a fresh entry replaces the one that was there. *)
HeartBeatOverwrites(u) ==
  /\ userMap' = [userMap EXCEPT ![u] = EmptyIp]
  /\ UNCHANGED <<sdkApiMap, sdkUsers, strayUsers>>

(* userMap[userId].time = ...: operator[] of std::map inserts an entry     *)
(* with an empty address when the user is not there.                       *)
UserHeartBeat(u) ==
  /\ userMap' = [userMap EXCEPT ![u] = GetIp(u)]
  /\ UNCHANGED <<sdkApiMap, sdkUsers, strayUsers>>

-----------------------------------------------------------------------------
(* An address the service still trusts belongs to an open SDK login on     *)
(* that same recorder, across logouts, refused logouts, handles the SDK    *)
(* gives out again and the entries a heartbeat resurrects.                 *)
LoginBacked ==
  \A u \in UserIds : userMap[u] \in Ips =>
    userMap[u] \in sdkApiMap /\ sdkUsers[u] = userMap[u]

(* No SDK login is forgotten by the service, but for those whose           *)
(* NET_DVR_Logout failed: logout erases the entry regardless.              *)
SessionAccounted ==
  \A u \in UserIds : sdkUsers[u] # NoEntry =>
    userMap[u] = sdkUsers[u] \/ u \in strayUsers
=============================================================================
