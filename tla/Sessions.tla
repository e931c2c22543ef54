-------------------------------- MODULE Sessions --------------------------------
(***************************************************************************)
(* The sessions of one user of two organizations: the tabs of a browser,   *)
(* each with its calls, its single-flight refresh and the session it read  *)
(* from the storage they share when it loaded, and the server that issues, *)
(* rotates and revokes refresh tokens.                                     *)
(***************************************************************************)
EXTENDS Naturals, FiniteSets

CONSTANTS Tabs, Calls,    (* tabs, and places for concurrent calls in each   *)
          Orgs, Newest,   (* the user's organizations, the last one joined   *)
          MaxPairs,       (* bound on token pairs issued                     *)
          MaxLoads,       (* bound on page loads per tab                     *)
          NetFaults       (* bound on refreshes that fail or get no answer   *)

ASSUME SessionAssumption ==
    /\ MaxPairs \in Nat /\ MaxLoads \in Nat /\ NetFaults \in Nat /\ Newest \in Orgs
    /\ Tabs \cap {"nobody", "ended"} = {}

VARIABLES
    pairs,     (* pairs[n]: who revoked the n-th refresh token, and the      *)
               (* organization in the access token issued with it            *)
    issued,    (* pairs issued so far                                        *)
    expired,   (* access tokens expired so far, the oldest first             *)
    session,   (* session[t]: the pair in t's memory and the user's org      *)
    kept,      (* the same in localStorage                                   *)
    calls,     (* calls[t][c]                                                *)
    refresh,   (* refresh[t]: what refreshAccessToken awaits, for which pair *)
    load,      (* load[t]: page loads of t                                   *)
    lost       (* refreshes that failed so far                               *)

sessionVars == <<pairs, issued, expired, session, kept, calls, refresh, load, lost>>

Pairs == 1..MaxPairs
NoPair == 0
NoSession == [pair |-> NoPair, org |-> "none"]

Kinds == {"get", "switch", "logout"}
NoCall == [pc |-> "idle", kind |-> "get", pair |-> NoPair, body |-> NoPair, retry |-> TRUE]
NoRefresh == [pc |-> "off", pair |-> NoPair, next |-> NoPair]

(* The promise of a refresh that found no token: it stays, resolved with null. *)
NullRefresh == [NoRefresh EXCEPT !.pc = "null"]

(* Who rotated or ended a token. *)
Nobody == <<"nobody", 0>>
Ended == <<"ended", 0>>

NoToken == [by |-> Nobody, org |-> Newest]
Live(n) == n <= issued /\ pairs[n].by = Nobody

Token == [by : {Nobody, Ended} \cup (Tabs \X (0..MaxLoads)), org : Orgs]
Session == [pair : Pairs \cup {NoPair}, org : Orgs \cup {"none"}]
Call == [pc : {"idle", "sent", "ok", "401", "waiting"}, kind : Kinds,
         pair : Pairs \cup {NoPair}, body : Pairs \cup {NoPair}, retry : BOOLEAN]
Refresh == [pc : {"off", "null", "find", "revoke", "create", "back", "refused"},
            pair : Pairs \cup {NoPair}, next : Pairs \cup {NoPair}]

STypeOK ==
    /\ pairs \in [Pairs -> Token]
    /\ issued \in 0..MaxPairs /\ expired \in 0..issued
    /\ session \in [Tabs -> Session] /\ kept \in Session
    /\ calls \in [Tabs -> [Calls -> Call]]
    /\ refresh \in [Tabs -> Refresh]
    /\ load \in [Tabs -> 0..MaxLoads] /\ lost \in 0..NetFaults
    /\ \A t \in Tabs : refresh[t].pc \notin {"off", "null"} => refresh[t].pair \in 1..issued

SInit ==
    /\ pairs = [n \in Pairs |-> NoToken] /\ issued = 0 /\ expired = 0
    /\ session = [t \in Tabs |-> NoSession] /\ kept = NoSession
    /\ calls = [t \in Tabs |-> [c \in Calls |-> NoCall]]
    /\ refresh = [t \in Tabs |-> NoRefresh]
    /\ load = [t \in Tabs |-> 0] /\ lost = 0

(* Bound: calls start while there are pairs left for a refresh and a switch each. *)
Room ==
    LET under == {tc \in Tabs \X Calls : calls[tc[1]][tc[2]].pc # "idle"}
    IN issued + 2 * (Cardinality(under) + 1) <= MaxPairs

(* generateTokens. *)
Issue(org) ==
    /\ issued < MaxPairs
    /\ issued' = issued + 1
    /\ pairs' = [pairs EXCEPT ![issued'] = [NoToken EXCEPT !.org = org]]

(* setSession and clearSession write the shared storage too. *)
SetSession(t, s) == session' = [session EXCEPT ![t] = s] /\ kept' = s

(* The calls that await the refresh of t. *)
Release(t, to) ==
    calls' = [calls EXCEPT ![t] =
        [c \in Calls |-> IF calls[t][c].pc = "waiting" THEN to[c] ELSE calls[t][c]]]

Loss == lost < NetFaults /\ lost' = lost + 1

-----------------------------------------------------------------------------
(* The page.                                                               *)

Login(t) ==
    /\ session[t].pair = NoPair /\ refresh[t].pc \in {"off", "null"} /\ Room
    /\ Issue(Newest)
    /\ SetSession(t, [pair |-> issued', org |-> Newest])
    /\ UNCHANGED <<expired, calls, refresh, load, lost>>

(* logout puts the refresh token of this moment into the body.  A "get"    *)
(* without a session stands for whatever is sent then, such as a login     *)
(* with a wrong password, whose answer is a 401 as well.                   *)
Send(t, c, kind) ==
    /\ session[t].pair # NoPair \/ kind = "get"
    /\ calls[t][c].pc = "idle" /\ Room
    /\ calls' = [calls EXCEPT ![t][c] =
                   [pc |-> "sent", kind |-> kind, pair |-> session[t].pair,
                    body |-> IF kind = "logout" THEN session[t].pair ELSE NoPair,
                    retry |-> TRUE]]
    /\ UNCHANGED <<expired, pairs, issued, session, kept, refresh, load, lost>>

(* An answer that is not a 401, or none: the call is over. *)
TakeAnswer(t, c) ==
    /\ \/ /\ calls[t][c].pc = "ok"
          /\ \/ calls[t][c].kind = "get" /\ UNCHANGED <<session, kept>>
             \/ calls[t][c].kind = "logout" /\ SetSession(t, NoSession)
             \/ /\ calls[t][c].kind = "switch"
                /\ SetSession(t, [pair |-> calls[t][c].body, org |-> pairs[calls[t][c].body].org])
       \/ calls[t][c].pc \in {"sent", "ok", "401"} /\ UNCHANGED <<session, kept>>
    /\ calls' = [calls EXCEPT ![t][c] = NoCall]
    /\ UNCHANGED <<expired, pairs, issued, refresh, load, lost>>

(* Faulty variant: every 401 starts a refresh of its own. *)
Take401Unguarded(t, c) ==
    /\ calls[t][c].pc = "401" /\ calls[t][c].retry
    /\ session[t].pair # NoPair
    /\ calls' = [calls EXCEPT ![t][c].pc = "waiting"]
    /\ refresh' = [refresh EXCEPT ![t] = [NoRefresh EXCEPT !.pc = "find", !.pair = session[t].pair]]
    /\ UNCHANGED <<expired, pairs, issued, session, kept, load, lost>>

(* The first 401 joins the refresh under way, or starts one with the token *)
(* in memory now, which need not be the one the call was sent with.  With  *)
(* none, the finally of the refresh runs before its promise is assigned:   *)
(* the promise stays in place, and later 401s of the page load get null.   *)
Take401(t, c) ==
    /\ calls[t][c].pc = "401" /\ calls[t][c].retry
    /\ \/ /\ refresh[t].pc \notin {"off", "null"}
          /\ calls' = [calls EXCEPT ![t][c].pc = "waiting"]
          /\ UNCHANGED <<session, kept, refresh>>
       \/ /\ refresh[t].pc = "off" /\ session[t].pair # NoPair
          /\ calls' = [calls EXCEPT ![t][c].pc = "waiting"]
          /\ refresh' = [refresh EXCEPT ![t] = [NoRefresh EXCEPT !.pc = "find",
                                                                !.pair = session[t].pair]]
          /\ UNCHANGED <<session, kept>>
       \/ /\ refresh[t].pc = "off" /\ session[t].pair = NoPair
          /\ calls' = [calls EXCEPT ![t][c] = NoCall]
          /\ refresh' = [refresh EXCEPT ![t] = NullRefresh]
          /\ SetSession(t, NoSession)
       \/ /\ refresh[t].pc = "null"
          /\ calls' = [calls EXCEPT ![t][c] = NoCall]
          /\ UNCHANGED <<session, kept, refresh>>
    /\ UNCHANGED <<expired, pairs, issued, load, lost>>

(* A replay that is refused as well ends the session. *)
TakeSecond401(t, c) ==
    /\ calls[t][c].pc = "401" /\ ~calls[t][c].retry
    /\ calls' = [calls EXCEPT ![t][c] = NoCall]
    /\ SetSession(t, NoSession)
    /\ UNCHANGED <<expired, pairs, issued, refresh, load, lost>>

(* The new pair next to whatever user is in memory now; waiting calls replay. *)
TakeTokens(t) ==
    /\ refresh[t].pc = "back"
    /\ refresh' = [refresh EXCEPT ![t] = NoRefresh]
    /\ SetSession(t, [pair |-> refresh[t].next, org |-> session[t].org])
    /\ Release(t, [c \in Calls |-> [calls[t][c] EXCEPT !.pc = "sent", !.retry = FALSE,
                                                       !.pair = refresh[t].next]])
    /\ UNCHANGED <<expired, pairs, issued, load, lost>>

(* A refusal, a lost request or answer, and a call to the database that    *)
(* fails, end the session of the tab.                                      *)
TakeRefusal(t) ==
    /\ \/ refresh[t].pc = "refused" /\ UNCHANGED lost
       \/ refresh[t].pc \in {"find", "revoke", "create", "back"} /\ Loss
    /\ refresh' = [refresh EXCEPT ![t] = NoRefresh]
    /\ SetSession(t, NoSession)
    /\ Release(t, [c \in Calls |-> NoCall])
    /\ UNCHANGED <<expired, pairs, issued, load>>

(* A page load forgets what is under way and reads the shared storage.     *)
(* The server's part of a refresh is over by then.                         *)
Load(t) ==
    /\ load[t] < MaxLoads /\ refresh[t].pc \in {"off", "null", "back", "refused"}
    /\ load' = [load EXCEPT ![t] = @ + 1]
    /\ session' = [session EXCEPT ![t] = kept]
    /\ calls' = [calls EXCEPT ![t] = [c \in Calls |-> NoCall]]
    /\ refresh' = [refresh EXCEPT ![t] = NoRefresh]
    /\ UNCHANGED <<expired, pairs, issued, kept, lost>>

-----------------------------------------------------------------------------
(* The server.                                                             *)

(* The guard of every route, then the handler of the call.  Expired tokens *)
(* are refused, and users or members that are no longer there.             *)
Serve(t, c) ==
    /\ calls[t][c].pc = "sent"
    /\ LET call == calls[t][c]
       IN \/ /\ calls' = [calls EXCEPT ![t][c].pc = "401"]
             /\ UNCHANGED <<pairs, issued>>
          \/ /\ call.pair > expired /\ call.kind = "get"
             /\ calls' = [calls EXCEPT ![t][c].pc = "ok"]
             /\ UNCHANGED <<pairs, issued>>
          \/ /\ call.pair > expired /\ call.kind = "logout"
             /\ calls' = [calls EXCEPT ![t][c].pc = "ok"]
             /\ pairs' = [pairs EXCEPT ![call.body].by = Ended]
             /\ UNCHANGED issued
          \/ /\ call.pair > expired /\ call.kind = "switch"
             /\ \E org \in Orgs : Issue(org)
             /\ calls' = [calls EXCEPT ![t][c].pc = "ok", ![t][c].body = issued']
    /\ UNCHANGED <<expired, session, kept, refresh, load, lost>>

(* refreshTokens: find, revoke by id, create, three calls to the database. *)
FindToken(t) ==
    /\ refresh[t].pc = "find"
    /\ refresh' = [refresh EXCEPT ![t].pc =
                     IF Live(refresh[t].pair) THEN "revoke" ELSE "refused"]
    /\ UNCHANGED <<expired, pairs, issued, session, kept, calls, load, lost>>

RevokeToken(t) ==
    /\ refresh[t].pc = "revoke"
    /\ pairs' = [pairs EXCEPT ![refresh[t].pair].by = <<t, load[t]>>]
    /\ refresh' = [refresh EXCEPT ![t].pc = "create"]
    /\ UNCHANGED <<expired, issued, session, kept, calls, load, lost>>

CreateToken(t) ==
    /\ refresh[t].pc = "create"
    /\ Issue(Newest)
    /\ refresh' = [refresh EXCEPT ![t].pc = "back", ![t].next = issued']
    /\ UNCHANGED <<expired, session, kept, calls, load, lost>>

(* changePassword, resetPassword, a logout elsewhere without a token. *)
RevokeAll ==
    /\ \E n \in Pairs : Live(n)
    /\ pairs' = [n \in Pairs |-> IF Live(n) THEN [pairs[n] EXCEPT !.by = Ended] ELSE pairs[n]]
    /\ UNCHANGED <<expired, issued, session, kept, calls, refresh, load, lost>>

(* Access tokens live equally long. *)
ExpireAccess ==
    /\ expired < issued
    /\ expired' = expired + 1
    /\ UNCHANGED <<pairs, issued, session, kept, calls, refresh, load, lost>>

Answered(t, c) == TakeAnswer(t, c) \/ Take401(t, c) \/ TakeSecond401(t, c)
Refreshing(t) ==
    FindToken(t) \/ RevokeToken(t) \/ CreateToken(t) \/ TakeTokens(t) \/ TakeRefusal(t)

SNext ==
    \/ RevokeAll \/ ExpireAccess
    \/ \E t \in Tabs :
          \/ Login(t) \/ Load(t) \/ Refreshing(t)
          \/ \E c \in Calls :
                \/ \E kind \in Kinds : Send(t, c, kind)
                \/ Serve(t, c) \/ Answered(t, c)

SSpec == SInit /\ [][SNext]_sessionVars

-----------------------------------------------------------------------------
(* Properties.                                                             *)

(***************************************************************************)
(* Calls that expire together do not log the user out: the server refuses  *)
(* a page only a token it did not rotate itself in this page load.         *)
(***************************************************************************)
OwnRotationKept ==
    \A t \in Tabs : refresh[t].pc = "refused" => pairs[refresh[t].pair].by # <<t, load[t]>>
=============================================================================
