---------------------------- MODULE AccountsProofs ----------------------------
(***************************************************************************)
(* Theorems about who is signed in and who belongs to an organization:     *)
(* Sessions, for any tabs, calls and switches, and Organization, for any   *)
(* slots of requests and accepts, invitations and memberships.             *)
(***************************************************************************)
EXTENDS Sessions, Organization, FiniteSetTheorems, TLAPS

-----------------------------------------------------------------------------
(* Sessions: type correctness, and that a page is never refused a token it *)
(* rotated itself.                                                         *)

(* A switch that is served and not yet read: its body is the new pair. *)
Owed(t, c) == calls[t][c].kind = "switch" /\ calls[t][c].pc = "ok"

(* Every pair a page holds, or is about to be given, was issued. *)
Bounded ==
    /\ kept.pair <= issued
    /\ \A t \in Tabs : session[t].pair <= issued
    /\ \A t \in Tabs : refresh[t].pc = "back" => refresh[t].next \in 1..issued
    /\ \A t \in Tabs, c \in Calls : Owed(t, c) => calls[t][c].body \in 1..issued

(* Tokens name only page loads there have been. *)
PastLoads ==
    \A n \in Pairs, t \in Tabs, k \in Nat : pairs[n].by = <<t, k>> => k <= load[t]

Own(t, n) == n \in Pairs /\ pairs[n].by = <<t, load[t]>>

(* Until its own revocation a refresh, the session and what switches brought *)
(* are tokens the page did not rotate.                                       *)
NotOwn ==
    /\ \A t \in Tabs : refresh[t].pc \in {"off", "null", "find", "revoke", "refused"} =>
                         ~Own(t, session[t].pair)
    /\ \A t \in Tabs : refresh[t].pc \in {"find", "revoke", "refused"} =>
                         ~Own(t, refresh[t].pair)
    /\ \A t \in Tabs : refresh[t].pc = "back" => ~Own(t, refresh[t].next)
    /\ \A t \in Tabs, c \in Calls : Owed(t, c) => ~Own(t, calls[t][c].body)

(* A pair that a switch owes is nowhere else in its page. *)
Separate ==
    \A t \in Tabs, c \in Calls : Owed(t, c) =>
        /\ calls[t][c].body # session[t].pair
        /\ refresh[t].pc \notin {"off", "null"} => calls[t][c].body # refresh[t].pair
        /\ refresh[t].pc = "back" => calls[t][c].body # refresh[t].next
        /\ \A d \in Calls \ {c} : Owed(t, d) => calls[t][c].body # calls[t][d].body

SInv == STypeOK /\ Bounded /\ PastLoads /\ NotOwn /\ Separate

LEMMA SessionsInit == SInit => SInv
  BY SessionAssumption DEF SInit, SInv, STypeOK, Bounded, PastLoads, NotOwn, Separate, Own, Owed,
     Pairs, Token, Session, Call, Refresh, NoPair, NoSession, NoCall, NoRefresh, NoToken, Nobody, Kinds

LEMMA NotATab == \A t \in Tabs, k \in Nat : Nobody # <<t, k>> /\ Ended # <<t, k>>
<1> SUFFICES ASSUME NEW t \in Tabs, NEW k \in Nat PROVE t # "nobody" /\ t # "ended"
  BY DEF Nobody, Ended
<1> QED BY SessionAssumption

LEMMA Numbers == ASSUME STypeOK
                 PROVE /\ issued \in Nat /\ kept.pair \in Nat
                       /\ \A t \in Tabs : /\ session[t].pair \in Nat /\ load[t] \in Nat
                                          /\ refresh[t].pair \in Nat /\ refresh[t].next \in Nat
                       /\ \A t \in Tabs, c \in Calls : calls[t][c].body \in Nat
  BY SessionAssumption DEF STypeOK, Session, Call, Refresh, Pairs, NoPair

(* The pair that is issued is new and unrevoked; the others stay. *)
LEMMA Issued == ASSUME STypeOK, NEW org \in Orgs, Issue(org)
                PROVE /\ issued' = issued + 1 /\ issued' \in Pairs /\ issued \in Nat
                      /\ pairs' \in [Pairs -> Token]
                      /\ pairs'[issued'].by = Nobody
                      /\ \A n \in Pairs : n # issued' => pairs'[n] = pairs[n]
<1>1. issued \in Nat /\ issued < MaxPairs /\ issued' = issued + 1
  BY SessionAssumption DEF STypeOK, Issue
<1>2. issued' \in Pairs
  BY <1>1, SessionAssumption DEF Pairs
<1>3. [NoToken EXCEPT !.org = org] = [by |-> Nobody, org |-> org]
  BY DEF NoToken
<1>4. pairs' = [pairs EXCEPT ![issued'] = [by |-> Nobody, org |-> org]]
  BY <1>3 DEF Issue
<1> QED BY <1>1, <1>2, <1>4 DEF STypeOK, Token

(* One call of one page, or one refresh, is replaced. *)
LEMMA PutCall ==
    ASSUME STypeOK, NEW t \in Tabs, NEW c \in Calls, NEW e \in Call,
           calls' = [calls EXCEPT ![t][c] = e]
    PROVE  /\ calls' \in [Tabs -> [Calls -> Call]]
           /\ calls'[t][c] = e
           /\ \A u \in Tabs, d \in Calls : <<u, d>> # <<t, c>> => calls'[u][d] = calls[u][d]
  BY DEF STypeOK

LEMMA PutRefresh ==
    ASSUME STypeOK, NEW t \in Tabs, NEW r \in Refresh, refresh' = [refresh EXCEPT ![t] = r]
    PROVE  /\ refresh' \in [Tabs -> Refresh] /\ refresh'[t] = r
           /\ \A u \in Tabs : u # t => refresh'[u] = refresh[u]
  BY DEF STypeOK

LEMMA Cleared == NoCall \in Call /\ NoCall.pc = "idle" /\ NoRefresh \in Refresh /\ NoPair \notin Pairs
  BY DEF NoCall, Call, NoRefresh, Refresh, NoPair, Pairs, Kinds

(* Where nobody rotates a token and no page is loaded, no page owns more. *)
Unrotated ==
    /\ load' = load
    /\ \A n \in Pairs : pairs'[n].by = pairs[n].by \/ pairs'[n].by \in {Nobody, Ended}

LEMMA OwnStays == ASSUME SInv, Unrotated
                  PROVE /\ PastLoads'
                        /\ \A u \in Tabs, n \in Pairs :
                              pairs'[n].by = <<u, load'[u]>> => pairs[n].by = <<u, load[u]>>
<1>1. ASSUME NEW n \in Pairs, NEW u \in Tabs, NEW k \in Nat, pairs'[n].by = <<u, k>>
      PROVE pairs[n].by = <<u, k>>
  BY <1>1, NotATab DEF Unrotated
<1>2. load' = load /\ \A u \in Tabs : load[u] \in Nat
  BY Numbers DEF SInv, Unrotated
<1>3. PastLoads'
  BY <1>1, <1>2 DEF SInv, PastLoads, Pairs
<1> QED BY <1>1, <1>2, <1>3

LEMMA LoginKeeps == ASSUME SInv, NEW t \in Tabs, Login(t) PROVE SInv'
<1>0. /\ issued' = issued + 1 /\ issued' \in Pairs /\ issued \in Nat
      /\ pairs' \in [Pairs -> Token]
      /\ pairs'[issued'].by = Nobody
      /\ \A n \in Pairs : n # issued' => pairs'[n] = pairs[n]
  BY Issued, SessionAssumption DEF SInv, Login
<1>a. session' = [session EXCEPT ![t] = [pair |-> issued', org |-> Newest]]
      /\ kept' = [pair |-> issued', org |-> Newest]
  BY DEF Login, SetSession
<1>b. UNCHANGED <<expired, calls, refresh, load, lost>>
  BY DEF Login
<1>c. Unrotated
  BY <1>0, <1>b DEF Unrotated
<1>1. STypeOK'
  BY <1>0, <1>a, <1>b, SessionAssumption DEF SInv, STypeOK, Session, Pairs
<1>2. Bounded'
  <2>1. kept'.pair <= issued' /\ \A u \in Tabs : session'[u].pair <= issued'
    BY <1>0, <1>a, Numbers DEF SInv, STypeOK, Bounded
  <2> QED BY <1>0, <1>b, <2>1, Numbers DEF SInv, Bounded, Owed
<1>3. PastLoads'
  BY <1>c, OwnStays
<1>4. NotOwn'
  <2>1. \A u \in Tabs : ~(pairs'[issued'].by = <<u, load'[u]>>)
    BY <1>0, <1>b, NotATab, Numbers DEF SInv
  <2>2. \A u \in Tabs : refresh[u].pc \in {"off", "null", "find", "revoke", "refused"} =>
           session'[u].pair = issued' \/ ~Own(u, session'[u].pair)
    BY <1>a DEF SInv, STypeOK, NotOwn
  <2> QED BY <1>b, <1>c, <2>1, <2>2, OwnStays DEF SInv, NotOwn, Owed, Own
<1>5. Separate'
  BY <1>0, <1>a, <1>b DEF SInv, STypeOK, Bounded, Separate, Owed
<1> QED BY <1>1, <1>2, <1>3, <1>4, <1>5 DEF SInv

LEMMA SendKeeps == ASSUME SInv, NEW t \in Tabs, NEW c \in Calls, NEW kind \in Kinds, Send(t, c, kind)
                   PROVE SInv'
<1>a. calls' = [calls EXCEPT ![t][c] =
                   [pc |-> "sent", kind |-> kind, pair |-> session[t].pair,
                    body |-> IF kind = "logout" THEN session[t].pair ELSE NoPair,
                    retry |-> TRUE]]
  BY DEF Send
<1>b. UNCHANGED <<expired, pairs, issued, session, kept, refresh, load, lost>>
  BY DEF Send
<1>0. \E e \in Call : e.pc = "sent" /\ calls' = [calls EXCEPT ![t][c] = e]
  <2>1. session[t].pair \in Pairs \cup {NoPair}
    BY DEF SInv, STypeOK, Session
  <2>2. [pc |-> "sent", kind |-> kind, pair |-> session[t].pair,
         body |-> IF kind = "logout" THEN session[t].pair ELSE NoPair, retry |-> TRUE] \in Call
    BY <2>1 DEF Call
  <2> QED BY <1>a, <2>2
<1>g. calls' \in [Tabs -> [Calls -> Call]]
  BY <1>0, PutCall DEF SInv
<1>c. \A u \in Tabs, d \in Calls : Owed(u, d)' => Owed(u, d) /\ calls'[u][d] = calls[u][d]
  BY <1>0, PutCall DEF SInv, Owed
<1>d. Unrotated
  BY <1>b DEF Unrotated
<1>1. STypeOK'
  BY <1>b, <1>g DEF SInv, STypeOK
<1>2. Bounded'
  BY <1>b, <1>c DEF SInv, Bounded
<1>3. PastLoads'
  BY <1>d, OwnStays
<1>4. NotOwn'
  BY <1>b, <1>c DEF SInv, NotOwn, Own
<1>5. Separate'
  BY <1>b, <1>c DEF SInv, Separate
<1> QED BY <1>1, <1>2, <1>3, <1>4, <1>5 DEF SInv

LEMMA TakeAnswerKeeps == ASSUME SInv, NEW t \in Tabs, NEW c \in Calls, TakeAnswer(t, c) PROVE SInv'
<1>a. calls' = [calls EXCEPT ![t][c] = NoCall]
  BY DEF TakeAnswer
<1>b. UNCHANGED <<expired, pairs, issued, refresh, load, lost>>
  BY DEF TakeAnswer
<1>c. \A u \in Tabs, d \in Calls :
         Owed(u, d)' => Owed(u, d) /\ calls'[u][d] = calls[u][d] /\ <<u, d>> # <<t, c>>
  BY <1>a, Cleared, PutCall DEF SInv, Owed
<1>d. \/ UNCHANGED <<session, kept>>
      \/ SetSession(t, NoSession)
      \/ Owed(t, c) /\ SetSession(t, [pair |-> calls[t][c].body, org |-> pairs[calls[t][c].body].org])
  BY DEF TakeAnswer, Owed
<1>e. Unrotated
  BY <1>b DEF Unrotated
<1>f. Owed(t, c) => calls[t][c].body \in Pairs /\ pairs[calls[t][c].body].org \in Orgs
  <2>1. Owed(t, c) => calls[t][c].body \in Pairs
    BY SessionAssumption DEF SInv, STypeOK, Bounded, Pairs
  <2>2. \A n \in Pairs : pairs[n].org \in Orgs
    BY DEF SInv, STypeOK, Token
  <2> QED BY <2>1, <2>2
<1>g. \/ UNCHANGED <<session, kept>>
      \/ /\ kept' \in Session
         /\ session' = [session EXCEPT ![t] = kept']
         /\ kept'.pair = NoPair \/ (Owed(t, c) /\ kept'.pair = calls[t][c].body)
  BY <1>d, <1>f DEF SetSession, NoSession, Session
<1>1. STypeOK'
  <2>1. session' \in [Tabs -> Session] /\ kept' \in Session
    BY <1>g DEF SInv, STypeOK
  <2>2. calls' \in [Tabs -> [Calls -> Call]]
    BY <1>a, Cleared, PutCall DEF SInv
  <2> QED BY <1>b, <2>1, <2>2 DEF SInv, STypeOK, Pairs
<1>2. Bounded'
  <2>1. kept'.pair <= issued
    BY <1>g, Numbers DEF SInv, Bounded, NoPair
  <2>2. \A u \in Tabs : session'[u].pair \in {session[u].pair, kept'.pair}
    BY <1>g DEF SInv, STypeOK
  <2> QED BY <1>b, <1>c, <2>1, <2>2 DEF SInv, Bounded
<1>3. PastLoads'
  BY <1>e, OwnStays
<1>4. NotOwn'
  <2>1. \A u \in Tabs : \/ session'[u].pair = session[u].pair
                        \/ session'[u].pair \notin Pairs
                        \/ u = t /\ Owed(t, c) /\ session'[u].pair = calls[t][c].body
    BY <1>g, Numbers DEF SInv, STypeOK, Pairs, NoPair
  <2> QED BY <1>b, <1>c, <2>1 DEF SInv, NotOwn, Own
<1>5. Separate'
  <2>1. \A u \in Tabs : \/ session'[u].pair = session[u].pair
                        \/ session'[u].pair = NoPair
                        \/ u = t /\ Owed(t, c) /\ session'[u].pair = calls[t][c].body
    BY <1>g DEF SInv, STypeOK
  <2>2. \A u \in Tabs, d \in Calls : Owed(u, d) => calls[u][d].body # NoPair
    BY Numbers DEF SInv, Bounded, NoPair
  <2> QED BY <1>b, <1>c, <2>1, <2>2 DEF SInv, Separate
<1> QED BY <1>1, <1>2, <1>3, <1>4, <1>5 DEF SInv

(* A page that forgets its session, and what it did with its calls. *)
LEMMA ForgetKeeps ==
    ASSUME SInv, NEW t \in Tabs, Unrotated,
           UNCHANGED <<expired, pairs, issued, refresh, load, lost>>,
           kept' = NoSession, session' = [session EXCEPT ![t] = NoSession],
           calls' \in [Tabs -> [Calls -> Call]],
           \A u \in Tabs, d \in Calls : Owed(u, d)' => Owed(u, d) /\ calls'[u][d] = calls[u][d]
    PROVE  SInv'
<1>1. STypeOK'
  BY DEF SInv, STypeOK, Session, NoSession
<1>2. \A u \in Tabs : session'[u].pair \in {session[u].pair, NoPair}
  BY DEF SInv, STypeOK, NoSession
<1>3. Bounded'
  BY <1>2, Numbers DEF SInv, Bounded, NoPair, NoSession
<1>4. PastLoads'
  BY OwnStays
<1>5. NotOwn'
  <2>1. NoPair \notin Pairs
    BY DEF NoPair, Pairs
  <2> QED BY <1>2, <2>1 DEF SInv, NotOwn, Own
<1>6. Separate'
  <2>1. \A u \in Tabs, d \in Calls : Owed(u, d) => calls[u][d].body # NoPair
    BY Numbers DEF SInv, Bounded, NoPair
  <2> QED BY <1>2, <2>1 DEF SInv, Separate
<1> QED BY <1>1, <1>3, <1>4, <1>5, <1>6 DEF SInv

LEMMA Take401Keeps == ASSUME SInv, NEW t \in Tabs, NEW c \in Calls, Take401(t, c) PROVE SInv'
<1>b. UNCHANGED <<expired, pairs, issued, load, lost>>
  BY DEF Take401
<1>a. \E e \in Call : e.pc # "ok" /\ calls' = [calls EXCEPT ![t][c] = e]
  <2>1. [calls[t][c] EXCEPT !.pc = "waiting"] \in Call /\ [calls[t][c] EXCEPT !.pc = "waiting"].pc # "ok"
    <3>1. calls[t][c] \in Call
      BY DEF SInv, STypeOK
    <3> QED BY <3>1 DEF Call
  <2>2. \/ calls' = [calls EXCEPT ![t][c] = [calls[t][c] EXCEPT !.pc = "waiting"]]
        \/ calls' = [calls EXCEPT ![t][c] = NoCall]
    BY DEF Take401
  <2> QED BY <2>1, <2>2, Cleared
<1>c. \A u \in Tabs, d \in Calls : Owed(u, d)' => Owed(u, d) /\ calls'[u][d] = calls[u][d]
  BY <1>a, PutCall DEF SInv, Owed
<1>d. calls' \in [Tabs -> [Calls -> Call]]
  BY <1>a, PutCall DEF SInv
<1>e. Unrotated
  BY <1>b DEF Unrotated
<1>f. \/ UNCHANGED <<session, kept, refresh>>
      \/ /\ UNCHANGED <<session, kept>>
         /\ refresh[t].pc = "off" /\ session[t].pair # NoPair
         /\ refresh' = [refresh EXCEPT ![t] = [pc |-> "find", pair |-> session[t].pair, next |-> NoPair]]
      \/ /\ refresh[t].pc = "off"
         /\ refresh' = [refresh EXCEPT ![t] = [pc |-> "null", pair |-> NoPair, next |-> NoPair]]
         /\ kept' = NoSession /\ session' = [session EXCEPT ![t] = NoSession]
  BY DEF Take401, SetSession, NoRefresh, NullRefresh
<1>1. CASE UNCHANGED <<session, kept, refresh>>
  <2>1. STypeOK'
    BY <1>1, <1>b, <1>d DEF SInv, STypeOK
  <2>2. PastLoads'
    BY <1>e, OwnStays
  <2> QED BY <1>1, <1>b, <1>c, <2>1, <2>2 DEF SInv, Bounded, NotOwn, Own, Separate
<1>2. CASE /\ UNCHANGED <<session, kept>>
           /\ refresh[t].pc = "off" /\ session[t].pair # NoPair
           /\ refresh' = [refresh EXCEPT ![t] = [pc |-> "find", pair |-> session[t].pair, next |-> NoPair]]
  <2>0. \A u \in Tabs : u # t => refresh'[u] = refresh[u]
    BY <1>2 DEF SInv, STypeOK
  <2>a. refresh'[t] = [pc |-> "find", pair |-> session[t].pair, next |-> NoPair]
    BY <1>2 DEF SInv, STypeOK
  <2>1. STypeOK'
    <3>1. session[t].pair \in Pairs /\ session[t].pair \in 1..issued
      BY <1>2, Numbers DEF SInv, STypeOK, Session, Bounded, NoPair
    <3>2. refresh' \in [Tabs -> Refresh]
      <4>1. [pc |-> "find", pair |-> session[t].pair, next |-> NoPair] \in Refresh
        BY <3>1 DEF Refresh
      <4> QED BY <1>2, <4>1, PutRefresh DEF SInv
    <3> QED BY <1>2, <1>b, <1>d, <2>0, <2>a, <3>1, <3>2 DEF SInv, STypeOK
  <2>2. PastLoads'
    BY <1>e, OwnStays
  <2>3. Bounded'
    BY <1>2, <1>b, <1>c, <2>0, <2>a DEF SInv, Bounded
  <2>4. NotOwn'
    BY <1>2, <1>b, <1>c, <2>0, <2>a DEF SInv, NotOwn, Own
  <2>5. Separate'
    BY <1>2, <1>b, <1>c, <2>0, <2>a DEF SInv, Separate
  <2> QED BY <2>1, <2>2, <2>3, <2>4, <2>5 DEF SInv
<1>3. CASE /\ refresh[t].pc = "off"
           /\ refresh' = [refresh EXCEPT ![t] = [pc |-> "null", pair |-> NoPair, next |-> NoPair]]
           /\ kept' = NoSession /\ session' = [session EXCEPT ![t] = NoSession]
  <2>0. [pc |-> "null", pair |-> NoPair, next |-> NoPair] \in Refresh
    BY DEF Refresh
  <2>1. /\ refresh' \in [Tabs -> Refresh] /\ refresh'[t].pc = "null"
        /\ \A u \in Tabs : u # t => refresh'[u] = refresh[u]
    BY <1>3, <2>0, PutRefresh DEF SInv
  <2>2. STypeOK'
    BY <1>3, <1>b, <1>d, <2>1 DEF SInv, STypeOK, Session, NoSession
  <2>3. \A u \in Tabs : session'[u].pair = NoPair \/ session'[u] = session[u]
    BY <1>3 DEF SInv, STypeOK, NoSession
  <2>4. Bounded'
    BY <1>3, <1>b, <1>c, <2>1, <2>3, Numbers DEF SInv, Bounded, NoPair, NoSession
  <2>5. PastLoads'
    BY <1>e, OwnStays
  <2>6. NotOwn'
    <3>1. \A u \in Tabs : ~Own(u, session[u].pair) => ~Own(u, session'[u].pair)
      BY <2>3, Cleared DEF Own
    <3>2. \A u \in Tabs : refresh'[u].pc \in {"off", "null", "find", "revoke", "refused"} =>
             refresh[u].pc \in {"off", "null", "find", "revoke", "refused"}
      BY <1>3, <2>1
    <3> QED BY <1>b, <1>c, <2>1, <3>1, <3>2 DEF SInv, NotOwn, Own
  <2>7. Separate'
    <3>1. \A u \in Tabs, d \in Calls : Owed(u, d) => calls[u][d].body # NoPair
      BY Numbers DEF SInv, Bounded, NoPair
    <3> QED BY <1>c, <2>1, <2>3, <3>1 DEF SInv, Separate
  <2> QED BY <2>2, <2>4, <2>5, <2>6, <2>7 DEF SInv
<1> QED BY <1>1, <1>2, <1>3, <1>f

LEMMA TakeSecond401Keeps == ASSUME SInv, NEW t \in Tabs, NEW c \in Calls, TakeSecond401(t, c) PROVE SInv'
<1>b. UNCHANGED <<expired, pairs, issued, refresh, load, lost>>
  BY DEF TakeSecond401
<1>c. \A u \in Tabs, d \in Calls : Owed(u, d)' => Owed(u, d) /\ calls'[u][d] = calls[u][d]
  BY Cleared, PutCall DEF TakeSecond401, SInv, Owed
<1>d. calls' \in [Tabs -> [Calls -> Call]]
  BY Cleared, PutCall DEF TakeSecond401, SInv
<1>e. Unrotated
  BY <1>b DEF Unrotated
<1>f. kept' = NoSession /\ session' = [session EXCEPT ![t] = NoSession]
  BY DEF TakeSecond401, SetSession
<1> QED BY <1>b, <1>c, <1>d, <1>e, <1>f, ForgetKeeps

(* Steps of the server's part of a refresh that only move it on. *)
LEMMA FindTokenKeeps == ASSUME SInv, NEW t \in Tabs, FindToken(t) PROVE SInv'
<1>a. /\ refresh[t].pc = "find"
      /\ \E s \in {"revoke", "refused"} : refresh' = [refresh EXCEPT ![t].pc = s]
  BY DEF FindToken
<1>b. UNCHANGED <<expired, pairs, issued, session, kept, calls, load, lost>>
  BY DEF FindToken
<1>c. \A u \in Tabs : \/ refresh'[u] = refresh[u]
                      \/ /\ refresh[u].pc = "find" /\ refresh'[u].pc \in {"revoke", "refused"}
                         /\ refresh'[u].pair = refresh[u].pair
  BY <1>a DEF SInv, STypeOK
<1>1. STypeOK'
  <2>1. refresh' \in [Tabs -> Refresh]
    <3>1. PICK s \in {"revoke", "refused"} : refresh' = [refresh EXCEPT ![t] = [refresh[t] EXCEPT !.pc = s]]
      BY <1>a
    <3>2. refresh[t] \in Refresh
      BY DEF SInv, STypeOK
    <3>3. [refresh[t] EXCEPT !.pc = s] \in Refresh
      BY <3>2 DEF Refresh
    <3> QED BY <3>1, <3>3, PutRefresh DEF SInv
  <2> QED BY <1>b, <1>c, <2>1 DEF SInv, STypeOK
<1>2. Bounded'
  BY <1>b, <1>c DEF SInv, Bounded, Owed
<1>3. PastLoads'
  BY <1>b DEF SInv, PastLoads
<1>4. NotOwn'
  BY <1>b, <1>c DEF SInv, NotOwn, Own, Owed
<1>5. Separate'
  BY <1>b, <1>c DEF SInv, Separate, Owed
<1> QED BY <1>1, <1>2, <1>3, <1>4, <1>5 DEF SInv

(* The token becomes the page's own; what it holds besides is another one. *)
LEMMA RevokeTokenKeeps == ASSUME SInv, NEW t \in Tabs, RevokeToken(t) PROVE SInv'
<1>a. /\ refresh[t].pc = "revoke"
      /\ refresh' = [refresh EXCEPT ![t].pc = "create"]
      /\ pairs' = [pairs EXCEPT ![refresh[t].pair].by = <<t, load[t]>>]
  BY DEF RevokeToken
<1>b. UNCHANGED <<expired, issued, session, kept, calls, load, lost>>
  BY DEF RevokeToken
<1>c. /\ \A u \in Tabs : u # t => refresh'[u] = refresh[u]
      /\ refresh'[t].pc = "create"
  BY <1>a DEF SInv, STypeOK
<1>d. /\ refresh[t].pair \in Pairs /\ <<t, load[t]>> \in Tabs \X (0..MaxLoads)
      /\ pairs'[refresh[t].pair].by = <<t, load[t]>>
      /\ \A n \in Pairs : n # refresh[t].pair => pairs'[n] = pairs[n]
  <2>1. refresh[t].pair \in 1..issued /\ load[t] \in 0..MaxLoads
    BY <1>a DEF SInv, STypeOK
  <2>2. refresh[t].pair \in Pairs
    BY <2>1, SessionAssumption DEF SInv, STypeOK, Pairs
  <2> QED BY <1>a, <2>1, <2>2 DEF SInv, STypeOK
<1>1. STypeOK'
  <2>1. pairs' \in [Pairs -> Token]
    <3>1. pairs[refresh[t].pair] \in Token
      BY <1>d DEF SInv, STypeOK
    <3>2. [pairs[refresh[t].pair] EXCEPT !.by = <<t, load[t]>>] \in Token
      BY <1>d, <3>1 DEF Token
    <3> QED BY <1>a, <3>2 DEF SInv, STypeOK
  <2>2. refresh' \in [Tabs -> Refresh]
    BY <1>a DEF SInv, STypeOK, Refresh
  <2>3. \A u \in Tabs : refresh'[u].pc \notin {"off", "null"} => refresh[u].pc \notin {"off", "null"} /\ refresh'[u].pair = refresh[u].pair
    BY <1>a DEF SInv, STypeOK
  <2> QED BY <1>b, <2>1, <2>2, <2>3 DEF SInv, STypeOK
<1>2. Bounded'
  BY <1>b, <1>c DEF SInv, Bounded, Owed
<1>3. PastLoads'
  BY <1>b, <1>d, Numbers DEF SInv, PastLoads
<1>4. NotOwn'
  <2>1. \A u \in Tabs, n \in Pairs : Own(u, n)' => Own(u, n) \/ (u = t /\ n = refresh[t].pair)
    BY <1>b, <1>d DEF Own
  <2>2. \A c \in Calls : Owed(t, c) => calls[t][c].body # refresh[t].pair
    BY <1>a DEF SInv, Separate
  <2> QED BY <1>b, <1>c, <2>1, <2>2 DEF SInv, NotOwn, Own, Owed
<1>5. Separate'
  BY <1>a, <1>b, <1>c DEF SInv, STypeOK, Separate, Owed
<1> QED BY <1>1, <1>2, <1>3, <1>4, <1>5 DEF SInv

LEMMA CreateTokenKeeps == ASSUME SInv, NEW t \in Tabs, CreateToken(t) PROVE SInv'
<1>0. /\ issued' = issued + 1 /\ issued' \in Pairs /\ issued \in Nat
      /\ pairs' \in [Pairs -> Token]
      /\ pairs'[issued'].by = Nobody
      /\ \A n \in Pairs : n # issued' => pairs'[n] = pairs[n]
  BY Issued, SessionAssumption DEF SInv, CreateToken
<1>a. refresh[t].pc = "create" /\ refresh' = [refresh EXCEPT ![t].pc = "back", ![t].next = issued']
  BY DEF CreateToken
<1>b. UNCHANGED <<expired, session, kept, calls, load, lost>>
  BY DEF CreateToken
<1>c. /\ \A u \in Tabs : u # t => refresh'[u] = refresh[u]
      /\ refresh'[t].pc = "back" /\ refresh'[t].pair = refresh[t].pair /\ refresh'[t].next = issued'
  BY <1>a DEF SInv, STypeOK
<1>d. Unrotated
  BY <1>0, <1>b DEF Unrotated
<1>1. STypeOK'
  <2>1. refresh' \in [Tabs -> Refresh]
    <3>1. refresh[t] \in Refresh
      BY DEF SInv, STypeOK
    <3>2. [refresh[t] EXCEPT !.pc = "back", !.next = issued'] \in Refresh
      BY <1>0, <3>1 DEF Refresh
    <3>3. refresh' = [refresh EXCEPT ![t] = [refresh[t] EXCEPT !.pc = "back", !.next = issued']]
      BY <1>a DEF SInv, STypeOK
    <3> QED BY <3>2, <3>3, PutRefresh DEF SInv
  <2>2. \A u \in Tabs : refresh'[u].pc \notin {"off", "null"} => refresh'[u].pair \in 1..issued'
    BY <1>0, <1>a, <1>c DEF SInv, STypeOK
  <2>3. issued' \in 0..MaxPairs /\ expired' \in 0..issued'
    BY <1>0, <1>b DEF SInv, STypeOK, Pairs
  <2> QED BY <1>0, <1>b, <2>1, <2>2, <2>3 DEF SInv, STypeOK
<1>2. Bounded'
  BY <1>0, <1>b, <1>c, Numbers DEF SInv, Bounded, Owed
<1>3. PastLoads'
  BY <1>d, OwnStays
<1>4. NotOwn'
  <2>1. \A u \in Tabs : pairs'[issued'].by # <<u, load'[u]>>
    BY <1>0, <1>b, NotATab, Numbers DEF SInv
  <2> QED BY <1>b, <1>c, <1>d, <2>1, OwnStays DEF SInv, NotOwn, Own, Owed
<1>5. Separate'
  <2>1. \A c \in Calls : Owed(t, c) => calls[t][c].body # issued'
    BY <1>0, Numbers DEF SInv, Bounded
  <2>2. SUFFICES ASSUME NEW u \in Tabs, NEW c \in Calls, Owed(u, c)
                 PROVE  /\ calls[u][c].body # session[u].pair
                        /\ refresh'[u].pc \notin {"off", "null"} => calls[u][c].body # refresh'[u].pair
                        /\ refresh'[u].pc = "back" => calls[u][c].body # refresh'[u].next
                        /\ \A d \in Calls \ {c} : Owed(u, d) => calls[u][c].body # calls[u][d].body
    BY <1>b DEF Separate, Owed
  <2>3. CASE u = t
    BY <1>a, <1>c, <2>1, <2>2, <2>3 DEF SInv, Separate
  <2>4. CASE u # t
    BY <1>c, <2>2, <2>4 DEF SInv, Separate
  <2> QED BY <2>3, <2>4
<1> QED BY <1>1, <1>2, <1>3, <1>4, <1>5 DEF SInv

LEMMA ExpireKeeps == ASSUME SInv, ExpireAccess PROVE SInv'
<1>b. UNCHANGED <<pairs, issued, session, kept, calls, refresh, load, lost>>
  BY DEF ExpireAccess
<1>1. STypeOK'
  BY <1>b DEF SInv, STypeOK, ExpireAccess
<1> QED BY <1>1, <1>b DEF SInv, Bounded, PastLoads, NotOwn, Own, Owed, Separate

LEMMA RevokeAllKeeps == ASSUME SInv, RevokeAll PROVE SInv'
<1>a. pairs' = [n \in Pairs |-> IF Live(n) THEN [pairs[n] EXCEPT !.by = Ended] ELSE pairs[n]]
  BY DEF RevokeAll
<1>b. UNCHANGED <<expired, issued, session, kept, calls, refresh, load, lost>>
  BY DEF RevokeAll
<1>c. Unrotated
  BY <1>a, <1>b DEF Unrotated, SInv, STypeOK
<1>1. STypeOK'
  BY <1>a, <1>b DEF SInv, STypeOK, Token
<1>2. PastLoads'
  BY <1>c, OwnStays
<1>3. NotOwn'
  BY <1>b, <1>c, OwnStays DEF SInv, NotOwn, Own, Owed
<1> QED BY <1>b, <1>1, <1>2, <1>3 DEF SInv, Bounded, Owed, Separate

(* The calls that wait are replayed or ended: none of them is owed anything. *)
LEMMA Released ==
    ASSUME STypeOK, NEW t \in Tabs, NEW to \in [Calls -> Call],
           \A c \in Calls : to[c].pc # "ok", Release(t, to)
    PROVE  /\ calls' \in [Tabs -> [Calls -> Call]]
           /\ \A u \in Tabs, d \in Calls : Owed(u, d)' => Owed(u, d) /\ calls'[u][d] = calls[u][d]
<1>1. calls' = [calls EXCEPT ![t] = [c \in Calls |-> IF calls[t][c].pc = "waiting" THEN to[c] ELSE calls[t][c]]]
  BY DEF Release
<1>2. calls' \in [Tabs -> [Calls -> Call]]
  BY <1>1 DEF STypeOK
<1>3. \A u \in Tabs, d \in Calls : calls'[u][d] = calls[u][d] \/ calls'[u][d].pc # "ok"
  BY <1>1 DEF STypeOK
<1> QED BY <1>2, <1>3 DEF Owed

LEMMA TakeTokensKeeps == ASSUME SInv, NEW t \in Tabs, TakeTokens(t) PROVE SInv'
<1> DEFINE next == refresh[t].next
           s == [pair |-> next, org |-> session[t].org]
           to == [c \in Calls |-> [calls[t][c] EXCEPT !.pc = "sent", !.retry = FALSE, !.pair = next]]
<1>a. /\ refresh[t].pc = "back" /\ refresh' = [refresh EXCEPT ![t] = NoRefresh]
      /\ session' = [session EXCEPT ![t] = s] /\ kept' = s
      /\ Release(t, to)
      /\ UNCHANGED <<expired, pairs, issued, load, lost>>
  BY DEF TakeTokens, SetSession
<1>b. next \in Pairs /\ next \in 1..issued
  <2>1. next \in 1..issued
    BY <1>a DEF SInv, Bounded
  <2>2. issued \in 0..MaxPairs
    BY DEF SInv, STypeOK
  <2> HIDE DEF next
  <2> QED BY <2>1, <2>2, SessionAssumption DEF Pairs
<1>c. /\ s \in Session
      /\ session' \in [Tabs -> Session] /\ session'[t].pair = next
      /\ \A u \in Tabs : u # t => session'[u] = session[u]
  <2>1. session[t] \in Session
    BY DEF SInv, STypeOK
  <2>2. s \in Session
    BY <1>b, <2>1 DEF Session
  <2> QED BY <1>a, <2>2 DEF SInv, STypeOK
<1>d. refresh' \in [Tabs -> Refresh] /\ refresh'[t].pc = "off" /\ \A u \in Tabs : u # t => refresh'[u] = refresh[u]
  <2>1. NoRefresh.pc = "off"
    BY DEF NoRefresh
  <2> QED BY <1>a, <2>1, Cleared, PutRefresh DEF SInv
<1>e. /\ calls' \in [Tabs -> [Calls -> Call]]
      /\ \A u \in Tabs, d \in Calls : Owed(u, d)' => Owed(u, d) /\ calls'[u][d] = calls[u][d]
  <2>1. \A c \in Calls : calls[t][c] \in Call
    BY DEF SInv, STypeOK
  <2>2. \A c \in Calls : /\ [calls[t][c] EXCEPT !.pc = "sent", !.retry = FALSE, !.pair = next] \in Call
                         /\ [calls[t][c] EXCEPT !.pc = "sent", !.retry = FALSE, !.pair = next].pc = "sent"
    BY <1>b, <2>1 DEF Call
  <2>3. to \in [Calls -> Call] /\ \A c \in Calls : to[c].pc # "ok"
    BY <2>2
  <2> HIDE DEF to
  <2> QED BY <1>a, <2>3, Released DEF SInv
<1>1. STypeOK'
  BY <1>a, <1>c, <1>d, <1>e DEF SInv, STypeOK
<1>f. kept'.pair = next /\ ~Own(t, next)
      /\ \A c \in Calls : Owed(t, c) => calls[t][c].body # next
  BY <1>a DEF SInv, NotOwn, Separate
<1>2. Bounded'
  <2> HIDE DEF next
  <2>1. next <= issued
    BY <1>b, Numbers DEF SInv
  <2>2. \A u \in Tabs : session'[u].pair <= issued
    BY <1>c, <2>1 DEF SInv, Bounded
  <2> QED BY <1>a, <1>d, <1>e, <1>f, <2>1, <2>2 DEF SInv, Bounded
<1>3. PastLoads'
  BY <1>a DEF SInv, PastLoads
<1>4. NotOwn'
  <2> HIDE DEF next
  <2>1. \A u \in Tabs : \A n : n \in Pairs /\ pairs'[n].by = <<u, load'[u]>> <=> Own(u, n)
    BY <1>a DEF Own
  <2>2. \A u \in Tabs : /\ refresh'[u].pc \in {"off", "null", "find", "revoke", "refused"} =>
                             ~Own(u, session'[u].pair)
                        /\ refresh'[u].pc \in {"find", "revoke", "refused"} =>
                             ~Own(u, refresh'[u].pair)
                        /\ refresh'[u].pc = "back" => ~Own(u, refresh'[u].next)
    <3> TAKE u \in Tabs
    <3>1. CASE u = t
      BY <1>c, <1>d, <1>f, <3>1
    <3>2. CASE u # t
      BY <1>c, <1>d, <3>2 DEF SInv, NotOwn
    <3> QED BY <3>1, <3>2
  <2>3. \A u \in Tabs, c \in Calls : Owed(u, c)' => ~Own(u, calls'[u][c].body)
    BY <1>e DEF SInv, NotOwn
  <2> QED BY <2>1, <2>2, <2>3 DEF NotOwn, Own
<1>5. Separate'
  <2> HIDE DEF next
  <2> QED BY <1>c, <1>d, <1>e, <1>f DEF SInv, Separate
<1> QED BY <1>1, <1>2, <1>3, <1>4, <1>5 DEF SInv

LEMMA TakeRefusalKeeps == ASSUME SInv, NEW t \in Tabs, TakeRefusal(t) PROVE SInv'
<1>a. /\ refresh' = [refresh EXCEPT ![t] = NoRefresh]
      /\ session' = [session EXCEPT ![t] = NoSession] /\ kept' = NoSession
      /\ Release(t, [c \in Calls |-> NoCall])
      /\ UNCHANGED <<expired, pairs, issued, load>>
  BY DEF TakeRefusal, SetSession
<1>b. lost' \in 0..NetFaults
  BY SessionAssumption DEF TakeRefusal, Loss, SInv, STypeOK
<1>c. /\ NoSession \in Session /\ NoSession.pair = NoPair
      /\ session' \in [Tabs -> Session] /\ session'[t].pair = NoPair
      /\ \A u \in Tabs : u # t => session'[u] = session[u]
  <2>1. NoSession \in Session /\ NoSession.pair = NoPair
    BY DEF NoSession, Session
  <2> QED BY <1>a, <2>1 DEF SInv, STypeOK
<1>d. refresh' \in [Tabs -> Refresh] /\ refresh'[t].pc = "off" /\ \A u \in Tabs : u # t => refresh'[u] = refresh[u]
  <2>1. NoRefresh.pc = "off"
    BY DEF NoRefresh
  <2> QED BY <1>a, <2>1, Cleared, PutRefresh DEF SInv
<1>e. /\ calls' \in [Tabs -> [Calls -> Call]]
      /\ \A u \in Tabs, d \in Calls : Owed(u, d)' => Owed(u, d) /\ calls'[u][d] = calls[u][d]
  <2>1. [c \in Calls |-> NoCall] \in [Calls -> Call] /\ \A c \in Calls : [d \in Calls |-> NoCall][c].pc # "ok"
    BY Cleared
  <2> QED BY <1>a, <2>1, Released DEF SInv
<1>1. STypeOK'
  BY <1>a, <1>b, <1>c, <1>d, <1>e DEF SInv, STypeOK
<1>2. Bounded'
  BY <1>a, <1>c, <1>d, <1>e, Numbers DEF SInv, Bounded, NoPair
<1>3. PastLoads'
  BY <1>a DEF SInv, PastLoads
<1>4. NotOwn'
  <2>1. ~Own(t, NoPair)'
    BY Cleared DEF Own
  <2>2. \A u \in Tabs : \A n : Own(u, n)' <=> Own(u, n)
    BY <1>a DEF Own
  <2> QED BY <1>c, <1>d, <1>e, <2>1, <2>2 DEF SInv, NotOwn
<1>5. Separate'
  <2>1. \A c \in Calls : Owed(t, c) => calls[t][c].body # NoPair
    BY Numbers DEF SInv, Bounded, NoPair
  <2> QED BY <1>a, <1>c, <1>d, <1>e, <2>1 DEF SInv, Separate
<1> QED BY <1>1, <1>2, <1>3, <1>4, <1>5 DEF SInv

(* No token names the new page load. *)
LEMMA LoadKeeps == ASSUME SInv, NEW t \in Tabs, Load(t) PROVE SInv'
<1>a. /\ load[t] < MaxLoads
      /\ load' = [load EXCEPT ![t] = load[t] + 1]
      /\ session' = [session EXCEPT ![t] = kept]
      /\ calls' = [calls EXCEPT ![t] = [c \in Calls |-> NoCall]]
      /\ refresh' = [refresh EXCEPT ![t] = NoRefresh]
      /\ UNCHANGED <<expired, pairs, issued, kept, lost>>
  BY DEF Load
<1>b. /\ load' \in [Tabs -> 0..MaxLoads] /\ load'[t] = load[t] + 1 /\ load[t] \in Nat
      /\ \A u \in Tabs : u # t => load'[u] = load[u]
  BY <1>a, SessionAssumption DEF SInv, STypeOK
<1>c. /\ session' \in [Tabs -> Session] /\ session'[t] = kept
      /\ \A u \in Tabs : u # t => session'[u] = session[u]
  BY <1>a DEF SInv, STypeOK
<1>d. refresh' \in [Tabs -> Refresh] /\ refresh'[t].pc = "off" /\ \A u \in Tabs : u # t => refresh'[u] = refresh[u]
  <2>1. NoRefresh.pc = "off"
    BY DEF NoRefresh
  <2> QED BY <1>a, <2>1, Cleared, PutRefresh DEF SInv
<1>e. /\ calls' \in [Tabs -> [Calls -> Call]]
      /\ \A c \in Calls : calls'[t][c].pc = "idle"
      /\ \A u \in Tabs : u # t => calls'[u] = calls[u]
  BY <1>a, Cleared DEF SInv, STypeOK
<1>f. \A u \in Tabs, d \in Calls : Owed(u, d)' => Owed(u, d) /\ calls'[u][d] = calls[u][d] /\ u # t
  BY <1>e DEF Owed
<1>g. \A n \in Pairs : ~Own(t, n)'
  BY <1>a, <1>b DEF SInv, PastLoads, Own
<1>1. STypeOK'
  BY <1>a, <1>b, <1>c, <1>d, <1>e DEF SInv, STypeOK
<1>2. Bounded'
  BY <1>a, <1>c, <1>d, <1>f DEF SInv, Bounded
<1>3. PastLoads'
  BY <1>a, <1>b, Numbers DEF SInv, PastLoads
<1>4. NotOwn'
  <2>1. \A u \in Tabs, n \in Pairs : Own(u, n)' => Own(u, n) /\ u # t
    BY <1>a, <1>b, <1>g DEF Own
  <2> QED BY <1>c, <1>d, <1>f, <2>1 DEF SInv, NotOwn, Own
<1>5. Separate'
  BY <1>c, <1>d, <1>f DEF SInv, Separate
<1> QED BY <1>1, <1>2, <1>3, <1>4, <1>5 DEF SInv

(* The server answers a call without issuing a pair. *)
LEMMA AnsweredKeeps ==
    ASSUME SInv, NEW t \in Tabs, NEW c \in Calls, Unrotated, pairs' \in [Pairs -> Token],
           UNCHANGED <<expired, issued, session, kept, refresh, load, lost>>,
           \E e \in Call : ~(e.kind = "switch" /\ e.pc = "ok") /\ calls' = [calls EXCEPT ![t][c] = e]
    PROVE  SInv'
<1>1. calls' \in [Tabs -> [Calls -> Call]]
  BY PutCall DEF SInv
<1>2. \A u \in Tabs, d \in Calls : Owed(u, d)' => Owed(u, d) /\ calls'[u][d] = calls[u][d]
  BY PutCall DEF SInv, Owed
<1>3. STypeOK'
  BY <1>1 DEF SInv, STypeOK
<1>4. PastLoads'
  BY OwnStays
<1>5. NotOwn'
  BY <1>2, OwnStays DEF SInv, NotOwn, Own
<1> QED BY <1>2, <1>3, <1>4, <1>5 DEF SInv, Bounded, Separate

(* What the server does with a call: it is refused, answered, or answered with a new pair. *)
LEMMA ServeKeeps == ASSUME SInv, NEW t \in Tabs, NEW c \in Calls, Serve(t, c) PROVE SInv'
<1>a. /\ calls[t][c].pc = "sent"
      /\ \/ calls' = [calls EXCEPT ![t][c].pc = "401"] /\ UNCHANGED <<pairs, issued>>
         \/ /\ calls[t][c].kind # "switch"
            /\ calls' = [calls EXCEPT ![t][c].pc = "ok"]
            /\ pairs' \in {pairs, [pairs EXCEPT ![calls[t][c].body].by = Ended]}
            /\ UNCHANGED issued
         \/ /\ \E org \in Orgs : Issue(org)
            /\ calls' = [calls EXCEPT ![t][c].pc = "ok", ![t][c].body = issued']
  BY DEF Serve
<1>b. UNCHANGED <<expired, session, kept, refresh, load, lost>>
  BY DEF Serve
<1>t. calls[t][c] \in Call
  BY DEF SInv, STypeOK
<1>1. CASE calls' = [calls EXCEPT ![t][c].pc = "401"] /\ UNCHANGED <<pairs, issued>>
  <2>1. [calls[t][c] EXCEPT !.pc = "401"] \in Call /\ [calls[t][c] EXCEPT !.pc = "401"].pc = "401"
    BY <1>t DEF Call
  <2>2. calls' = [calls EXCEPT ![t][c] = [calls[t][c] EXCEPT !.pc = "401"]]
    BY <1>1
  <2>3. \E e \in Call : ~(e.kind = "switch" /\ e.pc = "ok") /\ calls' = [calls EXCEPT ![t][c] = e]
    BY <2>1, <2>2
  <2> QED BY <1>1, <1>b, <2>3, AnsweredKeeps DEF Unrotated, SInv, STypeOK
<1>2. CASE /\ calls[t][c].kind # "switch"
           /\ calls' = [calls EXCEPT ![t][c].pc = "ok"]
           /\ pairs' \in {pairs, [pairs EXCEPT ![calls[t][c].body].by = Ended]}
           /\ UNCHANGED issued
  <2>1. /\ [calls[t][c] EXCEPT !.pc = "ok"] \in Call
        /\ [calls[t][c] EXCEPT !.pc = "ok"].kind # "switch"
    BY <1>t, <1>2 DEF Call
  <2>2. calls' = [calls EXCEPT ![t][c] = [calls[t][c] EXCEPT !.pc = "ok"]]
    BY <1>2
  <2>3. \E e \in Call : ~(e.kind = "switch" /\ e.pc = "ok") /\ calls' = [calls EXCEPT ![t][c] = e]
    BY <2>1, <2>2
  <2>4. pairs' \in [Pairs -> Token] /\ \A n \in Pairs : pairs'[n].by = pairs[n].by \/ pairs'[n].by = Ended
    <3>1. CASE pairs' = pairs
      BY <3>1 DEF SInv, STypeOK
    <3>2. CASE pairs' = [pairs EXCEPT ![calls[t][c].body].by = Ended]
      <4>1. \A n \in Pairs : [pairs[n] EXCEPT !.by = Ended] \in Token /\ [pairs[n] EXCEPT !.by = Ended].by = Ended
        BY DEF SInv, STypeOK, Token
      <4>2. \A n \in Pairs : pairs'[n] \in {pairs[n], [pairs[n] EXCEPT !.by = Ended]}
        BY <3>2 DEF SInv, STypeOK
      <4>3. pairs' = [n \in Pairs |-> pairs'[n]]
        BY <3>2 DEF SInv, STypeOK
      <4>4. \A n \in Pairs : pairs'[n] \in Token
        BY <4>1, <4>2 DEF SInv, STypeOK
      <4> QED BY <4>1, <4>2, <4>3, <4>4
    <3> QED BY <1>2, <3>1, <3>2
  <2> QED BY <1>2, <1>b, <2>3, <2>4, AnsweredKeeps DEF Unrotated
<1>3. CASE /\ \E org \in Orgs : Issue(org)
           /\ calls' = [calls EXCEPT ![t][c].pc = "ok", ![t][c].body = issued']
  <2>0. /\ issued' = issued + 1 /\ issued' \in Pairs /\ issued \in Nat
        /\ pairs' \in [Pairs -> Token]
        /\ pairs'[issued'].by = Nobody
        /\ \A n \in Pairs : n # issued' => pairs'[n] = pairs[n]
    BY <1>3, Issued DEF SInv
  <2>1. [calls[t][c] EXCEPT !.pc = "ok", !.body = issued'] \in Call
    BY <1>t, <2>0 DEF Call
  <2>2. calls' = [calls EXCEPT ![t][c] = [calls[t][c] EXCEPT !.pc = "ok", !.body = issued']]
    BY <1>3 DEF SInv, STypeOK
  <2>3. /\ calls' \in [Tabs -> [Calls -> Call]]
        /\ calls'[t][c] = [calls[t][c] EXCEPT !.pc = "ok", !.body = issued']
        /\ \A u \in Tabs, d \in Calls : <<u, d>> # <<t, c>> => calls'[u][d] = calls[u][d]
    BY <2>1, <2>2, PutCall DEF SInv
  <2>4. calls'[t][c].body = issued'
    BY <1>t, <2>3 DEF Call
  <2>5. \A u \in Tabs, d \in Calls : Owed(u, d)' =>
           \/ Owed(u, d) /\ calls'[u][d] = calls[u][d]
           \/ u = t /\ d = c
    BY <2>3 DEF Owed
  <2>6. Unrotated
    BY <1>b, <2>0 DEF Unrotated
  <2>7. STypeOK'
    <3>1. \A u \in Tabs : refresh[u].pc \notin {"off", "null"} => refresh[u].pair \in 1..issued'
      BY <2>0 DEF SInv, STypeOK
    <3> QED BY <1>b, <2>0, <2>3, <3>1 DEF SInv, STypeOK, Pairs
  <2>8. Bounded'
    <3>1. \A u \in Tabs, d \in Calls : Owed(u, d)' => calls'[u][d].body \in 1..issued'
      BY <2>0, <2>4, <2>5 DEF SInv, Bounded
    <3> QED BY <1>b, <2>0, <3>1, Numbers DEF SInv, Bounded
  <2>9. PastLoads'
    BY <2>6, OwnStays
  <2>10. NotOwn'
    <3>1. \A u \in Tabs : pairs'[issued'].by # <<u, load'[u]>>
      BY <1>b, <2>0, NotATab, Numbers DEF SInv
    <3> QED BY <1>b, <2>4, <2>5, <2>6, <3>1, OwnStays DEF SInv, NotOwn, Own
  <2>11. Separate'
    <3>1. /\ issued' # session[t].pair
          /\ refresh[t].pc \notin {"off", "null"} => issued' # refresh[t].pair
          /\ refresh[t].pc = "back" => issued' # refresh[t].next
          /\ \A d \in Calls : Owed(t, d) => issued' # calls[t][d].body
      BY <2>0, Numbers DEF SInv, STypeOK, Bounded
    <3> QED BY <1>b, <2>4, <2>5, <3>1 DEF SInv, Separate
  <2> QED BY <2>7, <2>8, <2>9, <2>10, <2>11 DEF SInv
<1> QED BY <1>a, <1>1, <1>2, <1>3

LEMMA SessionsNext == SInv /\ [SNext]_sessionVars => SInv'
<1> SUFFICES ASSUME SInv, [SNext]_sessionVars PROVE SInv'
  OBVIOUS
<1>1. CASE UNCHANGED sessionVars
  BY <1>1 DEF sessionVars, SInv, STypeOK, Bounded, PastLoads, NotOwn, Own, Owed, Separate
<1>2. CASE SNext
  BY <1>2, RevokeAllKeeps, ExpireKeeps, LoginKeeps, LoadKeeps, FindTokenKeeps, RevokeTokenKeeps,
     CreateTokenKeeps, TakeTokensKeeps, TakeRefusalKeeps, SendKeeps, ServeKeeps, TakeAnswerKeeps,
     Take401Keeps, TakeSecond401Keeps
     DEF SNext, Refreshing, Answered
<1> QED BY <1>1, <1>2

(***************************************************************************)
(* The inductive invariant, for any tabs, calls, loads and faults.         *)
(***************************************************************************)
THEOREM SessionsInvariance == SSpec => []SInv
  BY SessionsInit, SessionsNext, PTL DEF SSpec

(***************************************************************************)
(* Sessions, calls, refreshes and tokens keep their types, and a refresh   *)
(* is about a pair that was issued.                                        *)
(***************************************************************************)
THEOREM SessionTypes == SSpec => []STypeOK
<1>1. SInv => STypeOK
  BY DEF SInv
<1> QED BY <1>1, SessionsInvariance, PTL

(***************************************************************************)
(* In any number of tabs with any number of calls that expire together, a  *)
(* page is never refused the token it has rotated itself.                  *)
(***************************************************************************)
THEOREM RotationKept == SSpec => []OwnRotationKept
<1>1. SInv => OwnRotationKept
  <2> SUFFICES ASSUME SInv, NEW t \in Tabs, refresh[t].pc = "refused"
               PROVE  pairs[refresh[t].pair].by # <<t, load[t]>>
    BY DEF OwnRotationKept
  <2>1. refresh[t].pair \in 1..issued /\ issued \in 0..MaxPairs
    BY DEF SInv, STypeOK
  <2>2. refresh[t].pair \in Pairs
    BY <2>1, SessionAssumption DEF Pairs
  <2> QED BY <2>2 DEF SInv, NotOwn, Own
<1> QED BY <1>1, SessionsInvariance, PTL

-----------------------------------------------------------------------------
(* Organization.                                                           *)

(* A request about a membership writes to one it found. *)
FoundOne ==
    \A q \in Requests : req[q].pc = "write" /\ req[q].kind \in {"role", "remove"} => req[q].found # 0

(* An accept is of an invitation that was created. *)
OfCreated ==
    \A p \in Accepts : acc[p].pc # "idle" =>
        acc[p].item \in Invitations /\ inv[acc[p].item].state # "none"

OInv == OTypeOK /\ FoundOne /\ OfCreated

-----------------------------------------------------------------------------
LEMMA Constants ==
  ASSUME OrganizationAssumption
  PROVE  /\ NoMember \in Membership /\ NoInvitation \in Invitation
         /\ NoRequest \in Request /\ NoAccept \in Accept
<1>1. NoMember \in Membership
  BY DEF OrganizationAssumption, NoMember, Membership
<1>2. NoInvitation \in Invitation
  BY DEF NoInvitation, Invitation
<1>3. NoRequest \in Request
  BY DEF OrganizationAssumption, NoRequest, Request, Users
<1>4. NoAccept \in Accept
  BY DEF NoAccept, Accept
<1> QED
  BY <1>1, <1>2, <1>3, <1>4

(* What an admin may ask is a request, and it has found nothing yet. *)
Asked(r) == r \in Request /\ ~(r.pc = "write" /\ r.kind \in {"role", "remove"})

LEMMA AsksAreRequests ==
  ASSUME OrganizationAssumption
  PROVE  /\ \A v \in Users, role \in Roles :
               Asked([NoRequest EXCEPT !.pc = "find", !.kind = "role", !.on = v, !.role = role])
         /\ \A v \in Users : Asked([NoRequest EXCEPT !.pc = "find", !.kind = "remove", !.on = v])
         /\ \A role \in Roles :
               Asked([NoRequest EXCEPT !.pc = "write", !.kind = "invite", !.role = role])
         /\ \A i \in Invitations :
               Asked([NoRequest EXCEPT !.pc = "find", !.kind = "revoke", !.item = i])
<1>1. NoRequest \in Request
  BY Constants
<1>2. ASSUME NEW v \in Users, NEW role \in Roles
      PROVE  Asked([NoRequest EXCEPT !.pc = "find", !.kind = "role", !.on = v, !.role = role])
  BY <1>1 DEF Asked, Request, AdminKinds
<1>3. ASSUME NEW v \in Users
      PROVE  Asked([NoRequest EXCEPT !.pc = "find", !.kind = "remove", !.on = v])
  BY <1>1 DEF Asked, Request, AdminKinds
<1>4. ASSUME NEW role \in Roles
      PROVE  Asked([NoRequest EXCEPT !.pc = "write", !.kind = "invite", !.role = role])
  BY <1>1 DEF Asked, Request, AdminKinds
<1>5. ASSUME NEW i \in Invitations
      PROVE  Asked([NoRequest EXCEPT !.pc = "find", !.kind = "revoke", !.item = i])
  BY <1>1 DEF Asked, Request, AdminKinds
<1> QED
  BY <1>2, <1>3, <1>4, <1>5

LEMMA AskAnyAsks ==
  ASSUME OrganizationAssumption, NEW q \in Requests, AskAny(q)
  PROVE  \E u \in Users : \E r : Asked(r) /\ EnsureOrgAdmin(q, u, r)
<1>1. PICK u \in Users :
        \/ \E v \in Users : AskRemove(q, u, v) \/ \E role \in Roles : AskRole(q, u, v, role)
        \/ \E role \in Roles : AskInvite(q, u, role)
        \/ \E i \in Invitations : AskRevoke(q, u, i)
  BY DEF AskAny
<1>2. ASSUME NEW v \in Users, AskRemove(q, u, v)
      PROVE  \E r : Asked(r) /\ EnsureOrgAdmin(q, u, r)
  BY <1>2, AsksAreRequests DEF AskRemove
<1>3. ASSUME NEW v \in Users, NEW role \in Roles, AskRole(q, u, v, role)
      PROVE  \E r : Asked(r) /\ EnsureOrgAdmin(q, u, r)
  BY <1>3, AsksAreRequests DEF AskRole
<1>4. ASSUME NEW role \in Roles, AskInvite(q, u, role)
      PROVE  \E r : Asked(r) /\ EnsureOrgAdmin(q, u, r)
  BY <1>4, AsksAreRequests DEF AskInvite
<1>5. ASSUME NEW i \in Invitations, AskRevoke(q, u, i)
      PROVE  \E r : Asked(r) /\ EnsureOrgAdmin(q, u, r)
  BY <1>5, AsksAreRequests DEF AskRevoke
<1> QED
  BY <1>1, <1>2, <1>3, <1>4, <1>5

LEMMA MembersInit == ASSUME OrganizationAssumption PROVE OInit => OInv
<1> SUFFICES ASSUME OInit PROVE OInv
  OBVIOUS
<1>1. [id |-> 1, role |-> "ORG_ADMIN", via |-> 0] \in Membership
  BY DEF OrganizationAssumption, Membership, Roles
<1>2. OTyped
  <2>1. member \in [Users -> Membership] /\ excused \in BOOLEAN
    BY <1>1, Constants DEF OInit
  <2>2. created \in 0..MaxMembers
    BY DEF OInit, OrganizationAssumption
  <2>3. inv \in [Invitations -> Invitation] /\ req \in [Requests -> Request]
    BY Constants DEF OInit
  <2>4. acc \in [Accepts -> Accept]
    BY Constants DEF OInit
  <2> QED
    BY <2>1, <2>2, <2>3, <2>4 DEF OTyped
<1>3. OwnIds
  BY DEF OInit, OwnIds, NoMember, Users, OrganizationAssumption
<1>4. FoundOne /\ OfCreated
  BY DEF OInit, FoundOne, OfCreated, NoRequest, NoAccept
<1> QED
  BY <1>2, <1>3, <1>4 DEF OInv, OTypeOK

(* The step of a request that goes on or ends, with the tables as they are. *)
LEMMA RequestStep ==
  ASSUME OInv, UNCHANGED <<member, created, inv, acc, excused>>,
         req' \in [Requests -> Request],
         \A q \in Requests : req'[q] # req[q] =>
            ~(req'[q].pc = "write" /\ req'[q].kind \in {"role", "remove"}) \/ req'[q].found # 0
  PROVE  OInv'
<1>1. OTyped' /\ OwnIds'
  BY DEF OInv, OTypeOK, OTyped, OwnIds
<1>2. FoundOne' /\ OfCreated'
  BY DEF OInv, FoundOne, OfCreated
<1> QED
  BY <1>1, <1>2 DEF OInv, OTypeOK

(* A request that writes, and is over. *)
LEMMA RequestEnds ==
  ASSUME OrganizationAssumption, OInv, NEW q \in Requests, End(q)
  PROVE  req' \in [Requests -> Request] /\ FoundOne'
<1>1. req' \in [Requests -> Request]
  BY Constants DEF OInv, OTypeOK, OTyped, End
<1>2. FoundOne'
  BY DEF OInv, OTypeOK, OTyped, End, FoundOne, NoRequest
<1> QED
  BY <1>1, <1>2

LEMMA MembersStep ==
  ASSUME OrganizationAssumption, OInv, [ONext]_orgVars
  PROVE  OInv'
<1>1. OTyped /\ OwnIds /\ FoundOne /\ OfCreated
  BY DEF OInv, OTypeOK
<1>2. CASE UNCHANGED orgVars
  BY <1>1, <1>2 DEF orgVars, OInv, OTypeOK, OTyped, OwnIds, FoundOne, OfCreated
<1>3. ASSUME NEW q \in Requests, AskAny(q) PROVE OInv'
  <2>0. PICK u \in Users : \E r : Asked(r) /\ EnsureOrgAdmin(q, u, r)
    BY <1>3, AskAnyAsks
  <2>1. PICK r : Asked(r) /\ EnsureOrgAdmin(q, u, r)
    BY <2>0
  <2>2. req' = [req EXCEPT ![q] = r] /\ UNCHANGED <<member, created, inv, acc, excused>>
    BY <2>1 DEF EnsureOrgAdmin
  <2>3. req' \in [Requests -> Request]
    BY <1>1, <2>1, <2>2 DEF OTyped, Asked
  <2> QED
    BY <1>1, <2>1, <2>2, <2>3, RequestStep DEF OTyped, Asked
<1>4. ASSUME NEW q \in Requests, Find(q) PROVE OInv'
  <2>1. UNCHANGED <<member, created, inv, acc, excused>>
    BY <1>4 DEF Find
  <2>2. CASE End(q)
    BY <1>1, <2>1, <2>2, Constants, RequestStep DEF End, OTyped, NoRequest
  <2>3. CASE /\ member[req[q].on].id # 0
             /\ req' = [req EXCEPT ![q].pc = "write", ![q].found = member[req[q].on].id]
    <3>1. req[q] \in Request /\ member[req[q].on].id \in 0..MaxMembers
      BY <1>1 DEF OTyped, Request, Membership
    <3>2. [req[q] EXCEPT !.pc = "write", !.found = member[req[q].on].id] \in Request
      BY <3>1 DEF Request
    <3>3. [req[q] EXCEPT !.pc = "write", !.found = member[req[q].on].id].found # 0
      BY <2>3, <3>1 DEF Request
    <3>4. req' \in [Requests -> Request]
      BY <1>1, <2>3, <3>2 DEF OTyped
    <3> QED
      BY <1>1, <2>1, <2>3, <3>3, <3>4, RequestStep DEF OTyped
  <2>4. CASE req[q].kind = "revoke" /\ Step(q, "write")
    <3>1. req[q] \in Request
      BY <1>1 DEF OTyped
    <3>2. [req[q] EXCEPT !.pc = "write"] \in Request
      BY <3>1 DEF Request
    <3>3. [req[q] EXCEPT !.pc = "write"].kind = req[q].kind
      BY <3>1 DEF Request
    <3>4. req' \in [Requests -> Request]
      BY <1>1, <2>4, <3>2 DEF OTyped, Step
    <3> QED
      BY <1>1, <2>1, <2>4, <3>3, <3>4, RequestStep DEF OTyped, Step
  <2> QED
    BY <1>4, <2>2, <2>3, <2>4 DEF Find
<1>5. ASSUME NEW q \in Requests, WriteRole(q) PROVE OInv'
  <2>1. req' \in [Requests -> Request] /\ FoundOne' /\ UNCHANGED <<created, inv, acc>>
    BY <1>5, RequestEnds DEF WriteRole
  <2>2. CASE UNCHANGED <<member, excused>>
    BY <1>1, <2>1, <2>2 DEF OInv, OTypeOK, OTyped, OwnIds, OfCreated
  <2>3. CASE /\ member[req[q].on].id = req[q].found
             /\ member' = [member EXCEPT ![req[q].on].role = req[q].role]
             /\ excused' \in BOOLEAN
    <3> DEFINE v == req[q].on
               m == [member[v] EXCEPT !.role = req[q].role]
    <3>1. req[q] \in Request /\ v \in Users /\ member[v] \in Membership /\ req[q].found # 0
      BY <1>1, <1>5 DEF OTyped, Request, FoundOne, WriteRole
    <3>2. m \in Membership /\ m.id = member[v].id
      BY <3>1 DEF Membership, Request
    <3>3. OTyped'
      BY <1>1, <2>1, <2>3, <3>2 DEF OTyped
    <3>4. \A w \in Users : member'[w].id = member[w].id /\ (w # v => member'[w] = member[w])
      BY <1>1, <2>3, <3>2 DEF OTyped
    <3>5. member'[v].id # 0 /\ NoMember.id = 0
      BY <2>3, <3>1, <3>4 DEF NoMember
    <3>6. OwnIds'
      BY <1>1, <2>1, <3>1, <3>4, <3>5 DEF OwnIds
    <3>7. OfCreated'
      BY <1>1, <2>1 DEF OfCreated
    <3> QED
      BY <2>1, <3>3, <3>6, <3>7 DEF OInv, OTypeOK
  <2> QED
    BY <1>5, <2>2, <2>3 DEF WriteRole
<1>6. ASSUME NEW q \in Requests, WriteRemove(q) PROVE OInv'
  <2>1. req' \in [Requests -> Request] /\ FoundOne' /\ UNCHANGED <<created, inv, acc>>
    BY <1>6, RequestEnds DEF WriteRemove
  <2>2. excused' \in BOOLEAN
    BY <1>6 DEF WriteRemove
  <2>3. member' = member \/ member' = [member EXCEPT ![req[q].on] = NoMember]
    BY <1>6 DEF WriteRemove
  <2>4. member' \in [Users -> Membership] /\ \A w \in Users : member'[w] \in {member[w], NoMember}
    BY <1>1, <2>3, Constants DEF OTyped
  <2>5. OTyped'
    BY <1>1, <2>1, <2>2, <2>4 DEF OTyped
  <2>6. OwnIds'
    <3>1. NoMember.id = 0 /\ \A w \in Users : 0 <= created
      BY <1>1 DEF NoMember, OTyped
    <3> QED
      BY <1>1, <2>1, <2>4, <3>1 DEF OwnIds
  <2>7. OfCreated'
    BY <1>1, <2>1 DEF OfCreated
  <2> QED
    BY <2>1, <2>5, <2>6, <2>7 DEF OInv, OTypeOK
<1>7. ASSUME NEW q \in Requests, WriteInvite(q) \/ WriteRevoke(q) PROVE OInv'
  <2>1. req' \in [Requests -> Request] /\ FoundOne' /\ UNCHANGED <<member, created, acc, excused>>
    BY <1>7, RequestEnds DEF WriteInvite, WriteRevoke
  <2>2. /\ inv' \in [Invitations -> Invitation]
        /\ \A i \in Invitations : inv[i].state # "none" => inv'[i].state # "none"
    <3>1. CASE WriteInvite(q)
      <4>1. PICK i \in Invitations :
              /\ inv[i].state = "none"
              /\ inv' = [inv EXCEPT ![i] = [NoInvitation EXCEPT !.state = "pending",
                                                                !.role = req[q].role]]
        BY <3>1 DEF WriteInvite
      <4>2. [NoInvitation EXCEPT !.state = "pending", !.role = req[q].role] \in Invitation
        BY <1>1 DEF OTyped, Request, NoInvitation, Invitation
      <4> QED
        BY <1>1, <4>1, <4>2 DEF OTyped
    <3>2. CASE WriteRevoke(q)
      <4> DEFINE i == req[q].item
      <4>1. inv' = [inv EXCEPT ![i] = [inv[i] EXCEPT !.state = "deleted"]]
        BY <3>2 DEF WriteRevoke
      <4>2. ASSUME i \in Invitations
            PROVE  /\ [inv[i] EXCEPT !.state = "deleted"] \in Invitation
                   /\ [inv[i] EXCEPT !.state = "deleted"].state = "deleted"
        BY <1>1, <4>2 DEF OTyped, Invitation
      <4> QED
        BY <1>1, <4>1, <4>2 DEF OTyped
    <3> QED
      BY <1>7, <3>1, <3>2
  <2>3. OTyped' /\ OwnIds'
    BY <1>1, <2>1, <2>2 DEF OTyped, OwnIds
  <2>4. OfCreated'
    BY <1>1, <2>1, <2>2 DEF OfCreated
  <2> QED
    BY <2>1, <2>3, <2>4 DEF OInv, OTypeOK
<1>8. ASSUME NEW p \in Accepts, NEW i \in Invitations, OpenLink(p, i) PROVE OInv'
  <2>1. [pc |-> "member", item |-> i] \in Accept
    BY DEF Accept
  <2>2. OTyped' /\ OwnIds'
    BY <1>1, <1>8, <2>1 DEF OpenLink, OTyped, OwnIds
  <2>3. FoundOne' /\ OfCreated'
    BY <1>1, <1>8 DEF OpenLink, OTyped, FoundOne, OfCreated
  <2> QED
    BY <2>2, <2>3 DEF OInv, OTypeOK
<1>9. ASSUME NEW p \in Accepts, FindMembership(p) PROVE OInv'
  <2>1. UNCHANGED <<member, created, inv, req, excused>> /\ acc[p].pc = "member"
    BY <1>9 DEF FindMembership
  <2>2. /\ acc' \in [Accepts -> Accept]
        /\ \A o \in Accepts : acc'[o].pc # "idle" => acc'[o].item = acc[o].item /\ acc[o].pc # "idle"
    <3>1. acc[p] \in Accept /\ NoAccept \in Accept /\ NoAccept.pc = "idle"
      BY <1>1, Constants DEF OTyped, NoAccept
    <3>2. [acc[p] EXCEPT !.pc = "join"] \in Accept /\ [acc[p] EXCEPT !.pc = "join"].item = acc[p].item
      BY <3>1 DEF Accept
    <3>3. \/ acc' = [acc EXCEPT ![p] = [acc[p] EXCEPT !.pc = "join"]]
          \/ acc' = [acc EXCEPT ![p] = NoAccept]
      BY <1>9 DEF FindMembership, GiveUp
    <3> QED
      BY <1>1, <2>1, <3>1, <3>2, <3>3 DEF OTyped
  <2>3. OTyped' /\ OwnIds'
    BY <1>1, <2>1, <2>2 DEF OTyped, OwnIds
  <2>4. FoundOne' /\ OfCreated'
    BY <1>1, <2>1, <2>2 DEF FoundOne, OfCreated
  <2> QED
    BY <2>3, <2>4 DEF OInv, OTypeOK
<1>10. ASSUME NEW p \in Accepts, Join(p) PROVE OInv'
  <2> DEFINE i == acc[p].item
  <2>1. acc' \in [Accepts -> Accept] /\ UNCHANGED <<req, excused>>
    BY <1>1, <1>10, Constants DEF Join, GiveUp, OTyped
  <2>2. \A o \in Accepts : acc'[o].pc # "idle" => acc'[o] = acc[o]
    BY <1>1, <1>10 DEF Join, GiveUp, OTyped, NoAccept
  <2>3. i \in Invitations
    BY <1>1, <1>10 DEF Join, OfCreated
  <2>4. CASE UNCHANGED <<member, created, inv>>
    <3>1. OTyped' /\ OwnIds'
      BY <1>1, <2>1, <2>4 DEF OTyped, OwnIds
    <3>2. FoundOne' /\ OfCreated'
      BY <1>1, <2>1, <2>2, <2>4 DEF FoundOne, OfCreated
    <3> QED
      BY <3>1, <3>2 DEF OInv, OTypeOK
  <2>5. CASE /\ member[Invitee].id = 0 /\ Joins(i)
             /\ inv' = [inv EXCEPT ![i] = [inv[i] EXCEPT !.state = "accepted", !.used = inv[i].used + 1]]
    <3> DEFINE m == [id |-> created + 1, role |-> inv[i].role, via |-> i]
    <3>1. created \in Nat /\ created < MaxMembers /\ created' = created + 1
      BY <1>1, <2>5 DEF Joins, OTyped, OrganizationAssumption
    <3>2. member' = [member EXCEPT ![Invitee] = m]
      BY <2>5 DEF Joins
    <3>3. m \in Membership /\ created' \in 0..MaxMembers
      <4>1. created + 1 \in 0..MaxMembers
        BY <3>1 DEF OrganizationAssumption
      <4>2. inv[i].role \in Roles \cup {"none"}
        BY <1>1, <2>3 DEF OTyped, Invitation
      <4> QED
        BY <2>3, <3>1, <4>1, <4>2 DEF Membership
    <3>4. /\ [inv[i] EXCEPT !.state = "accepted", !.used = inv[i].used + 1] \in Invitation
          /\ [inv[i] EXCEPT !.state = "accepted", !.used = inv[i].used + 1].state = "accepted"
      <4>1. inv[i] \in Invitation
        BY <1>1, <2>3 DEF OTyped
      <4>2. inv[i].used + 1 \in Nat
        BY <4>1 DEF Invitation
      <4> QED
        BY <4>1, <4>2 DEF Invitation
    <3>5. OTyped'
      BY <1>1, <2>1, <2>5, <3>2, <3>3, <3>4 DEF OTyped
    <3>6. \A u \in Users : u # Invitee => member'[u] = member[u] /\ member[u].id \in Nat
      BY <1>1, <3>2 DEF OTyped, Membership
    <3>7. member'[Invitee] = m /\ m.id = created + 1 /\ NoMember.id = 0
      BY <1>1, <3>2 DEF OTyped, Users, NoMember
    <3>8. OwnIds'
      BY <1>1, <3>1, <3>6, <3>7 DEF OwnIds
    <3>9. \A j \in Invitations : inv[j].state # "none" => inv'[j].state # "none"
      BY <1>1, <2>5, <3>4 DEF OTyped
    <3>10. FoundOne' /\ OfCreated'
      BY <1>1, <2>1, <2>2, <3>9 DEF FoundOne, OfCreated
    <3> QED
      BY <3>5, <3>8, <3>10 DEF OInv, OTypeOK
  <2> QED
    BY <1>10, <2>4, <2>5 DEF Join
<1> QED
  BY <1>2, <1>3, <1>4, <1>5, <1>6, <1>7, <1>8, <1>9, <1>10 DEF ONext, Write

(* The inductive invariant of the organization. *)
THEOREM MembersInvariance == ASSUME OrganizationAssumption PROVE OSpec => []OInv
  BY MembersInit, MembersStep, PTL DEF OSpec

(* Type correctness: in particular no two memberships share an id. *)
THEOREM MemberTypes == ASSUME OrganizationAssumption PROVE OSpec => []OTypeOK
  BY MembersInvariance, PTL DEF OInv

-----------------------------------------------------------------------------
(* How each step changes a membership. *)
LEMMA MembershipChanges ==
  ASSUME OrganizationAssumption, OInv, [ONext]_orgVars, NEW u \in Users, member'[u] # member[u]
  PROVE  \/ \E q \in Requests : /\ WriteRole(q) /\ req[q].on = u /\ req[q].found = member[u].id
                                /\ member'[u] = [member[u] EXCEPT !.role = req[q].role]
         \/ \E q \in Requests : /\ WriteRemove(q) /\ req[q].on = u
                                /\ member'[u] = NoMember
         \/ \E p \in Accepts : /\ Join(p) /\ u = Invitee /\ member[u].id = 0
                               /\ Joins(acc[p].item) /\ inv[acc[p].item].state # "deleted"
<1>1. member \in [Users -> Membership]
  BY DEF OInv, OTypeOK, OTyped
<1>2. ASSUME NEW q \in Requests, WriteRole(q)
      PROVE  /\ req[q].on = u /\ req[q].found = member[u].id
             /\ member'[u] = [member[u] EXCEPT !.role = req[q].role]
  BY <1>1, <1>2 DEF WriteRole
<1>3. ASSUME NEW q \in Requests, WriteRemove(q)
      PROVE  req[q].on = u /\ member'[u] = NoMember
  BY <1>1, <1>3 DEF WriteRemove
<1>4. ASSUME NEW p \in Accepts, Join(p)
      PROVE  /\ u = Invitee /\ member[u].id = 0
             /\ Joins(acc[p].item) /\ inv[acc[p].item].state # "deleted"
  BY <1>1, <1>4 DEF Join, Joins
<1>5. ASSUME NEW q \in Requests, AskAny(q) PROVE member' = member
  BY <1>5, AskAnyAsks DEF EnsureOrgAdmin
<1>6. ~UNCHANGED orgVars /\ (\A q \in Requests : ~Find(q))
  BY DEF orgVars, Find
<1>7. \A q \in Requests : ~WriteInvite(q) /\ ~WriteRevoke(q)
  BY DEF WriteInvite, WriteRevoke
<1>8. \A p \in Accepts : ~FindMembership(p) /\ \A i \in Invitations : ~OpenLink(p, i)
  BY DEF FindMembership, OpenLink
<1> QED
  BY <1>2, <1>3, <1>4, <1>5, <1>6, <1>7, <1>8 DEF ONext, Write

(* A revoked invitation makes no member, however late its revocation comes. *)
THEOREM RevokedMakesNone == ASSUME OrganizationAssumption PROVE OSpec => RevokedGivesNone
<1> DEFINE Step1(u) == member'[u].id # member[u].id /\ member'[u].id # 0 =>
                          inv[member'[u].via].state \in {"pending", "accepted"}
<1>1. OInv /\ [ONext]_orgVars => [\A u \in Users : Step1(u)]_orgVars
  <2> SUFFICES ASSUME OrganizationAssumption, OInv, [ONext]_orgVars, NEW u \in Users,
                      member'[u].id # member[u].id, member'[u].id # 0
               PROVE  inv[member'[u].via].state \in {"pending", "accepted"}
    OBVIOUS
  <2>1. member[u] \in Membership
    BY DEF OInv, OTypeOK, OTyped
  <2>2. ASSUME NEW q \in Requests, member'[u] = [member[u] EXCEPT !.role = req[q].role]
        PROVE  FALSE
    BY <2>1, <2>2 DEF Membership
  <2>3. member'[u] # NoMember
    BY DEF NoMember
  <2>4. PICK p \in Accepts : /\ Join(p) /\ u = Invitee
                             /\ Joins(acc[p].item) /\ inv[acc[p].item].state # "deleted"
    BY <2>2, <2>3, MembershipChanges
  <2>5. member'[u].via = acc[p].item
    BY <2>4 DEF Joins, OInv, OTypeOK, OTyped
  <2>6. acc[p].item \in Invitations /\ inv[acc[p].item].state # "none"
    BY <2>4 DEF Join, OInv, OfCreated
  <2> QED
    BY <2>4, <2>5, <2>6 DEF OInv, OTypeOK, OTyped, Invitation
<1> QED
  BY <1>1, MembersInvariance, PTL DEF OSpec, RevokedGivesNone

(* A role reaches only the membership its request has found. *)
THEOREM RolesMeantForIt == ASSUME OrganizationAssumption PROVE OSpec => RoleMeantForIt
<1> DEFINE Step1(u) == member'[u].id = member[u].id /\ member'[u].role # member[u].role =>
                          \E q \in Requests : req[q].on = u /\ req[q].found = member[u].id
<1>1. OInv /\ [ONext]_orgVars => [\A u \in Users : Step1(u)]_orgVars
  <2> SUFFICES ASSUME OrganizationAssumption, OInv, [ONext]_orgVars, NEW u \in Users,
                      member'[u].id = member[u].id, member'[u].role # member[u].role
               PROVE  \E q \in Requests : req[q].on = u /\ req[q].found = member[u].id
    OBVIOUS
  <2>1. member'[u] # NoMember
    BY DEF NoMember, OInv, OTypeOK, OwnIds
  <2>2. ASSUME NEW p \in Accepts, u = Invitee, member[u].id = 0, Joins(acc[p].item)
        PROVE  FALSE
    <3>1. member'[u].id = created + 1 /\ created \in Nat
      BY <2>2 DEF Joins, OInv, OTypeOK, OTyped
    <3> QED
      BY <2>2, <3>1
  <2> QED
    BY <2>1, <2>2, MembershipChanges
<1> QED
  BY <1>1, MembersInvariance, PTL DEF OSpec, RoleMeantForIt

-----------------------------------------------------------------------------
(* As long as nothing excuses it, a removal under way leaves an admin. *)
Survivors ==
    ~excused => \A q \in Requests : req[q].kind = "remove" =>
        \E u \in Users : u # req[q].on /\ IsAdmin(u)

LEMMA AdminStep ==
  ASSUME OrganizationAssumption, OInv, AdminRemains, Survivors, [ONext]_orgVars
  PROVE  AdminRemains' /\ Survivors'
<1>1. OTyped /\ OwnIds
  BY DEF OInv, OTypeOK
<1>2. ASSUME UNCHANGED <<member, excused>>,
             \A q \in Requests : req'[q].kind = "remove" =>
                \/ req[q].kind = "remove" /\ req'[q].on = req[q].on
                \/ \E u \in Users : u # req'[q].on /\ IsAdmin(u)
      PROVE  AdminRemains' /\ Survivors'
  BY <1>2 DEF AdminRemains, Survivors, IsAdmin
<1>3. CASE UNCHANGED orgVars
  BY <1>2, <1>3 DEF orgVars
<1>4. ASSUME NEW q \in Requests, AskAny(q) PROVE AdminRemains' /\ Survivors'
  <2>0. PICK u \in Users : \E r : EnsureOrgAdmin(q, u, r) /\ (r.kind = "remove" => u # r.on)
    <3>1. PICK u \in Users :
            \/ \E v \in Users : AskRemove(q, u, v) \/ \E role \in Roles : AskRole(q, u, v, role)
            \/ \E role \in Roles : AskInvite(q, u, role)
            \/ \E i \in Invitations : AskRevoke(q, u, i)
      BY <1>4 DEF AskAny
    <3>2. ASSUME NEW v \in Users, AskRemove(q, u, v)
          PROVE  \E r : EnsureOrgAdmin(q, u, r) /\ (r.kind = "remove" => u # r.on)
      <4> DEFINE r == [NoRequest EXCEPT !.pc = "find", !.kind = "remove", !.on = v]
      <4>1. u # v /\ EnsureOrgAdmin(q, u, r)
        BY <3>2 DEF AskRemove
      <4>2. r.on = v
        BY DEF NoRequest
      <4> QED
        BY <4>1, <4>2
    <3>3. ASSUME NEW v \in Users, NEW role \in Roles, AskRole(q, u, v, role)
          PROVE  \E r : EnsureOrgAdmin(q, u, r) /\ (r.kind = "remove" => u # r.on)
      <4> DEFINE r == [NoRequest EXCEPT !.pc = "find", !.kind = "role", !.on = v, !.role = role]
      <4>1. EnsureOrgAdmin(q, u, r)
        BY <3>3 DEF AskRole
      <4>2. r.kind = "role"
        BY DEF NoRequest
      <4> QED
        BY <4>1, <4>2
    <3>4. ASSUME NEW role \in Roles, AskInvite(q, u, role)
          PROVE  \E r : EnsureOrgAdmin(q, u, r) /\ (r.kind = "remove" => u # r.on)
      <4> DEFINE r == [NoRequest EXCEPT !.pc = "write", !.kind = "invite", !.role = role]
      <4>1. EnsureOrgAdmin(q, u, r)
        BY <3>4 DEF AskInvite
      <4>2. r.kind = "invite"
        BY DEF NoRequest
      <4> QED
        BY <4>1, <4>2
    <3>5. ASSUME NEW i \in Invitations, AskRevoke(q, u, i)
          PROVE  \E r : EnsureOrgAdmin(q, u, r) /\ (r.kind = "remove" => u # r.on)
      <4> DEFINE r == [NoRequest EXCEPT !.pc = "find", !.kind = "revoke", !.item = i]
      <4>1. EnsureOrgAdmin(q, u, r)
        BY <3>5 DEF AskRevoke
      <4>2. r.kind = "revoke"
        BY DEF NoRequest
      <4> QED
        BY <4>1, <4>2
    <3> QED
      BY <3>1, <3>2, <3>3, <3>4, <3>5
  <2>1. PICK r : EnsureOrgAdmin(q, u, r) /\ (r.kind = "remove" => u # r.on)
    BY <2>0
  <2>2. /\ req' = [req EXCEPT ![q] = r] /\ IsAdmin(u)
        /\ UNCHANGED <<member, created, inv, acc, excused>>
    BY <2>1 DEF EnsureOrgAdmin
  <2> QED
    BY <1>1, <1>2, <2>1, <2>2 DEF OTyped
<1>5. ASSUME NEW q \in Requests, Find(q) PROVE AdminRemains' /\ Survivors'
  <2>1. UNCHANGED <<member, excused>> /\ req[q] \in Request
    BY <1>1, <1>5 DEF Find, OTyped
  <2>2. \/ req' = [req EXCEPT ![q] = NoRequest]
        \/ req' = [req EXCEPT ![q].pc = "write", ![q].found = member[req[q].on].id]
        \/ req' = [req EXCEPT ![q].pc = "write"]
    BY <1>5 DEF Find, End, Step
  <2>3. \A o \in Requests : req'[o].kind = "remove" => req[o].kind = "remove" /\ req'[o].on = req[o].on
    BY <1>1, <2>1, <2>2 DEF OTyped, Request, NoRequest
  <2> QED
    BY <1>2, <2>1, <2>3
<1>6. ASSUME NEW q \in Requests, End(q)
      PROVE  \A o \in Requests : req'[o].kind = "remove" => o # q /\ req'[o] = req[o]
  BY <1>1, <1>6 DEF End, OTyped, NoRequest
<1>7. ASSUME NEW q \in Requests, WriteInvite(q) \/ WriteRevoke(q)
      PROVE  AdminRemains' /\ Survivors'
  <2>1. UNCHANGED <<member, excused>> /\ End(q)
    BY <1>7 DEF WriteInvite, WriteRevoke
  <2> QED
    BY <1>2, <1>6, <2>1
<1>8. ASSUME NEW q \in Requests, WriteRole(q) PROVE AdminRemains' /\ Survivors'
  <2>1. End(q)
    BY <1>8 DEF WriteRole
  <2>2. CASE UNCHANGED <<member, excused>>
    BY <1>2, <1>6, <2>1, <2>2
  <2>3. CASE /\ member' = [member EXCEPT ![req[q].on].role = req[q].role]
             /\ excused' = (excused \/ (IsAdmin(req[q].on) /\ req[q].role # "ORG_ADMIN"))
    <3>1. ASSUME ~excused', NEW u \in Users, IsAdmin(u) PROVE IsAdmin(u)'
      <4>1. member[u] \in Membership
        BY <1>1 DEF OTyped
      <4> QED
        BY <1>1, <2>3, <3>1, <4>1 DEF IsAdmin, OTyped, Membership
    <3>2. excused => excused'
      BY <2>3
    <3> QED
      BY <1>6, <2>1, <3>1, <3>2 DEF AdminRemains, Survivors
  <2> QED
    BY <1>8, <2>2, <2>3 DEF WriteRole
<1>9. ASSUME NEW q \in Requests, WriteRemove(q) PROVE AdminRemains' /\ Survivors'
  <2> SUFFICES ASSUME ~excused' PROVE AdminRemains' /\ Survivors'
    BY DEF AdminRemains, Survivors
  <2>1. ~excused /\ \A o \in Requests \ {q} : req[o].kind # "remove"
    BY <1>9 DEF WriteRemove
  <2>2. Survivors'
    BY <1>6, <1>9, <2>1 DEF WriteRemove, Survivors
  <2>3. PICK u \in Users : u # req[q].on /\ IsAdmin(u)
    BY <1>9, <2>1 DEF WriteRemove, Survivors
  <2>4. IsAdmin(u)'
    BY <1>1, <1>9, <2>3 DEF WriteRemove, IsAdmin, OTyped
  <2> QED
    BY <2>2, <2>4 DEF AdminRemains
<1>10. ASSUME NEW p \in Accepts, FindMembership(p) \/ \E i \in Invitations : OpenLink(p, i)
       PROVE  AdminRemains' /\ Survivors'
  <2>1. UNCHANGED <<member, excused, req>>
    BY <1>10 DEF FindMembership, OpenLink
  <2> QED
    BY <1>2, <2>1
<1>11. ASSUME NEW p \in Accepts, Join(p) PROVE AdminRemains' /\ Survivors'
  <2>1. UNCHANGED <<req, excused>>
    BY <1>11 DEF Join
  <2>2. ASSUME NEW u \in Users, IsAdmin(u) PROVE IsAdmin(u)'
    <3>1. member[u].id # 0
      BY <1>1, <2>2 DEF IsAdmin, OwnIds, NoMember
    <3> QED
      BY <1>1, <1>11, <2>2, <3>1 DEF Join, Joins, IsAdmin, OTyped
  <2> QED
    BY <2>1, <2>2 DEF AdminRemains, Survivors
<1> QED
  BY <1>3, <1>4, <1>5, <1>7, <1>8, <1>9, <1>10, <1>11 DEF ONext, Write

(* Removals one at a time, and no demotion, leave the organization an admin. *)
THEOREM AnAdminRemains == ASSUME OrganizationAssumption PROVE OSpec => []AdminRemains
<1>1. OInit => AdminRemains /\ Survivors
  BY DEF OInit, AdminRemains, Survivors, IsAdmin, Users, NoRequest
<1>2. OInv /\ AdminRemains /\ Survivors /\ [ONext]_orgVars => AdminRemains' /\ Survivors'
  BY AdminStep
<1> QED
  BY <1>1, <1>2, MembersInvariance, PTL DEF OSpec

-----------------------------------------------------------------------------
(* What an invitation's uses are as long as one accept at a time is made. *)
Uses ==
    /\ \A i \in Invitations : inv[i].used <= 1
    /\ \A i \in Invitations : inv[i].state \in {"none", "pending"} => inv[i].used = 0
    /\ \A p \in Accepts : acc[p].pc # "idle" => inv[acc[p].item].used = 0

LEMMA UsesStep ==
  ASSUME OrganizationAssumption, OInv, Uses, [ONext]_orgVars, Cardinality(Accepts) = 1
  PROVE  Uses'
<1>1. OTyped /\ OfCreated
  BY DEF OInv, OTypeOK
<1>2. \A p, o \in Accepts : p = o
  BY FS_Singleton DEF OrganizationAssumption
<1>3. ASSUME acc' = acc, inv' \in [Invitations -> Invitation],
             \A i \in Invitations :
                \/ inv'[i].used = inv[i].used
                   /\ (inv'[i].state = inv[i].state \/ inv'[i].state = "deleted")
                \/ inv'[i].used = 0 /\ inv[i].state = "none"
      PROVE  Uses'
  BY <1>1, <1>3 DEF Uses, OTyped, OfCreated, Invitation
<1>4. ASSUME UNCHANGED <<inv, acc>> PROVE Uses'
  BY <1>4 DEF Uses
<1>5. ASSUME NEW q \in Requests, WriteInvite(q) PROVE Uses'
  <2>1. OTyped' /\ acc' = acc
    BY <1>5, MembersStep DEF OInv, OTypeOK, WriteInvite
  <2>2. PICK i \in Invitations :
          /\ inv[i].state = "none"
          /\ inv' = [inv EXCEPT ![i] = [NoInvitation EXCEPT !.state = "pending",
                                                            !.role = req[q].role]]
    BY <1>5 DEF WriteInvite
  <2>3. [NoInvitation EXCEPT !.state = "pending", !.role = req[q].role].used = 0
    BY DEF NoInvitation
  <2> QED
    BY <1>1, <1>3, <2>1, <2>2, <2>3 DEF OTyped
<1>6. ASSUME NEW q \in Requests, WriteRevoke(q) PROVE Uses'
  <2> DEFINE i == req[q].item
  <2>1. OTyped' /\ acc' = acc
    BY <1>6, MembersStep DEF OInv, OTypeOK, WriteRevoke
  <2>2. inv' = [inv EXCEPT ![i] = [inv[i] EXCEPT !.state = "deleted"]]
    BY <1>6 DEF WriteRevoke
  <2>3. \A j \in Invitations : inv'[j].used = inv[j].used
                                /\ (inv'[j].state = inv[j].state \/ inv'[j].state = "deleted")
    BY <1>1, <2>2 DEF OTyped, Invitation
  <2>4. inv' \in [Invitations -> Invitation]
    BY <2>1 DEF OTyped
  <2> QED
    BY <1>3, <2>1, <2>3, <2>4
<1>7. ASSUME NEW p \in Accepts, NEW i \in Invitations, OpenLink(p, i) PROVE Uses'
  <2>1. inv' = inv /\ inv[i].used = 0
    BY <1>7 DEF OpenLink, Uses
  <2>2. \A o \in Accepts : acc'[o].item = i
    BY <1>1, <1>2, <1>7 DEF OpenLink, OTyped
  <2> QED
    BY <2>1, <2>2 DEF Uses
<1>8. ASSUME NEW p \in Accepts, FindMembership(p) PROVE Uses'
  <2>1. inv' = inv /\ acc[p].pc # "idle" /\ acc[p] \in Accept
    BY <1>1, <1>8 DEF FindMembership, OTyped
  <2>2. acc' = [acc EXCEPT ![p].pc = "join"] \/ acc' = [acc EXCEPT ![p] = NoAccept]
    BY <1>8 DEF FindMembership, GiveUp
  <2>3. \A o \in Accepts : acc'[o].pc # "idle" => acc'[o].item = acc[o].item /\ acc[o].pc # "idle"
    BY <1>1, <2>1, <2>2 DEF OTyped, Accept, NoAccept
  <2> QED
    BY <2>1, <2>3 DEF Uses
<1>9. ASSUME NEW p \in Accepts, Join(p) PROVE Uses'
  <2> DEFINE i == acc[p].item
  <2>1. \A o \in Accepts : acc'[o].pc = "idle"
    BY <1>1, <1>2, <1>9 DEF Join, GiveUp, OTyped, NoAccept
  <2>2. i \in Invitations /\ inv[i].used = 0 /\ inv[i] \in Invitation
    BY <1>1, <1>9 DEF Join, OfCreated, Uses, OTyped
  <2>3. \/ inv' = inv
        \/ inv' = [inv EXCEPT ![i] = [inv[i] EXCEPT !.state = "accepted", !.used = inv[i].used + 1]]
    BY <1>9 DEF Join
  <2>4. [inv[i] EXCEPT !.state = "accepted", !.used = inv[i].used + 1].used = 1
    BY <2>2 DEF Invitation
  <2>5. [inv[i] EXCEPT !.state = "accepted", !.used = inv[i].used + 1].state = "accepted"
    BY <2>2 DEF Invitation
  <2>6. \A j \in Invitations : \/ inv'[j] = inv[j]
                               \/ inv'[j].used = 1 /\ inv'[j].state = "accepted"
    <3> DEFINE it == [inv[i] EXCEPT !.state = "accepted", !.used = inv[i].used + 1]
    <3>1. inv \in [Invitations -> Invitation]
      BY <1>1 DEF OTyped
    <3>2. inv' = inv \/ inv' = [inv EXCEPT ![i] = it]
      BY <2>3
    <3>3. it.used = 1 /\ it.state = "accepted"
      BY <2>4, <2>5
    <3> HIDE DEF i, it
    <3> QED
      BY <2>2, <3>1, <3>2, <3>3
  <2> HIDE DEF i
  <2> QED
    BY <2>1, <2>6 DEF Uses
<1>10. ASSUME NEW q \in Requests, AskAny(q) PROVE UNCHANGED <<inv, acc>>
  BY <1>10, AskAnyAsks DEF EnsureOrgAdmin
<1>11. ASSUME NEW q \in Requests, Find(q) \/ WriteRole(q) \/ WriteRemove(q)
       PROVE  UNCHANGED <<inv, acc>>
  BY <1>11 DEF Find, WriteRole, WriteRemove
<1>12. UNCHANGED orgVars => UNCHANGED <<inv, acc>>
  BY DEF orgVars
<1> QED
  BY <1>4, <1>5, <1>6, <1>7, <1>8, <1>9, <1>10, <1>11, <1>12 DEF ONext, Write

(* An invitation lets its user in once. *)
THEOREM InvitationUsedOnce == ASSUME OrganizationAssumption PROVE OSpec => []UsedOnce
<1>1. CASE Cardinality(Accepts) = 1
  <2>1. OInit => Uses
    BY DEF OInit, Uses, NoInvitation, NoAccept
  <2>2. OInv /\ Uses /\ [ONext]_orgVars => Uses'
    BY <1>1, UsesStep
  <2>3. Uses => UsedOnce
    BY DEF Uses, UsedOnce
  <2> QED
    BY <2>1, <2>2, <2>3, MembersInvariance, PTL DEF OSpec
<1>2. CASE Cardinality(Accepts) # 1
  <2>1. UsedOnce
    BY <1>2 DEF UsedOnce
  <2> QED
    BY <2>1, PTL
<1> QED
  BY <1>1, <1>2
=============================================================================
