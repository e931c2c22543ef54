------------------------------ MODULE Organization ------------------------------
(***************************************************************************)
(* The members of one organization, from its founder on, and its           *)
(* invitations to one address: requests that check the caller's role, look *)
(* something up and write it by id in a later call, and the invited user's *)
(* accepts.                                                                *)
(***************************************************************************)
EXTENDS Naturals, FiniteSets

CONSTANTS Founder,      (* the user who created the organization             *)
          Invitee,      (* the user whose address is invited                 *)
          Requests,     (* slots for requests of admins                      *)
          Asks,         (* Asks[q]: what is asked in slot q, a bound         *)
          Accepts,      (* slots for accepts of the invitee                  *)
          MaxMembers,   (* bound on memberships ever created                 *)
          Invitations   (* 1..n, the invitations that can be created         *)

ASSUME OrganizationAssumption ==
    /\ Invitee # Founder /\ MaxMembers \in Nat \ {0}
    /\ Invitations \subseteq Nat \ {0} /\ IsFiniteSet(Accepts)

VARIABLES
    member,    (* member[u]: the id, role and invitation of u's membership   *)
    created,   (* memberships created so far                                 *)
    inv,       (* inv[i]: its state, its role, and the times it was used     *)
    req,       (* req[q]: what an admin's request awaits next                *)
    acc,       (* acc[p]: what an accept awaits next                         *)
    excused    (* a demotion, or two removals at a time, have happened       *)

orgVars == <<member, created, inv, req, acc, excused>>

Users == {Founder, Invitee}
Roles == {"ORG_ADMIN", "EVALUATOR"}
AdminKinds == {"role", "remove", "invite", "revoke"}

NoMember == [id |-> 0, role |-> "none", via |-> 0]
NoInvitation == [state |-> "none", role |-> "none", used |-> 0]
NoRequest == [pc |-> "idle", kind |-> "none", on |-> Invitee, item |-> 0,
              role |-> "none", found |-> 0]
NoAccept == [pc |-> "idle", item |-> 0]

IsAdmin(u) == member[u].role = "ORG_ADMIN"

Membership == [id : 0..MaxMembers, role : Roles \cup {"none"}, via : Invitations \cup {0}]
Invitation == [state : {"none", "pending", "accepted", "deleted"}, role : Roles \cup {"none"},
               used : Nat]
Request == [pc : {"idle", "find", "write"}, kind : AdminKinds \cup {"none"}, on : Users,
            item : Invitations \cup {0}, role : Roles \cup {"none"}, found : 0..MaxMembers]
Accept == [pc : {"idle", "member", "join"}, item : Invitations \cup {0}]

OTyped ==
    /\ member \in [Users -> Membership]
    /\ created \in 0..MaxMembers
    /\ inv \in [Invitations -> Invitation]
    /\ req \in [Requests -> Request]
    /\ acc \in [Accepts -> Accept]
    /\ excused \in BOOLEAN

(* Ids are those of memberships created, each of one user. *)
OwnIds ==
    /\ \A u \in Users : member[u].id <= created /\ (member[u].id = 0 <=> member[u] = NoMember)
    /\ \A u, v \in Users : u # v /\ member[u].id # 0 => member[u].id # member[v].id

OTypeOK == OTyped /\ OwnIds

OInit ==
    /\ created = 1
    /\ member = [u \in Users |-> IF u = Founder
                   THEN [id |-> 1, role |-> "ORG_ADMIN", via |-> 0] ELSE NoMember]
    /\ inv = [i \in Invitations |-> NoInvitation]
    /\ req = [q \in Requests |-> NoRequest]
    /\ acc = [p \in Accepts |-> NoAccept]
    /\ excused = FALSE

End(q) == req' = [req EXCEPT ![q] = NoRequest]
Step(q, pc) == req' = [req EXCEPT ![q].pc = pc]

-----------------------------------------------------------------------------
(* Requests of admins.                                                     *)

(***************************************************************************)
(* ensureOrgAdmin, the first call of every one of them: the role of this   *)
(* moment.  A request that fails it changes nothing.                       *)
(***************************************************************************)
EnsureOrgAdmin(q, u, r) ==
    /\ req[q].pc = "idle" /\ r.kind \in Asks[q] /\ IsAdmin(u)
    /\ req' = [req EXCEPT ![q] = r]
    /\ UNCHANGED <<member, created, inv, acc, excused>>

AskRole(q, u, v, role) ==
    EnsureOrgAdmin(q, u, [NoRequest EXCEPT !.pc = "find", !.kind = "role", !.on = v, !.role = role])

(* Faulty variant: admins may remove themselves. *)
AskRemoveAnyone(q, u, v) ==
    EnsureOrgAdmin(q, u, [NoRequest EXCEPT !.pc = "find", !.kind = "remove", !.on = v])

(* Nobody removes themselves. *)
AskRemove(q, u, v) ==
    /\ u # v
    /\ EnsureOrgAdmin(q, u, [NoRequest EXCEPT !.pc = "find", !.kind = "remove", !.on = v])

AskInvite(q, u, role) ==
    /\ \E i \in Invitations : inv[i].state = "none"
    /\ EnsureOrgAdmin(q, u, [NoRequest EXCEPT !.pc = "write", !.kind = "invite", !.role = role])

AskRevoke(q, u, i) ==
    /\ inv[i].state # "none"
    /\ EnsureOrgAdmin(q, u, [NoRequest EXCEPT !.pc = "find", !.kind = "revoke", !.item = i])

(* The membership or invitation the write will name by id; 404 or 409. *)
Find(q) ==
    /\ req[q].pc = "find"
    /\ \/ /\ req[q].kind \in {"role", "remove"}
          /\ IF member[req[q].on].id = 0 THEN End(q)
             ELSE req' = [req EXCEPT ![q].pc = "write", ![q].found = member[req[q].on].id]
       \/ /\ req[q].kind = "revoke"
          /\ IF inv[req[q].item].state = "deleted" THEN End(q) ELSE Step(q, "write")
    /\ UNCHANGED <<member, created, inv, acc, excused>>

(* Faulty variant: the role is written to whatever membership the user has. *)
WriteRoleByUser(q) ==
    /\ req[q].pc = "write" /\ req[q].kind = "role"
    /\ LET v == req[q].on
       IN IF member[v].id # 0
          THEN /\ member' = [member EXCEPT ![v].role = req[q].role]
               /\ excused' = (excused \/ (IsAdmin(v) /\ req[q].role # "ORG_ADMIN"))
          ELSE UNCHANGED <<member, excused>>
    /\ End(q)
    /\ UNCHANGED <<created, inv, acc>>

(* changeMemberRole: an update by the id found, which throws when it is gone. *)
WriteRole(q) ==
    /\ req[q].pc = "write" /\ req[q].kind = "role"
    /\ LET v == req[q].on
       IN IF member[v].id = req[q].found
          THEN /\ member' = [member EXCEPT ![v].role = req[q].role]
               /\ excused' = (excused \/ (IsAdmin(v) /\ req[q].role # "ORG_ADMIN"))
          ELSE UNCHANGED <<member, excused>>
    /\ End(q)
    /\ UNCHANGED <<created, inv, acc>>

(* removeMember: a delete by the id found. *)
WriteRemove(q) ==
    /\ req[q].pc = "write" /\ req[q].kind = "remove"
    /\ LET v == req[q].on
       IN member' = IF member[v].id = req[q].found THEN [member EXCEPT ![v] = NoMember] ELSE member
    /\ excused' = (excused \/ \E o \in Requests \ {q} :
                                 req[o].kind = "remove")
    /\ End(q)
    /\ UNCHANGED <<created, inv, acc>>

(* invite: no look-up, a second invitation of an address is a second record. *)
WriteInvite(q) ==
    /\ req[q].pc = "write" /\ req[q].kind = "invite"
    /\ \E i \in Invitations :
          /\ inv[i].state = "none" /\ \A j \in Invitations : j < i => inv[j].state # "none"
          /\ inv' = [inv EXCEPT ![i] = [NoInvitation EXCEPT !.state = "pending",
                                                            !.role = req[q].role]]
    /\ End(q)
    /\ UNCHANGED <<member, created, acc, excused>>

(* revokeInvitation deletes the record, an accepted one too. *)
WriteRevoke(q) ==
    /\ req[q].pc = "write" /\ req[q].kind = "revoke"
    /\ inv' = [inv EXCEPT ![req[q].item].state = "deleted"]
    /\ End(q)
    /\ UNCHANGED <<member, created, acc, excused>>

-----------------------------------------------------------------------------
(* acceptInvitation, of a link the invitee was sent.                       *)

GiveUp(p) == acc' = [acc EXCEPT ![p] = NoAccept]

(* Faulty variant: a used invitation is found again. *)
OpenLinkUsed(p, i) ==
    /\ acc[p].pc = "idle" /\ inv[i].state \in {"pending", "accepted"}
    /\ acc' = [acc EXCEPT ![p] = [pc |-> "member", item |-> i]]
    /\ UNCHANGED <<member, created, inv, req, excused>>

(***************************************************************************)
(* The invitation is found by its link: 404 for a deleted one, 409 for one *)
(* that was used.  Those change nothing.  (resendInvitation replaces the   *)
(* link and the expiry, which decide only whether an accept starts.)       *)
(***************************************************************************)
OpenLink(p, i) ==
    /\ acc[p].pc = "idle" /\ inv[i].state = "pending"
    /\ acc' = [acc EXCEPT ![p] = [pc |-> "member", item |-> i]]
    /\ UNCHANGED <<member, created, inv, req, excused>>

FindMembership(p) ==
    /\ acc[p].pc = "member"
    /\ IF member[Invitee].id = 0 THEN acc' = [acc EXCEPT ![p].pc = "join"] ELSE GiveUp(p)
    /\ UNCHANGED <<member, created, inv, req, excused>>

Joins(i) ==
    /\ created < MaxMembers
    /\ created' = created + 1
    /\ member' = [member EXCEPT ![Invitee] =
                    [id |-> created', role |-> inv[i].role, via |-> i]]

(* Faulty variant: the member is created although the invitation is gone. *)
JoinUnchecked(p) ==
    /\ acc[p].pc = "join"
    /\ LET i == acc[p].item
       IN IF member[Invitee].id = 0
          THEN /\ Joins(i)
               /\ inv' = IF inv[i].state = "deleted" THEN inv
                         ELSE [inv EXCEPT ![i].state = "accepted", ![i].used = @ + 1]
          ELSE UNCHANGED <<member, created, inv>>
    /\ GiveUp(p)
    /\ UNCHANGED <<req, excused>>

(* One transaction: it fails as a whole on the unique key of a membership, *)
(* or when the invitation to mark is gone.                                 *)
Join(p) ==
    /\ acc[p].pc = "join"
    /\ LET i == acc[p].item
       IN IF member[Invitee].id = 0 /\ inv[i].state # "deleted"
          THEN /\ Joins(i)
               /\ inv' = [inv EXCEPT ![i].state = "accepted", ![i].used = @ + 1]
          ELSE UNCHANGED <<member, created, inv>>
    /\ GiveUp(p)
    /\ UNCHANGED <<req, excused>>

AskAny(q) ==
    \E u \in Users :
        \/ \E v \in Users : AskRemove(q, u, v) \/ \E role \in Roles : AskRole(q, u, v, role)
        \/ \E role \in Roles : AskInvite(q, u, role)
        \/ \E i \in Invitations : AskRevoke(q, u, i)

Write(q) ==
    WriteRole(q) \/ WriteRemove(q) \/ WriteInvite(q) \/ WriteRevoke(q)

ONext ==
    \/ \E q \in Requests : AskAny(q) \/ Find(q) \/ Write(q)
    \/ \E p \in Accepts :
          \/ \E i \in Invitations : OpenLink(p, i)
          \/ FindMembership(p) \/ Join(p)

OSpec == OInit /\ [][ONext]_orgVars

-----------------------------------------------------------------------------
(* Properties.                                                             *)

(***************************************************************************)
(* A membership is made only from an invitation that exists at that        *)
(* moment: one that was revoked while its accept was past all checks gives *)
(* none.                                                                   *)
(***************************************************************************)
RevokedGivesNone ==
    [][\A u \in Users : member'[u].id # member[u].id /\ member'[u].id # 0 =>
          inv[member'[u].via].state \in {"pending", "accepted"}]_orgVars

(***************************************************************************)
(* An invitation lets its user in once: after a removal its link does not  *)
(* work again, unless several accepts of one user were under way at once.  *)
(***************************************************************************)
UsedOnce == Cardinality(Accepts) = 1 => \A i \in Invitations : inv[i].used <= 1

(***************************************************************************)
(* A change of role meant for a membership that has ended meanwhile never  *)
(* reaches the user's next one: that one keeps its invitation's role until *)
(* a request that found it.                                                *)
(***************************************************************************)
RoleMeantForIt ==
    [][\A u \in Users :
          member'[u].id = member[u].id /\ member'[u].role # member[u].role =>
             \E q \in Requests : req[q].on = u /\ req[q].found = member[u].id]_orgVars

(***************************************************************************)
(* Removals one at a time leave an admin: each is asked by an admin, and   *)
(* nobody removes themselves.  A demotion may leave none.                  *)
(***************************************************************************)
AdminRemains == excused \/ \E u \in Users : IsAdmin(u)
=============================================================================
