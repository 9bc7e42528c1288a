----------------------------- MODULE Membership -----------------------------
(***************************************************************************)
(* The members of one organization: who belongs to it, with which role,    *)
(* and how invitations, role changes, revocations and ownership transfers  *)
(* change that (routes/organizations.py).                                  *)
(*                                                                         *)
(* A request runs in one PostgreSQL transaction at READ COMMITTED.  It is  *)
(* split where another transaction can get between two of its statements:  *)
(* every SELECT and every row lock is a step of its own, and the flush     *)
(* that ends in COMMIT is one step, because nobody sees its writes before. *)
(*                                                                         *)
(* Two facts of the ORM decide what a race does.  The session keeps the    *)
(* attributes it loaded first: a later SELECT ... FOR UPDATE of the same   *)
(* row waits for the row but does not reload it (ctx, seen below).  And a  *)
(* flush writes only the attributes that differ from what was loaded       *)
(* (Flushed below).                                                        *)
(***************************************************************************)
EXTENDS Naturals, FiniteSets

CONSTANTS
    Users,          \* the accounts; an account stands for its e-mail address
    Requests,       \* the requests the API serves at the same time
    Invitations,    \* identifiers of invitation rows
    Tokens,         \* the raw tokens random_token() may return
    Endpoints,      \* the endpoints clients call (a bound of the model)
    PlainRoles,     \* the roles without manage_members: MANAGER and MEMBER
    NoUser, NoInvitation, NoToken

ASSUME RolesAssumption == PlainRoles \cap {"OWNER", "ADMIN", "NONE"} = {}
ASSUME AbsentAssumption ==
    NoUser \notin Users /\ NoInvitation \notin Invitations /\ NoToken \notin Tokens

VARIABLES
    members,        \* organization_memberships: one row per account
    invites,        \* organization_invitations
    issued,         \* the tokens generated so far
    req             \* the requests in flight

vars == <<members, invites, issued, req>>

-----------------------------------------------------------------------------
(* Rows *)

ManagerRoles == {"OWNER", "ADMIN"}
Roles == ManagerRoles \cup PlainRoles

Row == [role : Roles \cup {"NONE"}, status : {"NONE", "ACTIVE", "REVOKED"}]
NoRow == [role |-> "NONE", status |-> "NONE"]

Invite == [status  : {"UNUSED", "PENDING", "ACCEPTED", "REVOKED"},
           email   : Users \cup {NoUser},
           role    : PlainRoles \cup {"ADMIN", "NONE"},
           token   : Tokens \cup {NoToken},
           expired : BOOLEAN]
NoInvite == [status |-> "UNUSED", email |-> NoUser, role |-> "NONE",
             token |-> NoToken, expired |-> FALSE]

ActiveOwner(row) == row.role = "OWNER" /\ row.status = "ACTIVE"
Pending(i) == invites[i].status = "PENDING"
Founded == \E u \in Users : members[u] # NoRow

\* The two partial unique indexes, checked whenever a flush writes a row.
\* (Definitions named No... or Any... are variants with one check or lock left
\* out; the README says which property notices each of them.)
NoOwnerIndex(m) == TRUE
OwnerIndex(m) ==
    \A u, v \in Users : ActiveOwner(m[u]) /\ ActiveOwner(m[v]) => u = v
NoPendingIndex(iv) == TRUE
PendingIndex(iv) ==
    \A i, j \in Invitations :
        /\ iv[i].status = "PENDING" /\ iv[j].status = "PENDING"
        /\ iv[i].email = iv[j].email
        => i = j

\* UPDATE of the attributes in which new differs from the loaded copy.
Flushed(row, loaded, new) ==
    [role   |-> IF new.role # loaded.role THEN new.role ELSE row.role,
     status |-> IF new.status # loaded.status THEN new.status ELSE row.status]

-----------------------------------------------------------------------------
(* Requests in flight.  pc names the statement a request executes next.    *)

Steps == {"readRole", "writeRole", "readRevoke", "writeRevoke",
          "lockOrg", "lockOwn", "lockTarget", "writeTransfer",
          "checkMember", "findPending", "lockPending", "writeInvite",
          "lockToken", "flushMember", "writeAccept",
          "lockInvite", "writeRevokeInvite"}

Request == [pc     : Steps \cup {"idle"},
            actor  : Users \cup {NoUser},       \* the authenticated account
            target : Users \cup {NoUser},       \* the member, or the invited address
            inv    : Invitations \cup {NoInvitation},
            role   : Roles \cup {"NONE"},       \* the role in the request body
            token  : Tokens \cup {NoToken},     \* the token in the request body
            ctx    : Row,   \* context.membership as loaded by the dependency
            seen   : Row]   \* the membership the handler works on, as loaded

Idle == [pc |-> "idle", actor |-> NoUser, target |-> NoUser, inv |-> NoInvitation,
         role |-> "NONE", token |-> NoToken, ctx |-> NoRow, seen |-> NoRow]

Goto(p, pc) == req' = [req EXCEPT ![p].pc = pc]
Finish(p) == req' = [req EXCEPT ![p] = Idle]
TablesUnchanged == UNCHANGED <<members, invites, issued>>

\* An error response: the session is closed and its transaction rolled back.
Reject(p) == Finish(p) /\ TablesUnchanged

\* The membership an accepted invitation asks for, and whether the flush at
\* organizations.py:259 has anything to write.
Joined(p) == [role |-> invites[req[p].inv].role, status |-> "ACTIVE"]
Dirty(p) == Joined(p) # req[p].seen

\* The locks a request holds between two of its steps.
HoldsOrganization(p) == req[p].pc \in {"lockOwn", "lockTarget", "writeTransfer"}
SharesOrganization(p) == req[p].pc = "writeAccept" /\ req[p].seen = NoRow
HoldsMember(p, u) ==
    \/ req[p].pc \in {"lockTarget", "writeTransfer"} /\ req[p].actor = u
    \/ req[p].pc = "writeTransfer" /\ req[p].target = u
    \/ req[p].pc = "writeAccept" /\ req[p].actor = u /\ Dirty(p)
NoInvitationLock(p, i) == FALSE
HoldsInvitation(p, i) ==
    /\ req[p].pc \in {"flushMember", "writeAccept", "writeInvite", "writeRevokeInvite"}
    /\ req[p].inv = i

\* Request q holds a row lock that the next statement of p waits for.  Every
\* write inserts an audit row, whose foreign key shares the organization row.
Blocks(q, p) ==
    /\ q # p
    /\ \/ req[p].pc = "lockOrg" /\ (HoldsOrganization(q) \/ SharesOrganization(q))
       \/ req[p].pc = "lockOwn" /\ HoldsMember(q, req[p].actor)
       \/ /\ req[p].pc = "lockTarget"
          /\ members[req[p].target].status = "ACTIVE"
          /\ HoldsMember(q, req[p].target)
       \/ /\ req[p].pc \in {"writeRole", "writeRevoke"}
          /\ HoldsOrganization(q) \/ HoldsMember(q, req[p].target)
       \/ /\ req[p].pc = "flushMember"
          /\ \/ Dirty(p) /\ HoldsMember(q, req[p].actor)
             \/ req[p].seen = NoRow /\ HoldsOrganization(q)
       \/ /\ req[p].pc \in {"writeInvite", "writeAccept", "writeRevokeInvite"}
          /\ HoldsOrganization(q)
       \/ /\ req[p].pc \in {"lockPending", "lockInvite"}
          /\ HoldsInvitation(q, req[p].inv)
       \/ /\ req[p].pc = "lockToken"
          /\ \E i \in Invitations :
                invites[i].token = req[p].token /\ HoldsInvitation(q, i)
Unblocked(p) == \A q \in Requests : ~Blocks(q, p)

NoDeadlockDetection(p) == FALSE

\* PostgreSQL looks for a cycle of waiting transactions and aborts one of them.
Deadlocked(p) ==
    \E cycle \in SUBSET Requests :
        /\ p \in cycle
        /\ \A q \in cycle : /\ \E r \in cycle : Blocks(r, q)
                           /\ \E r \in cycle : Blocks(q, r)

\* Flush and COMMIT: a row that breaks an index aborts the transaction.
Commit(p, m, iv) ==
    /\ IF OwnerIndex(m) /\ PendingIndex(iv)
       THEN members' = m /\ invites' = iv
       ELSE UNCHANGED <<members, invites>>
    /\ Finish(p)

-----------------------------------------------------------------------------
Init ==
    /\ members = [u \in Users |-> NoRow]
    /\ invites = [i \in Invitations |-> NoInvite]
    /\ issued = {}
    /\ req = [p \in Requests |-> Idle]

\* create_organization: the founder becomes the active owner.
CreateOrganization(u) ==
    /\ ~Founded
    /\ members' = [members EXCEPT ![u] = [role |-> "OWNER", status |-> "ACTIVE"]]
    /\ UNCHANGED <<invites, issued, req>>

\* get_organization_context: only an active member gets a context, and the
\* membership loaded here is the one the handler keeps using.
Start(p, u, r) ==
    /\ req[p].pc = "idle"
    /\ members[u].status = "ACTIVE"
    /\ req' = [req EXCEPT ![p] = r]
    /\ TablesUnchanged

\* require_capability(context, MANAGE_MEMBERS)
MayManageMembers(u) == members[u].role \in ManagerRoles

-----------------------------------------------------------------------------
(* transfer_ownership *)

RequestTransfer(p, u, t) ==
    /\ members[t] # NoRow
    /\ Start(p, u, [Idle EXCEPT !.pc = "lockOrg", !.actor = u, !.target = t,
                                !.ctx = members[u]])

LockOrganization(p) ==
    /\ req[p].pc = "lockOrg"
    /\ Unblocked(p)
    /\ Goto(p, "lockOwn")
    /\ TablesUnchanged

AnyTransferrer(p) ==
    /\ req[p].pc = "lockOwn"
    /\ Unblocked(p)
    /\ Goto(p, "lockTarget")
    /\ TablesUnchanged

\* The row is locked, but the role that is checked is the loaded one.
LockOwnMembership(p) ==
    /\ req[p].pc = "lockOwn"
    /\ Unblocked(p)
    /\ IF req[p].ctx.role = "OWNER" THEN Goto(p, "lockTarget") ELSE Finish(p)
    /\ TablesUnchanged

AnyTarget(p) ==
    /\ req[p].pc = "lockTarget"
    /\ Unblocked(p)
    /\ req' = [req EXCEPT ![p].pc = "writeTransfer", ![p].seen = members[req[p].target]]
    /\ TablesUnchanged

LockTarget(p) ==
    /\ req[p].pc = "lockTarget"
    /\ LET t == req[p].target
       IN IF members[t].status = "ACTIVE" /\ t # req[p].actor
          THEN /\ Unblocked(p)
               /\ req' = [req EXCEPT ![p].pc = "writeTransfer", ![p].seen = members[t]]
          ELSE Finish(p)
    /\ TablesUnchanged

Transferred(p) ==
    LET r == req[p]
    IN [members EXCEPT
          ![r.actor] = Flushed(@, r.ctx, [r.ctx EXCEPT !.role = "ADMIN"]),
          ![r.target] = Flushed(@, r.seen, [r.seen EXCEPT !.role = "OWNER"])]

WriteTransfer(p) ==
    /\ req[p].pc = "writeTransfer"
    /\ Commit(p, Transferred(p), invites)
    /\ UNCHANGED issued

-----------------------------------------------------------------------------
(* change_role and revoke_member *)

RequestRoleChange(p, u, t, r) ==
    /\ MayManageMembers(u)
    /\ members[t] # NoRow
    /\ Start(p, u, [Idle EXCEPT !.pc = "readRole", !.actor = u, !.target = t,
                                !.role = r, !.ctx = members[u]])

RequestRevoke(p, u, t) ==
    /\ MayManageMembers(u)
    /\ members[t] # NoRow
    /\ Start(p, u, [Idle EXCEPT !.pc = "readRevoke", !.actor = u, !.target = t,
                                !.ctx = members[u]])

\* The target is read without a lock.  The caller's own row is already in the
\* session, so reading it again returns the copy in the context.
Loaded(p) == IF req[p].target = req[p].actor THEN req[p].ctx ELSE members[req[p].target]

AnyRoleTarget(p) ==
    /\ req[p].pc = "readRole"
    /\ req' = [req EXCEPT ![p].pc = "writeRole", ![p].seen = Loaded(p)]
    /\ TablesUnchanged

ReadRoleTarget(p) ==
    /\ req[p].pc = "readRole"
    /\ IF Loaded(p).role = "OWNER" \/ req[p].role = "OWNER"
       THEN Finish(p)
       ELSE req' = [req EXCEPT ![p].pc = "writeRole", ![p].seen = Loaded(p)]
    /\ TablesUnchanged

AnyRevokeTarget(p) ==
    /\ req[p].pc = "readRevoke"
    /\ req' = [req EXCEPT ![p].pc = "writeRevoke", ![p].seen = Loaded(p)]
    /\ TablesUnchanged

ReadRevokeTarget(p) ==
    /\ req[p].pc = "readRevoke"
    /\ IF Loaded(p).role = "OWNER"
       THEN Finish(p)
       ELSE req' = [req EXCEPT ![p].pc = "writeRevoke", ![p].seen = Loaded(p)]
    /\ TablesUnchanged

WriteRole(p) ==
    /\ req[p].pc = "writeRole"
    /\ Unblocked(p)
    /\ LET r == req[p]
       IN Commit(p, [members EXCEPT ![r.target] =
                        Flushed(@, r.seen, [r.seen EXCEPT !.role = r.role])], invites)
    /\ UNCHANGED issued

WriteRevoke(p) ==
    /\ req[p].pc = "writeRevoke"
    /\ Unblocked(p)
    /\ LET r == req[p]
       IN Commit(p, [members EXCEPT ![r.target] =
                        Flushed(@, r.seen, [r.seen EXCEPT !.status = "REVOKED"])], invites)
    /\ UNCHANGED issued

-----------------------------------------------------------------------------
(* invite_member and revoke_invitation *)

\* A bound of the model: enough identifiers and tokens are left for every
\* invitation in flight.  The program draws both at random and never runs out.
Room ==
    LET inFlight == {p \in Requests : req[p].pc \in
                        {"checkMember", "findPending", "lockPending", "writeInvite"}}
        unused == {i \in Invitations : invites[i].status = "UNUSED"}
    IN /\ Cardinality(inFlight) < Cardinality(Tokens \ issued)
       /\ Cardinality(inFlight) < Cardinality(unused)

AnyInvitedRole(p, u, t, r) ==
    /\ Room
    /\ MayManageMembers(u)
    /\ Start(p, u, [Idle EXCEPT !.pc = "checkMember", !.actor = u, !.target = t,
                                !.role = r])

RequestInvite(p, u, t, r) ==
    /\ Room
    /\ MayManageMembers(u)
    /\ r # "OWNER"
    /\ Start(p, u, [Idle EXCEPT !.pc = "checkMember", !.actor = u, !.target = t,
                                !.role = r])

CheckNotMember(p) ==
    /\ req[p].pc = "checkMember"
    /\ IF members[req[p].target].status = "ACTIVE"
       THEN Finish(p)
       ELSE Goto(p, "findPending")
    /\ TablesUnchanged

\* The snapshot in which SELECT ... FOR UPDATE looks for the pending row.
FindPending(p) ==
    /\ req[p].pc = "findPending"
    /\ \/ \E i \in Invitations :
            /\ Pending(i) /\ invites[i].email = req[p].target
            /\ req' = [req EXCEPT ![p].pc = "lockPending", ![p].inv = i]
       \/ /\ \A i \in Invitations : ~(Pending(i) /\ invites[i].email = req[p].target)
          /\ Goto(p, "writeInvite")
    /\ TablesUnchanged

\* After the wait the row is evaluated again: no longer pending is not found.
LockPending(p) ==
    /\ req[p].pc = "lockPending"
    /\ Unblocked(p)
    /\ IF Pending(req[p].inv)
       THEN Goto(p, "writeInvite")
       ELSE req' = [req EXCEPT ![p].pc = "writeInvite", ![p].inv = NoInvitation]
    /\ TablesUnchanged

\* Reissue of the locked row or INSERT of a new one, with a fresh token either
\* way.  The message that carries the token is sent after the commit.
WriteInvite(p) ==
    /\ req[p].pc = "writeInvite"
    /\ Unblocked(p)
    /\ \E i \in Invitations, k \in Tokens \ issued :
        /\ IF req[p].inv = NoInvitation
           THEN invites[i].status = "UNUSED"
           ELSE i = req[p].inv
        /\ Commit(p, members,
                  [invites EXCEPT ![i] = [status |-> "PENDING", email |-> req[p].target,
                                          role |-> req[p].role, token |-> k,
                                          expired |-> FALSE]])
        /\ issued' = issued \cup {k}

RequestRevokeInvitation(p, u, i) ==
    /\ MayManageMembers(u)
    /\ invites[i].status # "UNUSED"
    /\ Start(p, u, [Idle EXCEPT !.pc = "lockInvite", !.actor = u, !.inv = i])

LockInvitation(p) ==
    /\ req[p].pc = "lockInvite"
    /\ IF Pending(req[p].inv)
       THEN Unblocked(p) /\ Goto(p, "writeRevokeInvite")
       ELSE Finish(p)
    /\ TablesUnchanged

WriteRevokeInvitation(p) ==
    /\ req[p].pc = "writeRevokeInvite"
    /\ Unblocked(p)
    /\ Commit(p, members, [invites EXCEPT ![req[p].inv].status = "REVOKED"])
    /\ UNCHANGED issued

InvitationExpires(i) ==
    /\ Pending(i) /\ ~invites[i].expired
    /\ invites' = [invites EXCEPT ![i].expired = TRUE]
    /\ UNCHANGED <<members, issued, req>>

-----------------------------------------------------------------------------
(* accept_invitation: any signed-in account, with a token *)

RequestAccept(p, u, k) ==
    /\ req[p].pc = "idle"
    /\ k \in issued
    /\ req' = [req EXCEPT ![p] = [Idle EXCEPT !.pc = "lockToken", !.actor = u, !.token = k]]
    /\ TablesUnchanged

AnyStatusRedeemable(i, k) == invites[i].token = k /\ ~invites[i].expired
Redeemable(i, k) == Pending(i) /\ invites[i].token = k /\ ~invites[i].expired

\* Lock the invitation, compare its address with the account's, read the
\* account's membership (without a lock).
LockToken(p) ==
    /\ req[p].pc = "lockToken"
    /\ \/ \E i \in Invitations :
            /\ Redeemable(i, req[p].token)
            /\ Unblocked(p)
            /\ IF invites[i].email = req[p].actor
               THEN req' = [req EXCEPT ![p].pc = "flushMember", ![p].inv = i,
                                       ![p].seen = members[req[p].actor]]
               ELSE Finish(p)
       \/ /\ \A i \in Invitations : ~Redeemable(i, req[p].token)
          /\ Finish(p)
    /\ TablesUnchanged

\* db.flush(): the row is written and locked, but visible only after COMMIT.
\* An INSERT fails when the account has got a membership meanwhile.
FlushMembership(p) ==
    /\ req[p].pc = "flushMember"
    /\ Unblocked(p)
    /\ IF req[p].seen = NoRow /\ members[req[p].actor] # NoRow
       THEN Finish(p)
       ELSE Goto(p, "writeAccept")
    /\ TablesUnchanged

WriteAccept(p) ==
    /\ req[p].pc = "writeAccept"
    /\ Unblocked(p)
    /\ LET r == req[p]
       IN Commit(p, [members EXCEPT ![r.actor] = Flushed(@, r.seen, Joined(p))],
                    [invites EXCEPT ![r.inv].status = "ACCEPTED"])
    /\ UNCHANGED issued

-----------------------------------------------------------------------------
(* The process dies or the client's connection breaks: nothing is kept. *)
Abandon(p) ==
    /\ req[p].pc # "idle"
    /\ Reject(p)

DeadlockVictim(p) ==
    /\ Deadlocked(p)
    /\ Reject(p)

Arrive(p) ==
    \E u \in Users :
        \/ "transfer" \in Endpoints /\ \E t \in Users : RequestTransfer(p, u, t)
        \/ "revoke" \in Endpoints /\ \E t \in Users : RequestRevoke(p, u, t)
        \/ "role" \in Endpoints /\ \E t \in Users, r \in Roles : RequestRoleChange(p, u, t, r)
        \/ "invite" \in Endpoints /\ \E t \in Users, r \in Roles : RequestInvite(p, u, t, r)
        \/ "uninvite" \in Endpoints /\ \E i \in Invitations : RequestRevokeInvitation(p, u, i)
        \/ "accept" \in Endpoints /\ \E k \in Tokens : RequestAccept(p, u, k)

Serve(p) ==
    \/ LockOrganization(p) \/ LockOwnMembership(p) \/ LockTarget(p) \/ WriteTransfer(p)
    \/ ReadRoleTarget(p) \/ WriteRole(p) \/ ReadRevokeTarget(p) \/ WriteRevoke(p)
    \/ CheckNotMember(p) \/ FindPending(p) \/ LockPending(p) \/ WriteInvite(p)
    \/ LockInvitation(p) \/ WriteRevokeInvitation(p)
    \/ LockToken(p) \/ FlushMembership(p) \/ WriteAccept(p)

RequestStep(p) == Arrive(p) \/ Serve(p) \/ Abandon(p) \/ DeadlockVictim(p)

Environment ==
    \/ \E u \in Users : CreateOrganization(u)
    \/ \E i \in Invitations : InvitationExpires(i)

Next == Environment \/ \E p \in Requests : RequestStep(p)

Spec == Init /\ [][Next]_vars

\* The same handlers when the API serves one request at a time.
Alone(p) == \A q \in Requests \ {p} : req[q].pc = "idle"
SerialNext == Environment \/ \E p \in Requests : Alone(p) /\ RequestStep(p)
SerialSpec == Init /\ [][SerialNext]_vars

\* The server keeps running the threads it has started, and the database hands
\* a row lock to its waiters in order, so none of them starves.
Fairness == \A p \in Requests : SF_vars(Serve(p)) /\ WF_vars(DeadlockVictim(p))
FairSpec == Spec /\ Fairness

-----------------------------------------------------------------------------
(* Properties *)

TypeOK ==
    /\ members \in [Users -> Row]
    /\ invites \in [Invitations -> Invite]
    /\ issued \in SUBSET Tokens
    /\ req \in [Requests -> Request]

\* What the first partial index keeps of the rows, whatever is written (a part of
\* SerialInductive below; OwnerOnlyByTransfer is about what becomes of two transfers).
AtMostOneActiveOwner ==
    \A u, v \in Users : ActiveOwner(members[u]) /\ ActiveOwner(members[v]) => u = v

\* Concurrent invitations of one address leave one pending row, so one token.
OnePendingInvitation ==
    \A i, j \in Invitations :
        Pending(i) /\ Pending(j) /\ invites[i].email = invites[j].email => i = j

\* The rule of DATABASE.md:58 that the index cannot express: an organization
\* always has an active owner.
ActiveOwnerExists == Founded => \E u \in Users : ActiveOwner(members[u])

\* An account becomes the active owner by founding the organization or by the
\* commit of a transfer whose requester had loaded the role OWNER, and the ownership
\* moves: the owner until then, if there was one, is the requester, and the new one
\* is alone.  Two transfers that loaded the same owner's role cannot both appoint,
\* and no role change or acceptance with a stale copy makes an owner.  (A requester
\* who is no longer the owner can still appoint while the organization has none.)
BecomesOwnerByTransfer(u) ==
    ~ActiveOwner(members[u]) /\ ActiveOwner(members'[u]) =>
        \/ ~Founded
        \/ \E p \in Requests :
              /\ req[p].pc = "writeTransfer" /\ req'[p].pc = "idle"
              /\ req[p].target = u /\ req[p].ctx.role = "OWNER"
              /\ \A v \in Users : ActiveOwner(members[v]) => v = req[p].actor
              /\ \A v \in Users : ActiveOwner(members'[v]) => v = u
OwnerOnlyByTransfer == [][\A u \in Users : BecomesOwnerByTransfer(u)]_vars

\* An active owner stops being one only by a named cause: by handing over, which
\* leaves the target of the transfer as owner; by a role change or a revocation that
\* read the row before the account became the owner; or by the account's own
\* acceptance of an invitation that was still pending for its address.  Neither a
\* transfer without a successor nor a manager who saw an owner takes the owner away.
LosesOwnershipByCause(u) ==
    ActiveOwner(members[u]) /\ ~ActiveOwner(members'[u]) =>
        \E p \in Requests :
            /\ req'[p].pc = "idle"
            /\ \/ /\ req[p].pc = "writeTransfer" /\ req[p].actor = u
                  /\ ActiveOwner(members'[req[p].target])
               \/ /\ req[p].pc \in {"writeRole", "writeRevoke"} /\ req[p].target = u
                  /\ req[p].seen.role # "OWNER"
               \/ /\ req[p].pc = "writeAccept" /\ req[p].actor = u
                  /\ Pending(req[p].inv) /\ invites[req[p].inv].email = u
OwnerLossHasCause == [][\A u \in Users : LosesOwnershipByCause(u)]_vars

\* SELF_REVIEW.md:17: only the current owner can transfer ownership.  Only handlers
\* that do not overlap keep this: the role that is checked was loaded before the locks.
TransferredByOwner(p) ==
    /\ req[p].pc = "writeTransfer" /\ req'[p].pc = "idle" /\ members' # members
    => ActiveOwner(members[req[p].actor])
TransferOnlyByCurrentOwner == [][\A p \in Requests : TransferredByOwner(p)]_vars

\* Acceptance, revocation and reissue of one invitation race for its row;
\* whichever commits first decides, and the outcome is never overwritten.
InvitationOutcomeFinal ==
    [][\A i \in Invitations : invites[i].status \in {"ACCEPTED", "REVOKED"}
                                 => invites'[i] = invites[i]]_vars

\* An account that was not an active member becomes one only by founding the
\* organization, or in a step that spends a pending invitation to its own
\* address with the token of the latest issue.
JoinsByInvitation(u) ==
    members[u].status # "ACTIVE" /\ members'[u].status = "ACTIVE" =>
        \/ ~Founded
        \/ \E p \in Requests, i \in Invitations :
              /\ Pending(i) /\ invites'[i].status = "ACCEPTED"
              /\ invites[i].email = u /\ req[p].actor = u
              /\ req[p].pc = "writeAccept" /\ req[p].token = invites[i].token
JoinNeedsInvitation == [][\A u \in Users : JoinsByInvitation(u)]_vars

\* Every request is answered: row locks are taken in orders that can deadlock,
\* and the database's victim is what lets the others go on.
RequestsComplete == \A p \in Requests : req[p].pc # "idle" ~> req[p].pc = "idle"

-----------------------------------------------------------------------------
(* The inductive invariant behind OwnerOnlyByTransfer, OwnerLossHasCause,   *)
(* JoinNeedsInvitation and InvitationOutcomeFinal.                          *)

InviteSteps == {"checkMember", "findPending", "lockPending", "writeInvite"}
TargetSteps == InviteSteps \cup {"readRole", "writeRole", "readRevoke", "writeRevoke",
                                 "lockOrg", "lockOwn", "lockTarget", "writeTransfer"}
AcceptSteps == {"flushMember", "writeAccept"}
LockedSteps == AcceptSteps \cup {"writeRevokeInvite"}

\* What a request carries at each of its steps.
WellFormed(p) ==
    LET r == req[p]
    IN /\ r.pc # "idle" => r.actor \in Users /\ Founded
       /\ r.pc \in TargetSteps => r.target \in Users
       /\ r.pc \in InviteSteps \cup {"writeRole"} => r.role \in Roles \ {"OWNER"}
       /\ r.pc = "readRole" => r.role \in Roles
       /\ r.pc \in {"checkMember", "findPending"} => r.inv = NoInvitation
       /\ r.pc \in LockedSteps \cup {"lockPending", "lockInvite"} => r.inv \in Invitations
       /\ r.pc \in AcceptSteps \cup {"lockToken"} => r.token \in Tokens

PendingComplete ==
    /\ \A i \in Invitations : Pending(i) => /\ invites[i].email \in Users
                                            /\ invites[i].role # "NONE"
    /\ issued # {} => Founded

\* A locked invitation stays pending, with the address and the token it had
\* when it was locked, and no other request holds it.
InvitationLocked(p) ==
    /\ \A i \in Invitations : HoldsInvitation(p, i) => Pending(i)
    /\ req[p].pc \in AcceptSteps =>
           /\ invites[req[p].inv].email = req[p].actor
           /\ invites[req[p].inv].token = req[p].token
LocksExclusive ==
    \A p, q \in Requests : p # q =>
        /\ \A i \in Invitations : ~(HoldsInvitation(p, i) /\ HoldsInvitation(q, i))
        /\ \A u \in Users : ~(HoldsMember(p, u) /\ HoldsMember(q, u))

\* The target of a transfer that is about to commit is an active member and the row
\* that was locked; a role change or revocation about to commit saw no owner.
TransferReady(p) ==
    /\ req[p].pc \in {"lockTarget", "writeTransfer"} => req[p].ctx.role = "OWNER"
    /\ req[p].pc = "writeTransfer" =>
        /\ req[p].target # req[p].actor
        /\ req[p].seen = members[req[p].target] /\ req[p].seen.status = "ACTIVE"
    /\ req[p].pc \in {"writeRole", "writeRevoke"} => req[p].seen.role # "OWNER"

\* Who was no active member when an acceptance read the membership is none
\* until that acceptance commits: only it can spend the pending invitation.
AcceptFresh(p) ==
    LET now == members[req[p].actor]
    IN req[p].pc \in AcceptSteps /\ req[p].seen.status # "ACTIVE" =>
        /\ now.status # "ACTIVE"
        /\ req[p].seen.role # "OWNER" => now.role # "OWNER"

Inductive ==
    /\ TypeOK
    /\ OnePendingInvitation
    /\ PendingComplete
    /\ LocksExclusive
    /\ \A p \in Requests : /\ WellFormed(p) /\ InvitationLocked(p)
                           /\ TransferReady(p) /\ AcceptFresh(p)

-----------------------------------------------------------------------------
(* Served one request at a time, the tables are the roster of Roster. *)

Standing(row) ==
    CASE row.status # "ACTIVE" -> "outsider"
      [] row.status = "ACTIVE" /\ row.role = "OWNER" -> "owner"
      [] row.status = "ACTIVE" /\ row.role = "ADMIN" -> "manager"
      [] OTHER -> "plain"

R == INSTANCE Roster WITH standing <- [u \in Users |-> Standing(members[u])]

\* What the handlers rely on when they do not overlap: the copies that the request
\* carries are the rows, and nobody who is invited is an active member.
ManagingSteps == {"readRole", "writeRole", "readRevoke", "writeRevoke",
                  "lockOrg", "lockOwn", "lockTarget", "writeTransfer"}
CopiesFresh(p) ==
    LET r == req[p]
    IN /\ r.pc \in ManagingSteps => r.ctx = members[r.actor] /\ r.ctx.status = "ACTIVE"
       /\ r.pc \in {"writeRole", "writeRevoke", "writeTransfer"} => r.seen = members[r.target]
       /\ r.pc \in AcceptSteps => r.seen = members[r.actor]
       /\ r.pc \in InviteSteps \ {"checkMember"} => members[r.target].status # "ACTIVE"
InvitedOutside ==
    \A i \in Invitations : Pending(i) => Founded /\ members[invites[i].email].status # "ACTIVE"
OneAtATime == \A p, q \in Requests : req[p].pc # "idle" /\ req[q].pc # "idle" => p = q

SerialInductive ==
    /\ Inductive /\ OneAtATime /\ InvitedOutside
    /\ AtMostOneActiveOwner /\ ActiveOwnerExists
    /\ \A p \in Requests : CopiesFresh(p)

\* Handlers that do not overlap keep the roster: one owner from the founding
\* on, who changes only by handing over to an active member.
ImplementsRoster == R!Spec

=============================================================================
