-------------------------- MODULE MembershipProofs --------------------------
(***************************************************************************)
(* Theorems about Membership for every number of accounts, requests,       *)
(* invitations and tokens.                                                 *)
(***************************************************************************)
EXTENDS Membership, TLAPS

\* What Inductive says of one request, and of its locks.
Fine(p) == WellFormed(p) /\ InvitationLocked(p) /\ TransferReady(p) /\ AcceptFresh(p)
Apart(p, q) ==
    /\ \A i \in Invitations : ~(HoldsInvitation(p, i) /\ HoldsInvitation(q, i))
    /\ \A u \in Users : ~(HoldsMember(p, u) /\ HoldsMember(q, u))

-----------------------------------------------------------------------------
(* The type of rows and requests *)

LEMMA FlushedType ==
    ASSUME NEW row \in Row, NEW loaded \in Row, NEW new \in Row
    PROVE  Flushed(row, loaded, new) \in Row
  BY DEF Flushed, Row

LEMMA IdleType == Idle \in Request /\ Idle.pc = "idle"
  BY DEF Idle, Request, NoRow, Row, Steps

\* A commit either installs the rows it was given, or leaves the tables alone;
\* in both cases the request is answered.
LEMMA CommitOutcome ==
    ASSUME NEW p, NEW m, NEW iv, Commit(p, m, iv)
    PROVE  /\ \/ members' = m /\ invites' = iv /\ OwnerIndex(m) /\ PendingIndex(iv)
              \/ members' = members /\ invites' = invites
           /\ req' = [req EXCEPT ![p] = Idle]
  BY DEF Commit, Finish

-----------------------------------------------------------------------------
(* Frames: what a step leaves to show of the requests it does not serve.   *)

\* A step that moves one request on and writes no table.
LEMMA MoveFrame ==
    ASSUME Inductive, TablesUnchanged,
           NEW p \in Requests, NEW r \in Request, req' = [req EXCEPT ![p] = r],
           Fine(p)',
           \A q \in Requests \ {p} : Apart(p, q)' /\ Apart(q, p)'
    PROVE  Inductive'
  <1>1. TypeOK' /\ OnePendingInvitation' /\ PendingComplete'
    BY DEF Inductive, TypeOK, TablesUnchanged, OnePendingInvitation, PendingComplete,
           Pending, Founded
  <1>2. ASSUME NEW q \in Requests \ {p} PROVE req'[q] = req[q]
    BY DEF Inductive, TypeOK
  <1>3. ASSUME NEW q \in Requests \ {p} PROVE Fine(q)'
    BY <1>2 DEF Inductive, Fine, WellFormed, InvitationLocked, TransferReady, AcceptFresh,
                HoldsInvitation, TablesUnchanged, Pending, Founded
  <1>4. ASSUME NEW q \in Requests \ {p}, NEW s \in Requests \ {p}, q # s
        PROVE  Apart(q, s)'
    BY <1>2, <1>4 DEF Inductive, LocksExclusive, Apart, HoldsInvitation, HoldsMember, Dirty,
                      Joined, TablesUnchanged
  <1> QED
    BY <1>1, <1>3, <1>4 DEF Inductive, Fine, Apart, LocksExclusive

\* A step that answers a request and writes rows nobody else has locked.
LEMMA CommitFrame ==
    ASSUME Inductive, NEW p \in Requests, req' = [req EXCEPT ![p] = Idle],
           members' \in [Users -> Row], invites' \in [Invitations -> Invite],
           issued' \in SUBSET Tokens,
           OnePendingInvitation', PendingComplete',
           Founded => Founded',
           \A q \in Requests \ {p}, i \in Invitations :
                HoldsInvitation(q, i) => invites'[i] = invites[i],
           \A q \in Requests \ {p} : TransferReady(q)' /\ AcceptFresh(q)'
    PROVE  Inductive'
  <1>1. TypeOK'
    BY IdleType DEF Inductive, TypeOK
  <1>2. req'[p] = Idle /\ \A q \in Requests \ {p} : req'[q] = req[q]
    BY DEF Inductive, TypeOK
  <1>3. Fine(p)'
    BY <1>2, IdleType DEF Fine, WellFormed, InvitationLocked, TransferReady, AcceptFresh,
                HoldsInvitation, TargetSteps, InviteSteps, AcceptSteps, LockedSteps
  <1>4. ASSUME NEW q \in Requests \ {p} PROVE Fine(q)'
    <2>1. WellFormed(q)'
      BY <1>2 DEF Inductive, WellFormed
    <2>2. InvitationLocked(q)'
      BY <1>2 DEF Inductive, InvitationLocked, HoldsInvitation, Pending, WellFormed,
                  AcceptSteps, LockedSteps
    <2> QED
      BY <2>1, <2>2 DEF Fine
  <1>5. ASSUME NEW q \in Requests, NEW s \in Requests, q # s PROVE Apart(q, s)'
    <2>1. ASSUME NEW t \in {q, s} PROVE /\ t = p => \A i \in Invitations : ~HoldsInvitation(t, i)'
                                        /\ t = p => \A u \in Users : ~HoldsMember(t, u)'
      BY <1>2, IdleType DEF HoldsInvitation, HoldsMember
    <2>2. CASE q # p /\ s # p
      <3>1. ASSUME NEW t \in {q, s}, NEW u \in Users, HoldsMember(t, u)'
            PROVE  HoldsMember(t, u)
        <4>1. t \in Requests \ {p} /\ req'[t] = req[t]
          BY <1>2, <2>2
        <4>2. req[t].pc = "writeAccept" => req[t].inv \in Invitations /\ HoldsInvitation(t, req[t].inv)
          BY <4>1 DEF Inductive, WellFormed, LockedSteps, AcceptSteps, HoldsInvitation
        <4>3. req[t].pc = "writeAccept" => Dirty(t)' = Dirty(t)
          BY <4>1, <4>2 DEF Dirty, Joined
        <4> QED
          BY <3>1, <4>1, <4>3 DEF HoldsMember
      <3>2. ASSUME NEW t \in {q, s}, NEW i \in Invitations, HoldsInvitation(t, i)'
            PROVE  HoldsInvitation(t, i)
        BY <1>2, <2>2, <3>2 DEF HoldsInvitation
      <3> QED
        BY <1>5, <3>1, <3>2 DEF Inductive, LocksExclusive, Apart
    <2> QED
      BY <2>1, <2>2 DEF Apart
  <1> QED
    BY <1>1, <1>3, <1>4, <1>5 DEF Inductive, Fine, Apart, LocksExclusive

LEMMA FinishInductive ==
    ASSUME Inductive, NEW p \in Requests, Finish(p), TablesUnchanged
    PROVE  Inductive'
  <1>1. req'[p] = Idle
    BY DEF Inductive, TypeOK, Finish
  <1>2. Fine(p)'
    BY <1>1, IdleType DEF Fine, WellFormed, InvitationLocked, TransferReady, AcceptFresh,
                HoldsInvitation, TargetSteps, InviteSteps, AcceptSteps, LockedSteps
  <1>3. \A q \in Requests \ {p} : Apart(p, q)' /\ Apart(q, p)'
    BY <1>1, IdleType DEF Apart, HoldsInvitation, HoldsMember
  <1> QED
    BY <1>2, <1>3, IdleType, MoveFrame DEF Finish

-----------------------------------------------------------------------------
(* One lemma per group of actions that write no table *)

LEMMA ArriveInductive ==
    ASSUME Inductive, NEW p \in Requests, Arrive(p)
    PROVE  Inductive'
  <1> PICK u \in Users :
        \/ \E t \in Users : RequestTransfer(p, u, t) \/ RequestRevoke(p, u, t)
        \/ \E t \in Users, r \in Roles : RequestRoleChange(p, u, t, r) \/ RequestInvite(p, u, t, r)
        \/ \E i \in Invitations : RequestRevokeInvitation(p, u, i)
        \/ \E k \in Tokens : RequestAccept(p, u, k)
    BY DEF Arrive
  <1> DEFINE r == req'[p]
             Arrived == /\ req' = [req EXCEPT ![p] = r] /\ TablesUnchanged
                        /\ r \in Request
                        /\ r.pc \in {"lockOrg", "readRole", "readRevoke", "checkMember",
                                     "lockInvite", "lockToken"}
                        /\ r.actor \in Users /\ Founded
                        /\ r.pc \in TargetSteps => r.target \in Users
                        /\ r.pc = "checkMember" => /\ r.role \in Roles \ {"OWNER"}
                                                  /\ r.inv = NoInvitation
                        /\ r.pc = "readRole" => r.role \in Roles
                        /\ r.pc = "lockInvite" => r.inv \in Invitations
                        /\ r.pc = "lockToken" => r.token \in Tokens
  <1>1. Arrived
    <2>1. members[u].status = "ACTIVE" => Founded
      BY DEF Founded, NoRow
    <2>2. members[u] \in Row /\ req \in [Requests -> Request]
      BY DEF Inductive, TypeOK
    <2> USE <2>1, <2>2 DEF Start, TablesUnchanged, Request, Idle, Steps, NoRow, Row, TargetSteps, InviteSteps
    <2>3. ASSUME NEW t \in Users, RequestTransfer(p, u, t) PROVE Arrived
      BY <2>3 DEF RequestTransfer
    <2>4. ASSUME NEW t \in Users, RequestRevoke(p, u, t) PROVE Arrived
      BY <2>4 DEF RequestRevoke
    <2>5. ASSUME NEW t \in Users, NEW role \in Roles, RequestRoleChange(p, u, t, role) PROVE Arrived
      BY <2>5 DEF RequestRoleChange
    <2>6. ASSUME NEW t \in Users, NEW role \in Roles, RequestInvite(p, u, t, role) PROVE Arrived
      BY <2>6 DEF RequestInvite
    <2>7. ASSUME NEW i \in Invitations, RequestRevokeInvitation(p, u, i) PROVE Arrived
      BY ZenonT(60), <2>7 DEF RequestRevokeInvitation
    <2>8. ASSUME NEW k \in Tokens, RequestAccept(p, u, k) PROVE Arrived
      <3>1. Founded
        BY <2>8 DEF RequestAccept, Inductive, PendingComplete
      <3> QED
        BY ZenonT(60), <2>8, <3>1 DEF RequestAccept
    <2> QED
      BY <2>3, <2>4, <2>5, <2>6, <2>7, <2>8
  <1> HIDE DEF r
  <1>3. Fine(p)'
    <2>1. WellFormed(p)'
      BY <1>1 DEF r, WellFormed, TablesUnchanged, Founded, TargetSteps, InviteSteps,
                        LockedSteps, AcceptSteps
    <2>2. InvitationLocked(p)' /\ TransferReady(p)' /\ AcceptFresh(p)'
      BY <1>1 DEF r, InvitationLocked, TransferReady, AcceptFresh, HoldsInvitation, AcceptSteps
    <2> QED
      BY <2>1, <2>2 DEF Fine
  <1>4. \A q \in Requests \ {p} : Apart(p, q)' /\ Apart(q, p)'
    BY <1>1 DEF r, Apart, HoldsInvitation, HoldsMember
  <1> QED
    BY <1>1, <1>3, <1>4, MoveFrame

\* Steps of transfer_ownership up to the write.
LEMMA LockOrganizationInductive ==
    ASSUME Inductive, NEW p \in Requests, LockOrganization(p)
    PROVE  Inductive'
  <1> DEFINE r == [req[p] EXCEPT !.pc = "lockOwn"]
  <1>1. req' = [req EXCEPT ![p] = r] /\ TablesUnchanged /\ req'[p] = r /\ r \in Request
    BY DEF LockOrganization, Goto, Inductive, TypeOK, Request, Steps
  <1>2. Fine(p)'
    BY <1>1 DEF Inductive, Fine, WellFormed, InvitationLocked, TransferReady, AcceptFresh,
                HoldsInvitation, LockOrganization, TablesUnchanged, Founded, TypeOK, Request,
                TargetSteps, InviteSteps, LockedSteps, AcceptSteps
  <1>3. \A q \in Requests \ {p} : Apart(p, q)' /\ Apart(q, p)'
    BY <1>1 DEF Apart, HoldsInvitation, HoldsMember, Request
  <1> QED
    BY <1>1, <1>2, <1>3, MoveFrame

LEMMA LockOwnInductive ==
    ASSUME Inductive, NEW p \in Requests, LockOwnMembership(p)
    PROVE  Inductive'
  <1>1. CASE req[p].ctx.role = "OWNER"
    <2> DEFINE r == [req[p] EXCEPT !.pc = "lockTarget"]
    <2>1. req' = [req EXCEPT ![p] = r] /\ TablesUnchanged /\ req'[p] = r /\ r \in Request
      BY <1>1 DEF LockOwnMembership, Goto, Inductive, TypeOK, Request, Steps
    <2>2. Fine(p)'
      BY <1>1, <2>1 DEF Inductive, Fine, WellFormed, InvitationLocked, TransferReady, AcceptFresh,
                HoldsInvitation, LockOwnMembership, TablesUnchanged, Founded, TypeOK, Request,
                TargetSteps, InviteSteps, LockedSteps, AcceptSteps
    <2>3. ASSUME NEW q \in Requests \ {p} PROVE Apart(p, q)' /\ Apart(q, p)'
      <3>1. ~HoldsMember(q, req[p].actor)
        BY DEF LockOwnMembership, Unblocked, Blocks
      <3>2. \A u \in Users : HoldsMember(q, u)' => HoldsMember(q, u)
        BY <2>1 DEF HoldsMember, Dirty, Joined, TablesUnchanged, Inductive, TypeOK
      <3>3. \A u \in Users : HoldsMember(p, u)' => u = req[p].actor
        BY <2>1 DEF HoldsMember, Inductive, TypeOK, Request
      <3>4. \A i \in Invitations : ~HoldsInvitation(p, i)'
        BY <2>1 DEF HoldsInvitation, Inductive, TypeOK, Request
      <3> QED
        BY <3>1, <3>2, <3>3, <3>4 DEF Apart
    <2> QED
      BY <2>1, <2>2, <2>3, MoveFrame
  <1>2. CASE req[p].ctx.role # "OWNER"
    BY <1>2, FinishInductive DEF LockOwnMembership
  <1> QED
    BY <1>1, <1>2

LEMMA LockTargetInductive ==
    ASSUME Inductive, NEW p \in Requests, LockTarget(p)
    PROVE  Inductive'
  <1> DEFINE t == req[p].target
  <1>1. CASE members[t].status = "ACTIVE" /\ t # req[p].actor
    <2> DEFINE r == [req[p] EXCEPT !.pc = "writeTransfer", !.seen = members[t]]
    <2>0. t \in Users
      BY DEF Inductive, WellFormed, LockTarget, TargetSteps
    <2>1. req' = [req EXCEPT ![p] = r] /\ TablesUnchanged /\ req'[p] = r /\ r \in Request
      BY ZenonT(60), <1>1, <2>0 DEF LockTarget, Inductive, TypeOK, Request, Steps
    <2>2. Fine(p)'
      BY <1>1, <2>1 DEF Inductive, Fine, WellFormed, InvitationLocked, TransferReady, AcceptFresh,
                HoldsInvitation, LockTarget, TablesUnchanged, Founded, TypeOK, Request,
                TargetSteps, InviteSteps, LockedSteps, AcceptSteps
    <2>3. ASSUME NEW q \in Requests \ {p} PROVE Apart(p, q)' /\ Apart(q, p)'
      <3>1. ~HoldsMember(q, t)
        BY <1>1 DEF LockTarget, Unblocked, Blocks
      <3>2. HoldsMember(p, req[p].actor) /\ req[p].actor \in Users
        BY DEF LockTarget, HoldsMember, Inductive, WellFormed
      <3>3. ~HoldsMember(q, req[p].actor)
        BY <3>2 DEF Inductive, LocksExclusive
      <3>4. \A u \in Users : HoldsMember(q, u)' => HoldsMember(q, u)
        BY <2>1 DEF HoldsMember, Dirty, Joined, TablesUnchanged, Inductive, TypeOK
      <3>5. \A u \in Users : HoldsMember(p, u)' => u \in {t, req[p].actor}
        BY <2>1 DEF HoldsMember, Inductive, TypeOK, Request
      <3>6. \A i \in Invitations : ~HoldsInvitation(p, i)'
        BY <2>1 DEF HoldsInvitation, Inductive, TypeOK, Request
      <3> QED
        BY <3>1, <3>3, <3>4, <3>5, <3>6 DEF Apart
    <2> QED
      BY <2>1, <2>2, <2>3, MoveFrame
  <1>2. CASE ~(members[t].status = "ACTIVE" /\ t # req[p].actor)
    BY <1>2, FinishInductive DEF LockTarget
  <1> QED
    BY <1>1, <1>2

\* The unlocked reads of change_role and revoke_member, and of invite_member
\* before it locks a pending row: the request holds nothing afterwards.
LEMMA ReadInductive ==
    ASSUME Inductive, NEW p \in Requests,
           \/ ReadRoleTarget(p) \/ ReadRevokeTarget(p) \/ CheckNotMember(p)
    PROVE  Inductive'
  <1>1. CASE Finish(p) /\ TablesUnchanged
    BY <1>1, FinishInductive
  <1>2. CASE ~(Finish(p) /\ TablesUnchanged)
    <2> DEFINE r == req'[p]
    <2>0. req[p].target \in Users /\ Loaded(p) \in Row
      BY DEF Inductive, TypeOK, Request, WellFormed, ReadRoleTarget, ReadRevokeTarget,
             CheckNotMember, TargetSteps, InviteSteps, Loaded
    <2>1. /\ req' = [req EXCEPT ![p] = r] /\ TablesUnchanged /\ r \in Request
          /\ r.pc \in {"writeRole", "writeRevoke", "findPending"}
          /\ r.target = req[p].target /\ r.actor = req[p].actor /\ r.role = req[p].role
          /\ r.inv = req[p].inv
          /\ req[p].pc = CASE r.pc = "writeRole" -> "readRole"
                           [] r.pc = "writeRevoke" -> "readRevoke"
                           [] OTHER -> "checkMember"
          /\ r.pc = "writeRole" => r.role # "OWNER"
          /\ r.pc \in {"writeRole", "writeRevoke"} => r.seen.role # "OWNER"
      BY SMTT(40), <1>2, <2>0 DEF ReadRoleTarget, ReadRevokeTarget, CheckNotMember, Goto, Inductive,
                        TypeOK, Request, Steps
    <2> HIDE DEF r
    <2>2. WellFormed(p)'
      BY <2>0, <2>1 DEF r, Inductive, WellFormed, TablesUnchanged, Founded, TargetSteps,
                        InviteSteps, LockedSteps, AcceptSteps
    <2>3. InvitationLocked(p)' /\ TransferReady(p)' /\ AcceptFresh(p)'
      BY <2>1 DEF r, InvitationLocked, TransferReady, AcceptFresh, HoldsInvitation, AcceptSteps
    <2>4. \A q \in Requests \ {p} : Apart(p, q)' /\ Apart(q, p)'
      BY <2>1 DEF r, Apart, HoldsInvitation, HoldsMember
    <2> QED
      BY <2>1, <2>2, <2>3, <2>4, MoveFrame DEF Fine
  <1> QED
    BY <1>1, <1>2

\* The row locks of requests that do not move stay what they were.
LEMMA OthersLocks ==
    ASSUME Inductive, TablesUnchanged, NEW p \in Requests, NEW r,
           req' = [req EXCEPT ![p] = r], NEW q \in Requests \ {p}
    PROVE  /\ \A i \in Invitations : HoldsInvitation(q, i)' => HoldsInvitation(q, i)
           /\ \A u \in Users : HoldsMember(q, u)' => HoldsMember(q, u)
  BY DEF HoldsInvitation, HoldsMember, Dirty, Joined, TablesUnchanged, Inductive, TypeOK

\* Locks on invitations: the request ends up holding at most one row, which is
\* pending and which nobody else held.
LEMMA InvitationLockInductive ==
    ASSUME Inductive, NEW p \in Requests,
           FindPending(p) \/ LockPending(p) \/ LockInvitation(p) \/ LockToken(p)
    PROVE  Inductive'
  <1>1. CASE Finish(p) /\ TablesUnchanged
    BY <1>1, FinishInductive
  <1>2. CASE ~(Finish(p) /\ TablesUnchanged)
    <2> DEFINE r == req'[p]
               Locks(i) == /\ Pending(i) /\ i \in Invitations /\ r.inv = i
                           /\ \A q \in Requests \ {p} : ~HoldsInvitation(q, i)
               Kept == /\ r.target = req[p].target /\ r.actor = req[p].actor
                       /\ r.role = req[p].role /\ r.token = req[p].token
    <2>1. /\ req' = [req EXCEPT ![p] = r] /\ TablesUnchanged /\ r \in Request /\ Kept
          /\ req[p].pc # "idle"
          /\ \/ /\ r.pc = "lockPending" /\ r.inv \in Invitations
                /\ req[p].pc = "findPending"
             \/ /\ r.pc = "writeInvite" /\ req[p].pc \in InviteSteps
                /\ r.inv \in Invitations => Locks(r.inv)
             \/ r.pc = "writeRevokeInvite" /\ Locks(r.inv)
             \/ /\ r.pc = "flushMember" /\ Locks(r.inv) /\ req[p].pc = "lockToken"
                /\ invites[r.inv].email = r.actor /\ invites[r.inv].token = r.token
                /\ r.seen = members[r.actor]
      <3> USE DEF Inductive, TypeOK, Request, Steps, InviteSteps, Kept, Locks
      <3>1. CASE FindPending(p)
        BY <3>1, AbsentAssumption DEF FindPending, Goto, WellFormed, TargetSteps
      <3>2. CASE LockPending(p)
        BY <3>2, AbsentAssumption DEF LockPending, Goto, WellFormed, Unblocked, Blocks
      <3>3. CASE LockInvitation(p)
        <4>1. Pending(req[p].inv) /\ Unblocked(p) /\ Goto(p, "writeRevokeInvite")
          BY <1>2, <3>3 DEF LockInvitation
        <4> QED
          BY <3>3, <4>1 DEF LockInvitation, Goto, WellFormed, Unblocked, Blocks
      <3>4. CASE LockToken(p)
        <4>1. PICK i \in Invitations :
                /\ Redeemable(i, req[p].token) /\ Unblocked(p)
                /\ invites[i].email = req[p].actor
                /\ req' = [req EXCEPT ![p].pc = "flushMember", ![p].inv = i,
                                      ![p].seen = members[req[p].actor]]
          BY <1>2, <3>4 DEF LockToken
        <4>2. req[p].actor \in Users
          BY <3>4 DEF LockToken, WellFormed
        <4> QED
          BY ZenonT(60), <3>4, <4>1, <4>2 DEF LockToken, Redeemable, Unblocked, Blocks
      <3> QED
        BY <3>1, <3>2, <3>3, <3>4
    <2>2. WellFormed(p) /\ req[p] \in Request /\ members \in [Users -> Row]
      BY DEF Inductive, TypeOK
    <2> HIDE DEF r
    <2>3. WellFormed(p)'
      BY <2>1, <2>2 DEF r, WellFormed, TablesUnchanged, Founded, TargetSteps,
                        InviteSteps, LockedSteps, AcceptSteps
    <2>4. InvitationLocked(p)' /\ TransferReady(p)' /\ AcceptFresh(p)'
      BY <2>1, <2>2 DEF r, InvitationLocked, TransferReady, AcceptFresh, HoldsInvitation,
                        AcceptSteps, TablesUnchanged, Pending
    <2>5. ASSUME NEW q \in Requests \ {p} PROVE Apart(p, q)' /\ Apart(q, p)'
      <3>1. \A u \in Users : ~HoldsMember(p, u)'
        BY <2>1 DEF r, HoldsMember
      <3>2. ASSUME NEW i \in Invitations, HoldsInvitation(p, i)' PROVE Locks(i)
        BY <2>1, <3>2 DEF r, HoldsInvitation
      <3> QED
        BY <2>1, <3>1, <3>2, OthersLocks DEF Apart
    <2> QED
      BY <2>1, <2>3, <2>4, <2>5, MoveFrame DEF Fine
  <1> QED
    BY <1>1, <1>2

LEMMA FlushInductive ==
    ASSUME Inductive, NEW p \in Requests, FlushMembership(p)
    PROVE  Inductive'
  <1>1. CASE Finish(p) /\ TablesUnchanged
    BY <1>1, FinishInductive
  <1>2. CASE ~(Finish(p) /\ TablesUnchanged)
    <2> DEFINE r == [req[p] EXCEPT !.pc = "writeAccept"]
    <2>1. req' = [req EXCEPT ![p] = r] /\ TablesUnchanged /\ req'[p] = r /\ r \in Request
      BY <1>2 DEF FlushMembership, Goto, Inductive, TypeOK, Request, Steps
    <2>2. Fine(p)'
      BY <2>1 DEF Inductive, Fine, WellFormed, InvitationLocked, TransferReady, AcceptFresh,
                  HoldsInvitation, FlushMembership, TablesUnchanged, Founded, Pending, TypeOK,
                  Request, TargetSteps, InviteSteps, LockedSteps, AcceptSteps
    <2>3. ASSUME NEW q \in Requests \ {p} PROVE Apart(p, q)' /\ Apart(q, p)'
      <3>1. Dirty(p)' => ~HoldsMember(q, req[p].actor)
        BY <2>1 DEF FlushMembership, Unblocked, Blocks, Dirty, Joined, TablesUnchanged, Request
      <3>2. \A u \in Users : HoldsMember(p, u)' => u = req[p].actor /\ Dirty(p)'
        BY <2>1 DEF HoldsMember, Inductive, TypeOK, Request
      <3>3. \A i \in Invitations : HoldsInvitation(p, i)' => HoldsInvitation(p, i)
        BY <2>1 DEF HoldsInvitation, FlushMembership, Inductive, TypeOK, Request
      <3> QED
        BY <2>1, <3>1, <3>2, <3>3, OthersLocks DEF Apart, Inductive, LocksExclusive
    <2> QED
      BY <2>1, <2>2, <2>3, MoveFrame
  <1> QED
    BY <1>1, <1>2

-----------------------------------------------------------------------------
(* The writes *)

\* No write takes an account off the table.
RowStays(u) == members[u] # NoRow => members'[u] # NoRow
\* Who is no active member neither becomes one nor gets the role OWNER.
Tame(u) == members[u].status # "ACTIVE" =>
              /\ members'[u].status # "ACTIVE"
              /\ members'[u].role = "OWNER" => members[u].role = "OWNER"

\* A commit that writes memberships only.
LEMMA MembersFrame ==
    ASSUME Inductive, NEW p \in Requests, req' = [req EXCEPT ![p] = Idle],
           members' \in [Users -> Row], invites' = invites, issued' = issued,
           \A u \in Users : RowStays(u) /\ Tame(u),
           \A q \in Requests \ {p} : req[q].pc = "writeTransfer" =>
                members'[req[q].target] = members[req[q].target]
    PROVE  Inductive'
  <1>1. Founded => Founded'
    BY DEF RowStays, Founded
  <1>2. PendingComplete' /\ OnePendingInvitation'
    BY <1>1 DEF Inductive, PendingComplete, OnePendingInvitation, Pending
  <1>3. ASSUME NEW q \in Requests \ {p} PROVE TransferReady(q)' /\ AcceptFresh(q)'
    <2>1. req'[q] = req[q] /\ (req[q].pc \in AcceptSteps => req[q].actor \in Users)
      BY DEF Inductive, TypeOK, WellFormed, AcceptSteps
    <2> QED
      BY <2>1 DEF Inductive, TransferReady, AcceptFresh, Tame
  <1> QED
    BY <1>1, <1>2, <1>3, CommitFrame DEF Inductive, TypeOK

\* A rejected commit changes nothing but the request.
LEMMA CommitCases ==
    ASSUME Inductive, NEW p \in Requests, NEW m, NEW iv, Commit(p, m, iv), issued' = issued
    PROVE  \/ Inductive'
           \/ /\ members' = m /\ invites' = iv /\ PendingIndex(iv) /\ OwnerIndex(m)
              /\ req' = [req EXCEPT ![p] = Idle]
  BY CommitOutcome, FinishInductive DEF Finish, TablesUnchanged

LEMMA WriteTransferInductive ==
    ASSUME Inductive, NEW p \in Requests, WriteTransfer(p)
    PROVE  Inductive'
  <1> DEFINE a == req[p].actor
             t == req[p].target
  <1>1. a \in Users /\ t \in Users /\ a # t /\ members[t].status = "ACTIVE"
        /\ req[p].ctx \in Row /\ req[p].seen \in Row /\ members \in [Users -> Row]
        /\ req[p].ctx.role = "OWNER" /\ NoRow \in Row
    BY DEF Inductive, TypeOK, Request, WellFormed, TransferReady, WriteTransfer, TargetSteps,
           NoRow, Row
  <1>2. ASSUME members' = Transferred(p), invites' = invites, req' = [req EXCEPT ![p] = Idle]
        PROVE  Inductive'
    <2>1. /\ members'[a].role = "ADMIN" /\ members'[a].status = members[a].status
          /\ members'[t].role \in {"OWNER", members[t].role} /\ members'[t].status = "ACTIVE"
          /\ \A u \in Users \ {a, t} : members'[u] = members[u]
          /\ members' \in [Users -> Row]
      <3> DEFINE toAdmin == [req[p].ctx EXCEPT !.role = "ADMIN"]
                 toOwner == [req[p].seen EXCEPT !.role = "OWNER"]
      <3>1. /\ members'[a] = Flushed(members[a], req[p].ctx, toAdmin)
            /\ members'[t] = Flushed(members[t], req[p].seen, toOwner)
            /\ \A u \in Users \ {a, t} : members'[u] = members[u]
            /\ members' = [members EXCEPT ![a] = members'[a], ![t] = members'[t]]
        BY <1>1, <1>2 DEF Transferred
      <3>2. toAdmin \in Row /\ toOwner \in Row /\ members[a] \in Row /\ members[t] \in Row
        BY <1>1 DEF Row, Roles, ManagerRoles
      <3>3. /\ toAdmin.role = "ADMIN" /\ toAdmin.status = req[p].ctx.status
            /\ toOwner.role = "OWNER" /\ toOwner.status = req[p].seen.status
        BY <1>1 DEF Row
      <3>4. members'[a].role = "ADMIN" /\ members'[a].status = members[a].status
        BY <1>1, <3>1, <3>3 DEF Flushed
      <3>5. members'[t].role \in {"OWNER", members[t].role} /\ members'[t].status = "ACTIVE"
        BY <1>1, <3>1, <3>3 DEF Flushed
      <3>6. members'[a] \in Row /\ members'[t] \in Row
        BY <1>1, <3>1, <3>2, FlushedType
      <3> QED
        BY <1>1, <3>1, <3>4, <3>5, <3>6
    <2>2. \A u \in Users : RowStays(u) /\ Tame(u)
      BY <1>1, <2>1 DEF RowStays, Tame, NoRow
    <2>3. ASSUME NEW q \in Requests \ {p}, req[q].pc = "writeTransfer"
          PROVE  members'[req[q].target] = members[req[q].target]
      <3>1. /\ HoldsMember(p, a) /\ HoldsMember(p, t) /\ HoldsMember(q, req[q].target)
            /\ req[q].target \in Users
        BY <2>3 DEF WriteTransfer, HoldsMember, Inductive, WellFormed, TargetSteps
      <3>2. req[q].target \notin {a, t}
        BY <1>1, <3>1 DEF Inductive, LocksExclusive
      <3> QED
        BY <2>1, <3>1, <3>2
    <2> QED
      BY <1>2, <2>1, <2>2, <2>3, MembersFrame DEF WriteTransfer
  <1> QED
    BY <1>2, CommitCases DEF WriteTransfer

LEMMA WriteRoleInductive ==
    ASSUME Inductive, NEW p \in Requests, WriteRole(p)
    PROVE  Inductive'
  <1> DEFINE t == req[p].target
             m == [members EXCEPT ![t] = Flushed(@, req[p].seen, [req[p].seen EXCEPT !.role = req[p].role])]
  <1>1. t \in Users /\ req[p].role \in Roles \ {"OWNER", "NONE"}
        /\ req[p].seen \in Row /\ members \in [Users -> Row]
    BY SMTT(40), RolesAssumption DEF Inductive, TypeOK, Request, WellFormed, WriteRole, TargetSteps,
           InviteSteps, Roles, ManagerRoles
  <1>2. ASSUME members' = m, invites' = invites, req' = [req EXCEPT ![p] = Idle]
        PROVE  Inductive'
    <2>1. /\ members'[t].role \in {req[p].role, members[t].role}
          /\ members'[t].status = members[t].status
          /\ \A u \in Users \ {t} : members'[u] = members[u]
          /\ members' \in [Users -> Row]
      BY <1>1, <1>2 DEF Flushed, Row
    <2>2. \A u \in Users : RowStays(u) /\ Tame(u)
      BY <1>1, <2>1 DEF RowStays, Tame, NoRow, Row
    <2>3. \A q \in Requests \ {p} : req[q].pc # "writeTransfer"
      BY DEF WriteRole, Unblocked, Blocks, HoldsOrganization
    <2> QED
      BY <1>2, <2>1, <2>2, <2>3, MembersFrame DEF WriteRole
  <1> QED
    BY <1>2, CommitCases DEF WriteRole

LEMMA WriteRevokeInductive ==
    ASSUME Inductive, NEW p \in Requests, WriteRevoke(p)
    PROVE  Inductive'
  <1> DEFINE t == req[p].target
             m == [members EXCEPT ![t] = Flushed(@, req[p].seen, [req[p].seen EXCEPT !.status = "REVOKED"])]
  <1>1. t \in Users /\ req[p].seen \in Row /\ members \in [Users -> Row]
    BY DEF Inductive, TypeOK, Request, WellFormed, WriteRevoke, TargetSteps
  <1>2. ASSUME members' = m, invites' = invites, req' = [req EXCEPT ![p] = Idle]
        PROVE  Inductive'
    <2>1. /\ members'[t].role = members[t].role
          /\ members'[t].status \in {"REVOKED", members[t].status}
          /\ \A u \in Users \ {t} : members'[u] = members[u]
          /\ members' \in [Users -> Row]
      BY <1>1, <1>2 DEF Flushed, Row
    <2>2. \A u \in Users : RowStays(u) /\ Tame(u)
      BY <1>1, <2>1 DEF RowStays, Tame, NoRow, Row
    <2>3. \A q \in Requests \ {p} : req[q].pc # "writeTransfer"
      BY DEF WriteRevoke, Unblocked, Blocks, HoldsOrganization
    <2> QED
      BY <1>2, <2>1, <2>2, <2>3, MembersFrame DEF WriteRevoke
  <1> QED
    BY <1>2, CommitCases DEF WriteRevoke

\* A commit that writes one invitation row nobody else has locked.
LEMMA InvitesFrame ==
    ASSUME Inductive, NEW p \in Requests, req' = [req EXCEPT ![p] = Idle],
           members' = members, issued' \in SUBSET Tokens, Founded,
           NEW i \in Invitations, NEW row \in Invite, invites' = [invites EXCEPT ![i] = row],
           row.status = "PENDING" => row.email \in Users /\ row.role # "NONE",
           \A q \in Requests \ {p} : ~HoldsInvitation(q, i),
           PendingIndex(invites')
    PROVE  Inductive'
  <1>1. /\ invites' \in [Invitations -> Invite] /\ invites'[i] = row
        /\ \A j \in Invitations \ {i} : invites'[j] = invites[j]
    BY DEF Inductive, TypeOK
  <1>2. OnePendingInvitation' /\ PendingComplete' /\ Founded'
    BY <1>1 DEF OnePendingInvitation, PendingIndex, PendingComplete, Pending, Founded, Inductive
  <1>3. ASSUME NEW q \in Requests \ {p} PROVE TransferReady(q)' /\ AcceptFresh(q)'
    BY DEF Inductive, TypeOK, TransferReady, AcceptFresh
  <1>4. \A q \in Requests \ {p}, j \in Invitations :
            HoldsInvitation(q, j) => invites'[j] = invites[j]
    BY <1>1
  <1>5. members' \in [Users -> Row]
    BY DEF Inductive, TypeOK
  <1> QED
    BY <1>1, <1>2, <1>3, <1>4, <1>5, CommitFrame

LEMMA WriteInviteInductive ==
    ASSUME Inductive, NEW p \in Requests, WriteInvite(p)
    PROVE  Inductive'
  <1> DEFINE Reissued(k) == [status |-> "PENDING", email |-> req[p].target, role |-> req[p].role,
                             token |-> k, expired |-> FALSE]
  <1>1. PICK i \in Invitations, k \in Tokens \ issued :
            /\ IF req[p].inv = NoInvitation THEN invites[i].status = "UNUSED" ELSE i = req[p].inv
            /\ Commit(p, members, [invites EXCEPT ![i] = Reissued(k)])
            /\ issued' = issued \cup {k}
    BY DEF WriteInvite
  <1>2. Founded /\ Reissued(k) \in Invite /\ issued' \in SUBSET Tokens
        /\ req[p].target \in Users /\ req[p].role # "NONE"
    BY <1>1, RolesAssumption
    DEF WriteInvite, Inductive, TypeOK, WellFormed, Invite, Request, TargetSteps, InviteSteps,
        Roles, ManagerRoles
  <1>3. ASSUME NEW q \in Requests \ {p} PROVE ~HoldsInvitation(q, i)
    <2>1. HoldsInvitation(q, i) => Pending(i)
      BY DEF Inductive, InvitationLocked
    <2>2. req[p].inv # NoInvitation => HoldsInvitation(p, i)
      BY <1>1 DEF WriteInvite, HoldsInvitation
    <2> QED
      BY <1>1, <2>1, <2>2 DEF Pending, Inductive, LocksExclusive
  <1>4. CASE invites' = [invites EXCEPT ![i] = Reissued(k)] /\ members' = members
             /\ PendingIndex([invites EXCEPT ![i] = Reissued(k)])
    BY ZenonT(60), <1>1, <1>2, <1>3, <1>4, InvitesFrame, CommitOutcome
  <1>5. CASE invites' = invites /\ members' = members
    <2>1. PendingComplete' /\ OnePendingInvitation' /\ Founded'
      BY <1>2, <1>5 DEF Inductive, PendingComplete, OnePendingInvitation, Pending, Founded
    <2>2. ASSUME NEW q \in Requests \ {p} PROVE TransferReady(q)' /\ AcceptFresh(q)'
      BY <1>1, <1>5, CommitOutcome DEF Inductive, TypeOK, TransferReady, AcceptFresh
    <2> QED
      BY <1>1, <1>2, <1>5, <2>1, <2>2, CommitFrame, CommitOutcome DEF Inductive, TypeOK
  <1> QED
    BY <1>1, <1>4, <1>5, CommitOutcome

LEMMA WriteRevokeInvitationInductive ==
    ASSUME Inductive, NEW p \in Requests, WriteRevokeInvitation(p)
    PROVE  Inductive'
  <1> DEFINE i == req[p].inv
             row == [invites[i] EXCEPT !.status = "REVOKED"]
  <1>1. /\ i \in Invitations /\ row \in Invite /\ row.status = "REVOKED"
        /\ Founded /\ HoldsInvitation(p, i)
    BY DEF WriteRevokeInvitation, Inductive, TypeOK, WellFormed, Invite, LockedSteps, HoldsInvitation
  <1>2. \A q \in Requests \ {p} : ~HoldsInvitation(q, i)
    BY <1>1 DEF Inductive, LocksExclusive
  <1>3. ASSUME members' = members, invites' = [invites EXCEPT ![i] = row],
               PendingIndex(invites'), req' = [req EXCEPT ![p] = Idle]
        PROVE  Inductive'
    BY <1>1, <1>2, <1>3, InvitesFrame DEF WriteRevokeInvitation, Inductive, TypeOK
  <1>4. [invites EXCEPT ![req[p].inv].status = "REVOKED"] = [invites EXCEPT ![i] = row]
    BY <1>1 DEF Inductive, TypeOK
  <1> QED
    BY <1>3, <1>4, CommitCases DEF WriteRevokeInvitation

\* Two acceptances under way belong to different accounts: both hold a pending
\* invitation to their account's address, and an address has one.
LEMMA OneAcceptance ==
    ASSUME Inductive, NEW p \in Requests, NEW q \in Requests, p # q,
           req[p].pc \in AcceptSteps, req[q].pc \in AcceptSteps
    PROVE  req[p].actor # req[q].actor
  <1>1. /\ req[p].inv \in Invitations /\ HoldsInvitation(p, req[p].inv)
        /\ req[q].inv \in Invitations /\ HoldsInvitation(q, req[q].inv)
    BY DEF Inductive, WellFormed, LockedSteps, AcceptSteps, HoldsInvitation
  <1> QED
    BY <1>1 DEF Inductive, InvitationLocked, OnePendingInvitation, LocksExclusive

LEMMA WriteAcceptInductive ==
    ASSUME Inductive, NEW p \in Requests, WriteAccept(p)
    PROVE  Inductive'
  <1> DEFINE a == req[p].actor
             i == req[p].inv
             m == [members EXCEPT ![a] = Flushed(@, req[p].seen, Joined(p))]
             row == [invites[i] EXCEPT !.status = "ACCEPTED"]
  <1>1. /\ a \in Users /\ i \in Invitations /\ req[p].seen \in Row
        /\ HoldsInvitation(p, i) /\ Founded /\ members \in [Users -> Row]
        /\ invites \in [Invitations -> Invite] /\ req[p].pc \in AcceptSteps
    BY DEF WriteAccept, Inductive, TypeOK, Request, WellFormed, LockedSteps, AcceptSteps,
           HoldsInvitation
  <1>2. Pending(i) /\ invites[i].role \in Roles \ {"OWNER", "NONE"}
    BY <1>1, RolesAssumption
    DEF Inductive, InvitationLocked, PendingComplete, Invite, Roles, ManagerRoles
  <1>3. \A q \in Requests \ {p} : ~HoldsInvitation(q, i)
    BY <1>1 DEF Inductive, LocksExclusive
  <1>4. ASSUME members' = m, invites' = [invites EXCEPT ![i] = row],
               PendingIndex(invites'), req' = [req EXCEPT ![p] = Idle]
        PROVE  Inductive'
    <2>1. /\ members'[a].role \in {invites[i].role, members[a].role}
          /\ members'[a].status \in {"ACTIVE", members[a].status}
          /\ \A u \in Users \ {a} : members'[u] = members[u]
          /\ members' \in [Users -> Row]
      BY <1>1, <1>2, <1>4 DEF Flushed, Joined, Row
    <2>2. Founded'
      BY <1>1, <1>2, <2>1 DEF Founded, NoRow, Row
    <2>3. /\ invites' \in [Invitations -> Invite]
          /\ \A j \in Invitations \ {i} : invites'[j] = invites[j]
          /\ invites'[i].status = "ACCEPTED"
      BY <1>1, <1>4 DEF Invite
    <2>4. OnePendingInvitation' /\ PendingComplete'
      BY <1>4, <2>2, <2>3 DEF OnePendingInvitation, PendingIndex, PendingComplete, Pending,
                              Inductive
    <2>5. ASSUME NEW q \in Requests \ {p} PROVE TransferReady(q)' /\ AcceptFresh(q)'
      <3>1. req'[q] = req[q]
        BY <1>4 DEF Inductive, TypeOK
      <3>2. TransferReady(q)'
        <4>1. req[q].pc # "writeTransfer"
          BY DEF WriteAccept, Unblocked, Blocks, HoldsOrganization
        <4> QED
          BY <3>1, <4>1 DEF Inductive, TransferReady
      <3>3. req[q].pc \in AcceptSteps => req[q].actor \in Users /\ req[q].actor # a
        BY <1>1, OneAcceptance DEF Inductive, WellFormed, AcceptSteps
      <3>4. AcceptFresh(q)'
        BY <2>1, <3>1, <3>3 DEF Inductive, AcceptFresh
      <3> QED
        BY <3>2, <3>4
    <2>6. \A q \in Requests \ {p}, j \in Invitations :
              HoldsInvitation(q, j) => invites'[j] = invites[j]
      BY <1>3, <2>3
    <2>7. issued' \in SUBSET Tokens
      BY DEF WriteAccept, Inductive, TypeOK
    <2> QED
      BY <1>4, <2>1, <2>2, <2>3, <2>4, <2>5, <2>6, <2>7, CommitFrame
  <1>5. [invites EXCEPT ![req[p].inv].status = "ACCEPTED"] = [invites EXCEPT ![i] = row]
    BY <1>1
  <1> QED
    BY <1>4, <1>5, CommitCases DEF WriteAccept

-----------------------------------------------------------------------------
(* The environment, and the whole *)

LEMMA InitInductive == Init => Inductive
  <1> SUFFICES ASSUME Init PROVE Inductive
    OBVIOUS
  <1>1. TypeOK
    BY IdleType DEF Init, TypeOK, Row, NoRow, Invite, NoInvite
  <1>2. \A p \in Requests : req[p].pc = "idle"
    BY IdleType DEF Init
  <1>3. \A i \in Invitations : ~Pending(i)
    BY DEF Init, Pending, NoInvite
  <1> QED
    BY <1>1, <1>2, <1>3
    DEF Init, Inductive, OnePendingInvitation, PendingComplete, LocksExclusive, WellFormed,
        InvitationLocked, TransferReady, AcceptFresh, HoldsInvitation, HoldsMember,
        TargetSteps, InviteSteps, LockedSteps, AcceptSteps

LEMMA CreateInductive ==
    ASSUME Inductive, NEW u \in Users, CreateOrganization(u)
    PROVE  Inductive'
  <1>1. /\ members' \in [Users -> Row] /\ members'[u] # NoRow
        /\ invites' = invites /\ issued' = issued /\ req' = req
    BY DEF CreateOrganization, Inductive, TypeOK, Row, Roles, ManagerRoles, NoRow
  <1>2. \A p \in Requests : req[p].pc = "idle"
    BY DEF CreateOrganization, Inductive, WellFormed
  <1> QED
    BY <1>1, <1>2
    DEF Inductive, TypeOK, OnePendingInvitation, PendingComplete, LocksExclusive, WellFormed,
        InvitationLocked, TransferReady, AcceptFresh, HoldsInvitation, HoldsMember, Pending,
        TargetSteps, InviteSteps, LockedSteps, AcceptSteps, Founded

LEMMA ExpireInductive ==
    ASSUME Inductive, NEW i \in Invitations, InvitationExpires(i)
    PROVE  Inductive'
  <1>1. /\ invites' \in [Invitations -> Invite]
        /\ \A j \in Invitations : /\ invites'[j].status = invites[j].status
                                  /\ invites'[j].email = invites[j].email
                                  /\ invites'[j].role = invites[j].role
                                  /\ invites'[j].token = invites[j].token
        /\ members' = members /\ issued' = issued /\ req' = req
    BY ZenonT(60) DEF InvitationExpires, Inductive, TypeOK, Invite
  <1>2. TypeOK' /\ OnePendingInvitation' /\ PendingComplete'
    BY <1>1 DEF Inductive, TypeOK, OnePendingInvitation, PendingComplete, Pending, Founded
  <1>3. ASSUME NEW p \in Requests PROVE Fine(p)'
    BY <1>1 DEF Inductive, Fine, WellFormed, InvitationLocked, TransferReady, AcceptFresh,
                HoldsInvitation, Pending, Founded, LockedSteps, AcceptSteps
  <1>4. ASSUME NEW p \in Requests, NEW u \in Users PROVE HoldsMember(p, u)' = HoldsMember(p, u)
    <2>1. req[p].pc = "writeAccept" => Dirty(p)' = Dirty(p)
      BY <1>1 DEF Inductive, WellFormed, LockedSteps, AcceptSteps, Dirty, Joined
    <2> QED
      BY <1>1, <2>1 DEF HoldsMember
  <1>5. LocksExclusive'
    BY <1>1, <1>4 DEF Inductive, LocksExclusive, HoldsInvitation
  <1> QED
    BY <1>2, <1>3, <1>5 DEF Inductive, Fine

LEMMA NextInductive == Inductive /\ [Next]_vars => Inductive'
  <1> SUFFICES ASSUME Inductive, [Next]_vars PROVE Inductive'
    OBVIOUS
  <1>1. CASE Environment
    BY <1>1, CreateInductive, ExpireInductive DEF Environment
  <1>2. ASSUME NEW p \in Requests, RequestStep(p) PROVE Inductive'
    <2>1. CASE Serve(p)
      BY <2>1, LockOrganizationInductive, LockOwnInductive, LockTargetInductive,
         WriteTransferInductive, ReadInductive, WriteRoleInductive, WriteRevokeInductive,
         InvitationLockInductive, WriteInviteInductive, WriteRevokeInvitationInductive,
         FlushInductive, WriteAcceptInductive DEF Serve
    <2>2. CASE Abandon(p) \/ DeadlockVictim(p)
      BY <2>2, FinishInductive DEF Abandon, DeadlockVictim, Reject
    <2> QED
      BY <1>2, <2>1, <2>2, ArriveInductive DEF RequestStep
  <1>3. CASE UNCHANGED vars
    BY <1>3 DEF vars, Inductive, TypeOK, OnePendingInvitation, PendingComplete, LocksExclusive,
        WellFormed, InvitationLocked, TransferReady, AcceptFresh, HoldsInvitation, HoldsMember,
        Dirty, Joined, Pending, Founded
  <1> QED
    BY <1>1, <1>2, <1>3 DEF Next

\* The state of every run is well typed, and row locks, loaded copies and
\* tables relate to each other as Inductive says.
THEOREM InductiveInvariant == Spec => []Inductive
  BY InitInductive, NextInductive, PTL DEF Spec

\* The tables and requests keep their types (TypeOK).
THEOREM TypeCorrect == Spec => []TypeOK
  <1>1. Inductive => TypeOK
    BY DEF Inductive
  <1> QED
    BY <1>1, InductiveInvariant, PTL

-----------------------------------------------------------------------------
(* Which steps write the tables                                            *)

Writes(p) ==
    \/ WriteTransfer(p) \/ WriteRole(p) \/ WriteRevoke(p) \/ WriteInvite(p)
    \/ WriteRevokeInvitation(p) \/ WriteAccept(p)

LEMMA StepWrites ==
    ASSUME NEW p \in Requests, RequestStep(p)
    PROVE  Writes(p) \/ (members' = members /\ invites' = invites)
  <1>1. CASE Arrive(p)
    BY <1>1 DEF Arrive, RequestTransfer, RequestRevoke, RequestRoleChange, RequestInvite,
                RequestRevokeInvitation, RequestAccept, Start, TablesUnchanged
  <1>2. CASE Serve(p)
    BY <1>2 DEF Serve, Writes, LockOrganization, LockOwnMembership, LockTarget, ReadRoleTarget,
                ReadRevokeTarget, CheckNotMember, FindPending, LockPending, LockInvitation,
                LockToken, FlushMembership, TablesUnchanged
  <1>3. CASE Abandon(p) \/ DeadlockVictim(p)
    BY <1>3 DEF Abandon, DeadlockVictim, Reject, TablesUnchanged
  <1> QED
    BY <1>1, <1>2, <1>3 DEF RequestStep

LEMMA TableSteps ==
    ASSUME [Next]_vars
    PROVE  \/ members' = members /\ invites' = invites
           \/ \E u \in Users : CreateOrganization(u)
           \/ \E i \in Invitations : InvitationExpires(i)
           \/ \E p \in Requests : Writes(p)
  BY StepWrites DEF Next, Environment, vars

\* The index through every step; SerialInductive takes it from here.
LEMMA OneOwnerStep ==
    ASSUME AtMostOneActiveOwner, [Next]_vars PROVE AtMostOneActiveOwner'
  <1>1. ASSUME NEW p \in Requests, NEW m, NEW iv, Commit(p, m, iv) PROVE AtMostOneActiveOwner'
    BY <1>1, CommitOutcome DEF AtMostOneActiveOwner, OwnerIndex, ActiveOwner
  <1>2. ASSUME NEW p \in Requests, Writes(p) PROVE AtMostOneActiveOwner'
    BY <1>1, <1>2 DEF Writes, WriteTransfer, WriteRole, WriteRevoke, WriteInvite,
                      WriteRevokeInvitation, WriteAccept
  <1>3. ASSUME NEW u \in Users, CreateOrganization(u) PROVE AtMostOneActiveOwner'
    BY <1>3 DEF CreateOrganization, Founded, NoRow, AtMostOneActiveOwner, ActiveOwner
  <1>4. ASSUME members' = members PROVE AtMostOneActiveOwner'
    BY <1>4 DEF AtMostOneActiveOwner, ActiveOwner
  <1> QED
    BY <1>2, <1>3, <1>4, TableSteps DEF InvitationExpires

-----------------------------------------------------------------------------
(* What a step may do to a membership                                      *)

\* The commit of an acceptance: the row is the one Flushed computes from the
\* copy the request loaded, and the invitation is the one it holds.
LEMMA AcceptStep ==
    ASSUME Inductive, NEW p \in Requests, WriteAccept(p)
    PROVE  /\ req[p].actor \in Users /\ req[p].inv \in Invitations
           /\ Pending(req[p].inv) /\ invites[req[p].inv].email = req[p].actor
           /\ invites[req[p].inv].token = req[p].token
           /\ invites[req[p].inv].role \in Roles \ {"OWNER", "NONE"}
           /\ \/ members' = members /\ invites' = invites
              \/ /\ members' = [members EXCEPT ![req[p].actor] =
                                    Flushed(@, req[p].seen, Joined(p))]
                 /\ invites' = [invites EXCEPT ![req[p].inv].status = "ACCEPTED"]
  <1>1. /\ req[p].actor \in Users /\ req[p].inv \in Invitations
        /\ HoldsInvitation(p, req[p].inv)
    BY DEF WriteAccept, Inductive, WellFormed, LockedSteps, AcceptSteps, HoldsInvitation
  <1>2. /\ Pending(req[p].inv) /\ invites[req[p].inv].email = req[p].actor
        /\ invites[req[p].inv].token = req[p].token
    BY <1>1 DEF WriteAccept, Inductive, InvitationLocked, AcceptSteps
  <1>3. invites[req[p].inv].role \in Roles \ {"OWNER", "NONE"}
    BY <1>1, <1>2, RolesAssumption
       DEF Inductive, PendingComplete, TypeOK, Invite, Roles, ManagerRoles
  <1>4. \/ members' = members /\ invites' = invites
        \/ /\ members' = [members EXCEPT ![req[p].actor] = Flushed(@, req[p].seen, Joined(p))]
           /\ invites' = [invites EXCEPT ![req[p].inv].status = "ACCEPTED"]
    BY CommitOutcome DEF WriteAccept
  <1> QED
    BY <1>1, <1>2, <1>3, <1>4

\* The commit of a transfer: the requester ends up as administrator, the target, whose row
\* is the one that was locked, as the active owner, and nobody else is touched.
LEMMA TransferStep ==
    ASSUME Inductive, NEW p \in Requests, WriteTransfer(p)
    PROVE  /\ req[p].pc = "writeTransfer" /\ req[p].ctx.role = "OWNER"
           /\ req[p].target \in Users /\ req[p].actor \in Users /\ req[p].target # req[p].actor
           /\ req'[p].pc = "idle" /\ invites' = invites
           /\ \/ members' = members
              \/ /\ members'[req[p].actor].role = "ADMIN"
                 /\ ActiveOwner(members'[req[p].target])
                 /\ \A v \in Users : v # req[p].actor /\ v # req[p].target
                                        => members'[v] = members[v]
                 /\ OwnerIndex(members')
  <1> DEFINE a == req[p].actor
             t == req[p].target
             toAdmin == [req[p].ctx EXCEPT !.role = "ADMIN"]
             toOwner == [members[t] EXCEPT !.role = "OWNER"]
  <1>1. /\ req[p].pc = "writeTransfer" /\ req[p].ctx.role = "OWNER"
        /\ t \in Users /\ a \in Users /\ t # a /\ members \in [Users -> Row]
        /\ req[p].ctx \in Row /\ req[p].seen = members[t] /\ members[t].status = "ACTIVE"
    BY DEF WriteTransfer, Inductive, TransferReady, WellFormed, TargetSteps, TypeOK, Request
  <1>2. /\ req'[p].pc = "idle" /\ invites' = invites
        /\ members' = members \/ (members' = Transferred(p) /\ OwnerIndex(members'))
    BY CommitOutcome, IdleType DEF WriteTransfer, Inductive, TypeOK
  <1>3. ASSUME members' = Transferred(p)
        PROVE  /\ members'[a].role = "ADMIN" /\ ActiveOwner(members'[t])
               /\ \A v \in Users : v # a /\ v # t => members'[v] = members[v]
    <2>1. /\ members'[a] = Flushed(members[a], req[p].ctx, toAdmin)
          /\ members'[t] = Flushed(members[t], members[t], toOwner)
          /\ \A v \in Users : v # a /\ v # t => members'[v] = members[v]
      BY <1>1, <1>3 DEF Transferred
    <2>2. toAdmin.role = "ADMIN" /\ toOwner.role = "OWNER" /\ toOwner.status = "ACTIVE"
      BY <1>1 DEF Row
    <2>3. members'[a].role = "ADMIN"
      BY <1>1, <2>1, <2>2 DEF Flushed
    <2>4. ActiveOwner(members'[t])
      BY <1>1, <2>1, <2>2 DEF Flushed, ActiveOwner
    <2> QED
      BY <2>1, <2>3, <2>4
  <1> QED
    BY <1>1, <1>2, <1>3

LEMMA OwnerStep ==
    ASSUME Inductive, [Next]_vars, NEW u \in Users PROVE BecomesOwnerByTransfer(u)
  <1> SUFFICES ASSUME ~ActiveOwner(members[u]), ActiveOwner(members'[u]), Founded
               PROVE  \E p \in Requests :
                          /\ req[p].pc = "writeTransfer" /\ req'[p].pc = "idle"
                          /\ req[p].target = u /\ req[p].ctx.role = "OWNER"
                          /\ \A v \in Users : ActiveOwner(members[v]) => v = req[p].actor
                          /\ \A v \in Users : ActiveOwner(members'[v]) => v = u
    BY DEF BecomesOwnerByTransfer
  <1>1. PICK p \in Requests : Writes(p)
    BY TableSteps DEF CreateOrganization, InvitationExpires
  <1>2. CASE WriteTransfer(p)
    <2>1. /\ members'[req[p].actor].role = "ADMIN"
          /\ \A v \in Users : v # req[p].actor /\ v # req[p].target => members'[v] = members[v]
          /\ OwnerIndex(members')
      BY <1>2, TransferStep
    <2>2. u = req[p].target
      BY <2>1 DEF ActiveOwner
    <2>3. \A v \in Users : ActiveOwner(members'[v]) => v = u
      BY <2>1 DEF OwnerIndex
    <2>4. \A v \in Users : ActiveOwner(members[v]) => v = req[p].actor
      BY <2>1, <2>2, <2>3
    <2> QED
      BY <1>2, <2>2, <2>3, <2>4, TransferStep
  <1>3. CASE WriteRole(p)
    <2>1. req[p].role # "OWNER" /\ req[p].target \in Users
      BY <1>3 DEF WriteRole, Inductive, WellFormed, TargetSteps
    <2>2. members' = [members EXCEPT ![req[p].target] =
                          Flushed(@, req[p].seen, [req[p].seen EXCEPT !.role = req[p].role])]
      BY <1>3, CommitOutcome DEF WriteRole
    <2> QED
      BY <2>1, <2>2 DEF Flushed, ActiveOwner, Inductive, TypeOK, Row, Request
  <1>4. CASE WriteRevoke(p)
    <2>1. members' = [members EXCEPT ![req[p].target] =
                          Flushed(@, req[p].seen, [req[p].seen EXCEPT !.status = "REVOKED"])]
      BY <1>4, CommitOutcome DEF WriteRevoke
    <2> QED
      BY <2>1 DEF Flushed, ActiveOwner, Inductive, TypeOK, Row, Request
  <1>5. CASE WriteAccept(p)
    <2>1. /\ req[p].actor \in Users /\ Joined(p).role # "OWNER" /\ Joined(p).status = "ACTIVE"
          /\ members' = [members EXCEPT ![req[p].actor] = Flushed(@, req[p].seen, Joined(p))]
      BY <1>5, AcceptStep DEF Joined
    <2>2. req[p].seen.status # "ACTIVE" /\ req[p].seen.role # "OWNER"
             => members[req[p].actor].role # "OWNER"
      BY <1>5 DEF WriteAccept, Inductive, AcceptFresh, AcceptSteps
    <2> QED
      BY <2>1, <2>2 DEF Flushed, ActiveOwner, Inductive, TypeOK, Row, Request
  <1>6. CASE WriteInvite(p) \/ WriteRevokeInvitation(p)
    BY <1>6, CommitOutcome DEF WriteInvite, WriteRevokeInvitation
  <1> QED
    BY <1>1, <1>2, <1>3, <1>4, <1>5, <1>6 DEF Writes

\* Whoever becomes the owner was appointed by the only owner there was, if there was one, and
\* is the only one afterwards: of two transfers that both loaded the role OWNER one is rejected,
\* and no role change or acceptance, with however stale a copy, makes anybody the owner.
THEOREM OwnersByTransfer == Spec => OwnerOnlyByTransfer
  <1>1. Inductive /\ [Next]_vars => \A u \in Users : BecomesOwnerByTransfer(u)
    BY OwnerStep
  <1> QED
    BY <1>1, InductiveInvariant, PTL DEF Spec, OwnerOnlyByTransfer

LEMMA LossStep ==
    ASSUME Inductive, [Next]_vars, NEW u \in Users PROVE LosesOwnershipByCause(u)
  <1> SUFFICES ASSUME ActiveOwner(members[u]), ~ActiveOwner(members'[u])
               PROVE  \E p \in Requests :
                 /\ req'[p].pc = "idle"
                 /\ \/ /\ req[p].pc = "writeTransfer" /\ req[p].actor = u
                       /\ ActiveOwner(members'[req[p].target])
                    \/ /\ req[p].pc \in {"writeRole", "writeRevoke"} /\ req[p].target = u
                       /\ req[p].seen.role # "OWNER"
                    \/ /\ req[p].pc = "writeAccept" /\ req[p].actor = u
                       /\ Pending(req[p].inv) /\ invites[req[p].inv].email = u
    BY DEF LosesOwnershipByCause
  <1>1. PICK p \in Requests : Writes(p)
    BY TableSteps DEF CreateOrganization, InvitationExpires, Founded, NoRow, ActiveOwner
  <1>2. members' # members /\ members \in [Users -> Row]
    BY DEF Inductive, TypeOK
  <1>3. CASE WriteTransfer(p)
    BY <1>2, <1>3, TransferStep
  <1>4. CASE WriteRole(p) \/ WriteRevoke(p)
    <2>1. /\ req[p].pc \in {"writeRole", "writeRevoke"} /\ req[p].seen.role # "OWNER"
          /\ req[p].target \in Users
      BY <1>4 DEF WriteRole, WriteRevoke, Inductive, TransferReady, WellFormed, TargetSteps
    <2>2. req'[p].pc = "idle" /\ \E row : members' = [members EXCEPT ![req[p].target] = row]
      BY <1>2, <1>4, CommitOutcome, IdleType DEF WriteRole, WriteRevoke, Inductive, TypeOK
    <2>3. req[p].target = u
      BY <1>2, <2>1, <2>2
    <2> QED
      BY <2>1, <2>2, <2>3
  <1>5. CASE WriteAccept(p)
    <2>1. req[p].pc = "writeAccept" /\ req'[p].pc = "idle"
      BY <1>5, CommitOutcome, IdleType DEF WriteAccept, Inductive, TypeOK
    <2>2. req[p].actor = u
      BY <1>2, <1>5, AcceptStep
    <2> QED
      BY <1>5, <2>1, <2>2, AcceptStep
  <1>6. CASE WriteInvite(p) \/ WriteRevokeInvitation(p)
    BY <1>2, <1>6, CommitOutcome DEF WriteInvite, WriteRevokeInvitation
  <1> QED
    BY <1>1, <1>3, <1>4, <1>5, <1>6 DEF Writes

\* However handlers overlap, an owner is lost only to a successor, to a role change or a
\* revocation that read the row before the account became the owner, or to the account's own
\* acceptance of a pending invitation.  (These last are how an organization loses its owner.)
THEOREM OwnerLossesExplained == Spec => OwnerLossHasCause
  <1>1. Inductive /\ [Next]_vars => \A u \in Users : LosesOwnershipByCause(u)
    BY LossStep
  <1> QED
    BY <1>1, InductiveInvariant, PTL DEF Spec, OwnerLossHasCause

LEMMA StatusKept ==
    ASSUME NEW row \in Row, NEW loaded \in Row, NEW role
    PROVE  Flushed(row, loaded, [loaded EXCEPT !.role = role]).status = row.status
  BY DEF Flushed, Row

LEMMA JoinStep ==
    ASSUME Inductive, [Next]_vars, NEW u \in Users PROVE JoinsByInvitation(u)
  <1> SUFFICES ASSUME members[u].status # "ACTIVE", members'[u].status = "ACTIVE", Founded
               PROVE  \E p \in Requests, i \in Invitations :
                          /\ Pending(i) /\ invites'[i].status = "ACCEPTED"
                          /\ invites[i].email = u /\ req[p].actor = u
                          /\ req[p].pc = "writeAccept" /\ req[p].token = invites[i].token
    BY DEF JoinsByInvitation
  <1>1. PICK p \in Requests : Writes(p)
    BY TableSteps DEF CreateOrganization, InvitationExpires
  <1>2. CASE WriteTransfer(p)
    <2>1. /\ req[p].target \in Users /\ req[p].actor \in Users /\ req[p].target # req[p].actor
          /\ members \in [Users -> Row] /\ req[p].ctx \in Row /\ req[p].seen \in Row
      BY <1>2 DEF WriteTransfer, Inductive, TransferReady, WellFormed, TargetSteps, TypeOK, Request
    <2>2. members' = members \/ members' = Transferred(p)
      BY <1>2, CommitOutcome DEF WriteTransfer
    <2>3. ASSUME members' = Transferred(p) PROVE FALSE
      <3>1. /\ members'[req[p].actor] =
                  Flushed(members[req[p].actor], req[p].ctx, [req[p].ctx EXCEPT !.role = "ADMIN"])
            /\ members'[req[p].target] =
                  Flushed(members[req[p].target], req[p].seen, [req[p].seen EXCEPT !.role = "OWNER"])
            /\ \A v \in Users : v # req[p].actor /\ v # req[p].target => members'[v] = members[v]
        BY <2>1, <2>3 DEF Transferred
      <3>2. \A v \in Users : members[v] \in Row
        BY <2>1
      <3>3. members'[req[p].actor].status = members[req[p].actor].status
        BY <2>1, <3>1, <3>2 DEF Flushed, Row
      <3>4. members'[req[p].target].status = members[req[p].target].status
        BY <2>1, <3>1, <3>2 DEF Flushed, Row
      <3> QED
        BY <3>1, <3>3, <3>4
    <2> QED
      BY <2>2, <2>3
  <1>3. CASE WriteRole(p)
    <2>1. req[p].target \in Users /\ members \in [Users -> Row] /\ req[p].seen \in Row
      BY <1>3 DEF WriteRole, Inductive, WellFormed, TargetSteps, TypeOK, Request
    <2>2. \/ members' = members
          \/ members' = [members EXCEPT ![req[p].target] =
                            Flushed(@, req[p].seen, [req[p].seen EXCEPT !.role = req[p].role])]
      BY <1>3, CommitOutcome DEF WriteRole
    <2> QED
      BY SMTT(40), <2>1, <2>2, StatusKept
  <1>6. CASE WriteRevoke(p)
    <2>1. req[p].target \in Users /\ members \in [Users -> Row] /\ req[p].seen \in Row
      BY <1>6 DEF WriteRevoke, Inductive, WellFormed, TargetSteps, TypeOK, Request
    <2>2. \/ members' = members
          \/ members' = [members EXCEPT ![req[p].target] =
                            Flushed(@, req[p].seen, [req[p].seen EXCEPT !.status = "REVOKED"])]
      BY <1>6, CommitOutcome DEF WriteRevoke
    <2> QED
      BY <2>1, <2>2 DEF Flushed, Row
  <1>4. CASE WriteInvite(p) \/ WriteRevokeInvitation(p)
    BY <1>4, CommitOutcome DEF WriteInvite, WriteRevokeInvitation
  <1>5. CASE WriteAccept(p)
    <2>1. members' # members
      BY DEF Inductive, TypeOK
    <2>2. u = req[p].actor
      BY <1>5, <2>1, AcceptStep DEF Inductive, TypeOK
    <2>3. invites'[req[p].inv].status = "ACCEPTED"
      <3>1. /\ invites' = [invites EXCEPT ![req[p].inv].status = "ACCEPTED"]
            /\ req[p].inv \in Invitations
        BY <1>5, <2>1, AcceptStep
      <3> QED
        BY <3>1 DEF Inductive, TypeOK, Invite
    <2> QED
      BY <1>5, <2>2, <2>3, AcceptStep DEF WriteAccept
  <1> QED
    BY <1>1, <1>2, <1>3, <1>4, <1>5, <1>6 DEF Writes

\* Nobody becomes an active member without spending an invitation addressed to
\* them with its current token.
THEOREM JoinsByInvitationOnly == Spec => JoinNeedsInvitation
  <1>1. Inductive /\ [Next]_vars => \A u \in Users : JoinsByInvitation(u)
    BY JoinStep
  <1> QED
    BY <1>1, InductiveInvariant, PTL DEF Spec, JoinNeedsInvitation

LEMMA OutcomeStep ==
    ASSUME Inductive, [Next]_vars, NEW i \in Invitations,
           invites[i].status \in {"ACCEPTED", "REVOKED"}
    PROVE  invites'[i] = invites[i]
  <1>1. CASE invites' = invites
    BY <1>1
  <1>2. ASSUME NEW j \in Invitations, InvitationExpires(j) PROVE invites'[i] = invites[i]
    BY <1>2 DEF InvitationExpires, Pending, Inductive, TypeOK
  <1>3. ASSUME NEW p \in Requests, Writes(p) PROVE invites'[i] = invites[i]
    <2>1. \A j \in Invitations : HoldsInvitation(p, j) => j # i
      BY DEF Inductive, InvitationLocked, Pending
    <2>2. CASE WriteTransfer(p) \/ WriteRole(p) \/ WriteRevoke(p)
      BY <2>2, CommitOutcome DEF WriteTransfer, WriteRole, WriteRevoke
    <2>3. CASE WriteInvite(p)
      <3>1. PICK j \in Invitations, k \in Tokens \ issued :
              /\ IF req[p].inv = NoInvitation THEN invites[j].status = "UNUSED" ELSE j = req[p].inv
              /\ Commit(p, members,
                        [invites EXCEPT ![j] = [status |-> "PENDING", email |-> req[p].target,
                                                role |-> req[p].role, token |-> k,
                                                expired |-> FALSE]])
        BY <2>3 DEF WriteInvite
      <3>2. j # i
        BY <2>1, <2>3, <3>1 DEF WriteInvite, HoldsInvitation
      <3> QED
        <4>1. \/ invites' = invites
              \/ invites' = [invites EXCEPT ![j] =
                                [status |-> "PENDING", email |-> req[p].target,
                                 role |-> req[p].role, token |-> k, expired |-> FALSE]]
          BY <3>1, CommitOutcome
        <4> QED
          BY <3>2, <4>1 DEF Inductive, TypeOK
    <2>4. CASE WriteRevokeInvitation(p)
      <3>1. req[p].inv \in Invitations /\ req[p].inv # i
        BY <2>1, <2>4 DEF WriteRevokeInvitation, HoldsInvitation, Inductive, WellFormed, LockedSteps
      <3> QED
        <4>1. invites' = invites \/ invites' = [invites EXCEPT ![req[p].inv].status = "REVOKED"]
          BY <2>4, CommitOutcome DEF WriteRevokeInvitation
        <4> QED
          BY <3>1, <4>1 DEF Inductive, TypeOK
    <2>5. CASE WriteAccept(p)
      BY <2>5, AcceptStep DEF Pending, Inductive, TypeOK
    <2> QED
      BY <1>3, <2>2, <2>3, <2>4, <2>5 DEF Writes
  <1> QED
    BY <1>1, <1>2, <1>3, TableSteps DEF CreateOrganization

\* Acceptance, revocation and reissue race for the row of an invitation; the
\* one that commits first decides for good.
THEOREM OutcomesFinal == Spec => InvitationOutcomeFinal
  <1>1. Inductive /\ [Next]_vars =>
            \A i \in Invitations : invites[i].status \in {"ACCEPTED", "REVOKED"}
                                       => invites'[i] = invites[i]
    BY OutcomeStep
  <1> QED
    BY <1>1, InductiveInvariant, PTL DEF Spec, InvitationOutcomeFinal

-----------------------------------------------------------------------------
(* One request at a time                                                   *)

LEMMA FlushedFresh ==
    ASSUME NEW row \in Row, NEW new \in Row
    PROVE  Flushed(row, row, new) = new
  BY DEF Flushed, Row

\* A step serves one request: the others stay where they are, which is idle.
LEMMA OthersIdle ==
    ASSUME SerialInductive, NEW p \in Requests, Alone(p), RequestStep(p)
    PROVE  /\ \A q \in Requests \ {p} : req'[q] = req[q] /\ req'[q].pc = "idle"
           /\ req' \in [Requests -> Request]
  <1>1. \A q \in Requests \ {p} : req'[q] = req[q]
    <2>1. CASE Arrive(p)
      BY <2>1 DEF Arrive, RequestTransfer, RequestRevoke, RequestRoleChange, RequestInvite,
                  RequestRevokeInvitation, RequestAccept, Start, SerialInductive, Inductive, TypeOK
    <2>2. CASE Abandon(p) \/ DeadlockVictim(p)
      BY <2>2 DEF Abandon, DeadlockVictim, Reject, Finish, SerialInductive, Inductive, TypeOK
    <2>3. CASE Writes(p)
      BY <2>3, CommitOutcome DEF Writes, WriteTransfer, WriteRole, WriteRevoke, WriteInvite,
                  WriteRevokeInvitation, WriteAccept, SerialInductive, Inductive, TypeOK
    <2>4. CASE Serve(p) /\ ~Writes(p)
      BY <2>4 DEF Serve, Writes, LockOrganization, LockOwnMembership, LockTarget, ReadRoleTarget,
                  ReadRevokeTarget, CheckNotMember, FindPending, LockPending, LockInvitation,
                  LockToken, FlushMembership, Goto, Finish, SerialInductive, Inductive, TypeOK
    <2> QED
      BY SMTT(40), <2>1, <2>2, <2>3, <2>4 DEF RequestStep
  <1>2. [Next]_vars
    BY DEF Next
  <1>3. Inductive'
    BY <1>2, NextInductive DEF SerialInductive
  <1> QED
    BY <1>1, <1>3 DEF Alone, Inductive, TypeOK

\* What becomes of the rows when nobody interferes: the copies are the rows, so what is
\* written is what was decided.
SerialWrite(p) ==
    LET r == req[p]
    IN \/ /\ WriteTransfer(p) /\ r.actor # r.target
          /\ ActiveOwner(members[r.actor]) /\ members[r.target].status = "ACTIVE"
          /\ members' = [members EXCEPT ![r.actor] = [role |-> "ADMIN", status |-> "ACTIVE"],
                                        ![r.target] = [role |-> "OWNER", status |-> "ACTIVE"]]
          /\ invites' = invites
       \/ /\ WriteRole(p) \/ WriteRevoke(p)
          /\ members[r.target].role # "OWNER"
          /\ \E role \in (Roles \cup {"NONE"}) \ {"OWNER"},
                status \in {members[r.target].status, "REVOKED"} :
                    members' = [members EXCEPT ![r.target] = [role |-> role, status |-> status]]
          /\ invites' = invites
       \/ /\ WriteAccept(p) /\ members[r.actor].status # "ACTIVE"
          /\ \E role \in Roles \ {"OWNER"} :
                members' = [members EXCEPT ![r.actor] = [role |-> role, status |-> "ACTIVE"]]
          /\ invites' = [invites EXCEPT ![r.inv].status = "ACCEPTED"]
       \/ /\ WriteInvite(p) \/ WriteRevokeInvitation(p)
          /\ members' = members

LEMMA SerialWrites ==
    ASSUME SerialInductive, NEW p \in Requests, Writes(p),
           members' # members \/ invites' # invites
    PROVE  /\ SerialWrite(p)
           /\ WriteTransfer(p) \/ WriteRole(p) \/ WriteRevoke(p) => req[p].target \in Users
           /\ WriteAccept(p) => req[p].actor \in Users /\ req[p].inv \in Invitations
           /\ WriteTransfer(p) => req[p].actor \in Users
           /\ Founded
  <1>1. /\ members \in [Users -> Row] /\ req[p] \in Request /\ req[p].pc # "idle"
        /\ WellFormed(p) /\ TransferReady(p) /\ CopiesFresh(p)
    BY DEF SerialInductive, Inductive, TypeOK, Writes, WriteTransfer, WriteRole, WriteRevoke,
           WriteInvite, WriteRevokeInvitation, WriteAccept
  <1>2. CASE WriteTransfer(p)
    <2> DEFINE a == req[p].actor
               t == req[p].target
    <2>1. a \in Users /\ t \in Users /\ a # t /\ members[t].status = "ACTIVE" /\ Founded
      BY <1>1, <1>2 DEF WriteTransfer, WellFormed, TargetSteps, TransferReady
    <2>2. /\ req[p].ctx = members[a] /\ req[p].ctx.status = "ACTIVE"
          /\ req[p].ctx.role = "OWNER" /\ req[p].seen = members[t]
      BY <1>1, <1>2 DEF WriteTransfer, CopiesFresh, ManagingSteps, TransferReady
    <2>3. members' = Transferred(p) /\ invites' = invites
      BY <1>2, CommitOutcome DEF WriteTransfer
    <2>4. /\ [members[a] EXCEPT !.role = "ADMIN"] = [role |-> "ADMIN", status |-> "ACTIVE"]
          /\ [members[t] EXCEPT !.role = "OWNER"] = [role |-> "OWNER", status |-> "ACTIVE"]
          /\ [role |-> "ADMIN", status |-> "ACTIVE"] \in Row
          /\ [role |-> "OWNER", status |-> "ACTIVE"] \in Row
          /\ members[a] \in Row /\ members[t] \in Row
      BY <1>1, <2>1, <2>2 DEF Row, Roles, ManagerRoles
    <2>6. /\ Flushed(members[a], req[p].ctx, [req[p].ctx EXCEPT !.role = "ADMIN"])
                = [role |-> "ADMIN", status |-> "ACTIVE"]
          /\ Flushed(members[t], req[p].seen, [req[p].seen EXCEPT !.role = "OWNER"])
                = [role |-> "OWNER", status |-> "ACTIVE"]
      BY <2>2, <2>4, FlushedFresh
    <2>5. members' = [members EXCEPT ![a] = [role |-> "ADMIN", status |-> "ACTIVE"],
                                     ![t] = [role |-> "OWNER", status |-> "ACTIVE"]]
      BY <1>1, <2>1, <2>3, <2>6 DEF Transferred
    <2> QED
      BY <1>2, <2>1, <2>2, <2>3, <2>5 DEF SerialWrite, ActiveOwner, Writes, WriteTransfer,
             WriteRole, WriteRevoke, WriteAccept
  <1>3. CASE WriteRole(p)
    <2> DEFINE t == req[p].target
    <2>1. t \in Users /\ Founded /\ req[p].role \in Roles \ {"OWNER"}
      BY <1>1, <1>3 DEF WriteRole, WellFormed, TargetSteps
    <2>2. req[p].seen = members[t] /\ members[t].role # "OWNER" /\ members[t] \in Row
      BY <1>1, <1>3, <2>1 DEF WriteRole, CopiesFresh, TransferReady
    <2>3. /\ members' = [members EXCEPT ![t] =
                            Flushed(@, req[p].seen, [req[p].seen EXCEPT !.role = req[p].role])]
          /\ invites' = invites
      BY <1>3, CommitOutcome DEF WriteRole
    <2>4. /\ [members[t] EXCEPT !.role = req[p].role]
                = [role |-> req[p].role, status |-> members[t].status]
          /\ [role |-> req[p].role, status |-> members[t].status] \in Row
      BY <2>1, <2>2 DEF Row
    <2>6. Flushed(members[t], req[p].seen, [req[p].seen EXCEPT !.role = req[p].role])
             = [role |-> req[p].role, status |-> members[t].status]
      BY <2>2, <2>4, FlushedFresh
    <2>5. members' = [members EXCEPT ![t] = [role |-> req[p].role, status |-> members[t].status]]
      BY <2>3, <2>6
    <2> QED
      BY <1>3, <2>1, <2>2, <2>3, <2>5 DEF SerialWrite, WriteTransfer, WriteRole, WriteAccept
  <1>4. CASE WriteRevoke(p)
    <2> DEFINE t == req[p].target
    <2>1. t \in Users /\ Founded
      BY <1>1, <1>4 DEF WriteRevoke, WellFormed, TargetSteps
    <2>2. req[p].seen = members[t] /\ members[t].role # "OWNER" /\ members[t] \in Row
      BY <1>1, <1>4, <2>1 DEF WriteRevoke, CopiesFresh, TransferReady
    <2>3. /\ members' = [members EXCEPT ![t] =
                            Flushed(@, req[p].seen, [req[p].seen EXCEPT !.status = "REVOKED"])]
          /\ invites' = invites
      BY <1>4, CommitOutcome DEF WriteRevoke
    <2>4. /\ [members[t] EXCEPT !.status = "REVOKED"]
                = [role |-> members[t].role, status |-> "REVOKED"]
          /\ [role |-> members[t].role, status |-> "REVOKED"] \in Row
          /\ members[t].role \in (Roles \cup {"NONE"}) \ {"OWNER"}
      BY <2>1, <2>2 DEF Row
    <2>6. Flushed(members[t], req[p].seen, [req[p].seen EXCEPT !.status = "REVOKED"])
             = [role |-> members[t].role, status |-> "REVOKED"]
      BY <2>2, <2>4, FlushedFresh
    <2>5. members' = [members EXCEPT ![t] = [role |-> members[t].role, status |-> "REVOKED"]]
      BY <2>3, <2>6
    <2> QED
      BY <1>4, <2>1, <2>2, <2>3, <2>4, <2>5 DEF SerialWrite, WriteTransfer, WriteRevoke, WriteAccept
  <1>5. CASE WriteAccept(p)
    <2> DEFINE a == req[p].actor
    <2>1. /\ a \in Users /\ req[p].inv \in Invitations /\ Founded
          /\ Pending(req[p].inv) /\ invites[req[p].inv].email = a
          /\ Joined(p) = [role |-> invites[req[p].inv].role, status |-> "ACTIVE"]
          /\ invites[req[p].inv].role \in Roles \ {"OWNER", "NONE"}
      BY <1>1, <1>5, AcceptStep DEF SerialInductive, WellFormed, Joined
    <2>2. req[p].seen = members[a] /\ members[a].status # "ACTIVE" /\ members[a] \in Row
      BY <1>1, <1>5, <2>1 DEF WriteAccept, CopiesFresh, AcceptSteps, SerialInductive, InvitedOutside
    <2>3. /\ members' = [members EXCEPT ![a] = Flushed(@, req[p].seen, Joined(p))]
          /\ invites' = [invites EXCEPT ![req[p].inv].status = "ACCEPTED"]
      BY <1>5, AcceptStep DEF SerialInductive
    <2>4. Joined(p) \in Row
      BY <2>1 DEF Row
    <2>6. Flushed(members[a], req[p].seen, Joined(p)) = Joined(p)
      BY <2>2, <2>4, FlushedFresh
    <2>5. members' = [members EXCEPT ![a] = Joined(p)]
      BY <2>3, <2>6
    <2> QED
      BY <1>5, <2>1, <2>2, <2>3, <2>5 DEF SerialWrite, WriteTransfer, WriteRole, WriteRevoke, WriteAccept
  <1>6. CASE WriteInvite(p) \/ WriteRevokeInvitation(p)
    <2>1. members' = members
      BY <1>6, CommitOutcome DEF WriteInvite, WriteRevokeInvitation
    <2>2. Founded
      BY <1>1 DEF WellFormed
    <2> QED
      BY <1>6, <2>1, <2>2 DEF SerialWrite, WriteInvite, WriteRevokeInvitation, WriteTransfer,
             WriteRole, WriteRevoke, WriteAccept
  <1> QED
    BY <1>2, <1>3, <1>4, <1>5, <1>6 DEF Writes

\* There is an owner after every write: the old one, or the one who has just been appointed.
LEMMA SerialOwner ==
    ASSUME SerialInductive, NEW p \in Requests, Writes(p),
           members' # members \/ invites' # invites
    PROVE  \E u \in Users : ActiveOwner(members'[u])
  <1>1. PICK o \in Users : ActiveOwner(members[o])
    BY SerialWrites DEF SerialInductive, ActiveOwnerExists
  <1>2. members \in [Users -> Row] /\ SerialWrite(p)
    BY SerialWrites DEF SerialInductive, Inductive, TypeOK
  <1>3. CASE WriteTransfer(p) /\ members' # members
    <2>1. req[p].target \in Users /\ members'[req[p].target] = [role |-> "OWNER", status |-> "ACTIVE"]
      BY <1>2, <1>3, SerialWrites DEF SerialWrite, WriteTransfer, WriteRole, WriteRevoke,
             WriteAccept, WriteInvite, WriteRevokeInvitation
    <2> QED
      BY <2>1 DEF ActiveOwner
  <1>4. CASE members'[o] = members[o]
    BY <1>1, <1>4
  <1>5. CASE ~WriteTransfer(p) \/ members' = members
    <2>1. members'[o] = members[o]
      BY <1>1, <1>2, <1>5 DEF SerialWrite, ActiveOwner
    <2> QED
      BY <2>1, <1>4
  <1> QED
    BY <1>3, <1>5

\* A request carries fresh copies from one step to the next.
LEMMA SerialCopies ==
    ASSUME SerialInductive, NEW p \in Requests, Alone(p), RequestStep(p), NEW q \in Requests
    PROVE  CopiesFresh(q)'
  <1> DEFINE r == req'[p]
  <1>1. /\ members \in [Users -> Row] /\ req \in [Requests -> Request]
        /\ WellFormed(p) /\ CopiesFresh(p)
    BY DEF SerialInductive, Inductive, TypeOK
  <1>2. CASE req'[q].pc = "idle"
    BY <1>2 DEF CopiesFresh, ManagingSteps, AcceptSteps, InviteSteps
  <1>3. CASE q = p /\ Arrive(p)
    <2>1. /\ members' = members /\ r.pc \in {"lockOrg", "readRole", "readRevoke", "checkMember",
                                             "lockInvite", "lockToken"}
          /\ r.pc \in ManagingSteps => r.ctx = members[r.actor] /\ r.ctx.status = "ACTIVE"
      <3> DEFINE Asked(x, u) ==
                   /\ req' = [req EXCEPT ![p] = x] /\ members' = members
                   /\ x.pc \in {"lockOrg", "readRole", "readRevoke", "checkMember",
                                "lockInvite", "lockToken"}
                   /\ x.pc \in {"lockOrg", "readRole", "readRevoke"} =>
                          x.actor = u /\ x.ctx = members[u] /\ members[u].status = "ACTIVE"
      <3>1. PICK u \in Users :
                \/ \E t \in Users : RequestTransfer(p, u, t) \/ RequestRevoke(p, u, t)
                \/ \E t \in Users, role \in Roles :
                      RequestRoleChange(p, u, t, role) \/ RequestInvite(p, u, t, role)
                \/ \E i \in Invitations : RequestRevokeInvitation(p, u, i)
                \/ \E k \in Tokens : RequestAccept(p, u, k)
        BY <1>3 DEF Arrive
      <3>2. ASSUME NEW t \in Users, RequestTransfer(p, u, t)
            PROVE  Asked([Idle EXCEPT !.pc = "lockOrg", !.actor = u, !.target = t,
                                   !.ctx = members[u]], u)
        BY <3>2 DEF RequestTransfer, Start, TablesUnchanged, Idle
      <3>3. ASSUME NEW t \in Users, RequestRevoke(p, u, t)
            PROVE  Asked([Idle EXCEPT !.pc = "readRevoke", !.actor = u, !.target = t,
                                   !.ctx = members[u]], u)
        BY <3>3 DEF RequestRevoke, Start, TablesUnchanged, Idle
      <3>4. ASSUME NEW t \in Users, NEW role \in Roles, RequestRoleChange(p, u, t, role)
            PROVE  Asked([Idle EXCEPT !.pc = "readRole", !.actor = u, !.target = t, !.role = role,
                                   !.ctx = members[u]], u)
        BY <3>4 DEF RequestRoleChange, Start, TablesUnchanged, Idle
      <3>5. ASSUME NEW t \in Users, NEW role \in Roles, RequestInvite(p, u, t, role)
            PROVE  Asked([Idle EXCEPT !.pc = "checkMember", !.actor = u, !.target = t, !.role = role], u)
        BY <3>5 DEF RequestInvite, Start, TablesUnchanged, Idle
      <3>6. ASSUME NEW i \in Invitations, RequestRevokeInvitation(p, u, i)
            PROVE  Asked([Idle EXCEPT !.pc = "lockInvite", !.actor = u, !.inv = i], u)
        BY <3>6 DEF RequestRevokeInvitation, Start, TablesUnchanged, Idle
      <3>7. ASSUME NEW k \in Tokens, RequestAccept(p, u, k)
            PROVE  Asked([Idle EXCEPT !.pc = "lockToken", !.actor = u, !.token = k], u)
        BY <3>7 DEF RequestAccept, TablesUnchanged, Idle
      <3>8. PICK x : Asked(x, u)
        <4> HIDE DEF Asked
        <4> QED
          BY <3>1, <3>2, <3>3, <3>4, <3>5, <3>6, <3>7
      <3> QED
        BY <1>1, <3>8 DEF ManagingSteps
    <2> QED
      BY <1>3, <2>1 DEF CopiesFresh, AcceptSteps, InviteSteps
  <1>4. CASE q = p /\ (Abandon(p) \/ DeadlockVictim(p) \/ Writes(p))
    <2>1. req'[p].pc = "idle"
      BY <1>1, <1>4, CommitOutcome, IdleType DEF Abandon, DeadlockVictim, Reject, Finish, Writes,
             WriteTransfer, WriteRole, WriteRevoke, WriteInvite, WriteRevokeInvitation, WriteAccept
    <2> QED
      BY <1>2, <1>4, <2>1
  <1>5. CASE q = p /\ r.pc # "idle" /\ (LockOrganization(p) \/ LockOwnMembership(p) \/ LockTarget(p))
    <2>1. /\ members' = members /\ req[p].pc \in ManagingSteps
          /\ r.pc \in {"lockOwn", "lockTarget", "writeTransfer"}
          /\ r.actor = req[p].actor /\ r.target = req[p].target /\ r.ctx = req[p].ctx
          /\ r.pc = "writeTransfer" => r.seen = members[r.target]
      <3>1. CASE LockOrganization(p) \/ LockOwnMembership(p)
        <4>1. PICK pc \in {"lockOwn", "lockTarget"} : Goto(p, pc)
          BY <1>1, <1>5, <3>1, IdleType DEF LockOrganization, LockOwnMembership, Finish
        <4>2. req'[p] = [req[p] EXCEPT !.pc = pc]
          BY <1>1, <4>1 DEF Goto
        <4> QED
          BY <1>1, <3>1, <4>2 DEF LockOrganization, LockOwnMembership, TablesUnchanged,
                 ManagingSteps, Request
      <3>2. CASE LockTarget(p)
        <4>1. req' = [req EXCEPT ![p].pc = "writeTransfer", ![p].seen = members[req[p].target]]
          BY <1>1, <1>5, <3>2, IdleType DEF LockTarget, Finish
        <4>2. req'[p] = [req[p] EXCEPT !.pc = "writeTransfer", !.seen = members[req[p].target]]
          BY <1>1, <4>1
        <4> QED
          BY <1>1, <3>2, <4>2 DEF LockTarget, TablesUnchanged, ManagingSteps, Request
      <3> QED
        BY <1>5, <3>1, <3>2
    <2> QED
      BY <1>1, <1>5, <2>1 DEF CopiesFresh, ManagingSteps, AcceptSteps, InviteSteps
  <1>6. CASE q = p /\ r.pc # "idle" /\ (ReadRoleTarget(p) \/ ReadRevokeTarget(p))
    <2>1. /\ members' = members /\ req[p].pc \in ManagingSteps
          /\ r.pc \in {"writeRole", "writeRevoke"}
          /\ r.actor = req[p].actor /\ r.target = req[p].target /\ r.ctx = req[p].ctx
          /\ r.seen = Loaded(p) /\ r.seen.role # "OWNER"
      BY <1>1, <1>6, IdleType DEF ReadRoleTarget, ReadRevokeTarget, TablesUnchanged, Finish,
             ManagingSteps, Request
    <2>2. Loaded(p) = members[req[p].target]
      BY <1>1, <2>1 DEF Loaded, CopiesFresh
    <2> QED
      BY <1>1, <1>6, <2>1, <2>2 DEF CopiesFresh, ManagingSteps, AcceptSteps, InviteSteps
  <1>7. CASE q = p /\ r.pc # "idle" /\ (CheckNotMember(p) \/ FindPending(p) \/ LockPending(p))
    <2>1. /\ members' = members /\ r.pc \in {"findPending", "lockPending", "writeInvite"}
          /\ r.target = req[p].target
          /\ members[req[p].target].status # "ACTIVE"
      BY <1>1, <1>7, IdleType DEF CheckNotMember, FindPending, LockPending, TablesUnchanged, Goto,
             Finish, Request, CopiesFresh, InviteSteps
    <2> QED
      BY <1>7, <2>1 DEF CopiesFresh, ManagingSteps, AcceptSteps, InviteSteps
  <1>8. CASE q = p /\ r.pc # "idle" /\ LockInvitation(p)
    <2>1. r.pc = "writeRevokeInvite"
      BY <1>1, <1>8, IdleType DEF LockInvitation, Goto, Finish, Request
    <2> QED
      BY <1>8, <2>1 DEF CopiesFresh, ManagingSteps, AcceptSteps, InviteSteps
  <1>9. CASE q = p /\ r.pc # "idle" /\ (LockToken(p) \/ FlushMembership(p))
    <2>1. /\ members' = members /\ r.pc \in AcceptSteps
          /\ r.actor = req[p].actor /\ r.seen = members[r.actor]
      <3>1. CASE LockToken(p)
        <4>1. PICK i \in Invitations : req' = [req EXCEPT ![p].pc = "flushMember", ![p].inv = i,
                                                         ![p].seen = members[req[p].actor]]
          BY <1>1, <1>9, <3>1, IdleType DEF LockToken, Finish
        <4>2. req'[p] = [req[p] EXCEPT !.pc = "flushMember", !.inv = i,
                                       !.seen = members[req[p].actor]]
          BY <1>1, <4>1
        <4> QED
          BY <1>1, <3>1, <4>2 DEF LockToken, TablesUnchanged, Request, AcceptSteps
      <3>2. CASE FlushMembership(p)
        BY <1>1, <1>9, <3>2, IdleType DEF FlushMembership, TablesUnchanged, Goto, Finish,
               Request, CopiesFresh, AcceptSteps
      <3> QED
        BY <1>9, <3>1, <3>2
    <2> QED
      BY <1>9, <2>1 DEF CopiesFresh, ManagingSteps, AcceptSteps, InviteSteps
  <1> QED
    BY <1>2, <1>3, <1>4, <1>5, <1>6, <1>7, <1>8, <1>9, OthersIdle DEF RequestStep, Serve, Writes

\* Nobody who is invited is an active member: an address is looked up before it is
\* invited, and its invitation is spent by the step in which it joins.
LEMMA SerialInvited ==
    ASSUME SerialInductive, NEW p \in Requests, Writes(p),
           members' # members \/ invites' # invites
    PROVE  InvitedOutside'
  <1> SUFFICES ASSUME NEW i \in Invitations, Pending(i)'
               PROVE  Founded' /\ members'[invites'[i].email].status # "ACTIVE"
    BY DEF InvitedOutside
  <1>1. /\ members \in [Users -> Row] /\ invites \in [Invitations -> Invite] /\ SerialWrite(p)
        /\ WellFormed(p) /\ CopiesFresh(p)
        /\ \A j \in Invitations : Pending(j) => /\ invites[j].email \in Users
                                                /\ members[invites[j].email].status # "ACTIVE"
    BY SerialWrites DEF SerialInductive, Inductive, TypeOK, PendingComplete, InvitedOutside
  <1>2. Founded'
    BY SerialOwner DEF Founded, ActiveOwner, NoRow
  <1>3. CASE WriteInvite(p) /\ invites' # invites
    <2>1. PICK j \in Invitations, k \in Tokens :
              invites' = [invites EXCEPT ![j] = [status |-> "PENDING", email |-> req[p].target,
                                                 role |-> req[p].role, token |-> k,
                                                 expired |-> FALSE]]
      BY <1>3, CommitOutcome DEF WriteInvite
    <2>2. members' = members /\ members[req[p].target].status # "ACTIVE"
      BY <1>1, <1>3, CommitOutcome DEF WriteInvite, CopiesFresh, InviteSteps
    <2>3. CASE i = j
      BY <1>1, <1>2, <2>1, <2>2, <2>3
    <2>4. CASE i # j
      BY <1>1, <1>2, <2>1, <2>2, <2>4 DEF Pending
    <2> QED
      BY <2>3, <2>4
  <1>4. CASE WriteRevokeInvitation(p)
    <2>1. /\ members' = members
          /\ invites' = [invites EXCEPT ![req[p].inv].status = "REVOKED"] \/ invites' = invites
      BY <1>4, CommitOutcome DEF WriteRevokeInvitation
    <2>2. invites'[i] = invites[i]
      BY <1>1, <2>1 DEF Pending, Invite
    <2> QED
      BY <1>1, <1>2, <2>1, <2>2 DEF Pending
  <1>5. CASE WriteAccept(p)
    <2>1. /\ req[p].actor \in Users /\ req[p].inv \in Invitations /\ Pending(req[p].inv)
          /\ invites[req[p].inv].email = req[p].actor
          /\ invites' = [invites EXCEPT ![req[p].inv].status = "ACCEPTED"]
      BY <1>5, AcceptStep DEF SerialInductive
    <2>2. i # req[p].inv /\ invites'[i] = invites[i]
      BY <1>1, <2>1 DEF Pending, Invite
    <2>3. Pending(i) /\ invites[i].email # req[p].actor
      BY <2>1, <2>2 DEF Pending, SerialInductive, Inductive, OnePendingInvitation
    <2>4. \A u \in Users : u # req[p].actor => members'[u] = members[u]
      BY <1>1, <1>5, <2>1, AcceptStep DEF SerialInductive
    <2> QED
      BY <1>1, <1>2, <2>2, <2>3, <2>4
  <1>6. CASE WriteTransfer(p) \/ WriteRole(p) \/ WriteRevoke(p)
    <2>1. invites' = invites /\ req[p].target \in Users
      BY <1>6, CommitOutcome, SerialWrites DEF WriteTransfer, WriteRole, WriteRevoke
    <2>2. \A u \in Users : members'[u].status = "ACTIVE" => members[u].status = "ACTIVE"
      <3>1. CASE WriteTransfer(p)
        BY <1>1, <3>1, SerialWrites DEF SerialWrite, WriteAccept, WriteInvite,
               WriteRevokeInvitation, WriteTransfer, WriteRole, WriteRevoke, ActiveOwner
      <3>2. CASE WriteRole(p) \/ WriteRevoke(p)
        <4>1. PICK row : /\ members' = [members EXCEPT ![req[p].target] = row]
                         /\ row.status \in {members[req[p].target].status, "REVOKED"}
          BY <1>1, <3>2 DEF SerialWrite, WriteAccept, WriteInvite, WriteRevokeInvitation,
                 WriteTransfer, WriteRole, WriteRevoke
        <4> QED
          BY <1>1, <2>1, <4>1
      <3> QED
        BY <1>6, <3>1, <3>2
    <2> QED
      BY <1>1, <1>2, <2>1, <2>2 DEF Pending
  <1>7. CASE WriteInvite(p) /\ invites' = invites
    BY <1>1, <1>2, <1>7, CommitOutcome DEF WriteInvite, Pending
  <1> QED
    BY <1>3, <1>4, <1>5, <1>6, <1>7 DEF Writes

LEMMA SerialInductiveStep == SerialInductive /\ [SerialNext]_vars => SerialInductive'
  <1> SUFFICES ASSUME SerialInductive, [SerialNext]_vars PROVE SerialInductive'
    OBVIOUS
  <1>1. [Next]_vars
    BY DEF SerialNext, Next
  <1>2. Inductive' /\ AtMostOneActiveOwner'
    BY <1>1, NextInductive, OneOwnerStep DEF SerialInductive
  <1>3. ASSUME NEW u \in Users, CreateOrganization(u) PROVE SerialInductive'
    <2>1. /\ members' = [members EXCEPT ![u] = [role |-> "OWNER", status |-> "ACTIVE"]]
          /\ invites' = invites /\ req' = req
          /\ \A p \in Requests : req[p].pc = "idle"
          /\ \A i \in Invitations : ~Pending(i)
      BY <1>3 DEF CreateOrganization, SerialInductive, Inductive, WellFormed, InvitedOutside
    <2>2. OneAtATime' /\ InvitedOutside' /\ \A p \in Requests : CopiesFresh(p)'
      BY <2>1 DEF OneAtATime, InvitedOutside, Pending, CopiesFresh, ManagingSteps, AcceptSteps,
             InviteSteps
    <2>3. ActiveOwnerExists'
      BY <2>1 DEF ActiveOwnerExists, ActiveOwner, SerialInductive, Inductive, TypeOK
    <2> QED
      BY <1>2, <2>2, <2>3 DEF SerialInductive
  <1>4. CASE UNCHANGED <<members, req>> /\ \A i \in Invitations :
                invites'[i].status = invites[i].status /\ invites'[i].email = invites[i].email
    <2>1. OneAtATime' /\ InvitedOutside' /\ ActiveOwnerExists' /\ \A p \in Requests : CopiesFresh(p)'
      BY <1>4 DEF SerialInductive, OneAtATime, InvitedOutside, ActiveOwnerExists, Pending,
             CopiesFresh, Founded
    <2> QED
      BY <1>2, <2>1 DEF SerialInductive
  <1>5. ASSUME NEW i \in Invitations, InvitationExpires(i) PROVE SerialInductive'
    <2>1. UNCHANGED <<members, req>> /\ \A j \in Invitations :
                invites'[j].status = invites[j].status /\ invites'[j].email = invites[j].email
      BY <1>5 DEF InvitationExpires, SerialInductive, Inductive, TypeOK, Invite
    <2> QED
      BY <1>4, <2>1
  <1>6. ASSUME NEW p \in Requests, Alone(p), RequestStep(p) PROVE SerialInductive'
    <2>1. OneAtATime' /\ \A q \in Requests : CopiesFresh(q)'
      BY <1>6, OthersIdle, SerialCopies DEF OneAtATime
    <2>2. CASE members' = members /\ invites' = invites
      BY <1>2, <2>1, <2>2 DEF SerialInductive, InvitedOutside, ActiveOwnerExists, Pending, Founded
    <2>3. CASE members' # members \/ invites' # invites
      <3>1. Writes(p)
        BY <1>6, <2>3, StepWrites
      <3>2. InvitedOutside' /\ ActiveOwnerExists'
        BY <2>3, <3>1, SerialInvited, SerialOwner DEF ActiveOwnerExists
      <3> QED
        BY <1>2, <2>1, <3>2 DEF SerialInductive
    <2> QED
      BY <2>2, <2>3
  <1>7. CASE UNCHANGED vars
    BY <1>4, <1>7 DEF vars
  <1> QED
    BY <1>3, <1>5, <1>6, <1>7 DEF SerialNext, Environment

LEMMA SerialInit == Init => SerialInductive
  <1> SUFFICES ASSUME Init PROVE SerialInductive
    OBVIOUS
  <1>1. /\ \A p \in Requests : req[p].pc = "idle"
        /\ \A i \in Invitations : ~Pending(i)
        /\ \A u \in Users : members[u] = NoRow
    BY DEF Init, Idle, NoInvite, Pending
  <1> QED
    BY <1>1, InitInductive DEF SerialInductive, OneAtATime, InvitedOutside, AtMostOneActiveOwner,
       ActiveOwner, ActiveOwnerExists, Founded, NoRow, CopiesFresh, ManagingSteps, AcceptSteps,
       InviteSteps

\* While requests do not overlap, the copies a handler carries are the rows, nobody who is
\* invited is an active member, and there is an owner (SerialInductive).
THEOREM SerialInvariant == SerialSpec => []SerialInductive
  BY SerialInit, SerialInductiveStep, PTL DEF SerialSpec

\* DATABASE.md:58 as far as it goes: while requests do not overlap, a founded organization
\* always has an active owner.  (The run owner_lost shows that it can lose its owner otherwise.)
THEOREM OwnerExists == SerialSpec => []ActiveOwnerExists
  <1>1. SerialInductive => ActiveOwnerExists
    BY DEF SerialInductive
  <1> QED
    BY <1>1, SerialInvariant, PTL

\* SELF_REVIEW.md:17 as far as it goes: while requests do not overlap, the one who transfers
\* the ownership is the active owner at that moment.
THEOREM TransfersByOwner == SerialSpec => TransferOnlyByCurrentOwner
  <1>1. ASSUME SerialInductive, NEW p \in Requests PROVE TransferredByOwner(p)
    <2>1. req[p].pc = "writeTransfer" => /\ req[p].ctx = members[req[p].actor]
                                         /\ req[p].ctx.status = "ACTIVE"
                                         /\ req[p].ctx.role = "OWNER"
      <3>1. CopiesFresh(p) /\ TransferReady(p)
        BY <1>1 DEF SerialInductive, Inductive
      <3> QED
        BY <3>1 DEF CopiesFresh, TransferReady, ManagingSteps
    <2> QED
      BY <2>1 DEF TransferredByOwner, ActiveOwner
  <1>2. SerialInductive /\ [SerialNext]_vars => [\A p \in Requests : TransferredByOwner(p)]_vars
    BY <1>1
  <1> QED
    BY <1>2, SerialInvariant, PTL DEF SerialSpec, TransferOnlyByCurrentOwner

-----------------------------------------------------------------------------
(* The roster                                                              *)

LEMMA StandingCases ==
    ASSUME NEW row
    PROVE  /\ row.status # "ACTIVE" => Standing(row) = "outsider"
           /\ ActiveOwner(row) => Standing(row) = "owner"
           /\ row.status = "ACTIVE" /\ row.role # "OWNER" => Standing(row) \in {"plain", "manager"}
           /\ row.status = "ACTIVE" /\ row.role = "ADMIN" => Standing(row) = "manager"
           /\ Standing(row) = "owner" => ActiveOwner(row)
  BY DEF Standing, ActiveOwner

\* Who stands where; the refinement mapping by name.
StandingsNow == [u \in Users |-> Standing(members[u])]

LEMMA RosterFound ==
    ASSUME SerialInductive, NEW u \in Users, CreateOrganization(u)
    PROVE  R!Found(u)
  <1>1. /\ members \in [Users -> Row] /\ \A v \in Users : members[v] = NoRow
        /\ members' = [members EXCEPT ![u] = [role |-> "OWNER", status |-> "ACTIVE"]]
    BY DEF CreateOrganization, Founded, SerialInductive, Inductive, TypeOK
  <1>2. \A v \in Users : StandingsNow[v] = "outsider"
    BY <1>1, StandingCases DEF StandingsNow, NoRow
  <1>3. Standing(members'[u]) = "owner"
    BY <1>1, StandingCases DEF ActiveOwner
  <1>4. StandingsNow' = [StandingsNow EXCEPT ![u] = "owner"]
    BY <1>1, <1>3 DEF StandingsNow
  <1> QED
    BY <1>2, <1>4 DEF R!Found, StandingsNow

LEMMA TwoStandings ==
    ASSUME NEW m, NEW n, NEW a \in Users, NEW t \in Users, a # t,
           Standing(n[a]) = "manager", Standing(n[t]) = "owner",
           \A u \in Users \ {a, t} : n[u] = m[u]
    PROVE  [u \in Users |-> Standing(n[u])] =
               [[u \in Users |-> Standing(m[u])] EXCEPT ![a] = "manager", ![t] = "owner"]
  OBVIOUS

\* The commit of a transfer is a handover: the index leaves no second owner, so the
\* one who is appointed is an ordinary member.
LEMMA RosterHandOver ==
    ASSUME SerialInductive, NEW a \in Users, NEW t \in Users, a # t,
           ActiveOwner(members[a]), members[t].status = "ACTIVE",
           members'[a] = [role |-> "ADMIN", status |-> "ACTIVE"],
           members'[t] = [role |-> "OWNER", status |-> "ACTIVE"],
           \A u \in Users \ {a, t} : members'[u] = members[u]
    PROVE  R!HandOver(a, t)
  <1>1. members \in [Users -> Row] /\ members[t].role # "OWNER"
    BY DEF SerialInductive, Inductive, TypeOK, AtMostOneActiveOwner, ActiveOwner
  <1>2. StandingsNow[a] = "owner" /\ StandingsNow[t] \in {"plain", "manager"}
    BY <1>1, StandingCases DEF StandingsNow
  <1>3. /\ Standing(members'[a]) = "manager" /\ Standing(members'[t]) = "owner"
        /\ \A u \in Users \ {a, t} : members'[u] = members[u]
    BY <1>1, StandingCases DEF ActiveOwner
  <1>4. StandingsNow' = [StandingsNow EXCEPT ![a] = "manager", ![t] = "owner"]
    BY <1>3, TwoStandings DEF StandingsNow
  <1> QED
    BY <1>2, <1>4 DEF R!HandOver, R!Ordinary, StandingsNow

\* A write to the row of one who is not the owner leaves the others where they are and
\* moves that one among the ordinary standings and out.
LEMMA RosterOrdinary ==
    ASSUME NEW u \in Users, NEW row, members \in [Users -> Row],
           ~ActiveOwner(members[u]), row.role # "OWNER",
           members[u].status = "ACTIVE" \/ row.status # "ACTIVE"
               \/ \E v \in Users : ActiveOwner(members[v]),
           members' = [members EXCEPT ![u] = row]
    PROVE  [R!Next]_StandingsNow
  <1> DEFINE s == Standing(row)
  <1>1. StandingsNow' = [StandingsNow EXCEPT ![u] = s]
    BY DEF StandingsNow
  <1>2. CASE members[u].status = "ACTIVE"
    <2>1. StandingsNow[u] \in {"plain", "manager"}
      BY <1>2, StandingCases DEF StandingsNow, ActiveOwner
    <2>2. CASE row.status = "ACTIVE"
      <3>1. s \in {"plain", "manager"}
        BY <2>2, StandingCases
      <3>2. R!Regrade(u, s)
        BY <1>1, <2>1, <3>1 DEF R!Regrade, R!Ordinary, StandingsNow
      <3> QED
        BY <3>1, <3>2 DEF R!Next, R!Standings
    <2>3. CASE row.status # "ACTIVE"
      <3>1. R!Remove(u)
        BY <1>1, <2>1, <2>3, StandingCases DEF R!Remove, R!Ordinary, StandingsNow
      <3> QED
        BY <3>1 DEF R!Next, R!Standings
    <2> QED
      BY <2>2, <2>3
  <1>3. CASE members[u].status # "ACTIVE"
    <2>1. StandingsNow[u] = "outsider"
      BY <1>3, StandingCases DEF StandingsNow
    <2>2. CASE row.status # "ACTIVE"
      BY <1>1, <2>1, <2>2, StandingCases DEF StandingsNow
    <2>3. CASE row.status = "ACTIVE"
      <3>1. s \in {"plain", "manager"} /\ \E v \in Users : StandingsNow[v] = "owner"
        BY <1>3, <2>3, StandingCases DEF StandingsNow
      <3>2. R!Join(u, s)
        BY <1>1, <2>1, <3>1 DEF R!Join, R!Ordinary, StandingsNow
      <3> QED
        BY <3>1, <3>2 DEF R!Next, R!Standings
    <2> QED
      BY <2>2, <2>3
  <1> QED
    BY <1>2, <1>3

LEMMA RosterStep == SerialInductive /\ [SerialNext]_vars => [R!Next]_StandingsNow
  <1> SUFFICES ASSUME SerialInductive, [SerialNext]_vars PROVE [R!Next]_StandingsNow
    OBVIOUS
  <1>1. members \in [Users -> Row]
    BY DEF SerialInductive, Inductive, TypeOK
  <1>2. CASE members' = members
    BY <1>2 DEF StandingsNow
  <1>3. ASSUME NEW u \in Users, CreateOrganization(u) PROVE [R!Next]_StandingsNow
    BY <1>3, RosterFound DEF R!Next, R!Standings
  <1>4. ASSUME NEW p \in Requests, Writes(p), members' # members PROVE [R!Next]_StandingsNow
    <2> DEFINE a == req[p].actor
               t == req[p].target
    <2>1. /\ SerialWrite(p) /\ \E v \in Users : ActiveOwner(members[v])
          /\ WriteTransfer(p) \/ WriteRole(p) \/ WriteRevoke(p) => t \in Users
          /\ WriteAccept(p) \/ WriteTransfer(p) => a \in Users
      BY <1>4, SerialWrites DEF SerialInductive, ActiveOwnerExists
    <2>2. CASE WriteTransfer(p)
      <3>1. /\ a # t /\ ActiveOwner(members[a]) /\ members[t].status = "ACTIVE"
            /\ members' = [members EXCEPT ![a] = [role |-> "ADMIN", status |-> "ACTIVE"],
                                          ![t] = [role |-> "OWNER", status |-> "ACTIVE"]]
        BY <2>1, <2>2 DEF SerialWrite, WriteTransfer, WriteRole, WriteRevoke, WriteAccept,
               WriteInvite, WriteRevokeInvitation
      <3>2. /\ members'[a] = [role |-> "ADMIN", status |-> "ACTIVE"]
            /\ members'[t] = [role |-> "OWNER", status |-> "ACTIVE"]
            /\ \A u \in Users \ {a, t} : members'[u] = members[u]
        BY <1>1, <2>1, <2>2, <3>1
      <3>3. R!HandOver(a, t)
        BY <2>1, <2>2, <3>1, <3>2, RosterHandOver
      <3> QED
        BY <2>1, <2>2, <3>3 DEF R!Next, R!Standings
    <2>3. CASE WriteRole(p) \/ WriteRevoke(p)
      <3>1. PICK role \in (Roles \cup {"NONE"}) \ {"OWNER"},
                 status \in {members[t].status, "REVOKED"} :
                members' = [members EXCEPT ![t] = [role |-> role, status |-> status]]
        BY SMTT(40), <2>1, <2>3 DEF SerialWrite, WriteTransfer, WriteRole, WriteRevoke, WriteAccept,
               WriteInvite, WriteRevokeInvitation
      <3>2. members[t].role # "OWNER"
        BY <2>1, <2>3 DEF SerialWrite, WriteTransfer, WriteRole, WriteRevoke, WriteAccept,
               WriteInvite, WriteRevokeInvitation
      <3> DEFINE row == [role |-> role, status |-> status]
      <3>3. /\ row.role # "OWNER" /\ ~ActiveOwner(members[t])
            /\ members[t].status = "ACTIVE" \/ row.status # "ACTIVE"
            /\ members' = [members EXCEPT ![t] = row]
        BY <3>1, <3>2 DEF ActiveOwner
      <3> HIDE DEF row
      <3> QED
        BY <1>1, <2>1, <2>3, <3>3, RosterOrdinary
    <2>4. CASE WriteAccept(p)
      <3>1. /\ members[a].status # "ACTIVE"
            /\ \E role \in Roles \ {"OWNER"} :
                  members' = [members EXCEPT ![a] = [role |-> role, status |-> "ACTIVE"]]
        BY <2>1, <2>4 DEF SerialWrite, WriteTransfer, WriteRole, WriteRevoke, WriteAccept,
               WriteInvite, WriteRevokeInvitation
      <3>2. PICK role \in Roles \ {"OWNER"} :
                members' = [members EXCEPT ![a] = [role |-> role, status |-> "ACTIVE"]]
        BY <3>1
      <3> DEFINE row == [role |-> role, status |-> "ACTIVE"]
      <3>3. /\ row.role # "OWNER" /\ ~ActiveOwner(members[a])
            /\ members' = [members EXCEPT ![a] = row]
        BY <3>1, <3>2 DEF ActiveOwner
      <3> HIDE DEF row
      <3> QED
        BY <1>1, <2>1, <2>4, <3>3, RosterOrdinary
    <2>5. CASE WriteInvite(p) \/ WriteRevokeInvitation(p)
      BY <1>4, <2>5, CommitOutcome DEF WriteInvite, WriteRevokeInvitation
    <2> QED
      BY <1>4, <2>2, <2>3, <2>4, <2>5 DEF Writes
  <1>5. ASSUME NEW p \in Requests, RequestStep(p) PROVE [R!Next]_StandingsNow
    BY <1>2, <1>4, <1>5, StepWrites
  <1> QED
    BY <1>2, <1>3, <1>5 DEF SerialNext, Environment, InvitationExpires, vars

\* Handlers that do not overlap implement the roster of Roster: one owner from the founding
\* on, who changes only by a handover to an active member; nobody else gains or loses a
\* standing but by joining, being regraded and being removed.
THEOREM Refinement == SerialSpec => ImplementsRoster
  <1>1. Init => R!Init
    BY StandingCases DEF Init, R!Init, NoRow
  <1>2. SerialInductive /\ [SerialNext]_vars =>
            [R!Next]_([u \in Users |-> Standing(members[u])])
    BY RosterStep DEF StandingsNow
  <1> QED
    BY <1>1, <1>2, SerialInvariant, PTL DEF SerialSpec, ImplementsRoster, R!Spec
=============================================================================
