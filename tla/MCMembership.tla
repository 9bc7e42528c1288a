---------------------------- MODULE MCMembership ----------------------------
(***************************************************************************)
(* Small instances of Membership for TLC.                                  *)
(***************************************************************************)
EXTENDS Membership, TLC

\* Accounts, requests, invitation identifiers and tokens are interchangeable.
Symmetry == Permutations(Users) \cup Permutations(Requests)
                \cup Permutations(Invitations) \cup Permutations(Tokens)
SymmetryOfMembers == Permutations(Users) \cup Permutations(Requests)

\* An organization that has grown: one active owner, and every other account an
\* active or a revoked member, or never invited.
EstablishedInit ==
    /\ members \in [Users -> Row]
    /\ \E u \in Users :
        /\ ActiveOwner(members[u])
        /\ \A v \in Users \ {u} :
            \/ members[v] = NoRow
            \/ members[v].role \in Roles \ {"OWNER"} /\ members[v].status # "NONE"
    /\ invites = [i \in Invitations |-> NoInvite]
    /\ issued = {}
    /\ req = [p \in Requests |-> Idle]
EstablishedSpec == EstablishedInit /\ [][Next]_vars

\* Every account is an active member, the owner or another one with a pending
\* invitation: an invitation that was checked before the account joined by an
\* earlier one leaves that, and a transfer may have followed.  Which account is
\* which is fixed, because liveness is checked without symmetry.
Holder == CHOOSE u \in Users : TRUE
Other == CHOOSE u \in Users \ {Holder} : TRUE
RacedInit ==
    /\ members = [u \in Users |->
                    [role |-> IF u = Holder THEN "OWNER" ELSE "MEMBER", status |-> "ACTIVE"]]
    /\ \E u \in {Holder, Other}, i \in Invitations, k \in Tokens :
        /\ invites = [j \in Invitations |->
                        IF j = i THEN [status |-> "PENDING", email |-> u, role |-> "ADMIN",
                                       token |-> k, expired |-> FALSE]
                        ELSE NoInvite]
        /\ issued = {k}
    /\ req = [p \in Requests |-> Idle]
RacedFairSpec == RacedInit /\ [][Next]_vars /\ Fairness
=============================================================================
