----------------------------- MODULE MCUpgrade -----------------------------
(***************************************************************************)
(* Two organizations, one document with two versions of its own and one of *)
(* another document, two invitations to one address.                       *)
(***************************************************************************)
EXTENDS Upgrade, TLC

CONSTANTS u1, u2

Row(table, org, of, rank) == [table |-> table, org |-> org, of |-> of, rank |-> rank]

Owner1 == Row("organization_memberships", "o1", u1, 1)
Owner2 == Row("organization_memberships", "o1", u2, 2)
Owner3 == Row("organization_memberships", "o2", u1, 1)
Document == Row("documents", "o1", "d1", 1)
Version1 == Row("document_versions", "o1", "d1", 1)
Version2 == Row("document_versions", "o1", "d1", 2)
Foreign == Row("document_versions", "o1", "d2", 1)
Invite1 == Row("organization_invitations", "o1", "a1", 1)
Invite2 == Row("organization_invitations", "o1", "a1", 2)
Profile == Row("employee_profiles", "o2", "p1", 1)
Session == Row("sessions", "none", "s1", 1)
State == Row("oauth_login_states", "none", "k1", 1)

MCRows == {Owner1, Owner2, Owner3, Document, Version1, Version2, Foreign,
           Invite1, Invite2, Profile, Session, State}

\* Two active owners and a foreign pointer, or not; a profile of a user who is no
\* member, or not.
MCLegacy ==
    {(Owner1 :> Is("OWNER", u1)) @@ (Owner2 :> Is(second, u2)) @@ (Owner3 :> Is("OWNER", u1))
        @@ (Document :> [Is("present", u1) EXCEPT !.ref = pointer])
        @@ (Version1 :> Is("present", u2)) @@ (Version2 :> Absent)
        @@ (Foreign :> Is("present", u1))
        @@ (Invite1 :> Is("PENDING", u1)) @@ (Invite2 :> Absent)
        @@ (Profile :> profile)
        @@ (Session :> Is("present", NoUser)) @@ (State :> Is("present", NoUser)) :
        second \in {"OWNER", "ADMIN"}, pointer \in {Version1, Foreign},
        profile \in {Absent, Is("present", u2)}}

=============================================================================
