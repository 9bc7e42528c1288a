SPECIFICATION Spec
CONSTANTS
    Users = {a, b, c}
    Requests = {p, q}
    Invitations = {i, j}
    Tokens = {k, l, m}
    Endpoints = {"invite", "accept", "uninvite", "revoke"}
    PlainRoles = {"MEMBER"}
    NoUser = NoUser
    NoInvitation = NoInvitation
    NoToken = NoToken
SYMMETRY Symmetry
INVARIANTS Inductive
PROPERTIES InvitationOutcomeFinal JoinNeedsInvitation
