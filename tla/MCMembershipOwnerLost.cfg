SPECIFICATION EstablishedSpec
CONSTANTS
    Users = {a, b}
    Requests = {p, q}
    Invitations = {}
    Tokens = {}
    Endpoints = {"transfer", "role", "revoke"}
    PlainRoles = {"MEMBER"}
    NoUser = NoUser
    NoInvitation = NoInvitation
    NoToken = NoToken
SYMMETRY SymmetryOfMembers
INVARIANTS ActiveOwnerExists
