SPECIFICATION Spec
CONSTANTS
    Users = {a, b, c}
    Requests = {p}
    Invitations = {i, j}
    Tokens = {k, l}
    Endpoints = {"transfer", "role", "revoke", "invite", "uninvite", "accept"}
    PlainRoles = {"MANAGER", "MEMBER"}
    NoUser = NoUser
    NoInvitation = NoInvitation
    NoToken = NoToken
SYMMETRY Symmetry
INVARIANTS ActiveOwnerExists
PROPERTIES ImplementsRoster TransferOnlyByCurrentOwner
