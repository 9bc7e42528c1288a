SPECIFICATION RacedFairSpec
CONSTANTS
    Users = {a, b, c}
    Requests = {p, q}
    Invitations = {i}
    Tokens = {k}
    Endpoints = {"transfer", "accept"}
    PlainRoles = {"MEMBER"}
    NoUser = NoUser
    NoInvitation = NoInvitation
    NoToken = NoToken
PROPERTIES OwnerOnlyByTransfer OwnerLossHasCause RequestsComplete
