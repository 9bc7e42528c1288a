CONSTANTS
    Secrets = {s1, s2}
    Subjects = {g1, g2}
    Tokens = {t1, t2}
    Sessions = {x1, x2}
    States = {o1, o2}
    Requests = {p, q}
    Endpoints = {"register", "resend", "verify", "login", "logout", "reset", "google"}
    NoSecret = NoSecret
    NoSubject = NoSubject
    NoToken = NoToken
    NoState = NoState
SPECIFICATION Spec
SYMMETRY Symmetry
INVARIANTS Inductive GoogleLeavesNoUnverified
PROPERTIES PasswordSettled ReclaimSpendsTokens PasswordByProof ResetEndsEarlier
\* a user's tokens and sessions run out
CHECK_DEADLOCK FALSE
