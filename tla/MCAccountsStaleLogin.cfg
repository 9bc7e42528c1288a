SPECIFICATION Spec
CONSTANTS
    Secrets = {s1, s2}
    Subjects = {g1}
    Tokens = {t1, t2}
    Sessions = {x1, x2}
    States = {o1}
    Requests = {p, q}
    Endpoints = {"login", "reset"}
    NoSecret = NoSecret
    NoSubject = NoSubject
    NoToken = NoToken
    NoState = NoState
SYMMETRY Symmetry
INVARIANTS SessionsByCurrentPassword
\* an account that has no password has nothing to sign in with
CHECK_DEADLOCK FALSE
