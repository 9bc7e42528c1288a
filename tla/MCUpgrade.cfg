SPECIFICATION Spec
CONSTANTS
    u1 = u1
    u2 = u2
    Users = {u1, u2}
    Rows <- MCRows
    Legacy <- MCLegacy
    Writers = {w1}
    Job = job
    NoUser = NoUser
    NoVersion = NoVersion
    MaxWrites = 2
\* after the upgrade and MaxWrites writes nobody starts anything
CHECK_DEADLOCK FALSE
INVARIANTS Inductive RevisionHolds IndexesNeverRefuse SignedInNeverVictim
PROPERTIES UpgradeRepairs UpgradeEnds
