SPECIFICATION Spec
CONSTANTS
    x1 = x1
    x2 = x2
    u1 = u1
    Users = {u1}
    Profiles = {x1, x2}
    Teams = {t1, t2}
    Names <- MCNames
    Emails <- MCEmails
    Normal <- MCNormal
    Slug <- MCSlug
    Creations <- MCCreations
    Patches <- MCPatches
    Requests = {r1, r2}
    NoUser = NoUser
    NoProfile = NoProfile
    NoEmail = NoEmail
    NoName = NoName
SYMMETRY Symmetry
INVARIANTS Inductive
PROPERTIES LinkedWhileMember PatchApplied
