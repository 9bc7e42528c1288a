CONSTANTS
    Instances = {i, j}
    Followed <- FollowedReleases
    Requests = {p, q}
    LocalBuckets <- UploadBuckets
    LocalCalls <- UploadCalls
    LocalLimit <- UploadLimit
    LocalWindow = 3
    LocalMaxKeys = 1
    LocalMaxTime = 5
    SharedBuckets <- AuthBuckets
    SharedCalls <- AuthCalls
    SharedLimit <- AuthLimit
    SharedWindow = 1
    SharedMaxTime = 3
    MaxLag = 1
    NoAdapters = NoAdapters
    user = user
    organization = organization
    address = address
    email = email
SPECIFICATION Spec
SYMMETRY Symmetry
INVARIANTS Inductive HardenedAdapters MemoryLimits RedisLimits
PROPERTIES ReadyWasSeen RefusedAtLimit
\* Instances whose settings are refused stay down, and clocks end at their bound.
CHECK_DEADLOCK FALSE
