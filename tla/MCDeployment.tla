---------------------------- MODULE MCDeployment ----------------------------
(***************************************************************************)
(* Small instances of Deployment for TLC.                                  *)
(***************************************************************************)
EXTENDS Deployment, TLC

CONSTANTS user, organization, address, email    \* buckets

\* The defaults of config.py, and PRODUCTION_DEPLOYMENT.md.
Production == [hardened |-> TRUE, exposure |-> FALSE, backend |-> "redis",
               redisUrl |-> "rediss", uploads |-> TRUE, scanner |-> "clamav",
               clamd |-> TRUE, tokens |-> TRUE, email |-> "smtp",
               smtp |-> {"account", "starttls"}, encryption |-> "AES256",
               kmsKey |-> FALSE, create |-> FALSE, others |-> TRUE]
Default == [hardened |-> FALSE, exposure |-> TRUE, backend |-> "memory",
            redisUrl |-> "none", uploads |-> TRUE, scanner |-> "noop",
            clamd |-> FALSE, tokens |-> TRUE, email |-> "capture",
            smtp |-> {"starttls"}, encryption |-> "none",
            kmsKey |-> FALSE, create |-> TRUE, others |-> TRUE]
FollowedReleases == {Production, Default}

\* check_upload_rate: the limit of an organization is above that of its users.
UploadBuckets == {user, organization}
UploadCalls == {<<user, organization>>, <<organization>>}
UploadLimit == (user :> 1) @@ (organization :> 2)

\* check_auth_rate with and without an e-mail address in the request.
AuthBuckets == {address, email}
AuthCalls == {<<address>>, <<address, email>>}
AuthLimit == [b \in AuthBuckets |-> 1]

Symmetry == Permutations(Requests) \cup Permutations(Instances)
=============================================================================
