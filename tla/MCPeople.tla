------------------------------ MODULE MCPeople ------------------------------
(***************************************************************************)
(* Two requests on two profiles, one user to link; two spellings of one    *)
(* address and two names with one slug.                                    *)
(***************************************************************************)
EXTENDS People, TLC

CONSTANTS x1, x2, u1

MCNames == {"Ops", "ops!"}
MCSlug == [n \in MCNames |-> "ops"]
MCEmails == {"Ann@x", "ann@x"}
MCNormal == [e \in MCEmails |-> "ann@x"]

Creation(user, email, manager) ==
    [exists |-> TRUE, user |-> user, name |-> "Ops", email |-> email, manager |-> manager]
MCCreations == {Creation(u1, NoEmail, NoProfile), Creation(NoUser, "Ann@x", x1)}

MCPatches ==
    {("manager" :> x1), ("manager" :> NoProfile),
     ("name" :> "ops!") @@ ("email" :> NoEmail),
     ("manager" :> x2) @@ ("email" :> "Ann@x")}

Symmetry == Permutations(Requests) \cup Permutations(Teams)

=============================================================================
