------------------------------ MODULE MCSharing ------------------------------
(***************************************************************************)
(* Small instances of Sharing for TLC.                                     *)
(***************************************************************************)
EXTENDS Sharing, TLC

Symmetry == Permutations(Requests)

\* The author stays a manager, who may manage the document and the teams.
SteadyAuthor == Init /\ members[Author] = "MANAGER"
SteadyAuthorSpec == SteadyAuthor /\ [][Next]_vars
=============================================================================
