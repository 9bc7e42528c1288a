---------------------------- MODULE MCDocuments ----------------------------
(***************************************************************************)
(* Small instances of Documents for TLC.                                   *)
(***************************************************************************)
EXTENDS Documents, TLC

\* Documents, version identifiers and requests are interchangeable.
Symmetry == Permutations(Documents) \cup Permutations(Keys) \cup Permutations(Requests)
=============================================================================
