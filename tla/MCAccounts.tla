---------------------------- MODULE MCAccounts ----------------------------
(***************************************************************************)
(* Small instances of Accounts for TLC.                                    *)
(***************************************************************************)
EXTENDS Accounts, TLC

\* Passwords, subjects, sign-in states and requests are interchangeable; tokens
\* and sessions are taken by CHOOSE.
Symmetry == Permutations(Secrets) \cup Permutations(Subjects)
                \cup Permutations(States) \cup Permutations(Requests)
=============================================================================
