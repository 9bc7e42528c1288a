----------------------------- MODULE VersionLog -----------------------------
(***************************************************************************)
(* What the documents of an organization promise: each is a log of source  *)
(* versions that only grows, one version at a time, from its first upload  *)
(* until it is archived, and then never again.                             *)
(***************************************************************************)
EXTENDS Naturals, Sequences

CONSTANTS Documents, Keys

VARIABLES
    open,       \* the documents that accept versions
    log         \* the storage keys of each document's versions, oldest first

Init ==
    /\ open = {}
    /\ log = [d \in Documents |-> <<>>]

Publish(d, k) ==
    /\ \A e \in Documents : \A n \in 1 .. Len(log[e]) : log[e][n] # k
    /\ log' = [log EXCEPT ![d] = Append(@, k)]

Create(d, k) ==
    /\ log[d] = <<>>
    /\ open' = open \cup {d}
    /\ Publish(d, k)

Revise(d, k) ==
    /\ d \in open
    /\ UNCHANGED open
    /\ Publish(d, k)

Archive(d) ==
    /\ open' = open \ {d}
    /\ UNCHANGED log

Next == \E d \in Documents : Archive(d) \/ \E k \in Keys : Create(d, k) \/ Revise(d, k)

Spec == Init /\ [][Next]_<<open, log>>
=============================================================================
