------------------------------- MODULE Roster -------------------------------
(***************************************************************************)
(* What an organization promises its members, whatever the requests and    *)
(* the tables look like: from its founding on it has exactly one owner;    *)
(* the owner's standing changes in a handover and in no other way.         *)
(***************************************************************************)
CONSTANT Users

VARIABLE standing   \* what each account is to the organization

Standings == {"outsider", "plain", "manager", "owner"}
Ordinary == {"plain", "manager"}

Init == standing = [u \in Users |-> "outsider"]

Found(u) ==
    /\ \A v \in Users : standing[v] = "outsider"
    /\ standing' = [standing EXCEPT ![u] = "owner"]

Join(u, s) ==
    /\ \E v \in Users : standing[v] = "owner"
    /\ standing[u] = "outsider" /\ s \in Ordinary
    /\ standing' = [standing EXCEPT ![u] = s]

Regrade(u, s) ==
    /\ standing[u] \in Ordinary /\ s \in Ordinary
    /\ standing' = [standing EXCEPT ![u] = s]

Remove(u) ==
    /\ standing[u] \in Ordinary
    /\ standing' = [standing EXCEPT ![u] = "outsider"]

HandOver(u, v) ==
    /\ standing[u] = "owner" /\ standing[v] \in Ordinary
    /\ standing' = [standing EXCEPT ![u] = "manager", ![v] = "owner"]

Next == \E u, v \in Users, s \in Standings :
            Found(u) \/ Join(u, s) \/ Regrade(u, s) \/ Remove(u) \/ HandOver(u, v)

Spec == Init /\ [][Next]_standing
=============================================================================
