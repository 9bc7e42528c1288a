---------------------------- MODULE SharingProofs ----------------------------
(***************************************************************************)
(* Theorems about Sharing for every number of accounts, teams and requests.*)
(***************************************************************************)
EXTENDS Sharing, TLAPS

\* What Inductive says of one request r when the rows g are granted.
Fine(r, g) ==
    /\ r.deleted \cup r.seen \cup r.before \subseteq g
    /\ r.pc = "waitUsers" => r.before \cap Users \subseteq r.seen
    /\ r.pc \in {"deleteTeams", "waitTeams", "writeGrants"} =>
           r.before \cap Users \subseteq r.deleted
    /\ r.pc = "waitTeams" => r.before \cap Teams \subseteq r.seen
    /\ r.pc = "writeGrants" => r.before \cap Teams \subseteq r.deleted
    /\ r.pc \in {"readTeam", "addToTeam", "removeFromTeam"} =>
           <<r.user, r.team>> \in Users \X Teams
    /\ r.pc = "predicate" => r.role # "NONE" /\ r.user \in Users

TablesTyped ==
    /\ members \in [Users -> Roles \cup {"NONE"}]
    /\ belongs \in SUBSET (Users \X Teams)
    /\ visibility \in Visibilities
    /\ granted \in SUBSET Principals

LEMMA InductiveParts ==
    Inductive <=> /\ TablesTyped /\ req \in [Requests -> Request]
                  /\ entitled \in SUBSET Requests /\ ReadingEntitled \subseteq entitled
                  /\ \A p \in Requests : Fine(req[p], granted)
                  /\ \A p \in Requests : \A q \in Requests \ {p} :
                         req[p].deleted \cap req[q].deleted = {}
  BY DEF Inductive, TypeOK, RowsHeld, OldRowsCovered, ReadersRemembered, Reading, Fine, TablesTyped

LEMMA IdleFine ==
    ASSUME NEW g PROVE Idle \in Request /\ Fine(Idle, g) /\ Idle.deleted = {}
  BY DEF Idle, Request, Fine

LEMMA InitInductive == Init => Inductive
  <1> SUFFICES ASSUME Init PROVE Inductive
    OBVIOUS
  <1>1. req \in [Requests -> Request] /\ \A p \in Requests : req[p] = Idle
    BY IdleFine DEF Init
  <1>2. ReadingEntitled = {}
    BY <1>1 DEF ReadingEntitled, Reading, Idle
  <1>3. TablesTyped /\ entitled \in SUBSET Requests
    BY DEF Init, TablesTyped
  <1> QED
    BY <1>1, <1>2, <1>3, IdleFine, InductiveParts

LEMMA RememberType ==
    Remember => entitled' \in SUBSET Requests /\ ReadingEntitled' \subseteq entitled'
  BY DEF Remember, Reading, ReadingEntitled

-----------------------------------------------------------------------------
\* A step that changes one request, and no grant.
LEMMA MoveFrame ==
    ASSUME Inductive, Remember, TablesTyped', granted' = granted,
           NEW p \in Requests, NEW r \in Request, req' = [req EXCEPT ![p] = r],
           Fine(r, granted),
           \A q \in Requests \ {p} : r.deleted \cap req[q].deleted = {}
    PROVE  Inductive'
  <1>1. req \in [Requests -> Request]
    BY InductiveParts
  <1>2. req'[p] = r /\ \A q \in Requests \ {p} : req'[q] = req[q]
    BY <1>1
  <1>3. \A q \in Requests : Fine(req'[q], granted')
    BY <1>2, InductiveParts
  <1>4. \A q \in Requests : \A s \in Requests \ {q} : req'[q].deleted \cap req'[s].deleted = {}
    BY <1>2, InductiveParts
  <1>5. req' \in [Requests -> Request]
    BY <1>1
  <1> QED
    BY <1>3, <1>4, <1>5, RememberType
    DEF Inductive, TypeOK, RowsHeld, OldRowsCovered, ReadersRemembered, Reading, Fine, TablesTyped

LEMMA FinishInductive ==
    ASSUME Inductive, Remember, NEW p \in Requests, Finish(p), TablesTyped', granted' = granted
    PROVE  Inductive'
  <1>1. Idle \in Request /\ Fine(Idle, granted) /\ Idle.deleted = {}
    BY IdleFine
  <1> QED
    BY <1>1, MoveFrame DEF Finish

LEMMA TablesKept == ASSUME Inductive, UNCHANGED tables PROVE TablesTyped' /\ granted' = granted
  BY DEF Inductive, TypeOK, TablesTyped, tables

LEMMA RejectInductive ==
    ASSUME Inductive, Remember, NEW p \in Requests, Reject(p)
    PROVE  Inductive'
  BY FinishInductive, TablesKept DEF Reject

-----------------------------------------------------------------------------
(* The steps of a request *)

LEMMA ArriveInductive ==
    ASSUME Inductive, Remember, NEW p \in Requests, Arrive(p)
    PROVE  Inductive'
  <1> DEFINE New(r) == /\ req' = [req EXCEPT ![p] = r] /\ UNCHANGED tables
                       /\ r \in Request /\ Fine(r, granted) /\ r.deleted = {}
  <1>1. members \in [Users -> Roles \cup {"NONE"}] /\ granted \in SUBSET Principals
    BY DEF Inductive, TypeOK
  <1>2. ASSUME NEW u \in Users, StartRead(p, u) PROVE \E r : New(r)
    <2> DEFINE r == [Idle EXCEPT !.pc = "predicate", !.user = u, !.role = members[u]]
    <2>1. r \in Request /\ Fine(r, granted) /\ r.deleted = {}
      BY <1>1, <1>2 DEF StartRead, Idle, Request, Fine
    <2> QED
      BY <1>2, <2>1 DEF StartRead, Start
  <1>3. ASSUME NEW u \in Users, StartUpdate(p, u) PROVE \E r : New(r)
    <2> DEFINE r == [Idle EXCEPT !.pc = "visibility"]
    <2>1. r \in Request /\ Fine(r, granted) /\ r.deleted = {}
      BY DEF Idle, Request, Fine
    <2> QED
      BY <1>3, <2>1 DEF StartUpdate, Start
  <1>4. ASSUME NEW u \in Users, NEW wanted \in Lists, StartReplace(p, u, wanted)
        PROVE  \E r : New(r)
    <2> DEFINE r == [Idle EXCEPT !.pc = "checkPrincipals", !.wanted = wanted, !.before = granted]
    <2>1. wanted \in SUBSET Principals
      BY PrincipalsAssumption DEF Principals
    <2>2. r \in Request /\ Fine(r, granted) /\ r.deleted = {}
      BY <1>1, <2>1 DEF Idle, Request, Fine
    <2> QED
      BY <1>4, <2>2 DEF StartReplace, Start
  <1>5. ASSUME NEW u \in Users, NEW t \in Teams, NEW adds \in BOOLEAN, StartTeam(p, u, t, adds)
        PROVE  \E r : New(r)
    <2> DEFINE r == [Idle EXCEPT !.pc = "readTeam", !.user = u, !.team = t, !.adds = adds]
    <2>1. r \in Request /\ Fine(r, granted) /\ r.deleted = {}
      BY DEF Idle, Request, Fine
    <2> QED
      BY <1>5, <2>1 DEF StartTeam, Start
  <1>6. PICK r : New(r)
    BY <1>2, <1>3, <1>4, <1>5 DEF Arrive
  <1> QED
    BY <1>6, TablesKept, MoveFrame

\* A step to another statement that locks no more rows.
LEMMA GotoInductive ==
    ASSUME Inductive, Remember, NEW p \in Requests, NEW pc, Goto(p, pc), UNCHANGED tables,
           \/ pc \in {"answer", "deleteUsers"}
           \/ pc \in {"addToTeam", "removeFromTeam"} /\ req[p].pc = "readTeam"
    PROVE  Inductive'
  <1> DEFINE r == [req[p] EXCEPT !.pc = pc]
  <1>1. req \in [Requests -> Request] /\ Fine(req[p], granted)
    BY InductiveParts
  <1>2. r \in Request /\ r.deleted = req[p].deleted
    BY <1>1 DEF Request
  <1>3. Fine(r, granted)
    BY <1>1 DEF Fine, Request
  <1>4. \A q \in Requests \ {p} : r.deleted \cap req[q].deleted = {}
    BY <1>2, InductiveParts
  <1> QED
    BY <1>2, <1>3, <1>4, TablesKept, MoveFrame DEF Goto

LEMMA LockedCovers ==
    ASSUME NEW p \in Requests, NEW rows, rows \cap Locked(p) = {}, NEW q \in Requests \ {p}
    PROVE  rows \cap req[q].deleted = {}
  BY DEF Locked

\* The two statements of a DELETE, on the rows of one table.
LEMMA DeleteUsersInductive ==
    ASSUME Inductive, Remember, NEW p \in Requests, DeleteUserGrants(p)
    PROVE  Inductive'
  <1>1. req \in [Requests -> Request] /\ Fine(req[p], granted) /\ granted \in SUBSET Principals
    BY InductiveParts DEF TablesTyped
  <1>2. \A q \in Requests \ {p} : req[p].deleted \cap req[q].deleted = {}
    BY InductiveParts
  <1>3. TablesTyped' /\ granted' = granted
    BY TablesKept DEF DeleteUserGrants
  <1>4. CASE req[p].pc = "deleteUsers" /\ granted \cap Users \cap Locked(p) = {}
    <2> DEFINE r == [req[p] EXCEPT !.pc = "deleteTeams", !.deleted = @ \cup (granted \cap Users)]
    <2>1. req' = [req EXCEPT ![p] = r]
      BY <1>1, <1>4 DEF DeleteUserGrants, Delete
    <2>2. /\ r \in Request /\ r.pc = "deleteTeams" /\ r.before = req[p].before
          /\ r.deleted = req[p].deleted \cup (granted \cap Users) /\ r.seen = req[p].seen
      BY ZenonT(60), <1>1 DEF Request
    <2>3. Fine(r, granted)
      <3> HIDE DEF r
      <3> QED
        BY <1>1, <1>4, <2>2 DEF Fine
    <2>4. \A q \in Requests \ {p} : r.deleted \cap req[q].deleted = {}
      BY <1>2, <1>4, <2>2, LockedCovers
    <2> QED
      BY <1>3, <2>1, <2>2, <2>3, <2>4, MoveFrame
  <1>5. CASE req[p].pc = "deleteUsers" /\ granted \cap Users \cap Locked(p) # {}
    <2> DEFINE r == [req[p] EXCEPT !.pc = "waitUsers", !.seen = granted \cap Users]
    <2>1. req' = [req EXCEPT ![p] = r]
      BY <1>1, <1>5 DEF DeleteUserGrants, Delete
    <2>2. /\ r \in Request /\ r.pc = "waitUsers" /\ r.before = req[p].before
          /\ r.deleted = req[p].deleted /\ r.seen = granted \cap Users
      BY ZenonT(60), <1>1 DEF Request
    <2>3. Fine(r, granted)
      <3> HIDE DEF r
      <3> QED
        BY <1>1, <1>5, <2>2 DEF Fine
    <2> QED
      BY <1>2, <1>3, <2>1, <2>2, <2>3, MoveFrame
  <1>6. CASE req[p].pc = "waitUsers" /\ DeleteSeen(p, "deleteTeams")
    <2> DEFINE r == [req[p] EXCEPT !.pc = "deleteTeams", !.deleted = @ \cup req[p].seen,
                                   !.seen = {}]
    <2>1. req' = [req EXCEPT ![p] = r]
      BY <1>1, <1>6 DEF DeleteSeen
    <2>2. /\ r \in Request /\ r.pc = "deleteTeams" /\ r.before = req[p].before
          /\ r.deleted = req[p].deleted \cup req[p].seen /\ r.seen = {}
      BY ZenonT(60), <1>1 DEF Request
    <2>3. Fine(r, granted)
      <3> HIDE DEF r
      <3> QED
        BY <1>1, <1>6, <2>2 DEF Fine
    <2>4. \A q \in Requests \ {p} : r.deleted \cap req[q].deleted = {}
      BY <1>2, <1>6, <2>2, LockedCovers DEF DeleteSeen
    <2> QED
      BY <1>3, <2>1, <2>2, <2>3, <2>4, MoveFrame
  <1> QED
    BY <1>4, <1>5, <1>6 DEF DeleteUserGrants

LEMMA DeleteTeamsInductive ==
    ASSUME Inductive, Remember, NEW p \in Requests, DeleteTeamGrants(p)
    PROVE  Inductive'
  <1>1. req \in [Requests -> Request] /\ Fine(req[p], granted) /\ granted \in SUBSET Principals
    BY InductiveParts DEF TablesTyped
  <1>2. \A q \in Requests \ {p} : req[p].deleted \cap req[q].deleted = {}
    BY InductiveParts
  <1>3. TablesTyped' /\ granted' = granted
    BY TablesKept DEF DeleteTeamGrants
  <1>4. CASE req[p].pc = "deleteTeams" /\ granted \cap Teams \cap Locked(p) = {}
    <2> DEFINE r == [req[p] EXCEPT !.pc = "writeGrants", !.deleted = @ \cup (granted \cap Teams)]
    <2>1. req' = [req EXCEPT ![p] = r]
      BY <1>1, <1>4 DEF DeleteTeamGrants, Delete
    <2>2. /\ r \in Request /\ r.pc = "writeGrants" /\ r.before = req[p].before
          /\ r.deleted = req[p].deleted \cup (granted \cap Teams) /\ r.seen = req[p].seen
      BY ZenonT(60), <1>1 DEF Request
    <2>3. Fine(r, granted)
      <3> HIDE DEF r
      <3> QED
        BY <1>1, <1>4, <2>2 DEF Fine
    <2>4. \A q \in Requests \ {p} : r.deleted \cap req[q].deleted = {}
      BY <1>2, <1>4, <2>2, LockedCovers
    <2> QED
      BY <1>3, <2>1, <2>2, <2>3, <2>4, MoveFrame
  <1>5. CASE req[p].pc = "deleteTeams" /\ granted \cap Teams \cap Locked(p) # {}
    <2> DEFINE r == [req[p] EXCEPT !.pc = "waitTeams", !.seen = granted \cap Teams]
    <2>1. req' = [req EXCEPT ![p] = r]
      BY <1>1, <1>5 DEF DeleteTeamGrants, Delete
    <2>2. /\ r \in Request /\ r.pc = "waitTeams" /\ r.before = req[p].before
          /\ r.deleted = req[p].deleted /\ r.seen = granted \cap Teams
      BY ZenonT(60), <1>1 DEF Request
    <2>3. Fine(r, granted)
      <3> HIDE DEF r
      <3> QED
        BY <1>1, <1>5, <2>2 DEF Fine
    <2> QED
      BY <1>2, <1>3, <2>1, <2>2, <2>3, MoveFrame
  <1>6. CASE req[p].pc = "waitTeams" /\ DeleteSeen(p, "writeGrants")
    <2> DEFINE r == [req[p] EXCEPT !.pc = "writeGrants", !.deleted = @ \cup req[p].seen,
                                   !.seen = {}]
    <2>1. req' = [req EXCEPT ![p] = r]
      BY <1>1, <1>6 DEF DeleteSeen
    <2>2. /\ r \in Request /\ r.pc = "writeGrants" /\ r.before = req[p].before
          /\ r.deleted = req[p].deleted \cup req[p].seen /\ r.seen = {}
      BY ZenonT(60), <1>1 DEF Request
    <2>3. Fine(r, granted)
      <3> HIDE DEF r
      <3> QED
        BY <1>1, <1>6, <2>2 DEF Fine
    <2>4. \A q \in Requests \ {p} : r.deleted \cap req[q].deleted = {}
      BY <1>2, <1>6, <2>2, LockedCovers DEF DeleteSeen
    <2> QED
      BY <1>3, <2>1, <2>2, <2>3, <2>4, MoveFrame
  <1> QED
    BY <1>4, <1>5, <1>6 DEF DeleteTeamGrants

\* The commit takes the deleted rows from everybody's snapshots as well, and no
\* one else has deleted them.
LEMMA WriteGrantsInductive ==
    ASSUME Inductive, Remember, NEW p \in Requests, WriteGrants(p)
    PROVE  Inductive'
  <1>1. CASE Reject(p)
    BY <1>1, RejectInductive
  <1>2. CASE ~Reject(p)
    <2> DEFINE gone == req[p].deleted
               rest(q) == [req[q] EXCEPT !.seen = @ \ gone, !.before = @ \ gone]
    <2>1. /\ granted' = (granted \ gone) \cup req[p].wanted
          /\ req' = [q \in Requests |-> IF q = p THEN Idle ELSE rest(q)]
          /\ UNCHANGED <<members, belongs, visibility>>
      BY <1>2 DEF WriteGrants
    <2>2. req \in [Requests -> Request] /\ TablesTyped
      BY InductiveParts
    <2>3. req[p].wanted \in SUBSET Principals
      BY <2>2 DEF Request
    <2>4. TablesTyped'
      BY <2>1, <2>2, <2>3 DEF TablesTyped
    <2>5. Idle \in Request /\ Fine(Idle, granted') /\ Idle.deleted = {}
      BY IdleFine
    <2>6. ASSUME NEW q \in Requests \ {p}
          PROVE  rest(q) \in Request /\ rest(q).deleted = req[q].deleted /\ Fine(rest(q), granted')
      <3>1. req[q] \in Request /\ Fine(req[q], granted) /\ req[q].deleted \cap gone = {}
        BY <2>2, InductiveParts
      <3>2. /\ rest(q) \in Request
            /\ rest(q).pc = req[q].pc /\ rest(q).deleted = req[q].deleted
            /\ rest(q).user = req[q].user /\ rest(q).role = req[q].role
            /\ rest(q).team = req[q].team
            /\ rest(q).seen = req[q].seen \ gone /\ rest(q).before = req[q].before \ gone
        BY <3>1 DEF Request
      <3>3. Fine(rest(q), granted')
        <4> HIDE DEF rest
        <4> QED
          BY <2>1, <3>1, <3>2 DEF Fine
      <3> QED
        BY <3>2, <3>3
    <2>7. /\ req'[p] = Idle
          /\ \A q \in Requests \ {p} : req'[q] = rest(q)
      BY <2>1
    <2>8. \A q \in Requests : req'[q] \in Request /\ Fine(req'[q], granted')
      BY <2>5, <2>6, <2>7
    <2>9. req' \in [Requests -> Request]
      BY <2>1, <2>8
    <2>10. \A q \in Requests : \A s \in Requests \ {q} : req'[q].deleted \cap req'[s].deleted = {}
      <3>1. \A q \in Requests \ {p} : req'[q].deleted = req[q].deleted
        BY <2>6, <2>7
      <3> QED
        BY <2>5, <2>7, <3>1, InductiveParts
    <2> QED
      BY <2>4, <2>8, <2>9, <2>10, RememberType
      DEF Inductive, TypeOK, RowsHeld, OldRowsCovered, ReadersRemembered, Reading, Fine, TablesTyped
  <1> QED
    BY <1>1, <1>2

LEMMA ServeInductive ==
    ASSUME Inductive, Remember, NEW p \in Requests, Serve(p)
    PROVE  Inductive'
  <1>1. TablesTyped /\ req \in [Requests -> Request]
    BY InductiveParts
  <1>2. CASE Predicate(p)
    BY <1>2, GotoInductive, RejectInductive DEF Predicate, Reject
  <1>3. CASE Answer(p)
    BY <1>3, RejectInductive DEF Answer
  <1>4. CASE WriteVisibility(p)
    <2>1. TablesTyped' /\ granted' = granted
      BY <1>1, <1>4 DEF WriteVisibility, TablesTyped
    <2> QED
      BY <1>4, <2>1, FinishInductive DEF WriteVisibility
  <1>5. CASE CheckPrincipals(p)
    BY <1>5, GotoInductive, RejectInductive DEF CheckPrincipals, Reject
  <1>6. CASE ReadTeam(p)
    BY <1>6, GotoInductive, RejectInductive DEF ReadTeam, Reject
  <1>7. CASE WriteTeam(p)
    <2>1. req[p].pc \in {"addToTeam", "removeFromTeam"} /\ Fine(req[p], granted)
      BY <1>7, InductiveParts DEF WriteTeam
    <2>2. belongs' \in SUBSET (Users \X Teams)
      BY <1>1, <1>7, <2>1 DEF WriteTeam, Fine, TablesTyped
    <2>3. TablesTyped' /\ granted' = granted
      BY <1>1, <1>7, <2>2 DEF WriteTeam, TablesTyped
    <2> QED
      BY <1>7, <2>3, FinishInductive DEF WriteTeam
  <1> QED
    BY <1>2, <1>3, <1>4, <1>5, <1>6, <1>7, DeleteUsersInductive, DeleteTeamsInductive,
       WriteGrantsInductive DEF Serve

LEMMA NextInductive == Inductive /\ [Next]_vars => Inductive'
  <1> SUFFICES ASSUME Inductive, [Next]_vars PROVE Inductive'
    OBVIOUS
  <1>1. CASE UNCHANGED vars
    BY <1>1 DEF vars, Inductive, TypeOK, RowsHeld, OldRowsCovered, ReadersRemembered,
                Reading, ReadingEntitled, Entitled
  <1>2. CASE Next
    <2>1. Remember /\ Step
      BY <1>2 DEF Next
    <2>2. ASSUME NEW u \in Users, ChangeMember(u) PROVE Inductive'
      <3>1. /\ members' \in [Users -> Roles \cup {"NONE"}]
            /\ UNCHANGED <<belongs, visibility, granted, req>>
        BY <2>2 DEF ChangeMember, Inductive, TypeOK
      <3> QED
        BY <2>1, <3>1, RememberType
        DEF Inductive, TypeOK, RowsHeld, OldRowsCovered, ReadersRemembered, Reading
    <2>3. ASSUME NEW p \in Requests, Arrive(p) \/ Serve(p) \/ Abandon(p) \/ DeadlockVictim(p)
          PROVE  Inductive'
      BY <2>1, <2>3, ArriveInductive, ServeInductive, RejectInductive DEF Abandon, DeadlockVictim
    <2> QED
      BY <2>1, <2>2, <2>3 DEF Step
  <1> QED
    BY <1>1, <1>2

-----------------------------------------------------------------------------
\* The types, and what the row locks of the DELETE statements keep true: a row
\* that a PUT has deleted stays granted for all others until that PUT commits,
\* and no row as old as a PUT escapes its two DELETE statements.
THEOREM InductiveInvariant == Spec => []Inductive
  <1> QED
    BY InitInductive, NextInductive, PTL DEF Spec

\* The grants change at the commit of one PUT only, so that the request that ends
\* there is the one whose list they become.
LEMMA GrantsChange ==
    ASSUME Inductive, Next, NEW p \in Requests, req[p].pc = "writeGrants",
           req'[p].pc = "idle", granted' # granted
    PROVE  granted' = (granted \ req[p].deleted) \cup req[p].wanted
  <1>1. req \in [Requests -> Request]
    BY InductiveParts
  <1>2. PICK q \in Requests : WriteGrants(q) /\ ~Reject(q)
    <2>1. PICK q \in Requests : Serve(q)
      BY DEF Next, Step, ChangeMember, Arrive, StartRead, StartUpdate, StartReplace, StartTeam,
             Start, Abandon, DeadlockVictim, Reject, tables
    <2> QED
      BY <2>1 DEF Serve, Predicate, Answer, WriteVisibility, CheckPrincipals, DeleteUserGrants,
                  DeleteTeamGrants, WriteGrants, ReadTeam, WriteTeam, Reject, tables
  <1>3. /\ granted' = (granted \ req[q].deleted) \cup req[q].wanted
        /\ req' = [s \in Requests |->
                     IF s = q THEN Idle
                     ELSE [req[s] EXCEPT !.seen = @ \ req[q].deleted,
                                         !.before = @ \ req[q].deleted]]
    BY <1>2 DEF WriteGrants
  <1>4. CASE q = p
    BY <1>3, <1>4
  <1>5. CASE q # p
    <2>1. req'[p] = [req[p] EXCEPT !.seen = @ \ req[q].deleted, !.before = @ \ req[q].deleted]
      BY <1>3, <1>5
    <2>2. req'[p].pc = req[p].pc
      BY <1>1, <2>1 DEF Request
    <2> QED
      BY <2>2
  <1> QED
    BY <1>4, <1>5

\* A PUT leaves exactly its list, and rows that other PUTs have committed since it
\* began: no earlier grant survives a replacement, whatever overlaps with it.
THEOREM EarlierGrantsErased == Spec => ReplaceErasesEarlier
  <1> DEFINE Erases == \A p \in Requests :
                 req[p].pc = "writeGrants" /\ req'[p].pc = "idle" /\ granted' # granted
                   => /\ req[p].wanted \subseteq granted'
                      /\ (granted' \ req[p].wanted) \cap req[p].before = {}
  <1>1. Inductive /\ [Next]_vars => [Erases]_vars
    <2> SUFFICES ASSUME Inductive, Next, NEW p \in Requests, req[p].pc = "writeGrants",
                        req'[p].pc = "idle", granted' # granted
                 PROVE  /\ req[p].wanted \subseteq granted'
                        /\ (granted' \ req[p].wanted) \cap req[p].before = {}
      OBVIOUS
    <2>1. granted' = (granted \ req[p].deleted) \cup req[p].wanted
      BY GrantsChange
    <2>2. req[p].before \subseteq req[p].deleted
      BY InductiveParts DEF Fine, TablesTyped, Principals
    <2> QED
      BY <2>1, <2>2
  <1> QED
    BY <1>1, InductiveInvariant, PTL DEF Spec, ReplaceErasesEarlier

\* No step but its own moves a read on.
LEMMA OnlyPredicateServes ==
    ASSUME Inductive, Next, NEW p \in Requests, req[p].pc = "predicate", req'[p].pc = "answer"
    PROVE  Predicate(p) /\ ~Finish(p)
  <1>1. req \in [Requests -> Request]
    BY InductiveParts
  <1>2. ASSUME NEW q \in Requests, Finish(q) PROVE req'[p] \in {Idle, req[p]}
    BY <1>1, <1>2 DEF Finish
  <1>3. ~\E q \in Requests : Finish(q)
    BY <1>2 DEF Idle
  <1>4. ~\E q \in Requests : WriteGrants(q)
    <2> SUFFICES ASSUME NEW q \in Requests, WriteGrants(q) PROVE FALSE
      OBVIOUS
    <2>1. req' = [t \in Requests |-> IF t = q THEN Idle
                                    ELSE [req[t] EXCEPT !.seen = @ \ req[q].deleted,
                                                        !.before = @ \ req[q].deleted]]
      BY <1>3 DEF WriteGrants, Reject
    <2>2. req'[p].pc \in {"idle", req[p].pc}
      BY <1>1, <2>1 DEF Idle, Request
    <2> QED
      BY <2>2
  <1>5. ASSUME NEW q \in Requests, NEW r, req' = [req EXCEPT ![q] = r] PROVE q = p
    BY <1>1, <1>5
  <1>6. PICK q \in Requests : Arrive(q) \/ Serve(q)
    BY <1>3 DEF Next, Step, ChangeMember, Abandon, DeadlockVictim, Reject
  <1>7. ~Arrive(q)
    <2> SUFFICES ASSUME NEW r, Start(q, r) PROVE FALSE
      BY DEF Arrive, StartRead, StartUpdate, StartReplace, StartTeam
    <2>1. req[q].pc = "idle" /\ q = p
      BY <1>5 DEF Start
    <2> QED
      BY <2>1
  <1>8. Predicate(q) \/ q = p
    <2>1. CASE CheckPrincipals(q) \/ ReadTeam(q)
      BY <1>3, <1>5, <2>1 DEF CheckPrincipals, ReadTeam, Goto
    <2>2. CASE DeleteUserGrants(q) \/ DeleteTeamGrants(q)
      BY <1>5, <2>2 DEF DeleteUserGrants, DeleteTeamGrants, Delete, DeleteSeen
    <2> QED
      BY <1>3, <1>4, <1>6, <1>7, <2>1, <2>2 DEF Serve, Answer, WriteVisibility, WriteTeam, Reject
  <1>9. q = p
    BY <1>3, <1>5, <1>8 DEF Predicate, Goto
  <1> QED
    BY <1>3, <1>6, <1>7, <1>9 DEF Serve, Answer, WriteVisibility, CheckPrincipals, ReadTeam,
       DeleteUserGrants, DeleteTeamGrants, WriteGrants, WriteTeam

\* A document is served to a reader who was entitled to it at one moment of the
\* request, or whose own membership changed after the context was loaded.
THEOREM ReadersWereEntitled == Spec => ServedWasEntitled
  <1>1. Inductive /\ [Next]_vars
           => [\A p \in Requests : req[p].pc = "predicate" /\ req'[p].pc = "answer" =>
                 \/ p \in entitled
                 \/ members[req[p].user] # req[p].role]_vars
    <2> SUFFICES ASSUME Inductive, Next, NEW p \in Requests, req[p].pc = "predicate",
                        req'[p].pc = "answer", members[req[p].user] = req[p].role
                 PROVE  p \in entitled
      OBVIOUS
    <2>1. Readable(req[p].user, req[p].role)
      BY OnlyPredicateServes DEF Predicate
    <2>2. /\ Fine(req[p], granted) /\ ReadingEntitled \subseteq entitled
          /\ req \in [Requests -> Request]
      BY InductiveParts
    <2>3. Entitled(req[p].user)
      BY <2>1, <2>2 DEF Fine, Readable, TeamAccess, Entitled
    <2> QED
      BY <2>2, <2>3 DEF ReadingEntitled, Reading
  <1> QED
    BY <1>1, InductiveInvariant, PTL DEF Spec, ServedWasEntitled
=============================================================================
