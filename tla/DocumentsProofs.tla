-------------------------- MODULE DocumentsProofs --------------------------
(***************************************************************************)
(* Theorems about Documents for every number of documents, versions and    *)
(* concurrent requests.                                                    *)
(***************************************************************************)
EXTENDS Documents, TLAPS, FiniteSetTheorems, SequenceTheorems

LEMMA IdleType == Idle \in Request /\ Idle.pc = "idle" /\ Idle.key = NoKey
  BY BoundAssumption DEF Idle, Request

LEMMA InitInductive == Init => Inductive
  <1> SUFFICES ASSUME Init PROVE Inductive
    OBVIOUS
  <1>1. TypeOK
    BY IdleType, BoundAssumption DEF Init, TypeOK, Document, NoRow, Version, NoVersion
  <1>2. RowsConsistent
    BY NoDocumentAssumption DEF Init, RowsConsistent, NoRow, NoVersion, VersionsOf, Stored
  <1>3. Exclusive /\ (\A p \in Requests : WellFormed(p)) /\ NumberStaysNext
    BY IdleType DEF Init, Exclusive, HoldsDocument, WellFormed, NumberStaysNext
  <1>5. Numbered
    <2>1. \A d \in Documents : VersionsOf(d) = {}
      BY NoDocumentAssumption DEF Init, VersionsOf, NoVersion
    <2> QED
      BY <2>1, FS_EmptySet DEF Numbered, Latest
  <1>4. CurrentIsLatest /\ OrphansExplained
    BY DEF Init, CurrentIsLatest, NoRow, OrphansExplained
  <1> QED
    BY <1>1, <1>2, <1>3, <1>4, <1>5 DEF Inductive

LEMMA NumberedSame == ASSUME Numbered, versions' = versions PROVE Numbered'
  BY DEF Numbered, Latest, VersionsOf

\* What Inductive says of one request.
Fine(p) ==
    /\ WellFormed(p)
    /\ req[p].pc \in {"scan", "put", "commit"} => Latest(req[p].doc, req[p].number - 1)

\* A step that touches no table and hands request p from r to the next.
LEMMA MoveFrame ==
    ASSUME Inductive, NEW p \in Requests, NEW r \in Request, req' = [req EXCEPT ![p] = r],
           documents' = documents, versions' = versions,
           drawn \subseteq drawn', drawn' \in SUBSET Keys, unsettled' \in SUBSET Keys,
           objects' \in SUBSET Keys, objects' \subseteq drawn',
           \A k \in Keys : k # req[p].key => (k \in objects' <=> k \in objects),
           \A q \in Requests \ {p} : r.key = req[q].key => r.key = NoKey,
           \A q \in Requests \ {p}, d \in Documents : ~(HoldsDocument(p, d)' /\ HoldsDocument(q, d)),
           Fine(p)', OrphansExplained'
    PROVE  Inductive'
  <1>1. TypeOK'
    BY DEF Inductive, TypeOK
  <1>2. ASSUME NEW q \in Requests \ {p} PROVE req'[q] = req[q]
    BY DEF Inductive, TypeOK
  <1>3. req'[p] = r
    BY DEF Inductive, TypeOK
  <1>4. Exclusive'
    BY <1>2, <1>3 DEF Inductive, Exclusive, HoldsDocument
  <1>5. ASSUME NEW q \in Requests \ {p} PROVE Fine(q)'
    <2>1. req[q].key # NoKey => req[q].key # req[p].key
      BY DEF Inductive, Exclusive
    <2>2. req[q].pc \in {"scan", "put", "commit"} => req[q].key \in Keys /\ req[q].key # NoKey
      BY NoDocumentAssumption DEF Inductive, WellFormed, TypeOK
    <2> QED
      BY <1>2, <2>1, <2>2 DEF Inductive, Fine, WellFormed, NumberStaysNext, Latest, VersionsOf, Active
  <1>6. RowsConsistent' /\ CurrentIsLatest'
    BY DEF Inductive, RowsConsistent, CurrentIsLatest, VersionsOf, Stored, Latest
  <1>7. Numbered'
    BY NumberedSame DEF Inductive
  <1> QED
    BY <1>1, <1>4, <1>5, <1>6, <1>7 DEF Inductive, Fine, NumberStaysNext

-----------------------------------------------------------------------------
(* Steps that write no table                                               *)

\* The identifiers that requests carry are among those drawn.
LEMMA KeyDrawn ==
    ASSUME Inductive, NEW q \in Requests
    PROVE  req[q].key \in drawn \/ req[q].key \notin Keys
  BY NoDocumentAssumption DEF Inductive, WellFormed, TypeOK, Request

\* A request that ends without writing: its object, if it stored one, has to
\* be accounted for.
LEMMA FinishInductive ==
    ASSUME Inductive, NEW p \in Requests, Finish(p),
           documents' = documents, versions' = versions, drawn' = drawn,
           objects' \in {objects, objects \ {req[p].key}, objects \cup {req[p].key}},
           req[p].key = NoKey => objects' = objects,
           unsettled \subseteq unsettled', unsettled' \in SUBSET Keys,
           req[p].key \in objects' => req[p].key \in unsettled'
    PROVE  Inductive'
  <1>1. req' = [req EXCEPT ![p] = Idle] /\ req'[p] = Idle
    BY DEF Finish, Inductive, TypeOK
  <1>2. req[p].key # NoKey => req[p].key \in drawn
    BY DEF Inductive, WellFormed, TypeOK, Request
  <1>3. objects' \in SUBSET Keys /\ objects' \subseteq drawn'
    BY <1>2 DEF Inductive, TypeOK, RowsConsistent
  <1>4. Fine(p)' /\ \A d \in Documents : ~HoldsDocument(p, d)'
    BY <1>1, IdleType DEF Fine, WellFormed, HoldsDocument, Idle
  <1>5. OrphansExplained'
    BY <1>1, <1>2, IdleType DEF Inductive, TypeOK, OrphansExplained, Stored, WellFormed
  <1> QED
    BY <1>1, <1>2, <1>3, <1>4, <1>5, IdleType, MoveFrame DEF Inductive, TypeOK

LEMMA ArriveInductive == ASSUME Inductive, NEW p \in Requests, Arrive(p) PROVE Inductive'
  <1>1. CASE StartUpload(p)
    <2>1. PICK d \in Documents, k \in Keys \ drawn :
            /\ documents[d] = NoRow
            /\ \A q \in Requests : req[q].doc # d
            /\ req' = [req EXCEPT ![p] = [pc |-> "scan", doc |-> d, key |-> k, number |-> 1]]
            /\ drawn' = drawn \cup {k}
      BY <1>1 DEF StartUpload
    <2> DEFINE r == [pc |-> "scan", doc |-> d, key |-> k, number |-> 1]
    <2>2. r \in Request /\ r = req'[p] /\ TablesUnchanged
      BY <1>1, <2>1, BoundAssumption DEF StartUpload, Request, Inductive, TypeOK
    <2>3. versions[k] = NoVersion /\ k \notin objects /\ VersionsOf(d) = {}
      BY <2>1 DEF Inductive, RowsConsistent, Stored, NoRow
    <2>4. Fine(p)'
      BY <2>1, <2>2, <2>3 DEF Fine, WellFormed, TablesUnchanged, Latest, VersionsOf, NoRow
    <2>5. \A q \in Requests \ {p} : k # req[q].key
      BY <2>1, KeyDrawn DEF Inductive
    <2>6. \A q \in Requests \ {p}, e \in Documents : ~(HoldsDocument(p, e)' /\ HoldsDocument(q, e))
      BY <2>1, <2>2 DEF HoldsDocument
    <2>7. OrphansExplained'
      BY <1>1, <2>1, <2>2 DEF Inductive, TypeOK, OrphansExplained, TablesUnchanged, Stored, StartUpload
    <2> QED
      BY <2>1, <2>2, <2>4, <2>5, <2>6, <2>7, MoveFrame DEF Inductive, TypeOK, RowsConsistent,
         TablesUnchanged
  <1>2. ASSUME NEW d \in Documents, NEW pc \in {"lock", "archive"}, Active(d), req[p].pc = "idle",
               req' = [req EXCEPT ![p] = [Idle EXCEPT !.pc = pc, !.doc = d]],
               TablesUnchanged, drawn' = drawn
        PROVE  Inductive'
    <2> DEFINE r == [Idle EXCEPT !.pc = pc, !.doc = d]
    <2>1. r \in Request /\ r = req'[p] /\ r.key = NoKey
      BY <1>2, IdleType DEF Idle, Request, Inductive, TypeOK
    <2>2. Fine(p)' /\ \A e \in Documents : ~HoldsDocument(p, e)'
      BY <1>2, <2>1 DEF Fine, WellFormed, HoldsDocument, TablesUnchanged, Active, Idle
    <2>3. OrphansExplained'
      BY <1>2, <2>1 DEF Inductive, TypeOK, OrphansExplained, TablesUnchanged, Stored
    <2> QED
      BY <1>2, <2>1, <2>2, <2>3, MoveFrame DEF Inductive, TypeOK, RowsConsistent, TablesUnchanged
  <1> QED
    BY <1>1, <1>2 DEF Arrive, StartVersion, StartArchive

\* A request that goes from step to step, keeping what it carries.
LEMMA GotoInductive ==
    ASSUME Inductive, NEW p \in Requests, NEW pc \in {"number", "put", "commit", "compensate"},
           Goto(p, pc), documents' = documents, versions' = versions, drawn' = drawn,
           unsettled' = unsettled, objects' \in {objects, objects \cup {req[p].key}},
           \/ req[p].pc = "lock" /\ pc = "number" /\ Active(req[p].doc) /\ Unlocked(req[p].doc)
              /\ objects' = objects
           \/ req[p].pc = "scan" /\ pc = "put" /\ objects' = objects
           \/ req[p].pc = "put" /\ pc = "commit" /\ objects' = objects \cup {req[p].key}
           \/ req[p].pc = "commit" /\ pc = "compensate" /\ objects' = objects
    PROVE  Inductive'
  <1> DEFINE r == [req[p] EXCEPT !.pc = pc]
  <1>1. r \in Request /\ r = req'[p] /\ r.key = req[p].key /\ req' = [req EXCEPT ![p] = r]
    BY DEF Goto, Request, Inductive, TypeOK
  <1>2. Fine(p)'
    <2>1. WellFormed(p) /\ (req[p].pc \in {"scan", "put", "commit"} =>
                                Latest(req[p].doc, req[p].number - 1))
      BY DEF Inductive, NumberStaysNext
    <2>2. Latest(r.doc, r.number - 1)' = Latest(req[p].doc, req[p].number - 1)
      BY <1>1 DEF Latest, VersionsOf, Request, Inductive, TypeOK
    <2> QED
      BY <1>1, <2>1, <2>2 DEF Fine, WellFormed, Active, Request, Inductive, TypeOK
  <1>3. \A q \in Requests \ {p}, d \in Documents : ~(HoldsDocument(p, d)' /\ HoldsDocument(q, d))
    BY <1>1 DEF HoldsDocument, Unlocked, Inductive, Exclusive
  <1>4. objects' \in SUBSET Keys /\ objects' \subseteq drawn
    BY DEF Inductive, WellFormed, TypeOK, RowsConsistent
  <1>5. OrphansExplained'
    BY <1>1 DEF Inductive, TypeOK, OrphansExplained, Stored
  <1>6. \A q \in Requests \ {p} : r.key = req[q].key => r.key = NoKey
    BY <1>1 DEF Inductive, Exclusive
  <1> QED
    BY <1>1, <1>2, <1>3, <1>4, <1>5, <1>6, MoveFrame DEF Inductive, TypeOK

LEMMA ReadNumberInductive == ASSUME Inductive, NEW p \in Requests, ReadNumber(p) PROVE Inductive'
  <1>1. PICK n \in 0 .. MaxVersions, k \in Keys \ drawn :
          /\ Latest(req[p].doc, n) /\ n < MaxVersions
          /\ req' = [req EXCEPT ![p].pc = "scan", ![p].key = k, ![p].number = n + 1]
          /\ drawn' = drawn \cup {k}
    BY DEF ReadNumber
  <1> DEFINE r == [req[p] EXCEPT !.pc = "scan", !.key = k, !.number = n + 1]
  <1>2. r \in Request /\ r = req'[p] /\ req' = [req EXCEPT ![p] = r] /\ TablesUnchanged
    <2>1. req[p] \in Request /\ n + 1 \in 0 .. MaxVersions
      BY <1>1, BoundAssumption DEF Inductive, TypeOK
    <2>2. r \in Request
      BY <2>1 DEF Request
    <2>3. req' = [req EXCEPT ![p] = r]
      BY <1>1
    <2> QED
      BY <2>2, <2>3 DEF ReadNumber, Inductive, TypeOK
  <1>3. r.pc = "scan" /\ r.key = k /\ r.doc = req[p].doc /\ r.number = n + 1 /\ req[p].pc = "number"
    BY DEF ReadNumber, Inductive, TypeOK, Request
  <1> HIDE DEF r
  <1>4. versions[k] = NoVersion /\ k \notin objects
    BY DEF Inductive, RowsConsistent, Stored
  <1>5. Fine(p)'
    <2>1. r.number > 0 /\ r.number - 1 = n
      BY <1>3
    <2>2. Latest(req[p].doc, req[p].number - 1)'
      BY ZenonT(60), <1>1, <1>2, <1>3, <2>1 DEF Latest, VersionsOf, TablesUnchanged
    <2>3. Active(r.doc) /\ r.doc \in Documents
      BY <1>3 DEF Inductive, WellFormed
    <2>4. WellFormed(p)'
      BY <1>1, <1>2, <1>3, <1>4, <2>1, <2>3 DEF WellFormed, TablesUnchanged, Active
    <2> QED
      BY <1>2, <2>2, <2>4 DEF Fine
  <1>6. \A q \in Requests \ {p} : k # req[q].key
    BY <1>1, KeyDrawn DEF Inductive
  <1>7. \A q \in Requests \ {p}, d \in Documents : ~(HoldsDocument(p, d)' /\ HoldsDocument(q, d))
    BY <1>2, <1>3 DEF HoldsDocument, Inductive, Exclusive
  <1>8. OrphansExplained'
    BY <1>1, <1>2, <1>3 DEF Inductive, TypeOK, OrphansExplained, TablesUnchanged, Stored
  <1>9. /\ documents' = documents /\ versions' = versions /\ objects' = objects
        /\ unsettled' = unsettled /\ drawn \subseteq drawn' /\ drawn' \in SUBSET Keys
        /\ objects' \in SUBSET Keys /\ objects' \subseteq drawn' /\ unsettled' \in SUBSET Keys
    BY <1>1, <1>2 DEF Inductive, TypeOK, RowsConsistent, TablesUnchanged
  <1>10. \A q \in Requests \ {p} : r.key = req[q].key => r.key = NoKey
    BY <1>3, <1>6
  <1> QED
    BY <1>2, <1>5, <1>7, <1>8, <1>9, <1>10, MoveFrame

-----------------------------------------------------------------------------
(* Steps that write the tables                                             *)

\* The number a commit writes is one more than the document has versions.
LEMMA NextNumber ==
    ASSUME Inductive, NEW d \in Documents, NEW n \in Nat, Latest(d, n)
    PROVE  Cardinality(VersionsOf(d)) = n
  <1>1. /\ IsFiniteSet(VersionsOf(d)) /\ Cardinality(VersionsOf(d)) \in Nat
        /\ Latest(d, Cardinality(VersionsOf(d)))
    BY FS_CardinalityType DEF Inductive, Numbered
  <1>2. \A k \in VersionsOf(d) : versions[k].number \in Nat /\ versions[k].number > 0
    BY BoundAssumption, NoDocumentAssumption
    DEF Inductive, TypeOK, Version, RowsConsistent, VersionsOf, NoVersion
  <1> QED
    BY <1>1, <1>2 DEF Latest

LEMMA CommitInductive ==
    ASSUME Inductive, NEW p \in Requests, req[p].pc = "commit", NumberFree(p), WriteRows(p),
           req' = [req EXCEPT ![p] = Idle] \/ req' = [req EXCEPT ![p].pc = "compensate"],
           UNCHANGED <<objects, drawn>>,
           unsettled' \in {unsettled, unsettled \cup {req[p].key}}
    PROVE  Inductive'
  <1>0. PICK d \in Documents, k \in Keys, n \in 0 .. MaxVersions :
          d = req[p].doc /\ k = req[p].key /\ n = req[p].number
    BY DEF Inductive, WellFormed, TypeOK, Request
  <1>1. /\ k \in drawn /\ k # NoKey /\ k \in objects
        /\ n > 0 /\ versions[k] = NoVersion /\ Latest(d, n - 1)
        /\ Active(d) \/ (documents[d].status = "NONE" /\ n = 1)
    BY <1>0, NoDocumentAssumption
       DEF Inductive, WellFormed, NumberStaysNext
  <1>2. /\ versions'[k] = [document |-> d, number |-> n]
        /\ \A j \in Keys \ {k} : versions'[j] = versions[j]
        /\ documents'[d].status = "ACTIVE" /\ documents'[d].current = k
        /\ \A e \in Documents \ {d} : documents'[e] = documents[e]
    BY <1>0, <1>1 DEF WriteRows, Inductive, TypeOK, Active
  <1>3. \A q \in Requests \ {p} : req'[q] = req[q]
    BY DEF Inductive, TypeOK
  <1>4. req'[p].pc \in {"idle", "compensate"} /\ req'[p] \in Request
        /\ (req'[p].pc = "idle" => req'[p].key = NoKey)
        /\ (req'[p].pc = "compensate" => req'[p].key = k /\ req'[p].doc = d)
    BY <1>0, IdleType DEF Inductive, TypeOK, Request
  <1>5. VersionsOf(d)' = VersionsOf(d) \cup {k} /\ \A e \in Documents \ {d} : VersionsOf(e)' = VersionsOf(e)
    BY <1>1, <1>2, NoDocumentAssumption DEF VersionsOf, NoVersion
  <1>6. Latest(d, n)' /\ \A e \in Documents \ {d}, m \in Nat : Latest(e, m) => Latest(e, m)'
    <2>1. \A j \in VersionsOf(d) : versions[j].number \in 0 .. MaxVersions /\ versions[j].number <= n - 1
      BY <1>1 DEF Latest, VersionsOf, Inductive, TypeOK, Version
    <2>2. \A j \in VersionsOf(d)' : versions'[j].number <= n
      BY <1>1, <1>2, <1>5, <2>1, BoundAssumption DEF VersionsOf
    <2>3. Latest(d, n)'
      BY <1>1, <1>2, <1>5, <2>2 DEF Latest
    <2> QED
      BY <1>1, <1>2, <1>5, <2>3 DEF Latest, VersionsOf
  <1>7. TypeOK'
    <2>1. documents' \in [Documents -> Document]
      BY <1>0, <1>1, <1>2 DEF WriteRows, Inductive, TypeOK, Document
    <2>2. versions' \in [Keys -> Version]
      BY <1>0, <1>1, <1>2 DEF WriteRows, Inductive, TypeOK, Version
    <2>3. unsettled' \in SUBSET Keys
      BY <1>0, <1>1 DEF Inductive, TypeOK
    <2>4. req' \in [Requests -> Request]
      BY <1>4, IdleType DEF Inductive, TypeOK
    <2> QED
      BY <2>1, <2>2, <2>3, <2>4 DEF Inductive, TypeOK
  <1>8. RowsConsistent'
    BY <1>1, <1>2, <1>5, NoDocumentAssumption DEF Inductive, RowsConsistent, Stored, NoVersion
  <1>9. Exclusive'
    BY <1>0, <1>3, <1>4 DEF Inductive, Exclusive, HoldsDocument
  <1>10. ASSUME NEW q \in Requests \ {p} PROVE Fine(q)'
    <2>1. req[q].key # NoKey => req[q].key # k
      BY <1>0 DEF Inductive, Exclusive
    <2>2. req[q].pc \in {"number", "scan", "put", "commit"} => req[q].doc # d
      BY <1>0, <1>1 DEF Inductive, Exclusive, HoldsDocument
    <2>3. req[q].pc \in {"scan", "put", "commit"} =>
             req[q].key \in Keys /\ req[q].key # NoKey /\ req[q].number - 1 \in Nat
      BY NoDocumentAssumption, BoundAssumption DEF Inductive, WellFormed, TypeOK, Request
    <2>4. WellFormed(q) /\ (req[q].pc \in {"scan", "put", "commit"} =>
                                Latest(req[q].doc, req[q].number - 1))
      BY DEF Inductive, NumberStaysNext
    <2>5. WellFormed(q)'
      BY <1>1, <1>2, <1>3, <2>1, <2>2, <2>3, <2>4 DEF WellFormed, Active
    <2>6. req[q].pc \in {"scan", "put", "commit"} => req[q].doc \in Documents \ {d}
      BY <2>2, <2>4 DEF WellFormed
    <2>7. ASSUME req[q].pc \in {"scan", "put", "commit"}
          PROVE  Latest(req[q].doc, req[q].number - 1)'
      <3>1. PICK e \in Documents \ {d}, m \in Nat : e = req[q].doc /\ m = req[q].number - 1
        BY <2>3, <2>6, <2>7
      <3>2. Latest(e, m)'
        BY <1>6, <2>4, <2>7, <3>1
      <3> QED
        BY <1>3, <3>1, <3>2 DEF Latest, VersionsOf
    <2> QED
      BY <1>3, <2>5, <2>7 DEF Fine
  <1>11. Fine(p)'
    BY <1>0, <1>1, <1>2, <1>4 DEF Fine, WellFormed
  <1>12. CurrentIsLatest'
    <2>1. ASSUME NEW e \in Documents \ {d}, documents[e].status # "NONE"
          PROVE  documents[e].current \in VersionsOf(e)' /\ Latest(e, versions[documents[e].current].number)'
                 /\ documents[e].current # k
      <3>1. documents[e].current \in VersionsOf(e) /\ Latest(e, versions[documents[e].current].number)
        BY <2>1 DEF Inductive, CurrentIsLatest
      <3>2. documents[e].current # k
        BY <1>1, <3>1, NoDocumentAssumption DEF VersionsOf, NoVersion
      <3>3. versions[documents[e].current].number \in Nat
        BY <3>1, BoundAssumption DEF VersionsOf, Inductive, TypeOK, Version
      <3> QED
        BY <1>2, <1>5, <1>6, <3>1, <3>2, <3>3 DEF VersionsOf, Latest
    <2> QED
      BY <1>1, <1>2, <1>5, <1>6, <2>1 DEF CurrentIsLatest, VersionsOf
  <1>13. OrphansExplained'
    BY <1>0, <1>1, <1>2, <1>3, <1>4, NoDocumentAssumption DEF Inductive, OrphansExplained, Stored, NoVersion
  <1>14. Numbered'
    <2>1. /\ IsFiniteSet(VersionsOf(d)) /\ Cardinality(VersionsOf(d)) = n - 1
          /\ IsFiniteSet(VersionsOf(d)') /\ Cardinality(VersionsOf(d)') = n
      <3>1. IsFiniteSet(VersionsOf(d)) /\ Cardinality(VersionsOf(d)) = n - 1
        BY <1>1, BoundAssumption, NextNumber DEF Inductive, Numbered
      <3>2. k \notin VersionsOf(d)
        BY <1>1, NoDocumentAssumption DEF VersionsOf, NoVersion
      <3> QED
        BY <1>1, <1>5, <3>1, <3>2, FS_AddElement
    <2>2. ASSUME NEW m \in 1 .. n PROVE \E j \in VersionsOf(d)' : versions'[j].number = m
      <3>1. CASE m = n
        BY <1>2, <1>5, <3>1
      <3>2. CASE m # n
        <4>1. PICK j \in VersionsOf(d) : versions[j].number = m
          BY <2>1, <3>2 DEF Inductive, Numbered
        <4> QED
          BY <1>1, <1>2, <1>5, <4>1, NoDocumentAssumption DEF VersionsOf, NoVersion
      <3> QED
        BY <3>1, <3>2
    <2>3. \A i, j \in VersionsOf(d)' : versions'[i].number = versions'[j].number => i = j
      <3>1. \A j \in VersionsOf(d) : j \in Keys \ {k} /\ versions[j].number # n
        BY <1>1, BoundAssumption, NoDocumentAssumption
        DEF Latest, VersionsOf, NoVersion, Inductive, TypeOK, Version
      <3>2. \A i, j \in VersionsOf(d) : versions[i].number = versions[j].number => i = j
        BY DEF Inductive, Numbered
      <3> QED
        BY <1>2, <1>5, <3>1, <3>2
    <2>4. ASSUME NEW e \in Documents \ {d}
          PROVE  /\ VersionsOf(e)' = VersionsOf(e)
                 /\ \A j \in VersionsOf(e) : versions'[j] = versions[j]
      BY <1>1, <1>2, <1>5, NoDocumentAssumption DEF VersionsOf, NoVersion
    <2>5. ASSUME NEW e \in Documents \ {d}
          PROVE  /\ IsFiniteSet(VersionsOf(e)') /\ Latest(e, Cardinality(VersionsOf(e)))'
                 /\ \A m \in 1 .. Cardinality(VersionsOf(e)') :
                        \E j \in VersionsOf(e)' : versions'[j].number = m
                 /\ \A i, j \in VersionsOf(e)' : versions'[i].number = versions'[j].number => i = j
      BY <2>4 DEF Inductive, Numbered, Latest
    <2>6. Latest(d, Cardinality(VersionsOf(d)))'
      BY <1>6, <2>1 DEF Latest
    <2> QED
      BY <2>1, <2>2, <2>3, <2>5, <2>6 DEF Numbered
  <1> QED
    BY <1>7, <1>8, <1>9, <1>10, <1>11, <1>12, <1>13, <1>14 DEF Inductive, Fine, NumberStaysNext

LEMMA ArchiveInductive ==
    ASSUME Inductive, NEW p \in Requests, WriteArchive(p) PROVE Inductive'
  <1>1. /\ req[p].doc \in Documents /\ req[p].key = NoKey
        /\ documents[req[p].doc].status # "NONE"
    BY DEF Inductive, WellFormed, WriteArchive
  <1>2. /\ \A e \in Documents : documents'[e].current = documents[e].current
        /\ \A e \in Documents \ {req[p].doc} : documents'[e] = documents[e]
        /\ documents'[req[p].doc].status = "ARCHIVED"
    BY <1>1 DEF WriteArchive, Inductive, TypeOK
  <1>3. req'[p] = Idle /\ \A q \in Requests \ {p} : req'[q] = req[q]
    BY DEF WriteArchive, Finish, Inductive, TypeOK
  <1>4. TypeOK'
    BY SMTT(40), <1>1, IdleType DEF Inductive, TypeOK, WriteArchive, Finish, Document
  <1>5. RowsConsistent' /\ CurrentIsLatest'
    BY <1>1, <1>2 DEF Inductive, RowsConsistent, CurrentIsLatest, WriteArchive, VersionsOf, Stored, Latest
  <1>6. Exclusive'
    BY <1>3, IdleType DEF Inductive, Exclusive, HoldsDocument
  <1>7. ASSUME NEW q \in Requests \ {p} PROVE Fine(q)'
    <2>1. req[q].pc \in {"number", "scan", "put", "commit"} => req[q].doc # req[p].doc
      BY <1>1 DEF WriteArchive, Unlocked, HoldsDocument
    <2> QED
      BY <1>2, <1>3, <2>1 DEF Inductive, Fine, WellFormed, NumberStaysNext, Active, WriteArchive,
         Latest, VersionsOf
  <1>8. Fine(p)'
    BY <1>3, IdleType DEF Fine, WellFormed
  <1>9. OrphansExplained'
    BY <1>3 DEF Inductive, OrphansExplained, WriteArchive, Stored
  <1>10. Numbered'
    BY NumberedSame DEF Inductive, WriteArchive
  <1> QED
    BY <1>4, <1>5, <1>6, <1>7, <1>8, <1>9, <1>10 DEF Inductive, Fine, NumberStaysNext

LEMMA NextInductive == Inductive /\ [Next]_vars => Inductive'
  <1> SUFFICES ASSUME Inductive, [Next]_vars PROVE Inductive'
    OBVIOUS
  <1>1. ASSUME NEW p \in Requests, Serve(p) PROVE Inductive'
    <2>1. req[p].pc \in {"lock", "scan", "put"} => req[p].key \notin objects
      BY NoDocumentAssumption DEF Inductive, WellFormed, TypeOK
    <2>2. unsettled \in SUBSET Keys /\ (req[p].pc \in {"put", "compensate"} =>
              req[p].key \in Keys /\ req[p].key # NoKey)
      BY NoDocumentAssumption DEF Inductive, WellFormed, TypeOK
    <2>3. CASE LockDocument(p)
      BY <2>1, <2>2, <2>3, FinishInductive, GotoInductive DEF LockDocument, TablesUnchanged
    <2>4. CASE Scan(p)
      BY <2>1, <2>2, <2>4, FinishInductive, GotoInductive DEF Scan, TablesUnchanged
    <2>5. CASE Put(p)
      BY <2>1, <2>2, <2>5, FinishInductive, GotoInductive DEF Put
    <2>6. CASE CommitUpload(p)
      <3>1. CASE Goto(p, "compensate") /\ UNCHANGED <<documents, versions, unsettled>>
        BY <2>6, <3>1, GotoInductive DEF CommitUpload
      <3>2. CASE /\ NumberFree(p) /\ WriteRows(p) /\ (Finish(p) \/ Goto(p, "compensate"))
                 /\ unsettled' \in {unsettled, unsettled \cup {req[p].key}}
        BY <2>6, <3>2, CommitInductive DEF CommitUpload, Finish, Goto
      <3> QED
        BY <2>6, <3>1, <3>2 DEF CommitUpload, FailCommit
    <2>7. CASE Compensate(p)
      BY <2>2, <2>7, FinishInductive DEF Compensate
    <2> QED
      BY <1>1, <2>3, <2>4, <2>5, <2>6, <2>7, ReadNumberInductive, ArchiveInductive DEF Serve
  <1>2. ASSUME NEW p \in Requests, Crash(p) PROVE Inductive'
    <2>1. NoKey \notin objects /\ unsettled' \in SUBSET Keys
      BY <1>2, NoDocumentAssumption DEF Inductive, TypeOK, Crash
    <2> QED
      BY <1>2, <2>1, FinishInductive DEF Crash
  <1>3. CASE UNCHANGED vars
    BY <1>3, NumberedSame DEF vars, Inductive, TypeOK, RowsConsistent, Exclusive, HoldsDocument, WellFormed,
       NumberStaysNext, CurrentIsLatest, OrphansExplained, VersionsOf, Stored, Latest, Active
  <1> QED
    BY <1>1, <1>2, <1>3, ArriveInductive DEF Next

\* Rows, objects and requests in flight relate to each other as Inductive says.
THEOREM InductiveInvariant == Spec => []Inductive
  BY InitInductive, NextInductive, PTL DEF Spec

\* The tables, the bucket and the requests keep their types (TypeOK).
THEOREM TypeCorrect == Spec => []TypeOK
  <1>1. Inductive => TypeOK
    BY DEF Inductive
  <1> QED
    BY <1>1, InductiveInvariant, PTL

\* A version number computed under the document's lock is never taken away.
THEOREM NumbersSerialized == Spec => []NumberStaysNext
  <1>1. Inductive => NumberStaysNext
    BY DEF Inductive
  <1> QED
    BY <1>1, InductiveInvariant, PTL

\* The current version of a document is always its newest one.
THEOREM CurrentVersion == Spec => []CurrentIsLatest
  <1>1. Inductive => CurrentIsLatest
    BY DEF Inductive
  <1> QED
    BY <1>1, InductiveInvariant, PTL

\* Uploads that fail and are answered leave no object behind.
THEOREM NoSilentOrphan == Spec => []OrphansExplained
  <1>1. Inductive => OrphansExplained
    BY DEF Inductive
  <1> QED
    BY <1>1, InductiveInvariant, PTL

-----------------------------------------------------------------------------
(* Versions keep the objects their uploads stored                          *)

LEMMA KeptStep ==
    ASSUME Inductive, Kept, [Next]_vars PROVE Kept'
  <1>1. ASSUME NEW p \in Requests, NEW r \in Request, req' = [req EXCEPT ![p] = r],
               r.pc = "compensate" => req[p].pc = "commit" /\ r.key = req[p].key,
               versions' = versions, objects \subseteq objects', unsettled \subseteq unsettled'
        PROVE  Kept'
    <2>1. req[p].pc = "commit" => versions[req[p].key] = NoVersion
      BY DEF Inductive, WellFormed
    <2> QED
      BY <1>1, <2>1 DEF Kept, VersionKeepsObject, Stored, Inductive, TypeOK
  <1>2. ASSUME NEW p \in Requests, Arrive(p) PROVE Kept'
    <2>1. PICK r \in Request : req' = [req EXCEPT ![p] = r] /\ r.pc # "compensate"
      <3>1. CASE StartUpload(p)
        <4>1. PICK d \in Documents, k \in Keys \ drawn :
                req' = [req EXCEPT ![p] = [pc |-> "scan", doc |-> d, key |-> k, number |-> 1]]
          BY <3>1 DEF StartUpload
        <4>2. [pc |-> "scan", doc |-> d, key |-> k, number |-> 1] \in Request
          BY <3>1, BoundAssumption DEF StartUpload, Request
        <4> QED
          BY <4>1, <4>2
      <3>2. CASE \E d \in Documents : StartVersion(p, d) \/ StartArchive(p, d)
        <4>1. PICK d \in Documents, pc \in {"lock", "archive"} :
                req' = [req EXCEPT ![p] = [Idle EXCEPT !.pc = pc, !.doc = d]]
          BY <3>2 DEF StartVersion, StartArchive
        <4>2. /\ [Idle EXCEPT !.pc = pc, !.doc = d] \in Request
              /\ [Idle EXCEPT !.pc = pc, !.doc = d].pc # "compensate"
          BY IdleType DEF Request, Idle
        <4> QED
          BY <4>1, <4>2
      <3> QED
        BY <1>2, <3>1, <3>2 DEF Arrive
    <2>2. versions' = versions /\ objects' = objects /\ unsettled' = unsettled
      BY <1>2 DEF Arrive, StartUpload, StartVersion, StartArchive, TablesUnchanged
    <2> QED
      BY <1>1, <2>1, <2>2
  <1>3. ASSUME NEW p \in Requests, Finish(p), versions' = versions, objects \subseteq objects', unsettled \subseteq unsettled'
        PROVE  Kept'
    BY <1>1, <1>3, IdleType DEF Finish
  <1>4. ASSUME NEW p \in Requests, NEW pc \in {"number", "put", "commit"},
               Goto(p, pc), versions' = versions, objects \subseteq objects', unsettled \subseteq unsettled'
        PROVE  Kept'
    <2>1. [req[p] EXCEPT !.pc = pc] \in Request /\ req' = [req EXCEPT ![p] = [req[p] EXCEPT !.pc = pc]]
      BY <1>4 DEF Goto, Request, Inductive, TypeOK
    <2>2. [req[p] EXCEPT !.pc = pc].pc # "compensate"
      BY <1>4 DEF Inductive, TypeOK, Request
    <2> QED
      BY <1>1, <1>4, <2>1, <2>2
  <1>5. ASSUME NEW p \in Requests, ReadNumber(p) PROVE Kept'
    <2>1. req' \in [Requests -> Request] /\ req'[p].pc = "scan"
          /\ \A q \in Requests \ {p} : req'[q] = req[q]
      <3>1. Inductive'
        BY <1>5, ReadNumberInductive
      <3> QED
        BY <1>5, <3>1 DEF ReadNumber, Inductive, TypeOK
    <2>2. versions' = versions /\ objects' = objects /\ unsettled' = unsettled
      BY <1>5 DEF ReadNumber, TablesUnchanged
    <2> QED
      BY <2>1, <2>2 DEF Kept, VersionKeepsObject, Stored
  <1>6. ASSUME NEW p \in Requests, CommitUpload(p) PROVE Kept'
    <2>1. versions[req[p].key] = NoVersion /\ req[p].key \in objects /\ req[p].key \in Keys
      BY <1>6 DEF CommitUpload, Inductive, WellFormed, TypeOK
    <2>2. CASE FailCommit(p) /\ UNCHANGED <<documents, versions>>
      <3>1. [req[p] EXCEPT !.pc = "compensate"] \in Request
            /\ [req[p] EXCEPT !.pc = "compensate"].key = req[p].key
            /\ req' = [req EXCEPT ![p] = [req[p] EXCEPT !.pc = "compensate"]]
        BY <2>2 DEF FailCommit, Goto, Request, Inductive, TypeOK
      <3> QED
        BY <1>1, <1>6, <2>2, <3>1 DEF CommitUpload
    <2>3. CASE WriteRows(p) /\ Finish(p) /\ UNCHANGED unsettled
      <3>1. \A q \in Requests : req'[q].pc = "compensate" =>
                /\ q # p /\ req'[q] = req[q] /\ req[q].key \in Keys
                /\ versions'[req[q].key] = versions[req[q].key]
        <4>1. req'[p].pc # "compensate" /\ \A q \in Requests \ {p} : req'[q] = req[q]
          BY <2>3, IdleType DEF Finish, Inductive, TypeOK
        <4>2. \A q \in Requests \ {p} : req[q].pc = "compensate" => req[q].key # req[p].key
          BY <2>1, NoDocumentAssumption DEF Inductive, Exclusive
        <4> QED
          BY <2>3, <4>1, <4>2 DEF Inductive, TypeOK, WellFormed, WriteRows
      <3>2. /\ objects' = objects /\ unsettled \subseteq unsettled'
            /\ \A j \in Keys \ {req[p].key} : versions'[j] = versions[j]
        BY <1>6, <2>3 DEF CommitUpload, WriteRows, Inductive, TypeOK
      <3> QED
        BY <2>1, <3>1, <3>2 DEF Kept, VersionKeepsObject, Stored
    <2>4. CASE /\ WriteRows(p) /\ FailCommit(p)
               /\ unsettled' = unsettled \cup {req[p].key}
      <3>1. \A q \in Requests : /\ req'[q].key = req[q].key
                                /\ q # p => req'[q] = req[q]
        BY <2>4 DEF FailCommit, Goto, Inductive, TypeOK, Request
      <3>2. objects' = objects /\ \A j \in Keys \ {req[p].key} : versions'[j] = versions[j]
        BY <1>6, <2>4 DEF CommitUpload, WriteRows, Inductive, TypeOK
      <3>3. \A q \in Requests : req[q].pc = "compensate" => req[q].key \in Keys
        BY NoDocumentAssumption DEF Inductive, WellFormed, TypeOK
      <3> QED
        BY <2>1, <2>4, <3>1, <3>2, <3>3 DEF Kept, VersionKeepsObject, Stored
    <2> QED
      BY <1>6, <2>2, <2>3, <2>4 DEF CommitUpload
  <1>7. ASSUME NEW p \in Requests, Compensate(p) PROVE Kept'
    <2>1. /\ versions' = versions /\ unsettled \subseteq unsettled'
          /\ req[p].key \in unsettled \/ versions[req[p].key] = NoVersion
          /\ \A j \in objects : j # req[p].key => j \in objects'
      BY <1>7 DEF Compensate, Kept
    <2>2. req'[p].pc # "compensate" /\ \A q \in Requests \ {p} : req'[q] = req[q]
      BY <1>7, IdleType DEF Compensate, Finish, Inductive, TypeOK
    <2> QED
      BY <2>1, <2>2 DEF Kept, VersionKeepsObject, Stored
  <1>8. ASSUME NEW p \in Requests, Serve(p) PROVE Kept'
    <2>1. CASE LockDocument(p) \/ Scan(p) \/ WriteArchive(p)
      BY <1>3, <1>4, <2>1 DEF LockDocument, Scan, WriteArchive, TablesUnchanged
    <2>2. CASE Put(p)
      BY <1>3, <1>4, <2>2 DEF Put
    <2> QED
      BY <1>5, <1>6, <1>7, <1>8, <2>1, <2>2 DEF Serve
  <1>9. ASSUME NEW p \in Requests, Crash(p) PROVE Kept'
    BY <1>3, <1>9 DEF Crash
  <1>10. CASE UNCHANGED vars
    BY <1>10 DEF vars, Kept, VersionKeepsObject, Stored
  <1> QED
    BY <1>2, <1>8, <1>9, <1>10 DEF Next

\* Every version that can be found has its bytes, unless its own COMMIT was
\* reported failed: compensation deletes no other committed version's object.
THEOREM VersionsKeepObjects == Spec => []VersionKeepsObject
  <1>1. Init => Kept
    BY IdleType DEF Init, Kept, VersionKeepsObject, Stored
  <1>2. Inductive /\ Kept /\ [Next]_vars => Kept'
    BY KeptStep
  <1>3. Kept => VersionKeepsObject
    BY DEF Kept
  <1> QED
    BY <1>1, <1>2, <1>3, InductiveInvariant, PTL DEF Spec

-----------------------------------------------------------------------------
(* Documents implements VersionLog                                         *)

LEMMA Listed ==
    ASSUME NEW S, NEW vs, NEW c \in Nat, \A n \in 1 .. c : \E k \in S : vs[k].number = n
    PROVE  LET s == [n \in 1 .. c |-> CHOOSE k \in S : vs[k].number = n]
           IN  /\ s \in Seq(S) /\ Len(s) = c
               /\ \A i \in 1 .. c : s[i] \in S /\ vs[s[i]].number = i
  <1> DEFINE s == [n \in 1 .. c |-> CHOOSE k \in S : vs[k].number = n]
  <1>1. \A i \in 1 .. c : s[i] \in S /\ vs[s[i]].number = i
    OBVIOUS
  <1>2. s \in [1 .. c -> S]
    BY <1>1
  <1>3. s \in Seq(S)
    BY <1>2, SeqDef
  <1>4. Len(s) = c
    BY <1>2, <1>3, LenProperties
  <1> QED
    BY <1>1, <1>3, <1>4

\* The log of a document, before and after a step.
LEMMA InOrderType ==
    ASSUME Inductive, NEW d \in Documents
    PROVE  LET c == Cardinality(VersionsOf(d))
           IN  /\ c \in Nat /\ InOrder(d) \in Seq(Keys) /\ Len(InOrder(d)) = c
               /\ \A i \in 1 .. c : /\ InOrder(d)[i] \in VersionsOf(d)
                                    /\ versions[InOrder(d)[i]].number = i
  <1> DEFINE c == Cardinality(VersionsOf(d))
  <1>1. c \in Nat /\ \A n \in 1 .. c : \E k \in VersionsOf(d) : versions[k].number = n
    BY FS_CardinalityType DEF Inductive, Numbered
  <1>2. VersionsOf(d) \subseteq Keys
    BY DEF VersionsOf
  <1> HIDE DEF c
  <1>3. InOrder(d) = [n \in 1 .. c |-> CHOOSE k \in VersionsOf(d) : versions[k].number = n]
    BY DEF InOrder, c
  <1>4. /\ InOrder(d) \in Seq(VersionsOf(d)) /\ Len(InOrder(d)) = c
        /\ \A i \in 1 .. c : /\ InOrder(d)[i] \in VersionsOf(d)
                             /\ versions[InOrder(d)[i]].number = i
    BY <1>1, <1>3, Listed
  <1>5. InOrder(d) \in Seq(Keys)
    BY <1>2, <1>4, SeqMonotonic
  <1> QED
    BY <1>1, <1>4, <1>5 DEF c

LEMMA InOrderTypeAfter ==
    ASSUME Inductive', NEW d \in Documents
    PROVE  LET c == Cardinality(VersionsOf(d)')
           IN  /\ c \in Nat /\ InOrder(d)' \in Seq(Keys) /\ Len(InOrder(d)') = c
               /\ \A i \in 1 .. c : /\ InOrder(d)'[i] \in VersionsOf(d)'
                                    /\ versions'[InOrder(d)'[i]].number = i
  <1> DEFINE c == Cardinality(VersionsOf(d)')
  <1>1. c \in Nat /\ \A n \in 1 .. c : \E k \in VersionsOf(d)' : versions'[k].number = n
    BY FS_CardinalityType DEF Inductive, Numbered
  <1>2. VersionsOf(d)' \subseteq Keys
    BY DEF VersionsOf
  <1> HIDE DEF c
  <1>3. InOrder(d)' = [n \in 1 .. c |-> CHOOSE k \in VersionsOf(d)' : versions'[k].number = n]
    BY DEF InOrder, c
  <1>4. /\ InOrder(d)' \in Seq(VersionsOf(d)') /\ Len(InOrder(d)') = c
        /\ \A i \in 1 .. c : /\ InOrder(d)'[i] \in VersionsOf(d)'
                             /\ versions'[InOrder(d)'[i]].number = i
    BY <1>1, <1>3, Listed
  <1>5. InOrder(d)' \in Seq(Keys)
    BY <1>2, <1>4, SeqMonotonic
  <1> QED
    BY <1>1, <1>4, <1>5 DEF c

LEMMA LogInit == Init => Log!Init
  <1> SUFFICES ASSUME Init PROVE Log!Init
    OBVIOUS
  <1>1. OpenDocuments = {}
    BY DEF Init, OpenDocuments, Active, NoRow
  <1>2. ASSUME NEW d \in Documents PROVE InOrder(d) = <<>>
    <2>1. VersionsOf(d) = {}
      BY NoDocumentAssumption DEF Init, VersionsOf, NoVersion
    <2>2. Inductive
      BY InitInductive
    <2>3. InOrder(d) \in Seq(Keys) /\ Len(InOrder(d)) = 0
      BY <2>1, <2>2, InOrderType, FS_EmptySet
    <2> QED
      BY <2>3, EmptySeq
  <1> QED
    BY <1>1, <1>2 DEF Log!Init

\* A commit appends its version to the log of its document, and to no other.
LEMMA CommitPublishes ==
    ASSUME Inductive, Inductive', NEW p \in Requests, req[p].pc = "commit", WriteRows(p)
    PROVE  Log!Next
  <1>0. PICK d \in Documents, k \in Keys, n \in 0 .. MaxVersions :
          d = req[p].doc /\ k = req[p].key /\ n = req[p].number
    BY NoDocumentAssumption DEF Inductive, WellFormed, TypeOK, Request
  <1>1. /\ n > 0 /\ versions[k] = NoVersion /\ Latest(d, n - 1)
        /\ Active(d) \/ (documents[d].status = "NONE" /\ n = 1)
    BY <1>0 DEF Inductive, WellFormed, NumberStaysNext
  <1>2. /\ versions'[k] = [document |-> d, number |-> n]
        /\ \A j \in Keys \ {k} : versions'[j] = versions[j]
        /\ documents'[d].status = "ACTIVE"
        /\ \A e \in Documents \ {d} : documents'[e] = documents[e]
    BY <1>0, <1>1 DEF WriteRows, Inductive, TypeOK, Active
  <1>3. /\ k \notin VersionsOf(d) /\ VersionsOf(d)' = VersionsOf(d) \cup {k}
        /\ \A e \in Documents \ {d} : VersionsOf(e)' = VersionsOf(e)
    BY <1>1, <1>2, NoDocumentAssumption DEF VersionsOf, NoVersion
  <1>4. Cardinality(VersionsOf(d)) = n - 1 /\ Cardinality(VersionsOf(d)') = n
    <2>1. IsFiniteSet(VersionsOf(d)) /\ Cardinality(VersionsOf(d)) = n - 1
      BY <1>1, BoundAssumption, NextNumber DEF Inductive, Numbered
    <2>2. Cardinality(VersionsOf(d) \cup {k}) = Cardinality(VersionsOf(d)) + 1
      BY <1>3, <2>1, FS_AddElement
    <2> QED
      BY <1>1, <1>3, <2>1, <2>2, BoundAssumption
  <1>5. InOrder(d)' = Append(InOrder(d), k)
    <2>1. /\ InOrder(d) \in Seq(Keys) /\ Len(InOrder(d)) = n - 1
          /\ \A i \in 1 .. n - 1 : /\ InOrder(d)[i] \in VersionsOf(d)
                                   /\ versions[InOrder(d)[i]].number = i
      BY <1>4, InOrderType
    <2>2. /\ InOrder(d)' \in Seq(Keys) /\ Len(InOrder(d)') = n
          /\ \A i \in 1 .. n : /\ InOrder(d)'[i] \in VersionsOf(d)'
                               /\ versions'[InOrder(d)'[i]].number = i
      BY <1>4, InOrderTypeAfter
    <2> DEFINE after == Append(InOrder(d), k)
    <2>3. /\ after \in Seq(Keys) /\ Len(after) = n /\ after[n] = k
          /\ \A i \in 1 .. n - 1 : after[i] = InOrder(d)[i]
      <3>1. n - 1 + 1 = n
        BY <1>1, BoundAssumption
      <3> QED
        BY <2>1, <3>1, AppendProperties
    <2> HIDE DEF after
    <2>4. ASSUME NEW i \in 1 .. n
          PROVE  after[i] \in VersionsOf(d)' /\ versions'[after[i]].number = i
      <3>1. CASE i = n
        BY <1>2, <1>3, <2>3, <3>1
      <3>2. CASE i # n
        <4>1. i \in 1 .. n - 1
          BY <1>1, <3>2, BoundAssumption
        <4>2. /\ after[i] \in VersionsOf(d) /\ after[i] \in Keys \ {k}
              /\ versions[after[i]].number = i
          BY <1>3, <2>1, <2>3, <4>1 DEF VersionsOf
        <4> QED
          BY <1>2, <1>3, <4>2
      <3> QED
        BY <3>1, <3>2
    <2>5. \A i, j \in VersionsOf(d)' : versions'[i].number = versions'[j].number => i = j
      BY DEF Inductive, Numbered
    <2>6. \A i \in 1 .. n : InOrder(d)'[i] = after[i]
      BY <2>2, <2>4, <2>5
    <2>7. InOrder(d)' = after
      BY <2>2, <2>3, <2>6, SeqEqual
    <2> QED
      BY <2>7 DEF after
  <1>6. ASSUME NEW e \in Documents \ {d} PROVE InOrder(e)' = InOrder(e)
    <2>1. VersionsOf(e)' = VersionsOf(e) /\ \A j \in VersionsOf(e) : versions'[j] = versions[j]
      BY <1>1, <1>2, <1>3, NoDocumentAssumption DEF VersionsOf, NoVersion
    <2>2. \A m : (CHOOSE j \in VersionsOf(e) : versions'[j].number = m)
                 = (CHOOSE j \in VersionsOf(e) : versions[j].number = m)
      BY <2>1
    <2> QED
      BY <2>1, <2>2 DEF InOrder
  <1>7. Log!Publish(d, k)
    <2>1. ASSUME NEW e \in Documents, NEW i \in 1 .. Len(InOrder(e)) PROVE InOrder(e)[i] # k
      <3>1. InOrder(e)[i] \in VersionsOf(e)
        BY InOrderType
      <3> QED
        BY <1>1, <3>1, NoDocumentAssumption DEF VersionsOf, NoVersion
    <2> QED
      BY <1>5, <1>6, <2>1 DEF Log!Publish
  <1>8. CASE Active(d)
    <2>1. OpenDocuments' = OpenDocuments /\ d \in OpenDocuments
      BY <1>2, <1>8 DEF OpenDocuments, Active
    <2> QED
      BY <1>7, <2>1 DEF Log!Next, Log!Revise
  <1>9. CASE documents[d].status = "NONE" /\ n = 1
    <2>1. OpenDocuments' = OpenDocuments \cup {d}
      BY <1>2 DEF OpenDocuments, Active
    <2>2. InOrder(d) = <<>>
      BY <1>4, <1>9, InOrderType, EmptySeq
    <2> QED
      BY <1>7, <2>1, <2>2 DEF Log!Next, Log!Create
  <1> QED
    BY <1>1, <1>8, <1>9

\* An archived document stays in the log and is closed.
LEMMA ArchiveCloses ==
    ASSUME Inductive, NEW p \in Requests, WriteArchive(p) PROVE Log!Next
  <1>1. PICK d \in Documents : d = req[p].doc
    BY DEF WriteArchive, Inductive, WellFormed
  <1>2. /\ documents'[d].status = "ARCHIVED"
        /\ \A e \in Documents \ {d} : documents'[e] = documents[e]
    BY <1>1 DEF WriteArchive, Inductive, TypeOK
  <1>3. OpenDocuments' = OpenDocuments \ {d}
    BY <1>2 DEF OpenDocuments, Active
  <1>4. \A e \in Documents : InOrder(e)' = InOrder(e)
    BY DEF WriteArchive, InOrder, VersionsOf
  <1> QED
    BY <1>3, <1>4 DEF Log!Next, Log!Archive

\* Every other step leaves the two tables alone.
LEMMA LogStep ==
    ASSUME Inductive, Inductive', Next
    PROVE  Log!Next \/ (documents' = documents /\ versions' = versions)
  <1>1. ASSUME NEW p \in Requests, Arrive(p) \/ Crash(p)
        PROVE  documents' = documents /\ versions' = versions
    BY <1>1 DEF Arrive, StartUpload, StartVersion, StartArchive, TablesUnchanged, Crash
  <1>2. ASSUME NEW p \in Requests, Serve(p)
        PROVE  Log!Next \/ (documents' = documents /\ versions' = versions)
    <2>1. CASE LockDocument(p) \/ ReadNumber(p) \/ Scan(p) \/ Put(p) \/ Compensate(p)
      BY <2>1 DEF LockDocument, ReadNumber, Scan, Put, Compensate, TablesUnchanged
    <2>2. CASE CommitUpload(p)
      BY <2>2, CommitPublishes DEF CommitUpload
    <2>3. CASE WriteArchive(p)
      BY <2>3, ArchiveCloses
    <2> QED
      BY <1>2, <2>1, <2>2, <2>3 DEF Serve
  <1> QED
    BY <1>1, <1>2 DEF Next

\* The concurrent uploads and archivings of the API implement a log for each
\* document that grows by one version at a time until it is closed.
THEOREM Refinement == Spec => ImplementsVersionLog
  <1> DEFINE logs == [d \in Documents |-> InOrder(d)]
  <1>1. Inductive /\ Inductive' /\ [Next]_vars => [Log!Next]_<<OpenDocuments, logs>>
    <2> SUFFICES ASSUME Inductive, Inductive', [Next]_vars, ~Log!Next
                 PROVE  UNCHANGED <<OpenDocuments, logs>>
      OBVIOUS
    <2>1. documents' = documents /\ versions' = versions
      BY LogStep DEF vars
    <2>2. OpenDocuments' = OpenDocuments
      BY <2>1 DEF OpenDocuments, Active
    <2>3. \A e \in Documents : InOrder(e)' = InOrder(e)
      BY <2>1 DEF InOrder, VersionsOf
    <2> QED
      BY <2>2, <2>3
  <1> QED
    BY <1>1, LogInit, InductiveInvariant, PTL DEF Spec, ImplementsVersionLog, Log!Spec
=============================================================================
