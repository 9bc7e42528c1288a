------------------------------ MODULE Documents ------------------------------
(***************************************************************************)
(* Documents and their source versions (routes/documents.py).  An upload   *)
(* writes two stores that share no transaction: the bytes go to object     *)
(* storage under a key drawn for this version, then the rows go to         *)
(* PostgreSQL; when the second write fails the handler deletes the object. *)
(*                                                                         *)
(* upload_version holds the row lock of its document from the moment it    *)
(* computes the version number until it commits, so across the scan and    *)
(* the transfer to the object store.  Everything that can fail on the way  *)
(* (the scan, either store, the process) may fail at every step.           *)
(***************************************************************************)
EXTENDS Naturals, FiniteSets

CONSTANTS
    Documents,      \* identifiers of document rows
    Keys,           \* identifiers of version rows; a storage key is made from it
    Requests,       \* the requests the API serves at the same time
    MaxVersions,    \* bound: versions of one document
    NoDocument, NoKey

ASSUME BoundAssumption == MaxVersions \in Nat
ASSUME NoDocumentAssumption == NoDocument \notin Documents /\ NoKey \notin Keys

VARIABLES
    documents,      \* the documents table
    versions,       \* the document_versions table
    objects,        \* the keys under which the bucket holds an object
    drawn,          \* the version identifiers drawn so far
    unsettled,      \* history: keys whose outcome no handler could tell
    req             \* the requests in flight

vars == <<documents, versions, objects, drawn, unsettled, req>>

-----------------------------------------------------------------------------
Document == [status : {"NONE", "ACTIVE", "ARCHIVED"}, current : Keys \cup {NoKey}]
NoRow == [status |-> "NONE", current |-> NoKey]

Version == [document : Documents \cup {NoDocument}, number : 0 .. MaxVersions]
NoVersion == [document |-> NoDocument, number |-> 0]

\* pc names what a request does next; a request that goes back to idle has been
\* answered, and its transaction committed or rolled back.
Request == [pc     : {"idle", "lock", "number", "scan", "put", "commit",
                      "compensate", "archive"},
            doc    : Documents \cup {NoDocument},
            key    : Keys \cup {NoKey},
            number : 0 .. MaxVersions]
Idle == [pc |-> "idle", doc |-> NoDocument, key |-> NoKey, number |-> 0]

Goto(p, pc) == req' = [req EXCEPT ![p].pc = pc]
Finish(p) == req' = [req EXCEPT ![p] = Idle]

Active(d) == documents[d].status = "ACTIVE"
VersionsOf(d) == {k \in Keys : versions[k].document = d}
Stored == {k \in Keys : versions[k] # NoVersion}

\* func.max(version_number), or 0
Latest(d, n) ==
    /\ \A k \in VersionsOf(d) : versions[k].number <= n
    /\ n = 0 \/ \E k \in VersionsOf(d) : versions[k].number = n

\* The row lock of the document.  (The request that creates a document is the
\* only one that knows its identifier before it commits.)
\* Definitions named No... or Any... are variants with one check, lock or write
\* left out; the README says which property notices each of them.
NoDocumentLock(p, d) == FALSE
HoldsDocument(p, d) ==
    req[p].doc = d /\ req[p].pc \in {"number", "scan", "put", "commit"}
Unlocked(d) == \A q \in Requests : ~HoldsDocument(q, d)

-----------------------------------------------------------------------------
Init ==
    /\ documents = [d \in Documents |-> NoRow]
    /\ versions = [k \in Keys |-> NoVersion]
    /\ objects = {}
    /\ drawn = {}
    /\ unsettled = {}
    /\ req = [p \in Requests |-> Idle]

TablesUnchanged == UNCHANGED <<documents, versions, objects, unsettled>>

\* upload_document, up to the staged file: fresh identifiers, version number 1.
StartUpload(p) ==
    /\ req[p].pc = "idle"
    /\ MaxVersions > 0
    /\ \E d \in Documents, k \in Keys \ drawn :
        /\ documents[d] = NoRow
        /\ \A q \in Requests : req[q].doc # d
        /\ req' = [req EXCEPT ![p] = [pc |-> "scan", doc |-> d, key |-> k, number |-> 1]]
        /\ drawn' = drawn \cup {k}
    /\ TablesUnchanged

\* upload_version and archive_document start with _managed_document: the
\* document is loaded, and has to be active then.
StartVersion(p, d) ==
    /\ req[p].pc = "idle"
    /\ Active(d)
    /\ req' = [req EXCEPT ![p] = [Idle EXCEPT !.pc = "lock", !.doc = d]]
    /\ TablesUnchanged /\ UNCHANGED drawn

StartArchive(p, d) ==
    /\ req[p].pc = "idle"
    /\ Active(d)
    /\ req' = [req EXCEPT ![p] = [Idle EXCEPT !.pc = "archive", !.doc = d]]
    /\ TablesUnchanged /\ UNCHANGED drawn

\* SELECT ... WHERE status = ACTIVE ... FOR UPDATE: the condition is evaluated
\* again on the row the lock was granted for.
AnyStatusLock(p) ==
    /\ req[p].pc = "lock"
    /\ Unlocked(req[p].doc)
    /\ Goto(p, "number")
    /\ TablesUnchanged /\ UNCHANGED drawn

LockDocument(p) ==
    /\ req[p].pc = "lock"
    /\ IF Active(req[p].doc)
       THEN Unlocked(req[p].doc) /\ Goto(p, "number")
       ELSE Finish(p)
    /\ TablesUnchanged /\ UNCHANGED drawn

ReadNumber(p) ==
    /\ req[p].pc = "number"
    /\ \E n \in 0 .. MaxVersions, k \in Keys \ drawn :
        /\ Latest(req[p].doc, n) /\ n < MaxVersions
        /\ req' = [req EXCEPT ![p].pc = "scan", ![p].key = k, ![p].number = n + 1]
        /\ drawn' = drawn \cup {k}
    /\ TablesUnchanged

\* _stage_upload and _scan_upload: only a clean file of an allowed type goes on.
Scan(p) ==
    /\ req[p].pc = "scan"
    /\ Goto(p, "put") \/ Finish(p)
    /\ TablesUnchanged /\ UNCHANGED drawn

\* storage.put_stream: stored; not stored; or stored and reported failed, and
\* then object_written stays False and nobody deletes the object.
AnyPut(p) ==
    /\ req[p].pc = "put"
    /\ Goto(p, "commit")
    /\ objects' = objects \cup {req[p].key} \/ UNCHANGED objects
    /\ UNCHANGED <<documents, versions, drawn, unsettled>>

Put(p) ==
    /\ req[p].pc = "put"
    /\ \/ /\ objects' = objects \cup {req[p].key}
          /\ Goto(p, "commit")
          /\ UNCHANGED unsettled
       \/ /\ Finish(p)
          /\ UNCHANGED <<objects, unsettled>>
       \/ /\ objects' = objects \cup {req[p].key}
          /\ unsettled' = unsettled \cup {req[p].key}
          /\ Finish(p)
    /\ UNCHANGED <<documents, versions, drawn>>

\* What the transaction writes: the version, and the document's pointer to it.
NoPointer(p) ==
    /\ versions' = [versions EXCEPT ![req[p].key] =
                        [document |-> req[p].doc, number |-> req[p].number]]
    /\ documents' = [documents EXCEPT ![req[p].doc].status =
                        IF @ = "NONE" THEN "ACTIVE" ELSE @]

WriteRows(p) ==
    /\ versions' = [versions EXCEPT ![req[p].key] =
                        [document |-> req[p].doc, number |-> req[p].number]]
    /\ documents' = [documents EXCEPT ![req[p].doc] =
                        [status |-> IF @.status = "NONE" THEN "ACTIVE" ELSE @.status,
                         current |-> req[p].key]]

\* UniqueConstraint("document_id", "version_number")
NumberFree(p) == \A k \in VersionsOf(req[p].doc) : versions[k].number # req[p].number

NoCompensation(p) == req' = [req EXCEPT ![p] = Idle]
FailCommit(p) == Goto(p, "compensate")

\* The COMMIT succeeds; or fails; or succeeds while its acknowledgement is lost,
\* and the handler takes it for a failure.
CommitUpload(p) ==
    /\ req[p].pc = "commit"
    /\ \/ NumberFree(p) /\ WriteRows(p) /\ Finish(p) /\ UNCHANGED unsettled
       \/ FailCommit(p) /\ UNCHANGED <<documents, versions, unsettled>>
       \/ /\ NumberFree(p) /\ WriteRows(p) /\ FailCommit(p)
          /\ unsettled' = unsettled \cup {req[p].key}
    /\ UNCHANGED <<objects, drawn>>

\* After the rollback, storage.delete; when that reports an error, the key is
\* only logged, whether the object is gone or not.
Compensate(p) ==
    /\ req[p].pc = "compensate"
    /\ \/ objects' = objects \ {req[p].key} /\ UNCHANGED unsettled
       \/ /\ unsettled' = unsettled \cup {req[p].key}
          /\ objects' \in {objects, objects \ {req[p].key}}
    /\ Finish(p)
    /\ UNCHANGED <<documents, versions, drawn>>

WriteArchive(p) ==
    /\ req[p].pc = "archive"
    /\ Unlocked(req[p].doc)
    /\ documents' = [documents EXCEPT ![req[p].doc].status = "ARCHIVED"]
    /\ Finish(p)
    /\ UNCHANGED <<versions, objects, drawn, unsettled>>

\* The process dies: the transaction is rolled back, the object stays.
Crash(p) ==
    /\ req[p].pc # "idle"
    /\ unsettled' = unsettled \cup (objects \cap {req[p].key})
    /\ Finish(p)
    /\ UNCHANGED <<documents, versions, objects, drawn>>

Arrive(p) == StartUpload(p) \/ \E d \in Documents : StartVersion(p, d) \/ StartArchive(p, d)
Serve(p) ==
    \/ LockDocument(p) \/ ReadNumber(p) \/ Scan(p) \/ Put(p)
    \/ CommitUpload(p) \/ Compensate(p) \/ WriteArchive(p)
Next == \E p \in Requests : Arrive(p) \/ Serve(p) \/ Crash(p)

Spec == Init /\ [][Next]_vars

-----------------------------------------------------------------------------
(* Properties *)

TypeOK ==
    /\ documents \in [Documents -> Document]
    /\ versions \in [Keys -> Version]
    /\ objects \in SUBSET Keys
    /\ drawn \in SUBSET Keys
    /\ unsettled \in SUBSET Keys
    /\ req \in [Requests -> Request]

\* A number computed under the document's lock is still the next one when its
\* request commits, however long the scan and the transfer take: no upload is
\* refused by the unique constraint.
NumberStaysNext ==
    \A p \in Requests : req[p].pc \in {"scan", "put", "commit"} =>
        Latest(req[p].doc, req[p].number - 1)

\* The current pointer names the newest version of its own document.
CurrentIsLatest ==
    \A d \in Documents : documents[d].status # "NONE" =>
        LET k == documents[d].current
        IN k \in VersionsOf(d) /\ Latest(d, versions[k].number)

\* Every version a reader can find has its bytes, with one exception: the upload
\* whose COMMIT went through although the handler was told that it failed.
VersionKeepsObject == \A k \in Stored : k \in objects \cup unsettled

\* An upload that fails and is answered leaves no object behind: an object
\* without a version belongs to a request in flight, or its process died, or
\* the store reported an error for it.
OrphansExplained ==
    \A k \in objects : \/ k \in Stored \cup unsettled
                       \/ \E p \in Requests : /\ req[p].key = k
                                              /\ req[p].pc \in {"commit", "compensate"}

\* The concurrent uploads and archivings of one document are those of a log
\* that is appended to until it is closed.
OpenDocuments == {d \in Documents : Active(d)}
InOrder(d) == [n \in 1 .. Cardinality(VersionsOf(d)) |->
                  CHOOSE k \in VersionsOf(d) : versions[k].number = n]
Log == INSTANCE VersionLog WITH
    open <- OpenDocuments, log <- [d \in Documents |-> InOrder(d)]
ImplementsVersionLog == Log!Spec

-----------------------------------------------------------------------------
(* The inductive invariant behind the invariants above.                    *)

\* What a request carries at each of its steps.
WellFormed(p) ==
    LET r == req[p]
    IN /\ r.pc # "idle" => r.doc \in Documents
       /\ r.pc \in {"scan", "put", "commit", "compensate"} => r.key \in drawn
       /\ r.pc \in {"scan", "put", "commit"} => r.number > 0 /\ versions[r.key] = NoVersion
       /\ r.pc \in {"idle", "lock", "number", "archive"} => r.key = NoKey
       /\ r.pc \in {"lock", "archive"} => documents[r.doc].status # "NONE"
       /\ r.pc = "number" => Active(r.doc)
       /\ r.pc \in {"scan", "put", "commit"} =>
             \/ Active(r.doc)
             \/ documents[r.doc].status = "NONE" /\ r.number = 1
       /\ r.pc \in {"scan", "put"} => r.key \notin objects
       /\ r.pc = "commit" => r.key \in objects

\* No two requests write under the same key or hold the same document.
Exclusive ==
    \A p, q \in Requests : p # q =>
        /\ req[p].key = req[q].key => req[p].key = NoKey
        /\ \A d \in Documents : ~(HoldsDocument(p, d) /\ HoldsDocument(q, d))

RowsConsistent ==
    /\ \A d \in Documents : documents[d].status = "NONE" <=> VersionsOf(d) = {}
    /\ \A k \in Keys : versions[k] # NoVersion => /\ versions[k].document \in Documents
                                                  /\ versions[k].number > 0
    /\ Stored \cup objects \subseteq drawn

\* The versions of a document are numbered from 1 without a gap or a duplicate.
Numbered ==
    \A d \in Documents :
        LET count == Cardinality(VersionsOf(d))
        IN  /\ IsFiniteSet(VersionsOf(d)) /\ Latest(d, count)
            /\ \A n \in 1 .. count : \E k \in VersionsOf(d) : versions[k].number = n
            /\ \A j, k \in VersionsOf(d) : versions[j].number = versions[k].number => j = k

Inductive ==
    /\ TypeOK
    /\ RowsConsistent
    /\ Numbered
    /\ Exclusive
    /\ \A p \in Requests : WellFormed(p)
    /\ NumberStaysNext
    /\ CurrentIsLatest
    /\ OrphansExplained

\* What a compensation deletes was never committed, unless the handler was told
\* so wrongly.
Kept ==
    /\ VersionKeepsObject
    /\ \A p \in Requests : /\ req[p].pc = "compensate"
                           /\ versions[req[p].key] # NoVersion
                           => req[p].key \in unsettled

=============================================================================
