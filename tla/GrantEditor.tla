----------------------------- MODULE GrantEditor -----------------------------
(***************************************************************************)
(* The "Restricted access" form of the web client (page.tsx,               *)
(* DocumentOperations), with which a manager replaces the grants of a      *)
(* document.  The form shows a checkbox for every principal that the       *)
(* cached lists hold.  The checkboxes are uncontrolled: defaultChecked     *)
(* counts when a box is mounted, and a box stays mounted as long as the    *)
(* form shows its principal, even when another document is selected.       *)
(* Meanwhile other managers replace grants and members come and go.        *)
(*                                                                         *)
(* Outside the module: the PUT itself, which replaces the list (Sharing);  *)
(* React, which mounts and keeps elements, and the query cache, which may  *)
(* fetch what is displayed again at any time.                              *)
(***************************************************************************)
EXTENDS FiniteSets

CONSTANTS
    Documents,      \* restricted documents
    Users, Teams,
    NoDocument

ASSUME NoDocumentAssumption == NoDocument \notin Documents

Principals == Users \cup Teams

VARIABLES
    granted,    \* at the server: the principals of each document's list
    active,     \* at the server: the users that are active members
    first,      \* at the server: the teams on the first page of GET /teams
    selected,   \* selectedDocumentId
    loaded,     \* documents whose details are cached
    grants,     \* cached answers of GET access
    failing,    \* documents whose last GET access has failed
    listed,     \* active members and teams, as cached
    boxes       \* the mounted checkboxes, by principal

server == <<granted, active, first>>
cached == <<loaded, grants, failing, listed>>
vars == <<granted, active, first, selected, loaded, grants, failing, listed, boxes>>

\* History, fresh: the principals whose grants are still as the server read them.
Answer == [known : BOOLEAN, list : SUBSET Principals, fresh : SUBSET Principals]
NoAnswer == [known |-> FALSE, list |-> {}, fresh |-> {}]

\* History: the document a box was mounted for, and where what it shows is from: an
\* answer whose grant has not changed since, the manager's click, or neither.
Box == [checked : BOOLEAN, doc : Documents, from : {"server", "manager", "nothing"}]

Init ==
    /\ granted \in [Documents -> SUBSET Principals]
    /\ active = Users /\ first = Teams
    /\ selected = NoDocument
    /\ loaded = {}
    /\ grants = [d \in Documents |-> NoAnswer]
    /\ failing = {}
    /\ listed = {}
    /\ boxes = [x \in {} |-> TRUE]

-----------------------------------------------------------------------------
(* Rendering *)

Source(x, answer) == IF x \in answer.fresh THEN "server" ELSE "nothing"

\* defaultChecked={grants.data?.user_ids.includes(...)}, undefined counts as false.
\* (Definitions named All... are variants with a plausible mistake.)
AllUnchecked(x, d, answer) == [checked |-> FALSE, doc |-> d, from |-> Source(x, answer)]
Mounted(x, d, answer) == [checked |-> x \in answer.list, doc |-> d, from |-> Source(x, answer)]

\* document.data?.visibility === "RESTRICTED" && !grants.error
FormShown == selected \in loaded \ failing

Shown == IF FormShown THEN listed ELSE {}

\* A box that was shown and is still shown is kept as it is.
AllKept ==
    boxes' = [x \in Shown' \cup DOMAIN boxes |->
                 IF x \in DOMAIN boxes THEN boxes[x] ELSE Mounted(x, selected', grants'[selected'])]
Render ==
    boxes' = [x \in Shown' |-> IF x \in DOMAIN boxes THEN boxes[x]
                               ELSE Mounted(x, selected', grants'[selected'])]

Select(d) ==
    /\ selected # d
    /\ selected' = d
    /\ UNCHANGED <<server, cached>>
    /\ Render

Close ==
    /\ selected # NoDocument
    /\ selected' = NoDocument
    /\ UNCHANGED <<server, cached>>
    /\ Render

-----------------------------------------------------------------------------
(* The queries of DocumentOperations, for the selected document *)

FetchDocument ==
    /\ selected # NoDocument
    /\ loaded' = loaded \cup {selected}
    /\ UNCHANGED <<server, selected, grants, failing, listed>>
    /\ Render

FetchGrants ==
    /\ selected # NoDocument
    /\ grants' = [grants EXCEPT ![selected] = [known |-> TRUE, list |-> granted[selected],
                                              fresh |-> Principals]]
    /\ failing' = failing \ {selected}
    /\ UNCHANGED <<server, selected, loaded, listed>>
    /\ Render

\* retry: false; the data of an earlier answer stay in the cache.
FailGrants ==
    /\ selected # NoDocument
    /\ failing' = failing \cup {selected}
    /\ UNCHANGED <<server, selected, loaded, grants, listed>>
    /\ Render

\* Asked again without any data, the query forgets its error at once.
AskAgain ==
    /\ selected \in failing /\ ~grants[selected].known
    /\ failing' = failing \ {selected}
    /\ UNCHANGED <<server, selected, loaded, grants, listed>>
    /\ Render

FetchMembers ==
    /\ selected # NoDocument
    /\ listed' = (listed \cap Teams) \cup active
    /\ UNCHANGED <<server, selected, loaded, grants, failing>>
    /\ Render

FetchTeams ==
    /\ selected # NoDocument
    /\ listed' = (listed \cap Users) \cup first
    /\ UNCHANGED <<server, selected, loaded, grants, failing>>
    /\ Render

-----------------------------------------------------------------------------
(* The form, and the server *)

Click(x) ==
    /\ x \in DOMAIN boxes
    /\ boxes' = [boxes EXCEPT ![x].checked = ~@, ![x].from = "manager"]
    /\ UNCHANGED <<server, selected, cached>>

\* replace_grants: the list of a document becomes this one.
Put(d, list) ==
    LET same == Principals \ ((granted[d] \ list) \cup (list \ granted[d]))
    IN /\ granted' = [granted EXCEPT ![d] = list]
       /\ grants' = [grants EXCEPT ![d].fresh = @ \cap same]
       /\ boxes' = [x \in DOMAIN boxes |->
                      IF boxes[x].doc = d /\ x \notin same /\ boxes[x].from = "server"
                      THEN [boxes[x] EXCEPT !.from = "nothing"] ELSE boxes[x]]
       /\ UNCHANGED <<active, first, selected, loaded, failing, listed>>

Checked == {x \in DOMAIN boxes : boxes[x].checked}

\* onSubmit; 422 when the list holds a user who is not an active member.
Save ==
    /\ FormShown
    /\ Checked \cap Users \subseteq active
    /\ Put(selected, Checked)

AnotherManagerSaves(d) ==
    \E list \in SUBSET (active \cup Teams) : list # granted[d] /\ Put(d, list)

\* revoke_member, accept_invitation (Membership): the grants stay.
MemberChanges(u) ==
    /\ active' = IF u \in active THEN active \ {u} ELSE active \cup {u}
    /\ UNCHANGED <<granted, first, selected, cached, boxes>>

\* create_team: the teams are paged by name, so that new ones can push a team off the
\* only page that the client asks for; teams are never deleted.
TeamPushedOff(t) ==
    /\ first' = first \ {t}
    /\ UNCHANGED <<granted, active, selected, cached, boxes>>

Next ==
    \/ \E d \in Documents : Select(d) \/ AnotherManagerSaves(d)
    \/ Close
    \/ FetchDocument \/ FetchGrants \/ FailGrants \/ AskAgain \/ FetchMembers \/ FetchTeams
    \/ \E x \in Principals : Click(x)
    \/ Save
    \/ \E u \in Users : MemberChanges(u)
    \/ \E t \in Teams : TeamPushedOff(t)

Spec == Init /\ [][Next]_vars

-----------------------------------------------------------------------------
(* Properties *)

TypeOK ==
    /\ granted \in [Documents -> SUBSET Principals]
    /\ active \in SUBSET Users /\ first \in SUBSET Teams
    /\ selected \in Documents \cup {NoDocument}
    /\ loaded \in SUBSET Documents /\ failing \in SUBSET Documents
    /\ grants \in [Documents -> Answer]
    /\ listed \in SUBSET Principals
    /\ boxes \in [Shown -> Box]

\* What the cache and the form hold as the server's is the server's: a grant that is
\* fresh in a cached answer is in its list just when it is in the document's, and
\* so is, for the document it was mounted for, a box whose mark is from the server.
AnswersAgree ==
    \A d \in Documents : \A x \in grants[d].fresh : x \in grants[d].list <=> x \in granted[d]
BoxesAgree ==
    \A x \in DOMAIN boxes :
        boxes[x].from = "server" => (boxes[x].checked <=> x \in granted[boxes[x].doc])

\* Every mark of the form that is neither the manager's nor unaccounted for is the
\* state of the grant at the server, whatever was selected, fetched or saved meanwhile.
Inductive == TypeOK /\ AnswersAgree /\ BoxesAgree

\* The form replaces the whole list, also what the manager has not touched.  A save
\* leaves the grant of a principal alone when its box was mounted for this document
\* from an answer whose grant has not changed since, and was not clicked.  (In the
\* other cases it may not: no box, a box mounted for another document or before the
\* grants were known, a grant that others changed meanwhile.)
SaveExplained ==
    [][Save => \A x \in DOMAIN boxes :
          boxes[x].doc = selected /\ boxes[x].from = "server" =>
              (x \in granted'[selected] <=> x \in granted[selected])]_vars

=============================================================================
