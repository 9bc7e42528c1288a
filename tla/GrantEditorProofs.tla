-------------------------- MODULE GrantEditorProofs --------------------------
(***************************************************************************)
(* Proofs about GrantEditor, for any documents, users and teams: the       *)
(* inductive invariant of the access form, and from it what a save does to *)
(* the grants that the manager has not touched.                            *)
(***************************************************************************)
EXTENDS GrantEditor, TLAPS

\* The cached answers, and what is read of the server, have their types: the part of
\* TypeOK that does not depend on what is shown.
Typed ==
    /\ granted \in [Documents -> SUBSET Principals]
    /\ active \in SUBSET Users /\ first \in SUBSET Teams
    /\ selected \in Documents \cup {NoDocument}
    /\ loaded \in SUBSET Documents /\ failing \in SUBSET Documents
    /\ grants \in [Documents -> Answer]
    /\ listed \in SUBSET Principals

-----------------------------------------------------------------------------
(* Lemmas about the model's operators *)

\* Where the form is shown, a document is selected: only details of documents are cached.
LEMMA ShownForDocument ==
    ASSUME Typed, Shown # {}
    PROVE  selected \in Documents /\ Shown \subseteq Principals
BY NoDocumentAssumption DEF Typed, Shown, FormShown

\* A box that is mounted from an answer whose fresh grants agree with the server's, and
\* that counts as the server's, shows the grant of its document.
LEMMA MountedAgrees ==
    ASSUME NEW x \in Principals, NEW d \in Documents, NEW answer \in Answer, NEW list,
           \A y \in answer.fresh : y \in answer.list <=> y \in list
    PROVE  /\ Mounted(x, d, answer) \in Box
           /\ Mounted(x, d, answer).doc = d
           /\ Mounted(x, d, answer).from = "server" =>
                  (Mounted(x, d, answer).checked <=> x \in list)
<1>1. Source(x, answer) \in {"server", "nothing"}
  BY DEF Source
<1>2. Source(x, answer) = "server" => x \in answer.fresh
  BY DEF Source
<1>3. (x \in answer.list) \in BOOLEAN
  OBVIOUS
<1>4. Mounted(x, d, answer) \in Box
  BY <1>1, <1>3 DEF Mounted, Box
<1>. QED BY <1>2, <1>4 DEF Mounted

\* A step that renders the form again over cached data that agree with the server, and
\* leaves the grants alone, keeps the invariant: what stays mounted agreed before, and
\* what is mounted now comes from an answer that agrees.
LEMMA RenderKeeps ==
    ASSUME Inductive, Typed', AnswersAgree', UNCHANGED granted, Render
    PROVE  Inductive'
<1>1. Shown' # {} => selected' \in Documents /\ Shown' \subseteq Principals
  BY NoDocumentAssumption DEF Typed, Shown, FormShown
<1>2. ASSUME NEW x \in Shown', x \in DOMAIN boxes
      PROVE  boxes'[x] = boxes[x] /\ boxes[x] \in Box
  BY <1>2 DEF Render, Inductive, TypeOK
<1>3. ASSUME NEW x \in Shown', x \notin DOMAIN boxes
      PROVE  /\ boxes'[x] = Mounted(x, selected', grants'[selected'])
             /\ boxes'[x] \in Box
             /\ boxes'[x].doc = selected'
             /\ boxes'[x].from = "server" => (boxes'[x].checked <=> x \in granted'[selected'])
  <2>1. boxes'[x] = Mounted(x, selected', grants'[selected'])
    BY <1>3 DEF Render
  <2>2. /\ x \in Principals /\ selected' \in Documents
        /\ grants'[selected'] \in Answer
        /\ \A y \in grants'[selected'].fresh :
              y \in grants'[selected'].list <=> y \in granted'[selected']
    BY <1>1 DEF Typed, AnswersAgree
  <2>. QED BY <2>1, <2>2, MountedAgrees
<1>4. DOMAIN boxes' = Shown' /\ boxes' = [x \in Shown' |-> boxes'[x]]
  BY DEF Render
<1>5. boxes' \in [Shown' -> Box]
  BY <1>2, <1>3, <1>4
<1>6. TypeOK'
  BY <1>5 DEF Typed, TypeOK
<1>7. BoxesAgree'
  <2>. SUFFICES ASSUME NEW x \in Shown', boxes'[x].from = "server"
                PROVE  boxes'[x].checked <=> x \in granted'[boxes'[x].doc]
    BY <1>4 DEF BoxesAgree
  <2>1. CASE x \in DOMAIN boxes
    BY <1>2, <2>1 DEF Inductive, BoxesAgree
  <2>2. CASE x \notin DOMAIN boxes
    BY <1>3, <2>2
  <2>. QED BY <2>1, <2>2
<1>. QED BY <1>6, <1>7 DEF Inductive

\* A list is replaced: the grants that differ are no longer fresh, and the boxes that
\* showed them no longer the server's.
LEMMA PutKeeps ==
    ASSUME Inductive, NEW d \in Documents, NEW list \in SUBSET Principals, Put(d, list)
    PROVE  Inductive'
<1>. DEFINE same == Principals \ ((granted[d] \ list) \cup (list \ granted[d]))
<1>1. /\ granted' = [granted EXCEPT ![d] = list]
      /\ grants' = [grants EXCEPT ![d].fresh = @ \cap same]
      /\ boxes' = [x \in DOMAIN boxes |->
                     IF boxes[x].doc = d /\ x \notin same /\ boxes[x].from = "server"
                     THEN [boxes[x] EXCEPT !.from = "nothing"] ELSE boxes[x]]
      /\ UNCHANGED <<active, first, selected, loaded, failing, listed>>
  BY DEF Put
<1>2. \A x \in same : x \in list <=> x \in granted[d]
  OBVIOUS
<1>3. /\ \A e \in Documents \ {d} : granted'[e] = granted[e] /\ grants'[e] = grants[e]
      /\ granted'[d] = list
      /\ grants'[d] = [grants[d] EXCEPT !.fresh = @ \cap same]
  BY <1>1 DEF Inductive, TypeOK
<1>4. \A e \in Documents : granted[e] \in SUBSET Principals /\ grants[e] \in Answer
  BY DEF Inductive, TypeOK
<1>5. granted' \in [Documents -> SUBSET Principals] /\ grants' \in [Documents -> Answer]
  <2>1. grants'[d] \in Answer
    BY <1>3, <1>4 DEF Answer
  <2>. QED BY <1>1, <1>3, <1>4, <2>1 DEF Inductive, TypeOK
<1>6. Shown' = Shown
  BY <1>1 DEF Shown, FormShown
<1>7. boxes' \in [Shown' -> Box]
  BY <1>1, <1>6 DEF Inductive, TypeOK, Box
<1>8. TypeOK'
  BY <1>1, <1>5, <1>7 DEF Inductive, TypeOK
<1>9. AnswersAgree'
  <2>. SUFFICES ASSUME NEW e \in Documents, NEW x \in grants'[e].fresh
                PROVE  x \in grants'[e].list <=> x \in granted'[e]
    BY DEF AnswersAgree
  <2>1. CASE e = d
    <3>1. /\ grants'[d].fresh = grants[d].fresh \cap same
          /\ grants'[d].list = grants[d].list
      BY <1>3, <1>4 DEF Answer
    <3>. QED BY <2>1, <3>1, <1>2, <1>3 DEF Inductive, AnswersAgree
  <2>2. CASE e # d
    BY <2>2, <1>3 DEF Inductive, AnswersAgree
  <2>. QED BY <2>1, <2>2
<1>10. BoxesAgree'
  <2>. SUFFICES ASSUME NEW x \in DOMAIN boxes, boxes'[x].from = "server"
                PROVE  boxes'[x].checked <=> x \in granted'[boxes'[x].doc]
    BY <1>1 DEF BoxesAgree
  <2>1. boxes[x] \in Box /\ x \in Principals
    BY ShownForDocument DEF Inductive, TypeOK, Typed
  <2>2. boxes'[x] = boxes[x] /\ (boxes[x].doc = d => x \in same)
    BY <1>1, <2>1 DEF Box
  <2>3. boxes[x].checked <=> x \in granted[boxes[x].doc]
    BY <2>2 DEF Inductive, BoxesAgree
  <2>. QED BY <2>1, <2>2, <2>3, <1>2, <1>3 DEF Box
<1>. QED BY <1>8, <1>9, <1>10 DEF Inductive

-----------------------------------------------------------------------------
(* The inductive invariant *)

\* Nothing is cached and no box is mounted at first.
LEMMA InductiveInit == Init => Inductive
<1>. SUFFICES ASSUME Init PROVE Inductive
  OBVIOUS
<1>1. Shown = {} /\ DOMAIN boxes = {}
  BY DEF Init, Shown
<1>2. TypeOK
  BY <1>1 DEF Init, TypeOK, Answer, NoAnswer, Principals
<1>3. AnswersAgree
  BY DEF Init, AnswersAgree, NoAnswer
<1>. QED BY <1>1, <1>2, <1>3 DEF Inductive, BoxesAgree

LEMMA InductiveNext == Inductive /\ [Next]_vars => Inductive'
<1>. SUFFICES ASSUME Inductive, [Next]_vars PROVE Inductive'
  OBVIOUS
<1>. USE DEF server, cached
<1>0. Typed
  BY DEF Inductive, TypeOK, Typed
<1>1. ASSUME NEW d \in Documents, Select(d) PROVE Inductive'
  <2>1. Typed' /\ AnswersAgree'
    BY <1>0, <1>1 DEF Select, Typed, Inductive, AnswersAgree
  <2>. QED BY <1>1, <2>1, RenderKeeps DEF Select
<1>2. ASSUME NEW d \in Documents, AnotherManagerSaves(d) PROVE Inductive'
  <2>1. PICK list \in SUBSET (active \cup Teams) : Put(d, list)
    BY <1>2 DEF AnotherManagerSaves
  <2>2. list \in SUBSET Principals
    BY <1>0 DEF Typed, Principals
  <2>. QED BY <2>1, <2>2, PutKeeps
<1>3. CASE Close
  <2>1. Typed' /\ AnswersAgree'
    BY <1>0, <1>3 DEF Close, Typed, Inductive, AnswersAgree
  <2>. QED BY <1>3, <2>1, RenderKeeps DEF Close
<1>4. CASE FetchDocument
  <2>1. Typed' /\ AnswersAgree'
    BY <1>0, <1>4 DEF FetchDocument, Typed, Inductive, AnswersAgree
  <2>. QED BY <1>4, <2>1, RenderKeeps DEF FetchDocument
<1>5. CASE FetchGrants
  <2>1. selected \in Documents
    BY <1>0, <1>5 DEF FetchGrants, Typed
  <2>2. Typed'
    BY <1>0, <1>5, <2>1 DEF FetchGrants, Typed, Answer
  <2>3. AnswersAgree'
    BY <1>0, <1>5, <2>1 DEF FetchGrants, Typed, Inductive, AnswersAgree
  <2>. QED BY <1>5, <2>2, <2>3, RenderKeeps DEF FetchGrants
<1>6. CASE FailGrants
  <2>1. Typed' /\ AnswersAgree'
    BY <1>0, <1>6 DEF FailGrants, Typed, Inductive, AnswersAgree
  <2>. QED BY <1>6, <2>1, RenderKeeps DEF FailGrants
<1>7. CASE AskAgain
  <2>1. Typed' /\ AnswersAgree'
    BY <1>0, <1>7 DEF AskAgain, Typed, Inductive, AnswersAgree
  <2>. QED BY <1>7, <2>1, RenderKeeps DEF AskAgain
<1>8. CASE FetchMembers
  <2>1. Typed' /\ AnswersAgree'
    BY <1>0, <1>8 DEF FetchMembers, Typed, Inductive, AnswersAgree, Principals
  <2>. QED BY <1>8, <2>1, RenderKeeps DEF FetchMembers
<1>9. CASE FetchTeams
  <2>1. Typed' /\ AnswersAgree'
    BY <1>0, <1>9 DEF FetchTeams, Typed, Inductive, AnswersAgree, Principals
  <2>. QED BY <1>9, <2>1, RenderKeeps DEF FetchTeams
<1>10. ASSUME NEW x \in Principals, Click(x) PROVE Inductive'
  <2>1. Shown' = Shown
    BY <1>10 DEF Click, Shown, FormShown
  <2>2. /\ x \in DOMAIN boxes
        /\ boxes' = [boxes EXCEPT ![x].checked = ~@, ![x].from = "manager"]
    BY <1>10 DEF Click
  <2>3. \A y \in DOMAIN boxes : boxes[y] \in Box
    BY DEF Inductive, TypeOK
  <2>4. /\ DOMAIN boxes' = DOMAIN boxes
        /\ \A y \in DOMAIN boxes \ {x} : boxes'[y] = boxes[y]
    BY <2>2
  <2>5. boxes'[x] = [boxes[x] EXCEPT !.checked = ~boxes[x].checked, !.from = "manager"]
    BY <2>2, <2>3 DEF Box
  <2>6. boxes'[x] \in Box /\ boxes'[x].from = "manager"
    BY <2>2, <2>3, <2>5 DEF Box
  <2>7. boxes' \in [Shown' -> Box]
    BY <2>1, <2>2, <2>3, <2>4, <2>6 DEF Inductive, TypeOK
  <2>8. TypeOK'
    BY <1>10, <2>1, <2>7 DEF Click, Inductive, TypeOK
  <2>9. AnswersAgree' /\ BoxesAgree'
    BY <1>10, <2>4, <2>6 DEF Click, Inductive, AnswersAgree, BoxesAgree
  <2>. QED BY <2>8, <2>9 DEF Inductive
<1>11. CASE Save
  <2>1. selected \in Documents
    BY <1>0, <1>11 DEF Save, FormShown, Typed
  <2>2. Checked \in SUBSET Principals
    BY <1>0, ShownForDocument DEF Checked, Inductive, TypeOK
  <2>. QED BY <1>11, <2>1, <2>2, PutKeeps DEF Save
<1>12. ASSUME NEW u \in Users, MemberChanges(u) PROVE Inductive'
  BY <1>12 DEF MemberChanges, Inductive, TypeOK, AnswersAgree, BoxesAgree, Shown, FormShown
<1>13. ASSUME NEW t \in Teams, TeamPushedOff(t) PROVE Inductive'
  BY <1>13 DEF TeamPushedOff, Inductive, TypeOK, AnswersAgree, BoxesAgree, Shown, FormShown
<1>14. CASE UNCHANGED vars
  BY <1>14 DEF vars, Inductive, TypeOK, AnswersAgree, BoxesAgree, Shown, FormShown
<1>. QED
  BY <1>1, <1>2, <1>3, <1>4, <1>5, <1>6, <1>7, <1>8, <1>9, <1>10, <1>11, <1>12, <1>13, <1>14
  DEF Next

\* Whatever is selected, fetched, saved or fails, and whatever other managers do, a mark
\* that the form takes from the server is the grant that the server holds.
THEOREM InductiveInvariant == Spec => []Inductive
<1>1. Init => Inductive
  BY InductiveInit
<1>2. Inductive /\ [Next]_vars => Inductive'
  BY InductiveNext
<1>. QED BY <1>1, <1>2, PTL DEF Spec

-----------------------------------------------------------------------------
(* What a save leaves alone *)

\* The list that a save stores is what is checked; a box of this document that counts
\* as the server's is checked just when its principal has a grant.
LEMMA SaveKeepsGrants ==
    ASSUME Inductive, Save, NEW x \in DOMAIN boxes,
           boxes[x].doc = selected, boxes[x].from = "server"
    PROVE  x \in granted'[selected] <=> x \in granted[selected]
<1>1. selected \in Documents
  BY DEF Save, FormShown, Inductive, TypeOK
<1>2. granted'[selected] = Checked
  BY <1>1 DEF Save, Put, Inductive, TypeOK
<1>3. boxes[x].checked <=> x \in granted[selected]
  BY DEF Inductive, BoxesAgree
<1>. QED BY <1>2, <1>3 DEF Checked

\* A save changes the grant of a principal only through a box that was clicked, that
\* was mounted for another document, or whose grant changed at the server since its
\* answer was read; page.tsx sends the whole list, and the server takes it as it is.
THEOREM UntouchedGrantsStay == Spec => SaveExplained
<1>1. Inductive /\ [Next]_vars =>
          [Save => \A x \in DOMAIN boxes :
              boxes[x].doc = selected /\ boxes[x].from = "server" =>
                  (x \in granted'[selected] <=> x \in granted[selected])]_vars
  BY SaveKeepsGrants
<1>. QED BY <1>1, InductiveInvariant, PTL DEF Spec, SaveExplained
=============================================================================
