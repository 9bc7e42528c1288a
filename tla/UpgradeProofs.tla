--------------------------- MODULE UpgradeProofs ---------------------------
(***************************************************************************)
(* Theorems about Upgrade for every database, every number of rows, users  *)
(* and connections.                                                        *)
(***************************************************************************)
EXTENDS Upgrade, FiniteSetTheorems, SequenceTheorems, TLAPS

-----------------------------------------------------------------------------
(* The script of the job                                                   *)

LEMMA KeysScript ==
    /\ Len(MembershipKeys) = 12
    /\ \A k \in 1..6 :
        /\ MembershipKeys[2 * k - 1] = Statement(PrincipalTables[k], "ShareRowExclusive", "nothing")
        /\ MembershipKeys[2 * k] =
              Statement("organization_memberships", "ShareRowExclusive", PrincipalTables[k])
  <1>1. Len(PrincipalTables) = 6
    BY DEF PrincipalTables
  <1>2. \A k \in 1..6 : /\ 2 * k - 1 \in 1..12 /\ 2 * k \in 1..12
                        /\ (2 * k - 1) % 2 = 1 /\ (2 * k) % 2 # 1
                        /\ (2 * k) \div 2 = k /\ (2 * k + 1) \div 2 = k
    OBVIOUS
  <1> QED
    BY <1>1, <1>2 DEF MembershipKeys

LEMMA Concat ==
    ASSUME NEW T, NEW s \in Seq(T), NEW t \in Seq(T)
    PROVE  /\ s \o t \in Seq(T) /\ Len(s \o t) = Len(s) + Len(t)
           /\ \A k \in 1..Len(s) : (s \o t)[k] = s[k]
           /\ \A k \in 1..Len(t) : (s \o t)[Len(s) + k] = t[k]
  <1>1. /\ s \o t \in Seq(T) /\ Len(s \o t) = Len(s) + Len(t)
        /\ \A k \in 1..Len(s) + Len(t) : (s \o t)[k] = IF k <= Len(s) THEN s[k] ELSE t[k - Len(s)]
    BY ConcatProperties
  <1>2. ASSUME NEW k \in 1..Len(t) PROVE (s \o t)[Len(s) + k] = t[k]
    <2>1. Len(s) + k \in 1..Len(s) + Len(t) /\ ~(Len(s) + k <= Len(s)) /\ (Len(s) + k) - Len(s) = k
      OBVIOUS
    <2> QED
      BY <1>1, <2>1
  <1>3. ASSUME NEW k \in 1..Len(s) PROVE (s \o t)[k] = s[k]
    BY <1>1
  <1> QED
    BY <1>1, <1>2, <1>3

\* Where each statement of the script stands.
LEMMA JobScript ==
    /\ Len(UpgradeScript) = 24
    /\ \A k \in 1..3 : UpgradeScript[k] = RevokeSessions[k]
    /\ \A k \in 1..3 : UpgradeScript[3 + k] = RepairPointers[k]
    /\ \A k \in 1..12 : UpgradeScript[6 + k] = MembershipKeys[k]
    /\ \A k \in 1..4 : UpgradeScript[18 + k] = Deduplicate[k]
    /\ \A k \in 1..2 : UpgradeScript[22 + k] = ToJsonb[k]
  <1> DEFINE a == RevokeSessions
             b == RepairPointers
             c == MembershipKeys
             d == Deduplicate
             e == ToJsonb
  <1>1. Len(a) = 3 /\ Len(b) = 3 /\ Len(c) = 12 /\ Len(d) = 4 /\ Len(e) = 2
    BY KeysScript DEF RevokeSessions, RepairPointers, Deduplicate, ToJsonb
  <1>2. \E T : /\ a \in Seq(T) /\ b \in Seq(T) /\ c \in Seq(T) /\ d \in Seq(T) /\ e \in Seq(T)
    <2> DEFINE T == {a[k] : k \in 1..3} \cup {b[k] : k \in 1..3} \cup {c[k] : k \in 1..12}
                    \cup {d[k] : k \in 1..4} \cup {e[k] : k \in 1..2}
    <2>1. a \in Seq(T) /\ b \in Seq(T) /\ d \in Seq(T) /\ e \in Seq(T)
      BY <1>1 DEF RevokeSessions, RepairPointers, Deduplicate, ToJsonb
    <2>2. c \in Seq(T)
      <3>1. DOMAIN c = 1..12 /\ c = [k \in 1..12 |-> c[k]]
        BY DEF MembershipKeys, PrincipalTables
      <3> QED
        BY <3>1
    <2> QED
      BY <2>1, <2>2
  <1> HIDE DEF a, b, c, d, e
  <1>3. PICK T : /\ a \in Seq(T) /\ b \in Seq(T) /\ c \in Seq(T) /\ d \in Seq(T) /\ e \in Seq(T)
    BY <1>2
  <1> DEFINE ab == a \o b
  <1>4. /\ ab \in Seq(T) /\ Len(ab) = 6
        /\ \A k \in 1..3 : ab[k] = a[k]
        /\ \A k \in 1..3 : ab[3 + k] = b[k]
    <2>1. /\ ab \in Seq(T) /\ Len(ab) = Len(a) + Len(b)
          /\ \A k \in 1..Len(a) : ab[k] = a[k]
          /\ \A k \in 1..Len(b) : ab[Len(a) + k] = b[k]
      BY <1>3, Concat
    <2>2. Len(a) = 3 /\ Len(b) = 3
      BY <1>1
    <2> HIDE DEF ab
    <2> QED
      BY <2>1, <2>2
  <1> HIDE DEF ab
  <1> DEFINE abc == ab \o c
  <1>5. /\ abc \in Seq(T) /\ Len(abc) = 18
        /\ \A k \in 1..6 : abc[k] = ab[k]
        /\ \A k \in 1..12 : abc[6 + k] = c[k]
    <2>1. /\ abc \in Seq(T) /\ Len(abc) = Len(ab) + Len(c)
          /\ \A k \in 1..Len(ab) : abc[k] = ab[k]
          /\ \A k \in 1..Len(c) : abc[Len(ab) + k] = c[k]
      <3>1. ab \in Seq(T) /\ c \in Seq(T)
        BY <1>3, <1>4
      <3> QED
        BY <3>1, Concat
    <2>2. Len(ab) = 6 /\ Len(c) = 12
      BY <1>1, <1>4
    <2> HIDE DEF abc
    <2> QED
      BY <2>1, <2>2
  <1> HIDE DEF abc
  <1> DEFINE abcd == abc \o d
  <1>6. /\ abcd \in Seq(T) /\ Len(abcd) = 22
        /\ \A k \in 1..18 : abcd[k] = abc[k]
        /\ \A k \in 1..4 : abcd[18 + k] = d[k]
    <2>1. /\ abcd \in Seq(T) /\ Len(abcd) = Len(abc) + Len(d)
          /\ \A k \in 1..Len(abc) : abcd[k] = abc[k]
          /\ \A k \in 1..Len(d) : abcd[Len(abc) + k] = d[k]
      <3>1. abc \in Seq(T) /\ d \in Seq(T)
        BY <1>3, <1>5
      <3> QED
        BY <3>1, Concat
    <2>2. Len(abc) = 18 /\ Len(d) = 4
      BY <1>1, <1>5
    <2> HIDE DEF abcd
    <2> QED
      BY <2>1, <2>2
  <1> HIDE DEF abcd
  <1> DEFINE abcde == abcd \o e
  <1>7. /\ abcde \in Seq(T) /\ Len(abcde) = 24
        /\ \A k \in 1..22 : abcde[k] = abcd[k]
        /\ \A k \in 1..2 : abcde[22 + k] = e[k]
    <2>1. /\ abcde \in Seq(T) /\ Len(abcde) = Len(abcd) + Len(e)
          /\ \A k \in 1..Len(abcd) : abcde[k] = abcd[k]
          /\ \A k \in 1..Len(e) : abcde[Len(abcd) + k] = e[k]
      <3>1. abcd \in Seq(T) /\ e \in Seq(T)
        BY <1>3, <1>6
      <3> QED
        BY <3>1, Concat
    <2>2. Len(abcd) = 22 /\ Len(e) = 2
      BY <1>1, <1>6
    <2> HIDE DEF abcde
    <2> QED
      BY <2>1, <2>2
  <1> HIDE DEF abcde
  <1>8. UpgradeScript = abcde
    BY DEF UpgradeScript, a, b, c, d, e, ab, abc, abcd, abcde
  <1>9. /\ Len(abcde) = 24
        /\ \A k \in 1..3 : abcde[k] = a[k]
        /\ \A k \in 1..3 : abcde[3 + k] = b[k]
        /\ \A k \in 1..12 : abcde[6 + k] = c[k]
        /\ \A k \in 1..4 : abcde[18 + k] = d[k]
        /\ \A k \in 1..2 : abcde[22 + k] = e[k]
    <2>1. ASSUME NEW k \in 1..3 PROVE abcde[k] = a[k] /\ abcde[3 + k] = b[k]
      <3>1. k \in 1..6 /\ 3 + k \in 1..6
        OBVIOUS
      <3>2. \A n \in 1..6 : abcde[n] = ab[n]
        <4> SUFFICES ASSUME NEW n \in 1..6 PROVE abcde[n] = ab[n]
          OBVIOUS
        <4>1. n \in 1..18 /\ n \in 1..22
          OBVIOUS
        <4> QED
          BY <4>1, <1>5, <1>6, <1>7
      <3> QED
        BY <3>1, <3>2, <1>4
    <2>2. ASSUME NEW k \in 1..12 PROVE abcde[6 + k] = c[k]
      <3>1. 6 + k \in 1..18 /\ 6 + k \in 1..22
        OBVIOUS
      <3>2. abcde[6 + k] = abcd[6 + k]
        BY <1>7, <3>1
      <3>3. abcd[6 + k] = abc[6 + k]
        BY <1>6, <3>1
      <3> QED
        BY <1>5, <3>2, <3>3
    <2>3. ASSUME NEW k \in 1..4 PROVE abcde[18 + k] = d[k]
      <3>1. 18 + k \in 1..22
        OBVIOUS
      <3>2. abcde[18 + k] = abcd[18 + k]
        BY <1>7, <3>1
      <3> QED
        BY <1>6, <3>2
    <2> QED
      BY <1>7, <2>1, <2>2, <2>3
  <1> QED
    BY <1>8, <1>9 DEF a, b, c, d, e

Modes == DOMAIN Conflicting

\* The job's statement k does this.
Does(k, table, mode, do) ==
    /\ UpgradeScript[k].table = table /\ UpgradeScript[k].mode = mode /\ UpgradeScript[k].do = do

LEMMA JobStatements ==
    /\ Len(UpgradeScript) = 24 /\ UpgradeScript # <<>>
    /\ Does(1, "sessions", "AccessExclusive", "empty")
    /\ Does(2, "auth_identities", "ShareRowExclusive", "nothing")
    /\ Does(3, "oauth_login_states", "AccessExclusive", "empty")
    /\ Does(4, "documents", "RowExclusive", "repair")
    /\ Does(5, "documents", "AccessExclusive", "nothing")
    /\ Does(6, "document_versions", "AccessExclusive", "pointers")
    /\ \A k \in 1..6 :
        /\ Does(5 + 2 * k, PrincipalTables[k], "ShareRowExclusive", "nothing")
        /\ Does(6 + 2 * k, "organization_memberships", "ShareRowExclusive", PrincipalTables[k])
    /\ Does(19, "organization_memberships", "RowExclusive", "demote")
    /\ Does(20, "organization_memberships", "Share", "owners")
    /\ Does(21, "organization_invitations", "RowExclusive", "revoke")
    /\ Does(22, "organization_invitations", "Share", "pending")
    /\ Does(23, "employee_profiles", "AccessExclusive", "nothing")
    /\ Does(24, "audit_events", "AccessExclusive", "nothing")
  <1>1. Len(UpgradeScript) = 24 /\ UpgradeScript # <<>>
    <2>1. Len(UpgradeScript) = 24 /\ Len(<<>>) = 0
      BY JobScript
    <2> QED
      BY <2>1
  <1>2. ASSUME NEW k \in 1..6
        PROVE  /\ UpgradeScript[5 + 2 * k] = MembershipKeys[2 * k - 1]
               /\ UpgradeScript[6 + 2 * k] = MembershipKeys[2 * k]
    <2>1. 2 * k - 1 \in 1..12 /\ 2 * k \in 1..12 /\ 6 + (2 * k - 1) = 5 + 2 * k
      OBVIOUS
    <2> QED
      BY <2>1, JobScript
  <1>3. \A k \in 1..6 :
        /\ Does(5 + 2 * k, PrincipalTables[k], "ShareRowExclusive", "nothing")
        /\ Does(6 + 2 * k, "organization_memberships", "ShareRowExclusive", PrincipalTables[k])
    BY <1>2, KeysScript DEF Does, Statement
  <1>4. /\ Does(1, "sessions", "AccessExclusive", "empty")
        /\ Does(2, "auth_identities", "ShareRowExclusive", "nothing")
        /\ Does(3, "oauth_login_states", "AccessExclusive", "empty")
    BY JobScript DEF Does, RevokeSessions, Statement
  <1>5. /\ Does(4, "documents", "RowExclusive", "repair")
        /\ Does(5, "documents", "AccessExclusive", "nothing")
        /\ Does(6, "document_versions", "AccessExclusive", "pointers")
    <2>1. /\ UpgradeScript[4] = RepairPointers[1] /\ UpgradeScript[5] = RepairPointers[2]
          /\ UpgradeScript[6] = RepairPointers[3]
      BY JobScript
    <2> QED
      BY <2>1 DEF Does, RepairPointers, Statement
  <1>6. /\ Does(19, "organization_memberships", "RowExclusive", "demote")
        /\ Does(20, "organization_memberships", "Share", "owners")
        /\ Does(21, "organization_invitations", "RowExclusive", "revoke")
        /\ Does(22, "organization_invitations", "Share", "pending")
    <2>1. /\ UpgradeScript[19] = Deduplicate[1] /\ UpgradeScript[20] = Deduplicate[2]
          /\ UpgradeScript[21] = Deduplicate[3] /\ UpgradeScript[22] = Deduplicate[4]
      BY JobScript
    <2> QED
      BY <2>1 DEF Does, Deduplicate, Statement
  <1>7. /\ Does(23, "employee_profiles", "AccessExclusive", "nothing")
        /\ Does(24, "audit_events", "AccessExclusive", "nothing")
    <2>1. UpgradeScript[23] = ToJsonb[1] /\ UpgradeScript[24] = ToJsonb[2]
      BY JobScript
    <2> QED
      BY <2>1 DEF Does, ToJsonb, Statement
  <1> QED
    BY <1>1, <1>3, <1>4, <1>5, <1>6, <1>7

\* A statement of the list constraints names a principal table.
LEMMA PrincipalNames ==
    /\ DOMAIN PrincipalTables = 1..6
    /\ PrincipalTables[1] = "employee_profiles" /\ PrincipalTables[2] = "documents"
    /\ PrincipalTables[3] = "document_versions" /\ PrincipalTables[4] = "document_user_grants"
    /\ PrincipalTables[5] = "document_team_grants"
    /\ PrincipalTables[6] = "organization_invitations"
  BY DEF PrincipalTables

-----------------------------------------------------------------------------
(* The scripts of the others                                               *)

Writing(s) == s.do \in {"write", "insert"}

\* What a statement of a request or a direct write is.
WriterStatement(s) ==
    /\ s.mode \in {"AccessShare", "RowShare", "RowExclusive"}
    /\ s.do \in {"find", "nothing", "write", "insert"}
    /\ Writing(s) => /\ s.mode = "RowExclusive" /\ s.row \in Rows /\ s.table = s.row.table
                     /\ s.value \in Value /\ (s.value.status = "absent" => s.value = Absent)

\* The tables that are written last, when a request writes two.
LastTables == {"documents", "oauth_login_states"}

WriterScript(script) ==
    /\ Len(script) \in Nat \ {0}
    /\ \A k \in 1..Len(script) : WriterStatement(script[k])
    /\ \A j, k \in 1..Len(script) :
          j < k /\ Writing(script[j]) /\ Writing(script[k]) =>
              script[j].table \notin LastTables /\ script[k].table \in LastTables

LEMMA ActiveValues ==
    /\ \A m \in Of("organization_memberships"), s \in {"OWNER", "ADMIN", "FORMER"} :
          Is(s, m.of) \in Value /\ Is(s, m.of).status # "absent"
    /\ \A u \in Users \cup {NoUser}, s \in {"present", "PENDING"} :
          Is(s, u) \in Value /\ Is(s, u).status # "absent"
    /\ \A u \in Users, v \in Of("document_versions") \cup {NoVersion} :
          LET x == Pointing(u, v) IN x \in Value /\ x.status # "absent"
    /\ Absent \in Value
  BY RowAssumption DEF Is, Pointing, Value, Absent, Of

LEMMA ScriptKinds ==
    ASSUME NEW script \in Scripts
    PROVE  \/ \E m \in Of("organization_memberships"), s \in {"OWNER", "ADMIN"} :
                  script = RoleRequest(m, s)
           \/ \E i \in Of("organization_invitations"), u \in Users : script = InviteRequest(i, u)
           \/ \E d \in Of("documents"), v \in Of("document_versions"), u \in Users :
                  script = VersionRequest(d, v, u)
           \/ \E k \in Of("oauth_login_states"), s \in Of("sessions") : script = GoogleSignIn(k, s)
           \/ \E r \in Rows, x \in Value : script = DirectWrite(r, x) /\ x.status # "absent"
  <1>1. \/ \E m \in Of("organization_memberships"), s \in {"OWNER", "ADMIN"} :
               script = RoleRequest(m, s)
        \/ \E i \in Of("organization_invitations"), u \in Users : script = InviteRequest(i, u)
        \/ \E d \in Of("documents"), v \in Of("document_versions"), u \in Users :
               script = VersionRequest(d, v, u)
        \/ \E k \in Of("oauth_login_states"), s \in Of("sessions") : script = GoogleSignIn(k, s)
        \/ \E m \in Of("organization_memberships"), s \in {"OWNER", "FORMER"} :
               script = DirectWrite(m, Is(s, m.of))
        \/ \E i \in Of("organization_invitations"), u \in Users :
               script = DirectWrite(i, Is("PENDING", u))
        \/ \E p \in Of("employee_profiles"), u \in Users :
               script = DirectWrite(p, Is("present", u))
        \/ \E d \in Of("documents"), u \in Users, v \in Of("document_versions") \cup {NoVersion} :
               script = DirectWrite(d, Pointing(u, v))
    <2>1. CASE script \in RequestScripts
      <3>1. \A d : script \in UploadsTo(d) =>
                \E v \in Of("document_versions"), u \in Users : script = VersionRequest(d, v, u)
        BY DEF UploadsTo
      <3>2. script \in UploadScripts =>
                \E d \in Of("documents") : script \in UploadsTo(d)
        BY DEF UploadScripts
      <3>3. CASE script \in UploadScripts
        BY <3>1, <3>2, <3>3
      <3>4. CASE script \notin UploadScripts
        BY <2>1, <3>4 DEF RequestScripts
      <3> QED
        BY <3>3, <3>4
    <2>2. CASE script \in DirectScripts
      BY <2>2 DEF DirectScripts
    <2> QED
      BY <2>1, <2>2 DEF Scripts
  <1>2. \A table : Of(table) \subseteq Rows
    BY DEF Of
  <1> DEFINE Direct == \E r \in Rows, x \in Value : script = DirectWrite(r, x) /\ x.status # "absent"
  <1>3. ASSUME NEW m \in Of("organization_memberships"), NEW s \in {"OWNER", "FORMER"},
               script = DirectWrite(m, Is(s, m.of))
        PROVE  Direct
    BY <1>2, <1>3, ActiveValues
  <1>4. ASSUME NEW i \in Of("organization_invitations"), NEW u \in Users,
               script = DirectWrite(i, Is("PENDING", u))
        PROVE  Direct
    BY <1>2, <1>4, ActiveValues
  <1>5. ASSUME NEW p \in Of("employee_profiles"), NEW u \in Users,
               script = DirectWrite(p, Is("present", u))
        PROVE  Direct
    BY <1>2, <1>5, ActiveValues
  <1>6. ASSUME NEW d \in Of("documents"), NEW u \in Users,
               NEW v \in Of("document_versions") \cup {NoVersion},
               script = DirectWrite(d, Pointing(u, v))
        PROVE  Direct
    BY <1>2, <1>6, ActiveValues
  <1> HIDE DEF Direct
  <1>7. \/ \E m \in Of("organization_memberships"), s \in {"OWNER", "ADMIN"} :
               script = RoleRequest(m, s)
        \/ \E i \in Of("organization_invitations"), u \in Users : script = InviteRequest(i, u)
        \/ \E d \in Of("documents"), v \in Of("document_versions"), u \in Users :
               script = VersionRequest(d, v, u)
        \/ \E k \in Of("oauth_login_states"), s \in Of("sessions") : script = GoogleSignIn(k, s)
        \/ Direct
    BY <1>1, <1>3, <1>4, <1>5, <1>6
  <1> QED
    BY <1>7 DEF Direct

LEMMA AuthenticatedAt ==
    ASSUME NEW T, NEW ss \in Seq(T)
    PROVE  /\ Len(Authenticated(ss)) = Len(ss) + 1
           /\ Authenticated(ss)[1] = Statement("sessions", "AccessShare", "find")
           /\ \A k \in 1..Len(ss) : Authenticated(ss)[1 + k] = ss[k]
  <1> DEFINE f == Statement("sessions", "AccessShare", "find")
             all == T \cup {f}
             one == <<f>>
             both == one \o ss
  <1>1. one \in Seq(all) /\ ss \in Seq(all) /\ Len(one) = 1 /\ one[1] = f
    OBVIOUS
  <1> HIDE DEF f, all, one
  <1>2. /\ Len(both) = Len(one) + Len(ss)
        /\ \A k \in 1..Len(one) : both[k] = one[k]
        /\ \A k \in 1..Len(ss) : both[Len(one) + k] = ss[k]
    <2>1. one \in Seq(all) /\ ss \in Seq(all)
      BY <1>1
    <2> QED
      BY <2>1, Concat
  <1>3. Len(ss) \in Nat
    OBVIOUS
  <1> HIDE DEF both
  <1>4. /\ Len(both) = Len(ss) + 1 /\ both[1] = f /\ \A k \in 1..Len(ss) : both[1 + k] = ss[k]
    BY <1>1, <1>2, <1>3
  <1> QED
    BY <1>4 DEF Authenticated, both, one, f

LEMMA OneWriteScript ==
    ASSUME NEW script, NEW s, WriterStatement(s),
           \/ Len(script) = 1 /\ script[1] = s
           \/ /\ Len(script) = 2 /\ script[2] = s
              /\ script[1] = Statement("sessions", "AccessShare", "find")
    PROVE  WriterScript(script)
  BY DEF WriterScript, WriterStatement, Writing, Statement

LEMMA WriteStatements ==
    ASSUME NEW r \in Rows, NEW x \in Value, x.status = "absent" => x = Absent
    PROVE  /\ WriterStatement(Write(r, x)) /\ WriterStatement(Insert(r, x))
           /\ Write(r, x).table = r.table /\ Insert(r, x).table = r.table
  BY DEF WriterStatement, Write, Insert, Writing

LEMMA WriterScripts ==
    ASSUME NEW script \in Scripts
    PROVE  WriterScript(script)
  <1>1. ASSUME NEW m \in Of("organization_memberships"), NEW s \in {"OWNER", "ADMIN"},
               script = RoleRequest(m, s)
        PROVE  WriterScript(script)
    <2> DEFINE w == Write(m, Is(s, m.of))
    <2>1. WriterStatement(w)
      BY ActiveValues, WriteStatements DEF Of
    <2> HIDE DEF w
    <2>2. <<w>> \in Seq({w}) /\ Len(<<w>>) = 1 /\ <<w>>[1] = w
      OBVIOUS
    <2>3. script = Authenticated(<<w>>)
      BY <1>1 DEF RoleRequest, w
    <2>4. /\ Len(script) = 2 /\ script[2] = w
          /\ script[1] = Statement("sessions", "AccessShare", "find")
      <3>1. /\ Len(script) = Len(<<w>>) + 1 /\ \A k \in 1..Len(<<w>>) : script[1 + k] = <<w>>[k]
            /\ script[1] = Statement("sessions", "AccessShare", "find")
        BY <2>2, <2>3, AuthenticatedAt
      <3>2. \A k \in 1..1 : script[1 + k] = <<w>>[k]
        BY <2>2, <3>1
      <3> QED
        BY <2>2, <3>1, <3>2
    <2> QED
      BY <2>1, <2>4, OneWriteScript
  <1>2. ASSUME NEW i \in Of("organization_invitations"), NEW u \in Users,
               script = InviteRequest(i, u)
        PROVE  WriterScript(script)
    <2> DEFINE w == Insert(i, Is("PENDING", u))
    <2>1. WriterStatement(w)
      BY ActiveValues, WriteStatements DEF Of
    <2> HIDE DEF w
    <2>2. <<w>> \in Seq({w}) /\ Len(<<w>>) = 1 /\ <<w>>[1] = w
      OBVIOUS
    <2>3. script = Authenticated(<<w>>)
      BY <1>2 DEF InviteRequest, w
    <2>4. /\ Len(script) = 2 /\ script[2] = w
          /\ script[1] = Statement("sessions", "AccessShare", "find")
      <3>1. /\ Len(script) = Len(<<w>>) + 1 /\ \A k \in 1..Len(<<w>>) : script[1 + k] = <<w>>[k]
            /\ script[1] = Statement("sessions", "AccessShare", "find")
        BY <2>2, <2>3, AuthenticatedAt
      <3>2. \A k \in 1..1 : script[1 + k] = <<w>>[k]
        BY <2>2, <3>1
      <3> QED
        BY <2>2, <3>1, <3>2
    <2> QED
      BY <2>1, <2>4, OneWriteScript
  <1>3. ASSUME NEW d \in Of("documents"), NEW v \in Of("document_versions"), NEW u \in Users,
               script = VersionRequest(d, v, u)
        PROVE  WriterScript(script)
    <2> DEFINE l == Statement("documents", "RowShare", "nothing")
               i == Insert(v, Is("present", u))
               w == Write(d, Pointing(u, v))
               ss == <<l, i, w>>
    <2>1. /\ WriterStatement(i) /\ i.table = "document_versions"
          /\ WriterStatement(w) /\ w.table = "documents"
      BY ActiveValues, WriteStatements DEF Of
    <2>2. WriterStatement(l) /\ ~Writing(l)
      BY DEF WriterStatement, Writing, Statement
    <2> HIDE DEF l, i, w
    <2>3. /\ ss \in Seq({l, i, w}) /\ Len(ss) = 3
          /\ ss[1] = l /\ ss[2] = i /\ ss[3] = w
      OBVIOUS
    <2> HIDE DEF ss
    <2>4. script = Authenticated(ss)
      BY <1>3 DEF VersionRequest, l, i, w, ss
    <2>5. /\ Len(script) = 4 /\ script[2] = l /\ script[3] = i /\ script[4] = w
          /\ script[1] = Statement("sessions", "AccessShare", "find")
      <3>1. /\ Len(script) = Len(ss) + 1 /\ \A k \in 1..Len(ss) : script[1 + k] = ss[k]
            /\ script[1] = Statement("sessions", "AccessShare", "find")
        BY <2>3, <2>4, AuthenticatedAt
      <3>2. \A k \in 1..3 : script[1 + k] = ss[k]
        BY <3>1, <2>3
      <3> QED
        BY <2>3, <3>1, <3>2
    <2>6. WriterStatement(script[1]) /\ ~Writing(script[1])
      BY <2>5 DEF WriterStatement, Writing, Statement
    <2>7. \A k \in 1..Len(script) : k = 1 \/ k = 2 \/ k = 3 \/ k = 4
      BY <2>5
    <2>8. \A k \in 1..Len(script) : WriterStatement(script[k])
      BY <2>1, <2>2, <2>5, <2>6, <2>7
    <2> QED
      BY <2>1, <2>2, <2>5, <2>6, <2>7, <2>8 DEF WriterScript, LastTables
  <1>4. ASSUME NEW k \in Of("oauth_login_states"), NEW s \in Of("sessions"),
               script = GoogleSignIn(k, s)
        PROVE  WriterScript(script)
    <2> DEFINE l == Statement("oauth_login_states", "RowShare", "find")
               m == Statement("auth_identities", "RowExclusive", "nothing")
               i == Insert(s, Is("present", NoUser))
               w == Write(k, Absent)
               a == Statement("audit_events", "RowExclusive", "nothing")
    <2>1. /\ WriterStatement(i) /\ i.table = "sessions"
          /\ WriterStatement(w) /\ w.table = "oauth_login_states"
      BY ActiveValues, WriteStatements DEF Of
    <2>2. /\ WriterStatement(l) /\ ~Writing(l) /\ WriterStatement(m) /\ ~Writing(m)
          /\ WriterStatement(a) /\ ~Writing(a)
      BY DEF WriterStatement, Writing, Statement
    <2>3. script = <<l, m, i, w, a>>
      BY <1>4 DEF GoogleSignIn
    <2> HIDE DEF l, m, i, w, a
    <2>4. /\ Len(script) = 5 /\ script[1] = l /\ script[2] = m /\ script[3] = i
          /\ script[4] = w /\ script[5] = a
      BY <2>3
    <2>5. \A n \in 1..Len(script) : n = 1 \/ n = 2 \/ n = 3 \/ n = 4 \/ n = 5
      BY <2>4
    <2>6. \A n \in 1..Len(script) : WriterStatement(script[n])
      BY <2>1, <2>2, <2>4, <2>5
    <2> QED
      BY <2>1, <2>2, <2>4, <2>5, <2>6 DEF WriterScript, LastTables
  <1>5. ASSUME NEW r \in Rows, NEW x \in Value, script = DirectWrite(r, x), x.status # "absent"
        PROVE  WriterScript(script)
    <2>1. WriterStatement(Write(r, x))
      BY <1>5, WriteStatements
    <2>2. Len(script) = 1 /\ script[1] = Write(r, x)
      BY <1>5 DEF DirectWrite
    <2> QED
      BY <2>1, <2>2, OneWriteScript
  <1> QED
    BY <1>1, <1>2, <1>3, <1>4, <1>5, ScriptKinds

-----------------------------------------------------------------------------
(* Locks                                                                   *)

LEMMA JobIndexes ==
    ASSUME NEW k \in 1..24
    PROVE  \/ k \in 1..6 \/ k \in 19..24
           \/ \E j \in 1..6 : k = 5 + 2 * j \/ k = 6 + 2 * j
  OBVIOUS

LEMMA JobModes ==
    ASSUME NEW k \in 1..24
    PROVE  UpgradeScript[k].mode \in {"RowExclusive", "AccessExclusive", "ShareRowExclusive", "Share"}
  <1>1. ASSUME NEW j \in 1..6, k = 5 + 2 * j \/ k = 6 + 2 * j
        PROVE  UpgradeScript[k].mode = "ShareRowExclusive"
    <2>1. /\ Does(5 + 2 * j, PrincipalTables[j], "ShareRowExclusive", "nothing")
          /\ Does(6 + 2 * j, "organization_memberships", "ShareRowExclusive", PrincipalTables[j])
      BY JobStatements
    <2> QED
      BY <1>1, <2>1 DEF Does
  <1>2. CASE k \in 1..6 \/ k \in 19..24
    <2>1. \/ k = 1 \/ k = 2 \/ k = 3 \/ k = 4 \/ k = 5 \/ k = 6
          \/ k = 19 \/ k = 20 \/ k = 21 \/ k = 22 \/ k = 23 \/ k = 24
      BY <1>2
    <2> QED
      BY SMTT(40), <2>1, JobStatements DEF Does
  <1> QED
    BY <1>1, <1>2, JobIndexes

LEMMA ConflictSymmetric ==
    ASSUME NEW m \in Modes, NEW n \in Modes
    PROVE  m \in Conflicting[n] <=> n \in Conflicting[m]
  BY DEF Modes, Conflicting

LEMMA ModeNames ==
    Modes = {"AccessShare", "RowShare", "RowExclusive", "Share", "ShareRowExclusive",
             "AccessExclusive"}
  BY DEF Modes, Conflicting

\* A transaction that runs, and where it stands in its script.
LEMMA ScriptFacts ==
    ASSUME Inductive, NEW c \in Connections, Running(c)
    PROVE  /\ Len(tx[c].script) \in Nat /\ tx[c].at \in 1..(Len(tx[c].script) + 1)
           /\ c = Job => /\ tx[c].script = UpgradeScript /\ Len(tx[c].script) = 24
                         /\ schema = "initial"
           /\ c # Job => c \in Writers /\ WriterScript(tx[c].script)
           /\ AtEnd(c) => tx[c].at = Len(tx[c].script) + 1
           /\ ~AtEnd(c) => tx[c].at \in 1..Len(tx[c].script)
           /\ tx[c].at \in Nat
  <1>1. /\ tx[c].at \in 1..(Len(tx[c].script) + 1)
        /\ tx[c].script # <<>> /\ Scripted(c)
    BY DEF Inductive, TypeOK, Running
  <1>2. /\ c = Job => tx[c].script = UpgradeScript /\ Len(tx[c].script) = 24 /\ schema = "initial"
        /\ c # Job => c \in Writers /\ WriterScript(tx[c].script)
    BY <1>1, JobStatements, WriterScripts DEF Scripted, Connections
  <1>3. Len(tx[c].script) \in Nat
    BY <1>2 DEF WriterScript
  <1> QED
    BY <1>1, <1>2, <1>3 DEF AtEnd, Running

LEMMA IdleFacts ==
    ASSUME Inductive, NEW c \in Connections, ~Running(c)
    PROVE  tx[c] = NoTransaction /\ tx[c].at = 1 /\ tx[c].own = Nothing /\ Held(c) = {}
  BY DEF Inductive, Scripted, Running, NoTransaction, Held

LEMMA HeldFacts ==
    ASSUME Inductive, NEW c \in Connections, NEW s \in Held(c)
    PROVE  /\ Running(c) /\ s.mode \in Modes
           /\ c # Job => WriterStatement(s)
           /\ \E k \in 1..(tx[c].at - 1) : k \in 1..Len(tx[c].script) /\ s = tx[c].script[k]
  <1>1. Running(c)
    BY IdleFacts
  <1>2. PICK k \in 1..(tx[c].at - 1) : s = tx[c].script[k]
    BY DEF Held
  <1>3. k \in 1..Len(tx[c].script)
    BY <1>1, ScriptFacts
  <1>4. c # Job => WriterStatement(s)
    BY <1>1, <1>2, <1>3, ScriptFacts DEF WriterScript
  <1>5. c = Job => s.mode \in Modes
    BY <1>1, <1>2, <1>3, ScriptFacts, JobModes, ModeNames
  <1> QED
    BY <1>1, <1>2, <1>3, <1>4, <1>5, ModeNames DEF WriterStatement

LEMMA CurrentFacts ==
    ASSUME Inductive, NEW c \in Connections, Running(c), ~AtEnd(c)
    PROVE  /\ Current(c).mode \in Modes
           /\ c # Job => WriterStatement(Current(c))
           /\ c = Job => Current(c) = UpgradeScript[tx[Job].at] /\ tx[Job].at \in 1..24
  <1>1. tx[c].at \in 1..Len(tx[c].script)
    BY ScriptFacts
  <1>2. c # Job => WriterStatement(Current(c))
    BY <1>1, ScriptFacts DEF WriterScript, Current
  <1>3. c = Job => Current(c) = UpgradeScript[tx[Job].at] /\ tx[Job].at \in 1..24
    BY <1>1, ScriptFacts DEF Current
  <1> QED
    BY <1>2, <1>3, JobModes, ModeNames DEF WriterStatement

\* Nobody writes rows of a table on which the job holds a lock that excludes it.
Excludes(table) == \E s \in Held(Job) : s.table = table /\ s.mode \in {"AccessExclusive", "ShareRowExclusive"}

LEMMA NotWritten ==
    ASSUME Inductive, NEW w \in Writers, NEW r \in DOMAIN tx[w].own
    PROVE  ~Excludes(r.table) /\ r \notin DOMAIN tx[Job].own /\ r \in Rows
  <1>1. w \in Connections /\ Job \in Connections /\ w # Job
    BY AbsentAssumption DEF Connections
  <1>2. PICK t \in Held(w) : t.table = r.table /\ t.mode \in {"RowExclusive", "AccessExclusive"}
    BY <1>1 DEF Inductive, WritesHeld
  <1>3. \A s \in Held(Job) : s.table = r.table => t.mode \notin Conflicting[s.mode]
    BY <1>1, <1>2 DEF Inductive, LocksCompatible
  <1>4. \A m \in {"AccessExclusive", "ShareRowExclusive"} :
            {"RowExclusive", "AccessExclusive"} \subseteq Conflicting[m]
    BY DEF Conflicting
  <1>5. ~Excludes(r.table)
    BY <1>2, <1>3, <1>4 DEF Excludes
  <1>6. r \notin DOMAIN tx[Job].own /\ r \in Rows
    BY <1>1 DEF Inductive, LocksCompatible, TypeOK
  <1> QED
    BY <1>5, <1>6

\* What the job holds at statement n.
LEMMA JobExcludes ==
    ASSUME Inductive, Running(Job), NEW n \in 1..25, n = tx[Job].at
    PROVE  /\ n > 1 => Excludes("sessions")
           /\ n > 3 => Excludes("oauth_login_states")
           /\ n > 5 => Excludes("documents")
           /\ n > 6 => Excludes("document_versions")
           /\ \A k \in 1..6 : n > 5 + 2 * k => Excludes(PrincipalTables[k])
           /\ n > 8 => Excludes("organization_memberships")
           /\ n > 17 => Excludes("organization_invitations")
  <1>1. tx[Job].script = UpgradeScript
    BY ScriptFacts DEF Connections
  <1>2. ASSUME NEW k \in Nat \ {0}, NEW table, NEW mode \in {"AccessExclusive", "ShareRowExclusive"},
               NEW do, n > k, Does(k, table, mode, do)
        PROVE  Excludes(table)
    <2>1. k \in 1..(tx[Job].at - 1)
      BY <1>2
    <2>2. UpgradeScript[k] \in Held(Job)
      BY <1>1, <2>1 DEF Held
    <2> QED
      BY <1>2, <2>2 DEF Excludes, Does
  <1>3. \A k \in 1..6 : n > 5 + 2 * k => Excludes(PrincipalTables[k])
    <2> SUFFICES ASSUME NEW k \in 1..6, n > 5 + 2 * k PROVE Excludes(PrincipalTables[k])
      OBVIOUS
    <2> DEFINE at == 5 + 2 * k
    <2>1. at \in Nat \ {0} /\ n > at
      OBVIOUS
    <2>2. Does(at, PrincipalTables[k], "ShareRowExclusive", "nothing")
      BY JobStatements
    <2> HIDE DEF at
    <2> QED
      BY <1>2, <2>1, <2>2
  <1>4. n > 8 => Excludes("organization_memberships")
    <2>1. Does(6 + 2 * 1, "organization_memberships", "ShareRowExclusive", PrincipalTables[1])
      BY JobStatements
    <2>2. Does(8, "organization_memberships", "ShareRowExclusive", PrincipalTables[1])
      BY <2>1
    <2> QED
      BY <1>2, <2>2
  <1>5. n > 17 => Excludes("organization_invitations")
    BY <1>3, PrincipalNames
  <1>6. n > 1 => Excludes("sessions")
    BY SMTT(40), <1>2, JobStatements
  <1>7. n > 3 => Excludes("oauth_login_states")
    BY SMTT(40), <1>2, JobStatements
  <1>8. n > 5 => Excludes("documents")
    BY SMTT(40), <1>2, JobStatements
  <1>9. n > 6 => Excludes("document_versions")
    BY SMTT(40), <1>2, JobStatements
  <1> QED
    BY <1>3, <1>4, <1>5, <1>6, <1>7, <1>8, <1>9

\* What the job has done when it stands at statement n.
DoneBy(n, do, table) ==
    \E k \in 1..(n - 1) : UpgradeScript[k].do = do /\ UpgradeScript[k].table = table

LEMMA DoneAt ==
    ASSUME NEW n \in 1..25
    PROVE  /\ DoneBy(n, "empty", "sessions") <=> n > 1
           /\ DoneBy(n, "empty", "oauth_login_states") <=> n > 3
           /\ DoneBy(n, "pointers", "document_versions") <=> n > 6
           /\ \A k \in 1..6 : DoneBy(n, PrincipalTables[k], "organization_memberships") <=> n > 6 + 2 * k
           /\ DoneBy(n, "demote", "organization_memberships") <=> n > 19
           /\ DoneBy(n, "revoke", "organization_invitations") <=> n > 21
  <1> DEFINE Only(at, do, table) ==
                 \A k \in 1..24 : UpgradeScript[k].do = do /\ UpgradeScript[k].table = table <=> k = at
  <1>1. ASSUME NEW at \in 1..24, NEW do, NEW table, Only(at, do, table)
        PROVE  DoneBy(n, do, table) <=> n > at
    <2>1. \A k \in 1..(n - 1) : k \in 1..24
      OBVIOUS
    <2>2. at \in 1..(n - 1) <=> n > at
      OBVIOUS
    <2> QED
      BY <1>1, <2>1, <2>2 DEF DoneBy
  <1>2. ASSUME NEW k \in 1..24
        PROVE  \/ k \in 1..6 /\ \A j \in 1..6 : k # 6 + 2 * j
               \/ k \in 19..24 /\ \A j \in 1..6 : k # 6 + 2 * j
               \/ \E j \in 1..6 : /\ k = 5 + 2 * j /\ UpgradeScript[k].do = "nothing"
                                  /\ \A i \in 1..6 : k # 6 + 2 * i
               \/ \E j \in 1..6 : /\ k = 6 + 2 * j /\ UpgradeScript[k].do = PrincipalTables[j]
                                  /\ UpgradeScript[k].table = "organization_memberships"
    BY JobIndexes, JobStatements DEF Does
  <1>3. \A j \in 1..6 : PrincipalTables[j] \notin {"empty", "pointers", "demote", "revoke",
                            "nothing", "repair", "owners", "pending"}
    BY PrincipalNames
  <1>4. \A i, j \in 1..6 : PrincipalTables[i] = PrincipalTables[j] => i = j
    BY PrincipalNames
  <1>5. /\ UpgradeScript[1].do = "empty" /\ UpgradeScript[1].table = "sessions"
        /\ UpgradeScript[2].do = "nothing"
        /\ UpgradeScript[3].do = "empty" /\ UpgradeScript[3].table = "oauth_login_states"
        /\ UpgradeScript[4].do = "repair" /\ UpgradeScript[5].do = "nothing"
        /\ UpgradeScript[6].do = "pointers" /\ UpgradeScript[6].table = "document_versions"
        /\ UpgradeScript[19].do = "demote" /\ UpgradeScript[19].table = "organization_memberships"
        /\ UpgradeScript[20].do = "owners"
        /\ UpgradeScript[21].do = "revoke" /\ UpgradeScript[21].table = "organization_invitations"
        /\ UpgradeScript[22].do = "pending"
        /\ UpgradeScript[23].do = "nothing" /\ UpgradeScript[24].do = "nothing"
    BY JobStatements DEF Does
  <1>6. ASSUME NEW k \in 1..24, k \in 1..6 \/ k \in 19..24
        PROVE  \/ k = 1 \/ k = 2 \/ k = 3 \/ k = 4 \/ k = 5 \/ k = 6
               \/ k = 19 \/ k = 20 \/ k = 21 \/ k = 22 \/ k = 23 \/ k = 24
    BY <1>6
  <1>7. Only(1, "empty", "sessions") /\ Only(3, "empty", "oauth_login_states")
    BY <1>2, <1>3, <1>5, <1>6
  <1>8. Only(6, "pointers", "document_versions")
    BY <1>2, <1>3, <1>5, <1>6
  <1>9. Only(19, "demote", "organization_memberships") /\ Only(21, "revoke", "organization_invitations")
    BY <1>2, <1>3, <1>5, <1>6
  <1>10. ASSUME NEW j \in 1..6
         PROVE  Only(6 + 2 * j, PrincipalTables[j], "organization_memberships")
    <2> SUFFICES ASSUME NEW k \in 1..24
                 PROVE  /\ UpgradeScript[k].do = PrincipalTables[j]
                        /\ UpgradeScript[k].table = "organization_memberships"
                        <=> k = 6 + 2 * j
      OBVIOUS
    <2>1. CASE k = 6 + 2 * j
      BY ZenonT(60), <2>1, JobStatements DEF Does
    <2>2. CASE k # 6 + 2 * j
      BY <2>2, <1>2, <1>3, <1>4, <1>5, <1>6
    <2> QED
      BY <2>1, <2>2
  <1> HIDE DEF Only
  <1>11. \A j \in 1..6 : 6 + 2 * j \in 1..24
    OBVIOUS
  <1> QED
    BY <1>1, <1>7, <1>8, <1>9, <1>10, <1>11

-----------------------------------------------------------------------------
(* What statements write and see                                           *)

\* A set of new rows that may be written over a database.
Writes(written) ==
    /\ DOMAIN written \subseteq Rows
    /\ \A r \in DOMAIN written :
          written[r] \in Value /\ (written[r].status = "absent" => written[r] = Absent)

LEMMA NothingFacts ==
    DOMAIN Nothing = {} /\ Writes(Nothing)
  BY DEF Nothing, Writes

LEMMA OverwrittenFacts ==
    ASSUME NEW data \in [Rows -> Value], NEW written, Writes(written)
    PROVE  /\ Overwritten(data, written) \in [Rows -> Value]
           /\ \A r \in Rows : Overwritten(data, written)[r] =
                  IF r \in DOMAIN written THEN written[r] ELSE data[r]
           /\ AbsentRows(data) => AbsentRows(Overwritten(data, written))
  <1>1. /\ DOMAIN written \cup DOMAIN data = Rows
        /\ \A r \in DOMAIN written : written[r] \in Value
    BY DEF Writes
  <1>2. Overwritten(data, written) = [r \in Rows |-> IF r \in DOMAIN written THEN written[r] ELSE data[r]]
    BY <1>1 DEF Overwritten
  <1>3. \A r \in Rows : Overwritten(data, written)[r] =
                            IF r \in DOMAIN written THEN written[r] ELSE data[r]
    BY <1>2
  <1>4. Overwritten(data, written) \in [Rows -> Value]
    BY <1>1, <1>2
  <1>5. AbsentRows(data) => AbsentRows(Overwritten(data, written))
    BY <1>3 DEF AbsentRows, Writes
  <1> QED
    BY <1>3, <1>4, <1>5

\* Writing over rows already written.
LEMMA RewrittenFacts ==
    ASSUME NEW own, NEW more, Writes(own), Writes(more)
    PROVE  LET both == Overwritten(own, more)
           IN  /\ Writes(both)
               /\ DOMAIN both = DOMAIN own \cup DOMAIN more
               /\ both = [r \in DOMAIN both |-> both[r]]
               /\ \A r \in DOMAIN both : both[r] = IF r \in DOMAIN more THEN more[r] ELSE own[r]
  BY DEF Overwritten, Writes

LEMMA OwnFacts ==
    ASSUME Inductive, NEW c \in Connections
    PROVE  Writes(tx[c].own)
  BY DEF Inductive, TypeOK, WritesHeld, Writes

LEMMA ViewFacts ==
    ASSUME Inductive, NEW c \in Connections
    PROVE  /\ View(c) \in [Rows -> Value] /\ AbsentRows(View(c))
           /\ \A r \in Rows : View(c)[r] = IF r \in DOMAIN tx[c].own THEN tx[c].own[r] ELSE db[r]
  <1>1. db \in [Rows -> Value] /\ AbsentRows(db) /\ Writes(tx[c].own)
    BY OwnFacts DEF Inductive, TypeOK
  <1> QED
    BY <1>1, OverwrittenFacts DEF View

\* The four sets of rows that the job writes.
LEMMA EmptiedFacts ==
    ASSUME NEW data \in [Rows -> Value], NEW table
    PROVE  /\ Writes(Emptied(data, table))
           /\ DOMAIN Emptied(data, table) = Present(data, table)
           /\ \A r \in Present(data, table) : r.table = table /\ Emptied(data, table)[r] = Absent
  BY ActiveValues DEF Emptied, Writes, Present, Of

LEMMA RepairedFacts ==
    ASSUME NEW data \in [Rows -> Value]
    PROVE  /\ Writes(Repaired(data))
           /\ \A d \in DOMAIN Repaired(data) :
                 /\ d \in Present(data, "documents") /\ d.table = "documents"
                 /\ data[d].ref \notin OwnVersions(data, d) \cup {NoVersion}
                 /\ Repaired(data)[d] = [data[d] EXCEPT !.ref = Repaired(data)[d].ref]
  <1> DEFINE F == {d \in Present(data, "documents") :
                      data[d].ref \notin OwnVersions(data, d) \cup {NoVersion}}
             L(d) == {v \in OwnVersions(data, d) :
                         \A other \in OwnVersions(data, d) : other.rank <= v.rank}
             Ref(d) == IF L(d) = {} THEN NoVersion ELSE CHOOSE v \in L(d) : TRUE
  <1>1. Repaired(data) = [d \in F |-> [data[d] EXCEPT !.ref = Ref(d)]]
    BY DEF Repaired
  <1>2. ASSUME NEW d \in F PROVE Ref(d) \in Of("document_versions") \cup {NoVersion}
    <2>1. L(d) \subseteq Of("document_versions")
      BY DEF OwnVersions, Present
    <2> HIDE DEF L
    <2> QED
      BY <2>1
  <1> HIDE DEF Ref
  <1>3. ASSUME NEW d \in F
        PROVE  LET x == [data[d] EXCEPT !.ref = Ref(d)]
               IN  /\ d \in Rows /\ d.table = "documents" /\ d \in Present(data, "documents")
                   /\ data[d].status # "absent"
                   /\ x \in Value /\ x.status # "absent" /\ x = [data[d] EXCEPT !.ref = x.ref]
    <2>1. d \in Rows /\ d.table = "documents" /\ d \in Present(data, "documents")
          /\ data[d].status # "absent"
      BY DEF Present, Of
    <2>2. data[d] \in Value
      BY <2>1
    <2> QED
      BY <1>2, <2>1, <2>2 DEF Value
  <1>4. DOMAIN Repaired(data) = F
    BY <1>1
  <1>5. \A d \in F : Repaired(data)[d] = [data[d] EXCEPT !.ref = Ref(d)]
    BY <1>1
  <1>6. Writes(Repaired(data))
    BY <1>3, <1>4, <1>5 DEF Writes
  <1> QED
    BY <1>3, <1>4, <1>5, <1>6

LEMMA DemotedFacts ==
    ASSUME NEW data \in [Rows -> Value]
    PROVE  /\ Writes(Demoted(data))
           /\ \A m : m \in DOMAIN Demoted(data) <=>
                  /\ m \in Of("organization_memberships") /\ data[m].status = "OWNER"
                  /\ \E other \in ActiveOwners(data, m.org) : other.rank < m.rank
           /\ \A m \in DOMAIN Demoted(data) :
                  Demoted(data)[m] = [data[m] EXCEPT !.status = "ADMIN"]
  <1>1. \A m \in DOMAIN Demoted(data) :
            /\ m \in Rows /\ m.table = "organization_memberships"
            /\ Demoted(data)[m] = [data[m] EXCEPT !.status = "ADMIN"]
    BY DEF Demoted, Of
  <1>2. \A x \in Value : [x EXCEPT !.status = "ADMIN"] \in Value
                         /\ [x EXCEPT !.status = "ADMIN"].status = "ADMIN"
    BY DEF Value
  <1>3. Writes(Demoted(data))
    BY ZenonT(60), <1>1, <1>2 DEF Writes
  <1> QED
    BY <1>1, <1>3 DEF Demoted

LEMMA RevokedFacts ==
    ASSUME NEW data \in [Rows -> Value]
    PROVE  /\ Writes(Revoked(data))
           /\ \A i : i \in DOMAIN Revoked(data) <=>
                  /\ i \in Of("organization_invitations") /\ data[i].status = "PENDING"
                  /\ \E other \in Pending(data, i.org, i.of) : other.rank > i.rank
           /\ \A i \in DOMAIN Revoked(data) :
                  Revoked(data)[i] = [data[i] EXCEPT !.status = "REVOKED"]
  <1>1. \A i \in DOMAIN Revoked(data) :
            /\ i \in Rows /\ i.table = "organization_invitations"
            /\ Revoked(data)[i] = [data[i] EXCEPT !.status = "REVOKED"]
    BY DEF Revoked, Of
  <1>2. \A x \in Value : [x EXCEPT !.status = "REVOKED"] \in Value
                         /\ [x EXCEPT !.status = "REVOKED"].status = "REVOKED"
    BY DEF Value
  <1>3. Writes(Revoked(data))
    BY ZenonT(60), <1>1, <1>2 DEF Writes
  <1> QED
    BY <1>1, <1>3 DEF Revoked

\* The statement of a request or a direct write.
LEMMA WriterEffect ==
    ASSUME NEW data, NEW s, WriterStatement(s)
    PROVE  /\ Writes(Effect(data, s))
           /\ Writing(s) => DOMAIN Effect(data, s) = {s.row}
           /\ ~Writing(s) => DOMAIN Effect(data, s) = {}
  <1>1. CASE Writing(s)
    <2>1. Effect(data, s) = [r \in {s.row} |-> s.value]
      BY <1>1 DEF Effect, Writing
    <2> QED
      BY <1>1, <2>1 DEF Writes, WriterStatement
  <1>2. CASE ~Writing(s)
    <2>1. s.do = "find" \/ s.do = "nothing"
      BY <1>2 DEF WriterStatement, Writing
    <2>2. Effect(data, s) = Nothing
      BY <2>1 DEF Effect
    <2> QED
      BY <1>2, <2>2, NothingFacts
  <1> QED
    BY <1>1, <1>2

\* The statement of the job at n.
LEMMA JobEffect ==
    ASSUME NEW data, NEW n \in 1..24
    PROVE  /\ n = 1 => Effect(data, UpgradeScript[n]) = Emptied(data, "sessions")
           /\ n = 3 => Effect(data, UpgradeScript[n]) = Emptied(data, "oauth_login_states")
           /\ n = 4 => Effect(data, UpgradeScript[n]) = Repaired(data)
           /\ n = 19 => Effect(data, UpgradeScript[n]) = Demoted(data)
           /\ n = 21 => Effect(data, UpgradeScript[n]) = Revoked(data)
           /\ n \notin {1, 3, 4, 19, 21} => Effect(data, UpgradeScript[n]) = Nothing
  <1> DEFINE s == UpgradeScript[n]
  <1>1. n = 1 => s.do = "empty" /\ s.table = "sessions"
    BY JobStatements DEF Does
  <1>2. n = 3 => s.do = "empty" /\ s.table = "oauth_login_states"
    BY JobStatements DEF Does
  <1>3. n = 4 => s.do = "repair"
    BY JobStatements DEF Does
  <1>4. n = 19 => s.do = "demote"
    BY JobStatements DEF Does
  <1>5. n = 21 => s.do = "revoke"
    BY JobStatements DEF Does
  <1>6. n \notin {1, 3, 4, 19, 21} =>
            s.do \notin {"write", "insert", "empty", "repair", "demote", "revoke"}
    <2> SUFFICES ASSUME n \notin {1, 3, 4, 19, 21}
                 PROVE  s.do \notin {"write", "insert", "empty", "repair", "demote", "revoke"}
      OBVIOUS
    <2>1. ASSUME NEW j \in 1..6, n = 5 + 2 * j \/ n = 6 + 2 * j
          PROVE  s.do = "nothing" \/ s.do = PrincipalTables[j]
      <3>1. /\ Does(5 + 2 * j, PrincipalTables[j], "ShareRowExclusive", "nothing")
            /\ Does(6 + 2 * j, "organization_memberships", "ShareRowExclusive", PrincipalTables[j])
        BY JobStatements
      <3> QED
        BY <2>1, <3>1 DEF Does
    <2>2. \A j \in 1..6 :
              PrincipalTables[j] \notin {"write", "insert", "empty", "repair", "demote", "revoke"}
      BY PrincipalNames
    <2>3. CASE n \in 1..6 \/ n \in 19..24
      <3>1. n = 2 \/ n = 5 \/ n = 6 \/ n = 20 \/ n = 22 \/ n = 23 \/ n = 24
        BY <2>3
      <3> QED
        BY ZenonT(60), <3>1, JobStatements DEF Does
    <2>4. CASE \E j \in 1..6 : n = 5 + 2 * j \/ n = 6 + 2 * j
      <3> HIDE DEF s
      <3> QED
        BY <2>1, <2>2, <2>4
    <2> QED
      BY <2>3, <2>4, JobIndexes
  <1> HIDE DEF s
  <1>7. /\ n = 1 => Effect(data, s) = Emptied(data, "sessions")
        /\ n = 3 => Effect(data, s) = Emptied(data, "oauth_login_states")
        /\ n = 4 => Effect(data, s) = Repaired(data)
        /\ n = 19 => Effect(data, s) = Demoted(data)
        /\ n = 21 => Effect(data, s) = Revoked(data)
    BY <1>1, <1>2, <1>3, <1>4, <1>5 DEF Effect
  <1>8. n \notin {1, 3, 4, 19, 21} => Effect(data, s) = Nothing
    BY <1>6 DEF Effect
  <1> QED
    BY <1>7, <1>8 DEF s

-----------------------------------------------------------------------------
(* Steps and locks                                                         *)

\* The parts of the invariant that are about the transactions only.
Transactions ==
    /\ tx = [c \in Connections |-> [script |-> tx[c].script, at |-> tx[c].at, own |-> tx[c].own]]
    /\ \A c \in Connections :
        /\ tx[c].at \in 1..(Len(tx[c].script) + 1)
        /\ tx[c].own = [r \in DOMAIN tx[c].own |-> tx[c].own[r]]
        /\ DOMAIN tx[c].own \subseteq Rows
        /\ \A r \in DOMAIN tx[c].own : tx[c].own[r] \in Value
    /\ \A c \in Connections : WritesHeld(c)
    /\ LocksCompatible

LEMMA Parts ==
    Inductive <=> /\ db \in [Rows -> Value] /\ schema \in {"initial", "head"} /\ writes \in Nat
                  /\ Transactions
                  /\ RevisionHolds /\ AbsentRows(db)
                  /\ \A c \in Connections : Scripted(c)
                  /\ JobSees /\ JobWrites
  BY DEF Inductive, TypeOK, Transactions

LEMMA ResetTransaction ==
    ASSUME Inductive, NEW c \in Connections, NEW script, Len(script) \in Nat,
           tx' = [tx EXCEPT ![c] = [script |-> script, at |-> 1, own |-> Nothing]]
    PROVE  /\ Transactions'
           /\ Held(c)' = {} /\ tx'[c] = [script |-> script, at |-> 1, own |-> Nothing]
           /\ \A b \in Connections : b # c => tx'[b] = tx[b] /\ Held(b)' = Held(b)
  <1>1. tx = [b \in Connections |-> [script |-> tx[b].script, at |-> tx[b].at, own |-> tx[b].own]]
    BY DEF Inductive, TypeOK
  <1>2. /\ tx'[c] = [script |-> script, at |-> 1, own |-> Nothing]
        /\ \A b \in Connections : b # c => tx'[b] = tx[b]
        /\ tx' = [b \in Connections |-> tx'[b]]
    BY <1>1
  <1>3. /\ tx'[c].script = script /\ tx'[c].at = 1 /\ tx'[c].own = Nothing
        /\ tx'[c] = [script |-> tx'[c].script, at |-> tx'[c].at, own |-> tx'[c].own]
    BY <1>2
  <1>4. Held(c)' = {} /\ \A b \in Connections : b # c => Held(b)' = Held(b)
    BY <1>2, <1>3 DEF Held
  <1>5. tx' = [b \in Connections |->
                  [script |-> tx'[b].script, at |-> tx'[b].at, own |-> tx'[b].own]]
    <2>1. ASSUME NEW b \in Connections, b # c
          PROVE  tx'[b] = [script |-> tx'[b].script, at |-> tx'[b].at, own |-> tx'[b].own]
      <3>1. tx[b] = [script |-> tx[b].script, at |-> tx[b].at, own |-> tx[b].own]
        BY <1>1
      <3> QED
        BY <2>1, <3>1, <1>2
    <2> QED
      BY <2>1, <1>2, <1>3
  <1>6. ASSUME NEW b \in Connections
        PROVE  /\ tx'[b].at \in 1..(Len(tx'[b].script) + 1)
               /\ tx'[b].own = [r \in DOMAIN tx'[b].own |-> tx'[b].own[r]]
               /\ DOMAIN tx'[b].own \subseteq Rows
               /\ \A r \in DOMAIN tx'[b].own : tx'[b].own[r] \in Value
    <2>1. CASE b = c
      <3>1. Nothing = [r \in DOMAIN Nothing |-> Nothing[r]] /\ DOMAIN Nothing = {}
        BY DEF Nothing
      <3> QED
        BY <1>3, <2>1, <3>1
    <2>2. CASE b # c
      BY ZenonT(60), <1>2, <2>2 DEF Inductive, TypeOK
    <2> QED
      BY <2>1, <2>2
  <1>7. ASSUME NEW b \in Connections
        PROVE  WritesHeld(b)'
    <2>1. CASE b = c
      BY <1>3, <2>1, NothingFacts DEF WritesHeld
    <2>2. CASE b # c
      BY <1>2, <1>4, <2>2 DEF Inductive, WritesHeld
    <2> QED
      BY <2>1, <2>2
  <1>8. LocksCompatible'
    <2> SUFFICES ASSUME NEW a \in Connections, NEW b \in Connections, a # b
                 PROVE  /\ \A s \in Held(a)', t \in Held(b)' :
                               s.table = t.table => t.mode \notin Conflicting[s.mode]
                        /\ DOMAIN tx'[a].own \cap DOMAIN tx'[b].own = {}
      BY DEF LocksCompatible
    <2>1. CASE a = c \/ b = c
      BY <1>3, <1>4, <2>1, NothingFacts
    <2>2. CASE a # c /\ b # c
      BY <1>2, <1>4, <2>2 DEF Inductive, LocksCompatible
    <2> QED
      BY <2>1, <2>2
  <1> QED
    BY <1>2, <1>4, <1>5, <1>6, <1>7, <1>8 DEF Transactions

\* The rows a statement is about to write.
LEMMA EffectFacts ==
    ASSUME Inductive, NEW c \in Connections, Running(c), ~AtEnd(c)
    PROVE  LET e == Effect(View(c), Current(c))
           IN  /\ Writes(e)
               /\ \A r \in DOMAIN e :
                     /\ Current(c).table = r.table
                     /\ Current(c).mode \in {"RowExclusive", "AccessExclusive"}
                     /\ c # Job => Current(c).do \in {"write", "insert"} /\ Current(c).row = r
  <1> DEFINE e == Effect(View(c), Current(c))
  <1>1. CASE c # Job
    <2>1. WriterStatement(Current(c))
      BY <1>1, CurrentFacts
    <2>2. /\ Writes(e)
          /\ Writing(Current(c)) => DOMAIN e = {Current(c).row}
          /\ ~Writing(Current(c)) => DOMAIN e = {}
      BY <2>1, WriterEffect
    <2> HIDE DEF e
    <2>3. ASSUME NEW r \in DOMAIN e
          PROVE  /\ Current(c).table = r.table /\ Current(c).mode = "RowExclusive"
                 /\ Current(c).do \in {"write", "insert"} /\ Current(c).row = r
      BY <2>1, <2>2 DEF WriterStatement, Writing
    <2> QED
      BY <2>2, <2>3 DEF e
  <1>2. CASE c = Job
    <2> DEFINE n == tx[Job].at
               data == View(Job)
    <2>1. Current(c) = UpgradeScript[n] /\ n \in 1..24 /\ data \in [Rows -> Value]
      BY <1>2, CurrentFacts, ViewFacts
    <2> HIDE DEF n, data
    <2>2. e = Effect(data, UpgradeScript[n])
      BY <1>2, <2>1 DEF data
    <2> HIDE DEF e
    <2> DEFINE Fits(written, table) ==
                  Writes(written) /\ \A r \in DOMAIN written : r.table = table
    <2>3. /\ Fits(Emptied(data, "sessions"), "sessions")
          /\ Fits(Emptied(data, "oauth_login_states"), "oauth_login_states")
      BY <2>1, EmptiedFacts
    <2>4. Fits(Repaired(data), "documents")
      BY <2>1, RepairedFacts
    <2>5. Fits(Demoted(data), "organization_memberships")
      <3>1. Writes(Demoted(data)) /\ DOMAIN Demoted(data) \subseteq Of("organization_memberships")
        BY <2>1, DemotedFacts
      <3> QED
        BY <3>1 DEF Of
    <2>6. Fits(Revoked(data), "organization_invitations")
      <3>1. Writes(Revoked(data)) /\ DOMAIN Revoked(data) \subseteq Of("organization_invitations")
        BY <2>1, RevokedFacts
      <3> QED
        BY <3>1 DEF Of
    <2>7. \A table : Fits(Nothing, table)
      BY NothingFacts
    <2> HIDE DEF Fits
    <2>8. /\ UpgradeScript[1].table = "sessions" /\ UpgradeScript[1].mode = "AccessExclusive"
          /\ UpgradeScript[3].table = "oauth_login_states" /\ UpgradeScript[3].mode = "AccessExclusive"
          /\ UpgradeScript[4].table = "documents" /\ UpgradeScript[4].mode = "RowExclusive"
          /\ UpgradeScript[19].table = "organization_memberships"
          /\ UpgradeScript[19].mode = "RowExclusive"
          /\ UpgradeScript[21].table = "organization_invitations"
          /\ UpgradeScript[21].mode = "RowExclusive"
      BY JobStatements DEF Does
    <2>9. /\ Fits(e, UpgradeScript[n].table)
          /\ \/ DOMAIN e = {}
             \/ UpgradeScript[n].mode \in {"RowExclusive", "AccessExclusive"}
      <3>1. CASE n = 1
        BY SMTT(40), <2>2, <2>3, <2>8, <3>1, JobEffect
      <3>2. CASE n = 3
        BY SMTT(40), <2>2, <2>3, <2>8, <3>2, JobEffect
      <3>3. CASE n = 4
        BY SMTT(40), <2>2, <2>4, <2>8, <3>3, JobEffect
      <3>4. CASE n = 19
        BY SMTT(40), <2>2, <2>5, <2>8, <3>4, JobEffect
      <3>5. CASE n = 21
        BY SMTT(40), <2>2, <2>6, <2>8, <3>5, JobEffect
      <3>6. CASE n \notin {1, 3, 4, 19, 21}
        <4>1. e = Nothing
          BY <2>1, <2>2, <3>6, JobEffect
        <4> QED
          BY <4>1, <2>7, NothingFacts
      <3> QED
        BY <3>1, <3>2, <3>3, <3>4, <3>5, <3>6
    <2> QED
      BY <1>2, <2>1, <2>9 DEF Fits, e
  <1> QED
    BY <1>1, <1>2

LEMMA ExecuteTransaction ==
    ASSUME Inductive, NEW c \in Connections, Execute(c)
    PROVE  LET e == Effect(View(c), Current(c))
           IN  /\ Transactions'
               /\ Running(c) /\ ~AtEnd(c) /\ Writes(e)
               /\ Held(c)' = Held(c) \cup {Current(c)}
               /\ tx'[c] = [script |-> tx[c].script, at |-> tx[c].at + 1,
                            own |-> Overwritten(tx[c].own, e)]
               /\ \A b \in Connections : b # c => tx'[b] = tx[b] /\ Held(b)' = Held(b)
  <1> DEFINE e == Effect(View(c), Current(c))
             both == Overwritten(tx[c].own, e)
  <1>1. /\ Running(c) /\ ~AtEnd(c) /\ Unblocked(c)
        /\ tx' = [tx EXCEPT ![c].at = @ + 1, ![c].own = both]
    BY DEF Execute
  <1>2. tx = [b \in Connections |-> [script |-> tx[b].script, at |-> tx[b].at, own |-> tx[b].own]]
    BY DEF Inductive, TypeOK
  <1>3. /\ Writes(e)
        /\ \A r \in DOMAIN e :
              /\ Current(c).table = r.table
              /\ Current(c).mode \in {"RowExclusive", "AccessExclusive"}
              /\ c # Job => Current(c).do \in {"write", "insert"} /\ Current(c).row = r
    BY <1>1, EffectFacts
  <1>4. Writes(tx[c].own)
    BY OwnFacts
  <1>5. \A b \in Connections : b # c =>
            /\ \A s \in Held(b) : s.table = Current(c).table => Current(c).mode \notin Conflicting[s.mode]
            /\ DOMAIN tx[b].own \cap DOMAIN e = {}
    BY <1>1 DEF Unblocked, Blocks
  <1> HIDE DEF e
  <1>6. /\ Writes(both) /\ DOMAIN both = DOMAIN tx[c].own \cup DOMAIN e
        /\ both = [r \in DOMAIN both |-> both[r]]
        /\ \A r \in DOMAIN both : both[r] = IF r \in DOMAIN e THEN e[r] ELSE tx[c].own[r]
    BY <1>3, <1>4, RewrittenFacts
  <1> HIDE DEF both
  <1>7. /\ tx'[c] = [script |-> tx[c].script, at |-> tx[c].at + 1, own |-> both]
        /\ \A b \in Connections : b # c => tx'[b] = tx[b]
        /\ tx' = [b \in Connections |-> tx'[b]]
    <2>1. tx[c] = [script |-> tx[c].script, at |-> tx[c].at, own |-> tx[c].own]
      BY <1>2
    <2>2. tx' = [tx EXCEPT ![c] = [tx[c] EXCEPT !.at = tx[c].at + 1, !.own = both]]
      BY <1>1
    <2>3. [tx[c] EXCEPT !.at = tx[c].at + 1, !.own = both]
            = [script |-> tx[c].script, at |-> tx[c].at + 1, own |-> both]
      <3> DEFINE u == [tx[c] EXCEPT !.at = tx[c].at + 1, !.own = both]
      <3>1. DOMAIN tx[c] = {"script", "at", "own"}
        BY <2>1
      <3>2. u = [f \in {"script", "at", "own"} |-> u[f]]
        BY <3>1
      <3>3. u.script = tx[c].script /\ u.at = tx[c].at + 1 /\ u.own = both
        BY <3>1
      <3> HIDE DEF u
      <3>4. u = [script |-> tx[c].script, at |-> tx[c].at + 1, own |-> both]
        BY <3>2, <3>3
      <3> QED
        BY <3>4 DEF u
    <2> QED
      BY <1>2, <2>2, <2>3
  <1>8. tx'[c].script = tx[c].script /\ tx'[c].at = tx[c].at + 1 /\ tx'[c].own = both
    BY <1>7
  <1>9. /\ Len(tx[c].script) \in Nat /\ tx[c].at \in 1..Len(tx[c].script)
        /\ Current(c) = tx[c].script[tx[c].at]
    BY <1>1, ScriptFacts DEF Current
  <1>10. /\ Held(c)' = Held(c) \cup {Current(c)}
         /\ \A b \in Connections : b # c => Held(b)' = Held(b)
    <2>1. Held(c)' = {tx[c].script[k] : k \in 1..tx[c].at}
      BY <1>8, <1>9 DEF Held
    <2>2. 1..tx[c].at = (1..(tx[c].at - 1)) \cup {tx[c].at}
      BY <1>9
    <2> QED
      BY SMTT(40), <1>7, <1>9, <2>1, <2>2 DEF Held
  <1>11. tx' = [b \in Connections |->
                  [script |-> tx'[b].script, at |-> tx'[b].at, own |-> tx'[b].own]]
    <2>1. ASSUME NEW b \in Connections, b # c
          PROVE  tx'[b] = [script |-> tx'[b].script, at |-> tx'[b].at, own |-> tx'[b].own]
      <3>1. tx[b] = [script |-> tx[b].script, at |-> tx[b].at, own |-> tx[b].own]
        BY <1>2
      <3> QED
        BY <2>1, <3>1, <1>7
    <2>2. tx'[c] = [script |-> tx'[c].script, at |-> tx'[c].at, own |-> tx'[c].own]
      BY <1>7
    <2> QED
      BY <2>1, <2>2, <1>7
  <1>12. ASSUME NEW b \in Connections
         PROVE  /\ tx'[b].at \in 1..(Len(tx'[b].script) + 1)
                /\ tx'[b].own = [r \in DOMAIN tx'[b].own |-> tx'[b].own[r]]
                /\ DOMAIN tx'[b].own \subseteq Rows
                /\ \A r \in DOMAIN tx'[b].own : tx'[b].own[r] \in Value
    <2>1. CASE b = c
      BY SMTT(40), <1>6, <1>8, <1>9, <2>1 DEF Writes
    <2>2. CASE b # c
      BY <1>7, <2>2 DEF Inductive, TypeOK
    <2> QED
      BY <2>1, <2>2
  <1>13. ASSUME NEW b \in Connections
         PROVE  WritesHeld(b)'
    <2>1. CASE b = c
      <3> SUFFICES ASSUME NEW r \in DOMAIN both
                   PROVE  /\ \E s \in Held(c)' :
                                /\ s.table = r.table /\ s.mode \in {"RowExclusive", "AccessExclusive"}
                                /\ c # Job => s.do \in {"write", "insert"} /\ s.row = r
                          /\ both[r].status = "absent" => both[r] = Absent
        BY <1>8, <2>1 DEF WritesHeld
      <3>1. both[r].status = "absent" => both[r] = Absent
        BY <1>6 DEF Writes
      <3>2. CASE r \in DOMAIN e
        BY <1>3, <1>10, <3>1, <3>2
      <3>3. CASE r \notin DOMAIN e
        <4>1. r \in DOMAIN tx[c].own
          BY <1>6, <3>3
        <4>2. PICK s \in Held(c) :
                  /\ s.table = r.table /\ s.mode \in {"RowExclusive", "AccessExclusive"}
                  /\ c # Job => s.do \in {"write", "insert"} /\ s.row = r
          BY <4>1 DEF Inductive, WritesHeld
        <4> QED
          BY <1>10, <3>1, <4>2
      <3> QED
        BY <3>2, <3>3
    <2>2. CASE b # c
      BY <1>7, <1>10, <2>2 DEF Inductive, WritesHeld
    <2> QED
      BY <2>1, <2>2
  <1>14. LocksCompatible'
    <2>1. ASSUME NEW b \in Connections, b # c
          PROVE  /\ \A s \in Held(b), t \in Held(c) \cup {Current(c)} :
                        s.table = t.table =>
                            t.mode \notin Conflicting[s.mode] /\ s.mode \notin Conflicting[t.mode]
                 /\ DOMAIN tx[b].own \cap DOMAIN both = {}
      <3>1. ASSUME NEW s \in Held(b), NEW t \in Held(c), s.table = t.table
            PROVE  t.mode \notin Conflicting[s.mode] /\ s.mode \notin Conflicting[t.mode]
        BY <2>1, <3>1 DEF Inductive, LocksCompatible
      <3>2. ASSUME NEW s \in Held(b), s.table = Current(c).table
            PROVE  Current(c).mode \notin Conflicting[s.mode]
                   /\ s.mode \notin Conflicting[Current(c).mode]
        <4>1. s.mode \in Modes /\ Current(c).mode \in Modes
          BY <1>1, HeldFacts, CurrentFacts
        <4>2. Current(c).mode \notin Conflicting[s.mode]
          BY <1>5, <2>1, <3>2
        <4> QED
          BY <4>1, <4>2, ConflictSymmetric
      <3>3. DOMAIN tx[b].own \cap DOMAIN both = {}
        <4>1. DOMAIN tx[b].own \cap DOMAIN tx[c].own = {}
          BY <2>1 DEF Inductive, LocksCompatible
        <4> QED
          BY <4>1, <1>5, <1>6, <2>1
      <3> QED
        BY <3>1, <3>2, <3>3
    <2> SUFFICES ASSUME NEW a \in Connections, NEW b \in Connections, a # b
                 PROVE  /\ \A s \in Held(a)', t \in Held(b)' :
                               s.table = t.table => t.mode \notin Conflicting[s.mode]
                        /\ DOMAIN tx'[a].own \cap DOMAIN tx'[b].own = {}
      BY DEF LocksCompatible
    <2>2. CASE a = c
      BY <1>7, <1>8, <1>10, <2>1, <2>2
    <2>3. CASE b = c
      BY <1>7, <1>8, <1>10, <2>1, <2>3
    <2>4. CASE a # c /\ b # c
      BY <1>7, <1>10, <2>4 DEF Inductive, LocksCompatible
    <2> QED
      BY <2>2, <2>3, <2>4
  <1>15. Transactions'
    BY <1>11, <1>12, <1>13, <1>14 DEF Transactions
  <1> QED
    BY <1>1, <1>3, <1>7, <1>10, <1>15 DEF e, both

-----------------------------------------------------------------------------
(* What the job has seen and written, by where it stands                   *)

SeenAt(n, seen) ==
    /\ n > 1 => Present(seen, "sessions") = {}
    /\ n > 3 => Present(seen, "oauth_login_states") = {}
    /\ n > 6 => PointersOwn(seen)
    /\ \A k \in 1..6 : n > 6 + 2 * k => PrincipalsMembers(seen, PrincipalTables[k])

Emptying == {"sessions", "oauth_login_states"}
Repeated == {"organization_memberships", "organization_invitations"}
ForeignIn(data, d) == data[d].ref \notin OwnVersions(data, d) \cup {NoVersion}

\* A row the job has written over data.
WrittenRow(own, data, r) ==
    \/ r.table \in Emptying /\ own[r] = Absent
    \/ /\ r.table = "documents" /\ own[r] = [data[r] EXCEPT !.ref = own[r].ref]
       /\ r \in Present(data, "documents") /\ ForeignIn(data, r)
    \/ r.table \in Repeated

\* Of a table the job has written just the given rows.
WrittenAs(own, table, rows) ==
    /\ \A r \in DOMAIN rows : r \in DOMAIN own /\ own[r] = rows[r]
    /\ \A r \in DOMAIN own : r.table = table => r \in DOMAIN rows

WrittenAt(n, own, data) ==
    /\ \A r \in DOMAIN own : WrittenRow(own, data, r)
    /\ WrittenAs(own, "organization_memberships", IF n > 19 THEN Demoted(data) ELSE Nothing)
    /\ WrittenAs(own, "organization_invitations", IF n > 21 THEN Revoked(data) ELSE Nothing)

LEMMA DoneNow ==
    ASSUME Inductive, Running(Job)
    PROVE  /\ tx[Job].at \in 1..25
           /\ \A do, table : Done(do, table) <=> DoneBy(tx[Job].at, do, table)
  <1>1. tx[Job].script = UpgradeScript /\ tx[Job].at \in 1..25
    <2>1. Job \in Connections
      BY DEF Connections
    <2>2. /\ tx[Job].script = UpgradeScript /\ Len(tx[Job].script) = 24
          /\ tx[Job].at \in 1..(Len(tx[Job].script) + 1)
      BY <2>1, ScriptFacts
    <2> QED
      BY <2>2
  <1>2. Held(Job) = {UpgradeScript[k] : k \in 1..(tx[Job].at - 1)}
    BY <1>1 DEF Held
  <1> QED
    BY <1>1, <1>2 DEF Done, DoneBy

LEMMA JobAt ==
    ASSUME Inductive, Running(Job)
    PROVE  /\ tx[Job].at \in 1..25
           /\ SeenAt(tx[Job].at, View(Job))
           /\ WrittenAt(tx[Job].at, tx[Job].own, db)
  <1> DEFINE n == tx[Job].at
             seen == View(Job)
             own == tx[Job].own
  <1>1. n \in 1..25 /\ \A do, table : Done(do, table) <=> DoneBy(n, do, table)
    BY DoneNow
  <1> HIDE DEF n, seen, own
  <1>2. /\ Done("empty", "sessions") <=> n > 1
        /\ Done("empty", "oauth_login_states") <=> n > 3
        /\ Done("pointers", "document_versions") <=> n > 6
        /\ \A k \in 1..6 : Done(PrincipalTables[k], "organization_memberships") <=> n > 6 + 2 * k
        /\ Done("demote", "organization_memberships") <=> n > 19
        /\ Done("revoke", "organization_invitations") <=> n > 21
    BY <1>1, DoneAt
  <1>3. SeenAt(n, seen)
    <2>1. JobSees
      BY DEF Inductive
    <2> QED
      BY <1>2, <2>1, PrincipalNames DEF JobSees, SeenAt, seen
  <1>4. JobWrites
    BY DEF Inductive
  <1>5. \A r \in DOMAIN own : WrittenRow(own, db, r)
    BY <1>4 DEF JobWrites, WrittenRow, Emptying, Repeated, ForeignIn, own
  <1>6. WrittenAs(own, "organization_memberships", IF n > 19 THEN Demoted(db) ELSE Nothing)
    <2>1. CASE n > 19
      BY <1>2, <1>4, <2>1 DEF JobWrites, WrittenAs, own
    <2>2. CASE ~(n > 19)
      BY <1>2, <1>4, <2>2, NothingFacts DEF JobWrites, WrittenAs, own
    <2> QED
      BY <2>1, <2>2
  <1>7. WrittenAs(own, "organization_invitations", IF n > 21 THEN Revoked(db) ELSE Nothing)
    <2>1. CASE n > 21
      BY <1>2, <1>4, <2>1 DEF JobWrites, WrittenAs, own
    <2>2. CASE ~(n > 21)
      BY <1>2, <1>4, <2>2, NothingFacts DEF JobWrites, WrittenAs, own
    <2> QED
      BY <2>1, <2>2
  <1> QED
    BY <1>1, <1>3, <1>5, <1>6, <1>7 DEF WrittenAt, n, seen, own

LEMMA JobAtNext ==
    ASSUME NEW n \in 1..25, Held(Job)' = {UpgradeScript[k] : k \in 1..(n - 1)},
           SeenAt(n, View(Job)'), WrittenAt(n, tx'[Job].own, db')
    PROVE  JobSees' /\ JobWrites'
  <1>1. \A do, table : Done(do, table)' <=> DoneBy(n, do, table)
    BY DEF Done, DoneBy
  <1>2. /\ Done("empty", "sessions")' <=> n > 1
        /\ Done("empty", "oauth_login_states")' <=> n > 3
        /\ Done("pointers", "document_versions")' <=> n > 6
        /\ \A k \in 1..6 : Done(PrincipalTables[k], "organization_memberships")' <=> n > 6 + 2 * k
        /\ Done("demote", "organization_memberships")' <=> n > 19
        /\ Done("revoke", "organization_invitations")' <=> n > 21
    BY <1>1, DoneAt
  <1>3. JobSees'
    BY <1>2, PrincipalNames DEF JobSees, SeenAt
  <1> DEFINE own == tx'[Job].own
  <1>4. \A r \in DOMAIN own :
              \/ r.table \in {"sessions", "oauth_login_states"} /\ own[r] = Absent
              \/ /\ r.table = "documents" /\ own[r] = [db'[r] EXCEPT !.ref = own[r].ref]
                 /\ r \in Present(db', "documents")
                 /\ db'[r].ref \notin OwnVersions(db', r) \cup {NoVersion}
              \/ r.table \in {"organization_memberships", "organization_invitations"}
    BY DEF WrittenAt, WrittenRow, Emptying, Repeated, ForeignIn
  <1>5. IF Done("demote", "organization_memberships")'
        THEN /\ \A r \in DOMAIN Demoted(db') : r \in DOMAIN own /\ own[r] = Demoted(db')[r]
             /\ {r \in DOMAIN own : r.table = "organization_memberships"} \subseteq DOMAIN Demoted(db')
        ELSE {r \in DOMAIN own : r.table = "organization_memberships"} = {}
    <2>1. WrittenAs(own, "organization_memberships", IF n > 19 THEN Demoted(db') ELSE Nothing)
      BY DEF WrittenAt
    <2> HIDE DEF own
    <2>2. CASE n > 19
      BY <1>2, <2>1, <2>2 DEF WrittenAs
    <2>3. CASE ~(n > 19)
      BY <1>2, <2>1, <2>3, NothingFacts DEF WrittenAs
    <2> QED
      BY <2>2, <2>3
  <1>6. IF Done("revoke", "organization_invitations")'
        THEN /\ \A r \in DOMAIN Revoked(db') : r \in DOMAIN own /\ own[r] = Revoked(db')[r]
             /\ {r \in DOMAIN own : r.table = "organization_invitations"} \subseteq DOMAIN Revoked(db')
        ELSE {r \in DOMAIN own : r.table = "organization_invitations"} = {}
    <2>1. WrittenAs(own, "organization_invitations", IF n > 21 THEN Revoked(db') ELSE Nothing)
      BY DEF WrittenAt
    <2> HIDE DEF own
    <2>2. CASE n > 21
      BY <1>2, <2>1, <2>2 DEF WrittenAs
    <2>3. CASE ~(n > 21)
      BY <1>2, <2>1, <2>3, NothingFacts DEF WrittenAs
    <2> QED
      BY <2>2, <2>3
  <1>7. JobWrites'
    BY <1>4, <1>5, <1>6 DEF JobWrites
  <1> QED
    BY <1>3, <1>7

\* A job that does not run has seen and written nothing.
LEMMA JobIdle ==
    ASSUME Held(Job)' = {}, tx'[Job].own = Nothing
    PROVE  JobSees' /\ JobWrites'
  <1>1. \A do, table : ~Done(do, table)'
    BY DEF Done
  <1>2. JobSees'
    BY <1>1 DEF JobSees
  <1>3. JobWrites'
    BY <1>1, NothingFacts DEF JobWrites
  <1> QED
    BY <1>2, <1>3

\* The rows of a table, as far as the constraints of foreign keys tell them apart.
Like(data, next, table) ==
    \A r \in Of(table) : /\ data[r].status = "absent" <=> next[r].status = "absent"
                         /\ data[r].user = next[r].user /\ data[r].ref = next[r].ref

LEMMA LikeFacts ==
    ASSUME NEW data, NEW next
    PROVE  /\ \A table : Like(data, next, table) => Present(next, table) = Present(data, table)
           /\ Like(data, next, "documents") /\ Like(data, next, "document_versions")
                  /\ PointersOwn(data) => PointersOwn(next)
           /\ \A table : Like(data, next, table) /\ Like(data, next, "organization_memberships")
                  /\ PrincipalsMembers(data, table) => PrincipalsMembers(next, table)
  <1>1. \A table : Like(data, next, table) => Present(next, table) = Present(data, table)
    BY DEF Like, Present, Of
  <1>2. \A table, r : Like(data, next, table) /\ r \in Present(next, table) =>
            r \in Present(data, table) /\ data[r].user = next[r].user /\ data[r].ref = next[r].ref
    BY <1>1 DEF Like, Present
  <1>3. ASSUME Like(data, next, "documents"), Like(data, next, "document_versions"),
               PointersOwn(data)
        PROVE  PointersOwn(next)
    <2>1. \A d : OwnVersions(next, d) = OwnVersions(data, d)
      BY <1>1, <1>3 DEF OwnVersions
    <2> QED
      BY <1>2, <1>3, <2>1 DEF PointersOwn
  <1>4. ASSUME NEW table, Like(data, next, table), Like(data, next, "organization_memberships"),
               PrincipalsMembers(data, table)
        PROVE  PrincipalsMembers(next, table)
    BY <1>1, <1>2, <1>4 DEF PrincipalsMembers
  <1> QED
    BY <1>1, <1>3, <1>4

LEMMA SeenKept ==
    ASSUME NEW data, NEW next, NEW n \in 1..25, SeenAt(n, data),
           n > 1 => Like(data, next, "sessions"),
           n > 3 => Like(data, next, "oauth_login_states"),
           n > 6 => Like(data, next, "documents") /\ Like(data, next, "document_versions"),
           \A k \in 1..6 : n > 6 + 2 * k =>
               Like(data, next, PrincipalTables[k]) /\ Like(data, next, "organization_memberships")
    PROVE  SeenAt(n, next)
  <1>1. /\ n > 1 => Present(next, "sessions") = {}
        /\ n > 3 => Present(next, "oauth_login_states") = {}
        /\ n > 6 => PointersOwn(next)
    BY LikeFacts DEF SeenAt
  <1>2. ASSUME NEW k \in 1..6, n > 6 + 2 * k
        PROVE  PrincipalsMembers(next, PrincipalTables[k])
    BY <1>2, LikeFacts DEF SeenAt
  <1> QED
    BY <1>1, <1>2 DEF SeenAt

\* An effect of the job that leaves its other rows alone.
LEMMA WrittenRowsKept ==
    ASSUME NEW own, NEW more, Writes(own), Writes(more), NEW data,
           \A r \in DOMAIN own : WrittenRow(own, data, r),
           \A r \in DOMAIN more : WrittenRow(more, data, r)
    PROVE  \A r \in DOMAIN Overwritten(own, more) : WrittenRow(Overwritten(own, more), data, r)
  <1> DEFINE both == Overwritten(own, more)
  <1>1. /\ DOMAIN both = DOMAIN own \cup DOMAIN more
        /\ \A r \in DOMAIN both : both[r] = IF r \in DOMAIN more THEN more[r] ELSE own[r]
    BY RewrittenFacts
  <1> HIDE DEF both
  <1>2. ASSUME NEW r \in DOMAIN both
        PROVE  WrittenRow(both, data, r)
    <2>1. CASE r \in DOMAIN more
      <3>1. both[r] = more[r] /\ WrittenRow(more, data, r)
        BY <1>1, <2>1
      <3> QED
        BY <3>1 DEF WrittenRow
    <2>2. CASE r \notin DOMAIN more
      <3>1. both[r] = own[r] /\ WrittenRow(own, data, r)
        BY <1>1, <2>2
      <3> QED
        BY <3>1 DEF WrittenRow
    <2> QED
      BY <2>1, <2>2
  <1> QED
    BY <1>2 DEF both

LEMMA WrittenAsKept ==
    ASSUME NEW own, NEW more, Writes(own), Writes(more), NEW table, NEW rows,
           WrittenAs(own, table, rows),
           \A r \in DOMAIN rows : r.table = table, \A r \in DOMAIN more : r.table # table
    PROVE  WrittenAs(Overwritten(own, more), table, rows)
  <1> DEFINE both == Overwritten(own, more)
  <1>1. /\ DOMAIN both = DOMAIN own \cup DOMAIN more
        /\ \A r \in DOMAIN both : both[r] = IF r \in DOMAIN more THEN more[r] ELSE own[r]
    BY ZenonT(60), RewrittenFacts
  <1> HIDE DEF both
  <1>2. WrittenAs(both, table, rows)
    BY <1>1 DEF WrittenAs
  <1> QED
    BY <1>2 DEF both

\* What is written now, of a table of which nothing was written before.
LEMMA WrittenAsNow ==
    ASSUME NEW own, NEW more, Writes(own), Writes(more), NEW table, WrittenAs(own, table, Nothing)
    PROVE  WrittenAs(Overwritten(own, more), table, more)
  <1> DEFINE both == Overwritten(own, more)
  <1>1. /\ DOMAIN both = DOMAIN own \cup DOMAIN more
        /\ \A r \in DOMAIN both : both[r] = IF r \in DOMAIN more THEN more[r] ELSE own[r]
    BY ZenonT(60), RewrittenFacts
  <1> HIDE DEF both
  <1>2. WrittenAs(both, table, more)
    BY <1>1, NothingFacts DEF WrittenAs
  <1> QED
    BY <1>2 DEF both

LEMMA NothingWritten ==
    ASSUME Inductive
    PROVE  Overwritten(tx[Job].own, Nothing) = tx[Job].own
  <1>1. tx[Job].own = [r \in DOMAIN tx[Job].own |-> tx[Job].own[r]]
    BY DEF Inductive, TypeOK, Connections
  <1> QED
    BY <1>1, NothingFacts DEF Overwritten

\* What the job writes and has written depends on these rows only.
LEMMA SameDemoted ==
    ASSUME NEW data, NEW next, \A m \in Of("organization_memberships") : data[m] = next[m]
    PROVE  Demoted(data) = Demoted(next)
  <1>1. \A org : ActiveOwners(data, org) = ActiveOwners(next, org)
    BY DEF ActiveOwners
  <1> DEFINE D(x) == {m \in Of("organization_memberships") :
                         /\ x[m].status = "OWNER"
                         /\ \E other \in ActiveOwners(x, m.org) : other.rank < m.rank}
  <1>2. D(data) = D(next)
    BY <1>1
  <1>3. \A m \in D(data) : data[m] = next[m]
    OBVIOUS
  <1>4. /\ Demoted(data) = [m \in D(data) |-> [data[m] EXCEPT !.status = "ADMIN"]]
        /\ Demoted(next) = [m \in D(next) |-> [next[m] EXCEPT !.status = "ADMIN"]]
    BY DEF Demoted
  <1> HIDE DEF D
  <1> QED
    BY <1>2, <1>3, <1>4

LEMMA SameRevoked ==
    ASSUME NEW data, NEW next, \A i \in Of("organization_invitations") : data[i] = next[i]
    PROVE  Revoked(data) = Revoked(next)
  <1>1. \A org, address : Pending(data, org, address) = Pending(next, org, address)
    BY DEF Pending
  <1> DEFINE D(x) == {i \in Of("organization_invitations") :
                         /\ x[i].status = "PENDING"
                         /\ \E other \in Pending(x, i.org, i.of) : other.rank > i.rank}
  <1>2. D(data) = D(next)
    BY <1>1
  <1>3. \A i \in D(data) : data[i] = next[i]
    OBVIOUS
  <1>4. /\ Revoked(data) = [i \in D(data) |-> [data[i] EXCEPT !.status = "REVOKED"]]
        /\ Revoked(next) = [i \in D(next) |-> [next[i] EXCEPT !.status = "REVOKED"]]
    BY DEF Revoked
  <1> HIDE DEF D
  <1> QED
    BY <1>2, <1>3, <1>4

\* What the job sees after statement n.
LEMMA SeenNext ==
    ASSUME NEW n \in 1..24, NEW seen \in [Rows -> Value], NEW next,
           SeenAt(n, seen), Accepts(seen, UpgradeScript[n]),
           \A r \in Rows : next[r] = IF r \in DOMAIN Effect(seen, UpgradeScript[n])
                                     THEN Effect(seen, UpgradeScript[n])[r] ELSE seen[r]
    PROVE  SeenAt(n + 1, next)
  <1> DEFINE e == Effect(seen, UpgradeScript[n])
  <1>1. \A r \in Rows : next[r] = IF r \in DOMAIN e THEN e[r] ELSE seen[r]
    OBVIOUS
  <1>2. /\ n = 1 => e = Emptied(seen, "sessions")
        /\ n = 3 => e = Emptied(seen, "oauth_login_states")
        /\ n = 4 => e = Repaired(seen)
        /\ n = 19 => e = Demoted(seen)
        /\ n = 21 => e = Revoked(seen)
        /\ n \notin {1, 3, 4, 19, 21} => e = Nothing
    BY JobEffect
  <1> HIDE DEF e
  <1>3. ASSUME NEW table, \A r \in DOMAIN e : r.table # table
        PROVE  Like(seen, next, table)
    BY <1>1, <1>3 DEF Like, Of
  <1>4. ASSUME NEW table, NEW r \in Of(table), e = Emptied(seen, table)
        PROVE  next[r].status = "absent"
    <2>1. DOMAIN e = Present(seen, table) /\ \A x \in Present(seen, table) : e[x] = Absent
      BY <1>4, EmptiedFacts
    <2>2. r \in Rows /\ (r \in Present(seen, table) <=> seen[r].status # "absent")
      BY DEF Of, Present
    <2> QED
      BY <1>1, <2>1, <2>2 DEF Absent
  <1>5. ASSUME n = 19 \/ n = 21, NEW table
        PROVE  Like(seen, next, table)
    <2> SUFFICES ASSUME NEW r \in Rows, r \in DOMAIN e
                 PROVE  /\ e[r].status # "absent" /\ seen[r].status # "absent"
                        /\ e[r].user = seen[r].user /\ e[r].ref = seen[r].ref
      BY <1>1 DEF Like, Of
    <2>1. seen[r] \in Value
      OBVIOUS
    <2>2. CASE n = 19
      <3>1. seen[r].status = "OWNER" /\ e[r] = [seen[r] EXCEPT !.status = "ADMIN"]
        BY <1>2, <2>2, DemotedFacts
      <3> QED
        BY <2>1, <3>1 DEF Value
    <2>3. CASE n = 21
      <3>1. seen[r].status = "PENDING" /\ e[r] = [seen[r] EXCEPT !.status = "REVOKED"]
        BY <1>2, <2>3, RevokedFacts
      <3> QED
        BY <2>1, <3>1 DEF Value
    <2> QED
      BY <1>5, <2>2, <2>3
  <1>6. ASSUME n \notin {1, 3, 4}, NEW table
        PROVE  Like(seen, next, table)
    <2>1. CASE n = 19 \/ n = 21
      BY <1>5, <2>1
    <2>2. CASE n \notin {1, 3, 4, 19, 21}
      BY <1>2, <1>3, <2>2, NothingFacts
    <2> QED
      BY <1>6, <2>1, <2>2
  <1>7. n = 3 => Like(seen, next, "sessions")
    BY <1>2, <1>3, EmptiedFacts
  <1>8. n = 4 => Like(seen, next, "sessions") /\ Like(seen, next, "oauth_login_states")
    BY <1>2, <1>3, RepairedFacts
  <1>9. SeenAt(n, next)
    <2>1. CASE n = 1
      <3>1. \A k \in 1..6 : ~(n > 6 + 2 * k)
        BY <2>1
      <3> QED
        BY <2>1, <3>1 DEF SeenAt
    <2>2. CASE n = 3
      <3>1. \A k \in 1..6 : ~(n > 6 + 2 * k)
        BY <2>2
      <3>2. n \in 1..25 /\ ~(n > 3) /\ ~(n > 6)
        BY <2>2
      <3> QED
        BY <3>1, <3>2, <2>2, <1>7, SeenKept
    <2>3. CASE n = 4
      <3>1. \A k \in 1..6 : ~(n > 6 + 2 * k)
        BY <2>3
      <3>2. n \in 1..25 /\ ~(n > 6)
        BY <2>3
      <3> QED
        BY <3>1, <3>2, <2>3, <1>8, SeenKept
    <2>4. CASE n \notin {1, 3, 4}
      <3>1. n \in 1..25
        OBVIOUS
      <3> QED
        BY <3>1, <2>4, <1>6, SeenKept
    <2> QED
      BY <2>1, <2>2, <2>3, <2>4
  <1>10. n = 1 => Present(next, "sessions") = {}
    BY <1>2, <1>4 DEF Present
  <1>11. n = 3 => Present(next, "oauth_login_states") = {}
    BY <1>2, <1>4 DEF Present
  <1>12. n = 6 => PointersOwn(next)
    <2> SUFFICES ASSUME n = 6 PROVE PointersOwn(next)
      OBVIOUS
    <2>1. UpgradeScript[n].do = "pointers"
      BY JobStatements DEF Does
    <2>2. PointersOwn(seen)
      BY <2>1 DEF Accepts
    <2> QED
      BY <1>6, <2>2, LikeFacts
  <1>13. ASSUME NEW k \in 1..6, n = 6 + 2 * k
         PROVE  PrincipalsMembers(next, PrincipalTables[k])
    <2>1. Does(6 + 2 * k, "organization_memberships", "ShareRowExclusive", PrincipalTables[k])
      BY JobStatements
    <2>2. UpgradeScript[n].do = PrincipalTables[k]
      BY <1>13, <2>1 DEF Does
    <2>3. PrincipalsMembers(seen, PrincipalTables[k])
      BY <2>2, PrincipalNames DEF Accepts
    <2>4. n \notin {1, 3, 4}
      BY <1>13
    <2> QED
      BY <1>6, <2>3, <2>4, LikeFacts
  <1>14. \A k \in 1..6 : n + 1 > 6 + 2 * k => n > 6 + 2 * k \/ n = 6 + 2 * k
    OBVIOUS
  <1>15. /\ n + 1 > 1 => n > 1 \/ n = 1
         /\ n + 1 > 3 => n > 3 \/ n = 3
         /\ n + 1 > 6 => n > 6 \/ n = 6
    OBVIOUS
  <1> QED
    BY <1>9, <1>10, <1>11, <1>12, <1>13, <1>14, <1>15 DEF SeenAt

\* What the job has written after statement n.
LEMMA WrittenNext ==
    ASSUME NEW n \in 1..24, NEW data \in [Rows -> Value], NEW own, Writes(own),
           own = [r \in DOMAIN own |-> own[r]],
           NEW seen \in [Rows -> Value],
           \A r \in Rows : seen[r] = IF r \in DOMAIN own THEN own[r] ELSE data[r],
           WrittenAt(n, own, data)
    PROVE  WrittenAt(n + 1, Overwritten(own, Effect(seen, UpgradeScript[n])), data)
  <1> DEFINE e == Effect(seen, UpgradeScript[n])
             both == Overwritten(own, e)
             members == "organization_memberships"
             invitations == "organization_invitations"
  <1> SUFFICES WrittenAt(n + 1, both, data)
    OBVIOUS
  <1>1. /\ n = 1 => e = Emptied(seen, "sessions")
        /\ n = 3 => e = Emptied(seen, "oauth_login_states")
        /\ n = 4 => e = Repaired(seen)
        /\ n = 19 => e = Demoted(seen)
        /\ n = 21 => e = Revoked(seen)
        /\ n \notin {1, 3, 4, 19, 21} => e = Nothing
    BY JobEffect
  <1> HIDE DEF e
  <1>2. /\ \A r \in DOMAIN own : WrittenRow(own, data, r)
        /\ WrittenAs(own, members, IF n > 19 THEN Demoted(data) ELSE Nothing)
        /\ WrittenAs(own, invitations, IF n > 21 THEN Revoked(data) ELSE Nothing)
    BY DEF WrittenAt
  <1>3. \A r \in DOMAIN own : r \in Rows
    BY DEF Writes
  <1>4. \A r \in DOMAIN Demoted(data) : r.table = members
    BY DemotedFacts DEF Of
  <1>5. \A r \in DOMAIN Revoked(data) : r.table = invitations
    BY RevokedFacts DEF Of
  \* A statement that writes other tables.
  <1>6. ASSUME n \notin {19, 21}, Writes(e), \A r \in DOMAIN e : r.table \notin Repeated,
               \A r \in DOMAIN e : WrittenRow(e, data, r)
        PROVE  WrittenAt(n + 1, both, data)
    <2>1. \A r \in DOMAIN both : WrittenRow(both, data, r)
      BY <1>2, <1>6, WrittenRowsKept
    <2>2. \A r \in DOMAIN e : r.table # members /\ r.table # invitations
      BY <1>6 DEF Repeated
    <2>3. WrittenAs(both, members, IF n > 19 THEN Demoted(data) ELSE Nothing)
      <3> DEFINE rows == IF n > 19 THEN Demoted(data) ELSE Nothing
      <3>1. \A r \in DOMAIN rows : r.table = members
        BY <1>4, NothingFacts
      <3> HIDE DEF rows
      <3>2. WrittenAs(own, members, rows)
        BY <1>2 DEF rows
      <3>3. WrittenAs(both, members, rows)
        BY <1>6, <2>2, <3>1, <3>2, WrittenAsKept
      <3> QED
        BY <3>3 DEF rows
    <2>4. WrittenAs(both, invitations, IF n > 21 THEN Revoked(data) ELSE Nothing)
      <3> DEFINE rows == IF n > 21 THEN Revoked(data) ELSE Nothing
      <3>1. \A r \in DOMAIN rows : r.table = invitations
        BY <1>5, NothingFacts
      <3> HIDE DEF rows
      <3>2. WrittenAs(own, invitations, rows)
        BY <1>2 DEF rows
      <3>3. WrittenAs(both, invitations, rows)
        BY <1>6, <2>2, <3>1, <3>2, WrittenAsKept
      <3> QED
        BY <3>3 DEF rows
    <2>5. (n + 1 > 19 <=> n > 19) /\ (n + 1 > 21 <=> n > 21)
      BY <1>6
    <2> HIDE DEF both
    <2> QED
      BY <2>1, <2>3, <2>4, <2>5 DEF WrittenAt
  <1>7. CASE n = 1 \/ n = 3
    <2>1. \A table : Writes(Emptied(seen, table)) /\ \A r \in DOMAIN Emptied(seen, table) :
              r.table = table /\ Emptied(seen, table)[r] = Absent
      BY EmptiedFacts
    <2>2. /\ Writes(e)
          /\ \A r \in DOMAIN e : r.table \in Emptying /\ e[r] = Absent
      BY <1>1, <1>7, <2>1 DEF Emptying
    <2>3. \A r \in DOMAIN e : r.table \notin Repeated /\ WrittenRow(e, data, r)
      BY <2>2 DEF WrittenRow, Emptying, Repeated
    <2> QED
      BY <1>6, <1>7, <2>2, <2>3
  <1>8. CASE n = 4
    <2>1. /\ Writes(e)
          /\ \A d \in DOMAIN e :
                /\ d \in Present(seen, "documents") /\ d.table = "documents"
                /\ seen[d].ref \notin OwnVersions(seen, d) \cup {NoVersion}
                /\ e[d] = [seen[d] EXCEPT !.ref = e[d].ref]
      BY <1>1, <1>8, RepairedFacts
    <2>2. \A v \in Of("document_versions") : seen[v] = data[v]
      <3>1. \A r \in DOMAIN own : r.table # "document_versions"
        BY <1>2 DEF WrittenRow, Emptying, Repeated
      <3> QED
        BY <3>1 DEF Of
    <2>3. \A d : OwnVersions(seen, d) = OwnVersions(data, d)
      BY <2>2 DEF OwnVersions, Present
    <2>4. ASSUME NEW d \in DOMAIN e
          PROVE  WrittenRow(e, data, d)
      <3>1. d \in Rows /\ d.table = "documents" /\ data[d] \in Value
        BY <2>1 DEF Writes
      <3>2. CASE d \in DOMAIN own
        <4>1. /\ own[d] = [data[d] EXCEPT !.ref = own[d].ref]
              /\ d \in Present(data, "documents") /\ ForeignIn(data, d)
          BY <1>2, <3>1, <3>2 DEF WrittenRow, Emptying, Repeated
        <4>2. seen[d] = [data[d] EXCEPT !.ref = own[d].ref]
          BY <3>1, <3>2, <4>1
        <4>3. [seen[d] EXCEPT !.ref = e[d].ref] = [data[d] EXCEPT !.ref = e[d].ref]
          BY <3>1, <4>2 DEF Value
        <4> QED
          BY <2>1, <3>1, <4>1, <4>3 DEF WrittenRow
      <3>3. CASE d \notin DOMAIN own
        <4>1. seen[d] = data[d]
          BY <3>1, <3>3
        <4>2. d \in Present(data, "documents") /\ ForeignIn(data, d)
          BY <2>1, <2>3, <4>1 DEF Present, ForeignIn
        <4> QED
          BY <2>1, <3>1, <4>1, <4>2 DEF WrittenRow
      <3> QED
        BY <3>2, <3>3
    <2>5. \A d \in DOMAIN e : d.table \notin Repeated
      BY <2>1 DEF Repeated
    <2> QED
      BY <1>6, <1>8, <2>1, <2>4, <2>5
  <1>9. CASE n = 19
    <2>1. WrittenAs(own, members, Nothing) /\ WrittenAs(own, invitations, Nothing)
      BY <1>2, <1>9
    <2>2. \A m \in Of(members) : seen[m] = data[m]
      BY <2>1, NothingFacts DEF WrittenAs, Of
    <2>3. e = Demoted(data)
      BY <1>1, <1>9, <2>2, SameDemoted
    <2>4. Writes(e) /\ \A r \in DOMAIN e : r.table = members
      BY <1>4, <2>3, DemotedFacts
    <2>5. WrittenAs(both, members, e)
      BY <2>1, <2>4, WrittenAsNow
    <2>6. WrittenAs(both, invitations, Nothing)
      BY <2>1, <2>4, NothingFacts, WrittenAsKept
    <2>7. \A r \in DOMAIN both : WrittenRow(both, data, r)
      <3>1. \A r \in DOMAIN e : WrittenRow(e, data, r)
        BY <2>4 DEF WrittenRow, Repeated
      <3> QED
        BY <1>2, <2>4, <3>1, WrittenRowsKept
    <2>8. n + 1 > 19 /\ ~(n + 1 > 21)
      BY <1>9
    <2> HIDE DEF both
    <2> QED
      BY <2>3, <2>5, <2>6, <2>7, <2>8 DEF WrittenAt
  <1>10. CASE n = 21
    <2>1. WrittenAs(own, members, Demoted(data)) /\ WrittenAs(own, invitations, Nothing)
      BY <1>2, <1>10
    <2>2. \A i \in Of(invitations) : seen[i] = data[i]
      BY <2>1, NothingFacts DEF WrittenAs, Of
    <2>3. e = Revoked(data)
      BY <1>1, <1>10, <2>2, SameRevoked
    <2>4. Writes(e) /\ \A r \in DOMAIN e : r.table = invitations
      BY <1>5, <2>3, RevokedFacts
    <2>5. WrittenAs(both, invitations, e)
      BY <2>1, <2>4, WrittenAsNow
    <2>6. WrittenAs(both, members, Demoted(data))
      BY <1>4, <2>1, <2>4, WrittenAsKept
    <2>7. \A r \in DOMAIN both : WrittenRow(both, data, r)
      <3>1. \A r \in DOMAIN e : WrittenRow(e, data, r)
        BY <2>4 DEF WrittenRow, Repeated
      <3> QED
        BY <1>2, <2>4, <3>1, WrittenRowsKept
    <2>8. n + 1 > 19 /\ n + 1 > 21
      BY <1>10
    <2> HIDE DEF both
    <2> QED
      BY <2>3, <2>5, <2>6, <2>7, <2>8 DEF WrittenAt
  <1>11. CASE n \notin {1, 3, 4, 19, 21}
    <2>1. e = Nothing /\ DOMAIN e = {} /\ Writes(e)
      BY <1>1, <1>11, NothingFacts
    <2> QED
      BY <1>6, <1>11, <2>1
  <1> QED
    BY <1>7, <1>8, <1>9, <1>10, <1>11

LEMMA JobExecutes ==
    ASSUME Inductive, Execute(Job)
    PROVE  JobSees' /\ JobWrites'
  <1> DEFINE n == tx[Job].at
             seen == View(Job)
             own == tx[Job].own
             e == Effect(seen, UpgradeScript[n])
             both == Overwritten(own, e)
             next == Overwritten(db, both)
  <1>1. Job \in Connections
    BY DEF Connections
  <1>2. Running(Job) /\ ~AtEnd(Job) /\ db' = db /\ Accepts(View(Job), Current(Job))
    BY DEF Execute
  <1>3. Current(Job) = UpgradeScript[n] /\ n \in 1..24
    BY <1>1, <1>2, CurrentFacts
  <1>4. Writes(e) /\ Held(Job)' = Held(Job) \cup {UpgradeScript[n]} /\ tx'[Job].own = both
    <2>1. /\ Writes(Effect(View(Job), Current(Job)))
          /\ Held(Job)' = Held(Job) \cup {Current(Job)}
          /\ tx'[Job] = [script |-> tx[Job].script, at |-> tx[Job].at + 1,
                         own |-> Overwritten(tx[Job].own, Effect(View(Job), Current(Job)))]
      BY <1>1, ExecuteTransaction
    <2>2. tx'[Job].own = Overwritten(tx[Job].own, Effect(View(Job), Current(Job)))
      BY <2>1
    <2> QED
      BY <1>3, <2>1, <2>2
  <1>5. Held(Job)' = {UpgradeScript[k] : k \in 1..((n + 1) - 1)}
    <2>1. tx[Job].script = UpgradeScript
      BY <1>1, <1>2, ScriptFacts
    <2>2. Held(Job) = {UpgradeScript[k] : k \in 1..(n - 1)}
      BY <2>1 DEF Held
    <2>3. n \in 1..24
      BY <1>3
    <2> HIDE DEF n
    <2>4. 1..((n + 1) - 1) = (1..(n - 1)) \cup {n}
      BY <2>3
    <2> QED
      BY <2>4, <1>4, <2>2, <2>3
  <1>6. SeenAt(n, seen) /\ WrittenAt(n, own, db)
    BY <1>2, JobAt
  <1>7. /\ db \in [Rows -> Value] /\ seen \in [Rows -> Value] /\ Writes(own)
        /\ \A r \in Rows : seen[r] = IF r \in DOMAIN own THEN own[r] ELSE db[r]
        /\ own = [r \in DOMAIN own |-> own[r]]
    BY <1>1, ViewFacts, OwnFacts DEF Inductive, TypeOK
  <1>8. View(Job)' = next
    BY <1>2, <1>4 DEF View
  <1>9. Accepts(seen, UpgradeScript[n])
    BY <1>2, <1>3
  <1> HIDE DEF n, seen, own
  <1>10. WrittenAt(n + 1, both, db)
    BY <1>3, <1>6, <1>7, WrittenNext
  <1> HIDE DEF e
  <1>11. /\ Writes(both) /\ DOMAIN both = DOMAIN own \cup DOMAIN e
         /\ \A r \in DOMAIN both : both[r] = IF r \in DOMAIN e THEN e[r] ELSE own[r]
    <2>1. Writes(own) /\ Writes(e)
      BY <1>4, <1>7
    <2> QED
      BY <2>1, RewrittenFacts
  <1> HIDE DEF both
  <1>12. \A r \in Rows : next[r] = IF r \in DOMAIN both THEN both[r] ELSE db[r]
    BY <1>7, <1>11, OverwrittenFacts
  <1> HIDE DEF next
  <1>13. \A r \in Rows : next[r] = IF r \in DOMAIN e THEN e[r] ELSE seen[r]
    BY <1>7, <1>11, <1>12
  <1>14. SeenAt(n + 1, next)
    BY <1>3, <1>6, <1>7, <1>9, <1>13, SeenNext DEF e
  <1>15. n + 1 \in 1..25
    BY <1>3
  <1> QED
    BY <1>4, <1>2, <1>5, <1>8, <1>10, <1>14, <1>15, JobAtNext

\* After its deduplications the job sees one active owner of an organization, and
\* one pending invitation of an address.
LEMMA OneSeen ==
    ASSUME NEW S, \A x, y \in S : x = y
    PROVE  Cardinality(S) <= 1
  <1>1. CASE S = {}
    BY <1>1, FS_EmptySet
  <1>2. CASE S # {}
    <2>1. PICK x \in S : TRUE
      BY <1>2
    <2>2. S = {x}
      BY <2>1
    <2> QED
      BY <2>2, FS_Singleton
  <1> QED
    BY <1>1, <1>2

LEMMA OneOwnerSeen ==
    ASSUME NEW data \in [Rows -> Value], NEW own, NEW seen,
           \A r \in Rows : seen[r] = IF r \in DOMAIN own THEN own[r] ELSE data[r],
           WrittenAs(own, "organization_memberships", Demoted(data))
    PROVE  OneActiveOwner(seen)
  <1>1. ASSUME NEW x \in Of("organization_memberships"), seen[x].status = "OWNER"
        PROVE  /\ data[x].status = "OWNER"
               /\ \A other \in ActiveOwners(data, x.org) : ~(other.rank < x.rank)
    <2>1. x \in Rows /\ x.table = "organization_memberships" /\ data[x] \in Value
      BY DEF Of
    <2>2. CASE x \in DOMAIN own
      <3>1. x \in DOMAIN Demoted(data) /\ own[x] = Demoted(data)[x]
        BY <2>1, <2>2 DEF WrittenAs
      <3>2. own[x] = [data[x] EXCEPT !.status = "ADMIN"]
        BY <3>1, DemotedFacts
      <3>3. seen[x].status = "ADMIN"
        BY <2>1, <2>2, <3>2 DEF Value
      <3> QED
        BY <1>1, <3>3
    <2>3. CASE x \notin DOMAIN own
      <3>1. data[x].status = "OWNER"
        BY <1>1, <2>1, <2>3
      <3>2. x \notin DOMAIN Demoted(data)
        BY <2>3 DEF WrittenAs
      <3> QED
        BY <3>1, <3>2, DemotedFacts
    <2> QED
      BY <2>2, <2>3
  <1>2. ASSUME NEW org, NEW x \in ActiveOwners(seen, org), NEW y \in ActiveOwners(seen, org)
        PROVE  x = y
    <2>1. /\ x \in Rows /\ x.table = "organization_memberships" /\ x.org = org
          /\ y \in Rows /\ y.table = "organization_memberships" /\ y.org = org
      BY DEF ActiveOwners, Of
    <2>2. /\ data[x].status = "OWNER" /\ data[y].status = "OWNER"
          /\ \A other \in ActiveOwners(data, org) : ~(other.rank < x.rank) /\ ~(other.rank < y.rank)
      BY <1>1, <2>1 DEF ActiveOwners
    <2>3. x \in ActiveOwners(data, org) /\ y \in ActiveOwners(data, org)
      BY <2>2 DEF ActiveOwners
    <2>4. x.rank \in Nat /\ y.rank \in Nat
      BY <2>1, RowAssumption
    <2>5. x.rank = y.rank
      BY <2>2, <2>3, <2>4
    <2> QED
      BY <2>1, <2>5, RowAssumption
  <1> QED
    BY <1>2, OneSeen DEF OneActiveOwner

LEMMA OneInvitationSeen ==
    ASSUME NEW data \in [Rows -> Value], NEW own, NEW seen,
           \A r \in Rows : seen[r] = IF r \in DOMAIN own THEN own[r] ELSE data[r],
           WrittenAs(own, "organization_invitations", Revoked(data))
    PROVE  OnePendingInvitation(seen)
  <1>1. ASSUME NEW x \in Of("organization_invitations"), seen[x].status = "PENDING"
        PROVE  /\ data[x].status = "PENDING"
               /\ \A other \in Pending(data, x.org, x.of) : ~(other.rank > x.rank)
    <2>1. x \in Rows /\ x.table = "organization_invitations" /\ data[x] \in Value
      BY DEF Of
    <2>2. CASE x \in DOMAIN own
      <3>1. x \in DOMAIN Revoked(data) /\ own[x] = Revoked(data)[x]
        BY <2>1, <2>2 DEF WrittenAs
      <3>2. own[x] = [data[x] EXCEPT !.status = "REVOKED"]
        BY <3>1, RevokedFacts
      <3>3. seen[x].status = "REVOKED"
        BY <2>1, <2>2, <3>2 DEF Value
      <3> QED
        BY <1>1, <3>3
    <2>3. CASE x \notin DOMAIN own
      <3>1. data[x].status = "PENDING"
        BY <1>1, <2>1, <2>3
      <3>2. x \notin DOMAIN Revoked(data)
        BY <2>3 DEF WrittenAs
      <3> QED
        BY <3>1, <3>2, RevokedFacts
    <2> QED
      BY <2>2, <2>3
  <1>2. ASSUME NEW org, NEW address,
               NEW x \in Pending(seen, org, address), NEW y \in Pending(seen, org, address)
        PROVE  x = y
    <2>1. /\ x \in Rows /\ x.table = "organization_invitations" /\ x.org = org /\ x.of = address
          /\ y \in Rows /\ y.table = "organization_invitations" /\ y.org = org /\ y.of = address
      BY DEF Pending, Of
    <2>2. /\ data[x].status = "PENDING" /\ data[y].status = "PENDING"
          /\ \A other \in Pending(data, org, address) :
                ~(other.rank > x.rank) /\ ~(other.rank > y.rank)
      BY <1>1, <2>1 DEF Pending
    <2>3. x \in Pending(data, org, address) /\ y \in Pending(data, org, address)
      BY <2>2 DEF Pending
    <2>4. x.rank \in Nat /\ y.rank \in Nat
      BY <2>1, RowAssumption
    <2>5. x.rank = y.rank
      BY <2>2, <2>3, <2>4
    <2> QED
      BY <2>1, <2>5, RowAssumption
  <1> QED
    BY <1>2, OneSeen DEF OnePendingInvitation

\* At the end of its script what the job sees satisfies the head revision.
LEMMA HeadSeen ==
    ASSUME NEW data \in [Rows -> Value], NEW own, NEW seen,
           \A r \in Rows : seen[r] = IF r \in DOMAIN own THEN own[r] ELSE data[r],
           SeenAt(25, seen), WrittenAt(25, own, data)
    PROVE  Satisfies(seen, "head")
  <1>1. PointersOwn(seen) /\ SessionsBound(seen)
    BY DEF SeenAt, SessionsBound
  <1>2. \A k \in DOMAIN PrincipalTables : PrincipalsMembers(seen, PrincipalTables[k])
    <2>1. \A k \in 1..6 : 25 > 6 + 2 * k
      OBVIOUS
    <2> QED
      BY <2>1, PrincipalNames DEF SeenAt
  <1>3. /\ WrittenAs(own, "organization_memberships", Demoted(data))
        /\ WrittenAs(own, "organization_invitations", Revoked(data))
    BY DEF WrittenAt
  <1>4. OneActiveOwner(seen) /\ OnePendingInvitation(seen)
    BY <1>3, OneOwnerSeen, OneInvitationSeen
  <1>5. PointersInOrganization(seen)
    BY <1>1 DEF PointersOwn, PointersInOrganization, OwnVersions
  <1> QED
    BY <1>1, <1>2, <1>4, <1>5 DEF Satisfies

-----------------------------------------------------------------------------
(* The invariant                                                           *)

\* A transaction that begins or is rolled back.
LEMMA ResetStep ==
    ASSUME Inductive, NEW c \in Connections, NEW script, Len(script) \in Nat,
           script # <<>> => IF c = Job THEN script = UpgradeScript /\ schema = "initial"
                                       ELSE script \in Scripts,
           tx' = [tx EXCEPT ![c] = [script |-> script, at |-> 1, own |-> Nothing]],
           UNCHANGED <<db, schema, writes>>
    PROVE  Inductive'
  <1>1. /\ Transactions'
        /\ Held(c)' = {} /\ tx'[c] = [script |-> script, at |-> 1, own |-> Nothing]
        /\ \A b \in Connections : b # c => tx'[b] = tx[b] /\ Held(b)' = Held(b)
    BY ResetTransaction
  <1>2. /\ db' \in [Rows -> Value] /\ schema' \in {"initial", "head"} /\ writes' \in Nat
        /\ RevisionHolds' /\ AbsentRows(db')
    BY DEF Inductive, TypeOK, RevisionHolds
  <1>3. ASSUME NEW b \in Connections
        PROVE  Scripted(b)'
    <2>1. CASE b = c
      <3>1. tx'[c].script = script
        BY <1>1
      <3>2. script = <<>> => tx'[c] = NoTransaction
        BY <1>1 DEF NoTransaction
      <3> QED
        BY <2>1, <3>1, <3>2 DEF Scripted
    <2>2. CASE b # c
      <3>1. Scripted(b) /\ tx'[b] = tx[b]
        BY <1>1, <2>2 DEF Inductive
      <3> QED
        BY <3>1 DEF Scripted
    <2> QED
      BY <2>1, <2>2
  <1>4. JobSees' /\ JobWrites'
    <2>1. Job \in Connections
      BY DEF Connections
    <2>2. CASE c = Job
      BY <1>1, <2>2, JobIdle
    <2>3. CASE c # Job
      <3>1. tx'[Job] = tx[Job] /\ Held(Job)' = Held(Job)
        BY <1>1, <2>1, <2>3
      <3>2. CASE ~Running(Job)
        BY <2>1, <3>1, <3>2, IdleFacts, JobIdle
      <3>3. CASE Running(Job)
        <4> DEFINE n == tx[Job].at
        <4>1. n \in 1..25 /\ SeenAt(n, View(Job)) /\ WrittenAt(n, tx[Job].own, db)
          BY <3>3, JobAt
        <4>2. View(Job)' = View(Job)
          BY <3>1 DEF View
        <4>3. Held(Job) = {UpgradeScript[k] : k \in 1..(n - 1)}
          BY <2>1, <3>3, ScriptFacts DEF Held
        <4> HIDE DEF n
        <4> QED
          BY <3>1, <4>1, <4>2, <4>3, JobAtNext
      <3> QED
        BY <3>2, <3>3
    <2> QED
      BY <2>2, <2>3
  <1> QED
    BY <1>1, <1>2, <1>3, <1>4 DEF Inductive, TypeOK, Transactions

LEMMA ExecuteStep ==
    ASSUME Inductive, NEW c \in Connections, Execute(c)
    PROVE  Inductive'
  <1>1. /\ Transactions' /\ Running(c)
        /\ tx'[c].script = tx[c].script
        /\ \A b \in Connections : b # c => tx'[b] = tx[b] /\ Held(b)' = Held(b)
    <2>1. /\ Transactions' /\ Running(c)
          /\ tx'[c] = [script |-> tx[c].script, at |-> tx[c].at + 1,
                       own |-> Overwritten(tx[c].own, Effect(View(c), Current(c)))]
          /\ \A b \in Connections : b # c => tx'[b] = tx[b] /\ Held(b)' = Held(b)
      BY ExecuteTransaction
    <2>2. tx'[c].script = tx[c].script
      BY <2>1
    <2> QED
      BY <2>1, <2>2
  <1>2. UNCHANGED <<db, schema, writes>>
    BY DEF Execute
  <1>3. /\ db' \in [Rows -> Value] /\ schema' \in {"initial", "head"} /\ writes' \in Nat
        /\ RevisionHolds' /\ AbsentRows(db')
    BY <1>2 DEF Inductive, TypeOK, RevisionHolds
  <1>4. ASSUME NEW b \in Connections
        PROVE  Scripted(b)'
    <2>1. CASE b = c
      <3>1. Scripted(c) /\ tx[c].script # <<>>
        BY <1>1 DEF Inductive, Running
      <3> QED
        BY <1>1, <1>2, <2>1, <3>1 DEF Scripted
    <2>2. CASE b # c
      <3>1. Scripted(b) /\ tx'[b] = tx[b]
        BY <1>1, <2>2 DEF Inductive
      <3> QED
        BY <1>2, <3>1 DEF Scripted
    <2> QED
      BY <2>1, <2>2
  <1>5. JobSees' /\ JobWrites'
    <2>1. Job \in Connections
      BY DEF Connections
    <2>2. CASE c = Job
      BY <2>2, JobExecutes
    <2>3. CASE c # Job
      <3>1. tx'[Job] = tx[Job] /\ Held(Job)' = Held(Job)
        BY <1>1, <2>1, <2>3
      <3>2. CASE ~Running(Job)
        BY <2>1, <3>1, <3>2, IdleFacts, JobIdle
      <3>3. CASE Running(Job)
        <4> DEFINE n == tx[Job].at
        <4>1. n \in 1..25 /\ SeenAt(n, View(Job)) /\ WrittenAt(n, tx[Job].own, db)
          BY <3>3, JobAt
        <4>2. View(Job)' = View(Job)
          BY <1>2, <3>1 DEF View
        <4>3. Held(Job) = {UpgradeScript[k] : k \in 1..(n - 1)}
          BY <2>1, <3>3, ScriptFacts DEF Held
        <4> HIDE DEF n
        <4> QED
          BY <1>2, <3>1, <4>1, <4>2, <4>3, JobAtNext
      <3> QED
        BY <3>2, <3>3
    <2> QED
      BY <2>2, <2>3
  <1> QED
    BY <1>1, <1>3, <1>4, <1>5 DEF Inductive, TypeOK, Transactions

\* A transaction commits, whatever the job is doing.
LEMMA CommitStep ==
    ASSUME Inductive, NEW w \in Writers, Commit(w)
    PROVE  Inductive'
  <1>1. /\ db' = View(w) /\ Satisfies(View(w), schema) /\ schema' = schema
        /\ writes' = writes + 1
        /\ tx' = [tx EXCEPT ![w] = [script |-> <<>>, at |-> 1, own |-> Nothing]]
    BY DEF Commit, NoTransaction
  <1>2. w \in Connections /\ Job \in Connections /\ w # Job
    BY AbsentAssumption DEF Connections
  <1>3. /\ Transactions'
        /\ tx'[w] = NoTransaction
        /\ \A b \in Connections : b # w => tx'[b] = tx[b] /\ Held(b)' = Held(b)
    <2>1. Len(<<>>) \in Nat
      OBVIOUS
    <2> QED
      BY <1>1, <1>2, <2>1, ResetTransaction DEF NoTransaction
  <1>4. /\ db' \in [Rows -> Value] /\ AbsentRows(db')
        /\ \A r \in Rows : db'[r] = IF r \in DOMAIN tx[w].own THEN tx[w].own[r] ELSE db[r]
    BY <1>1, <1>2, ViewFacts
  <1>5. schema' \in {"initial", "head"} /\ writes' \in Nat /\ RevisionHolds'
    BY <1>1 DEF Inductive, TypeOK, RevisionHolds
  <1>6. ASSUME NEW b \in Connections
        PROVE  Scripted(b)'
    <2>1. CASE b = w
      BY <1>3, <2>1 DEF Scripted, NoTransaction
    <2>2. CASE b # w
      <3>1. Scripted(b) /\ tx'[b] = tx[b]
        BY <1>3, <2>2 DEF Inductive
      <3> QED
        BY <1>1, <3>1 DEF Scripted
    <2> QED
      BY <2>1, <2>2
  <1>7. tx'[Job] = tx[Job] /\ Held(Job)' = Held(Job)
    BY <1>2, <1>3
  <1>8. CASE ~Running(Job)
    <2>1. JobSees' /\ JobWrites'
      BY <1>2, <1>7, <1>8, IdleFacts, JobIdle
    <2> QED
      BY <1>3, <1>4, <1>5, <1>6, <2>1 DEF Inductive, TypeOK, Transactions
  <1>9. CASE Running(Job)
    <2> DEFINE n == tx[Job].at
               own == tx[Job].own
               seen == View(Job)
               next == View(Job)'
    <2>1. n \in 1..25 /\ SeenAt(n, seen) /\ WrittenAt(n, own, db)
      BY <1>9, JobAt
    <2>2. Held(Job) = {UpgradeScript[k] : k \in 1..(n - 1)}
      BY <1>2, <1>9, ScriptFacts DEF Held
    <2>3. \A r \in DOMAIN tx[w].own : ~Excludes(r.table) /\ r \notin DOMAIN own
      BY NotWritten
    <2>4. \A r \in Rows : /\ r \in DOMAIN own => db'[r] = db[r]
                          /\ Excludes(r.table) => db'[r] = db[r]
      BY <1>4, <2>3
    <2>5. /\ db \in [Rows -> Value] /\ Writes(own)
          /\ \A r \in Rows : seen[r] = IF r \in DOMAIN own THEN own[r] ELSE db[r]
      BY <1>2, ViewFacts, OwnFacts DEF Inductive, TypeOK
    <2>6. \A r \in Rows : next[r] = IF r \in DOMAIN own THEN own[r] ELSE db'[r]
      <3>1. next = Overwritten(db', own)
        BY <1>7 DEF View
      <3> HIDE DEF next, own
      <3> QED
        BY <1>4, <2>5, <3>1, OverwrittenFacts
    <2>7. /\ n > 1 => Excludes("sessions")
          /\ n > 3 => Excludes("oauth_login_states")
          /\ n > 5 => Excludes("documents")
          /\ n > 6 => Excludes("document_versions")
          /\ \A k \in 1..6 : n > 5 + 2 * k => Excludes(PrincipalTables[k])
          /\ n > 8 => Excludes("organization_memberships")
          /\ n > 17 => Excludes("organization_invitations")
      BY <1>9, <2>1, JobExcludes
    <2> HIDE DEF n, own, seen, next
    <2>8. \A table : Excludes(table) => Like(seen, next, table)
      BY <2>4, <2>5, <2>6 DEF Like, Of
    <2>9. SeenAt(n, next)
      <3>1. /\ n > 1 => Like(seen, next, "sessions")
            /\ n > 3 => Like(seen, next, "oauth_login_states")
            /\ n > 6 => Like(seen, next, "documents") /\ Like(seen, next, "document_versions")
        BY <2>1, <2>7, <2>8
      <3>2. \A k \in 1..6 : n > 6 + 2 * k =>
                Like(seen, next, PrincipalTables[k]) /\ Like(seen, next, "organization_memberships")
        <4>1. \A k \in 1..6 : n > 6 + 2 * k => n > 5 + 2 * k /\ n > 8
          BY <2>1
        <4> QED
          BY <2>7, <2>8, <4>1
      <3> QED
        BY <2>1, <3>1, <3>2, SeenKept
    <2>10. ASSUME NEW r \in DOMAIN own
           PROVE  WrittenRow(own, db', r)
      <3>1. r \in Rows /\ WrittenRow(own, db, r) /\ db'[r] = db[r]
        BY <2>1, <2>4, <2>5 DEF WrittenAt, Writes
      <3>2. ASSUME r \in Present(db, "documents"), ForeignIn(db, r)
            PROVE  r \in Present(db', "documents") /\ ForeignIn(db', r)
        <4>1. PointersInOrganization(db)
          BY DEF Inductive, RevisionHolds, Satisfies
        <4>2. /\ db[r].ref # NoVersion /\ db[r].ref \in Present(db, "document_versions")
              /\ db[r].ref.org = r.org
          BY <3>2, <4>1 DEF PointersInOrganization, ForeignIn
        <4>3. db[r].ref.of # r.of
          BY <3>2, <4>2 DEF ForeignIn, OwnVersions
        <4> QED
          BY <3>1, <3>2, <4>2, <4>3 DEF Present, ForeignIn, OwnVersions
      <3> QED
        BY <3>1, <3>2 DEF WrittenRow
    <2>11. n > 19 => Demoted(db') = Demoted(db)
      <3> SUFFICES ASSUME n > 19 PROVE Demoted(db') = Demoted(db)
        OBVIOUS
      <3>1. Excludes("organization_memberships")
        BY <2>1, <2>7
      <3>2. \A m \in Of("organization_memberships") : db'[m] = db[m]
        BY <2>4, <3>1 DEF Of
      <3> QED
        BY <3>2, SameDemoted
    <2>12. n > 21 => Revoked(db') = Revoked(db)
      <3> SUFFICES ASSUME n > 21 PROVE Revoked(db') = Revoked(db)
        OBVIOUS
      <3>1. Excludes("organization_invitations")
        BY <2>1, <2>7
      <3>2. \A i \in Of("organization_invitations") : db'[i] = db[i]
        BY <2>4, <3>1 DEF Of
      <3> QED
        BY <3>2, SameRevoked
    <2>13. WrittenAt(n, own, db')
      BY <2>1, <2>10, <2>11, <2>12 DEF WrittenAt
    <2>14. tx'[Job].own = own /\ Held(Job)' = {UpgradeScript[k] : k \in 1..(n - 1)}
      BY <1>7, <2>2 DEF own
    <2>15. JobSees' /\ JobWrites'
      BY <2>1, <2>9, <2>13, <2>14, JobAtNext DEF next
    <2> QED
      BY <1>3, <1>4, <1>5, <1>6, <2>15 DEF Inductive, TypeOK, Transactions
  <1> QED
    BY <1>8, <1>9

\* Where the job commits.
LEMMA AtFinish ==
    ASSUME Inductive, Finish
    PROVE  /\ db' = View(Job) /\ Satisfies(View(Job), "head") /\ schema' = "head"
           /\ PointersOwn(View(Job)) /\ SeenAt(25, View(Job))
           /\ WrittenAt(25, tx[Job].own, db)
  <1>1. AtEnd(Job) /\ Running(Job) /\ db' = View(Job) /\ schema' = "head"
    BY DEF Finish, AtEnd
  <1>2. Job \in Connections
    BY DEF Connections
  <1>3. tx[Job].at = 25
    <2>1. tx[Job].at = Len(tx[Job].script) + 1 /\ Len(tx[Job].script) = 24
      BY <1>1, <1>2, ScriptFacts
    <2> QED
      BY <2>1
  <1>4. SeenAt(25, View(Job)) /\ WrittenAt(25, tx[Job].own, db)
    BY <1>1, <1>3, JobAt
  <1>5. /\ db \in [Rows -> Value]
        /\ \A r \in Rows : View(Job)[r] = IF r \in DOMAIN tx[Job].own THEN tx[Job].own[r] ELSE db[r]
    BY <1>2, ViewFacts DEF Inductive, TypeOK
  <1>6. Satisfies(View(Job), "head")
    BY <1>4, <1>5, HeadSeen
  <1> QED
    BY <1>1, <1>4, <1>6 DEF Satisfies

LEMMA FinishStep ==
    ASSUME Inductive, Finish
    PROVE  Inductive'
  <1>1. /\ tx' = [tx EXCEPT ![Job] = [script |-> <<>>, at |-> 1, own |-> Nothing]]
        /\ writes' = writes
    BY DEF Finish, NoTransaction
  <1>2. Job \in Connections
    BY DEF Connections
  <1>3. /\ Transactions'
        /\ tx'[Job] = NoTransaction /\ Held(Job)' = {}
        /\ \A b \in Connections : b # Job => tx'[b] = tx[b] /\ Held(b)' = Held(b)
    <2>1. Len(<<>>) \in Nat
      OBVIOUS
    <2> QED
      BY <1>1, <1>2, <2>1, ResetTransaction DEF NoTransaction
  <1>4. /\ db' \in [Rows -> Value] /\ AbsentRows(db')
        /\ schema' = "head" /\ RevisionHolds'
    BY <1>2, AtFinish, ViewFacts DEF RevisionHolds
  <1>5. ASSUME NEW b \in Connections
        PROVE  Scripted(b)'
    <2>1. CASE b = Job
      BY <1>3, <2>1 DEF Scripted, NoTransaction
    <2>2. CASE b # Job
      <3>1. Scripted(b) /\ tx'[b] = tx[b]
        BY <1>3, <2>2 DEF Inductive
      <3> QED
        BY <2>2, <3>1 DEF Scripted
    <2> QED
      BY <2>1, <2>2
  <1>6. JobSees' /\ JobWrites'
    BY <1>3, JobIdle DEF NoTransaction
  <1>7. writes' \in Nat
    BY <1>1 DEF Inductive, TypeOK
  <1> QED
    BY <1>3, <1>4, <1>5, <1>6, <1>7 DEF Inductive, TypeOK, Transactions

LEMMA RollbackStep ==
    ASSUME Inductive, NEW c \in Connections, Rollback(c)
    PROVE  Inductive'
  <1>1. Len(<<>>) \in Nat
    OBVIOUS
  <1>2. /\ tx' = [tx EXCEPT ![c] = [script |-> <<>>, at |-> 1, own |-> Nothing]]
        /\ UNCHANGED <<db, schema, writes>>
    BY DEF Rollback, NoTransaction
  <1> QED
    BY <1>1, <1>2, ResetStep

LEMMA InductiveInit ==
    ASSUME Init
    PROVE  Inductive
  <1>1. /\ db \in [Rows -> Value] /\ Satisfies(db, "initial") /\ AbsentRows(db)
        /\ schema = "initial" /\ writes = 0
    BY LegacyAssumption DEF Init
  <1>2. tx = [c \in Connections |-> [script |-> <<>>, at |-> 1, own |-> Nothing]]
    BY DEF Init, NoTransaction
  <1>3. \A c \in Connections : tx[c].script = <<>> /\ tx[c].at = 1 /\ tx[c].own = Nothing
    BY <1>2
  <1>4. \A c \in Connections : Held(c) = {}
    BY <1>3 DEF Held
  <1>5. TypeOK
    <2>1. tx = [c \in Connections |->
                   [script |-> tx[c].script, at |-> tx[c].at, own |-> tx[c].own]]
      BY <1>2
    <2>2. ASSUME NEW c \in Connections
          PROVE  /\ tx[c].at \in 1..(Len(tx[c].script) + 1)
                 /\ tx[c].own = [r \in DOMAIN tx[c].own |-> tx[c].own[r]]
                 /\ DOMAIN tx[c].own \subseteq Rows
                 /\ \A r \in DOMAIN tx[c].own : tx[c].own[r] \in Value
      <3>1. Nothing = [r \in DOMAIN Nothing |-> Nothing[r]] /\ DOMAIN Nothing = {}
        BY DEF Nothing
      <3>2. Len(<<>>) = 0
        OBVIOUS
      <3> QED
        BY <1>3, <3>1, <3>2
    <2> QED
      BY <1>1, <2>1, <2>2 DEF TypeOK
  <1>6. \A c \in Connections : Scripted(c) /\ WritesHeld(c)
    BY <1>2, <1>3, NothingFacts DEF Scripted, WritesHeld, NoTransaction
  <1>7. LocksCompatible
    BY <1>3, <1>4, NothingFacts DEF LocksCompatible
  <1>8. Job \in Connections
    BY DEF Connections
  <1>9. \A do, table : ~Done(do, table)
    BY <1>4, <1>8 DEF Done
  <1>10. JobSees
    BY <1>9 DEF JobSees
  <1>11. JobWrites
    BY <1>3, <1>8, <1>9, NothingFacts DEF JobWrites
  <1> QED
    BY <1>1, <1>5, <1>6, <1>7, <1>10, <1>11 DEF Inductive, RevisionHolds

LEMMA InductiveStep ==
    ASSUME Inductive, [Next]_vars
    PROVE  Inductive'
  <1>1. CASE Launch
    <2>1. /\ Job \in Connections /\ Len(UpgradeScript) \in Nat /\ schema = "initial"
          /\ Begin(Job, UpgradeScript)
      BY <1>1, JobStatements DEF Launch, Connections
    <2> QED
      BY <2>1, ResetStep DEF Begin
  <1>2. CASE Finish
    BY <1>2, FinishStep
  <1>3. ASSUME NEW w \in Writers, Start(w)
        PROVE  Inductive'
    <2>1. w \in Connections /\ w # Job
      BY AbsentAssumption DEF Connections
    <2>2. PICK script \in Scripts : Begin(w, script)
      BY <1>3 DEF Start
    <2>3. Len(script) \in Nat
      BY WriterScripts DEF WriterScript
    <2> QED
      BY <2>1, <2>2, <2>3, ResetStep DEF Begin
  <1>4. ASSUME NEW w \in Writers, Commit(w)
        PROVE  Inductive'
    BY <1>4, CommitStep
  <1>5. ASSUME NEW w \in Writers, Refuse(w)
        PROVE  Inductive'
    <2>1. w \in Connections /\ Rollback(w)
      BY <1>5 DEF Refuse, Connections
    <2> QED
      BY <2>1, RollbackStep
  <1>6. ASSUME NEW c \in Connections, Execute(c)
        PROVE  Inductive'
    BY <1>6, ExecuteStep
  <1>7. ASSUME NEW c \in Connections, Fail(c) \/ Break(c) \/ Abort(c)
        PROVE  Inductive'
    <2>1. Rollback(c)
      BY <1>7 DEF Fail, Break, Abort
    <2> QED
      BY <2>1, RollbackStep
  <1>8. CASE UNCHANGED vars
    <2>1. db' = db /\ schema' = schema /\ tx' = tx /\ writes' = writes
      BY <1>8 DEF vars
    <2>2. \A c \in Connections : Held(c)' = Held(c)
      BY <2>1 DEF Held
    <2>3. View(Job)' = View(Job) /\ Held(Job)' = Held(Job)
      BY <2>1 DEF View, Held
    <2>4. TypeOK' /\ RevisionHolds' /\ AbsentRows(db')
      BY <2>1 DEF Inductive, TypeOK, RevisionHolds
    <2>5. \A c \in Connections : Scripted(c)' /\ WritesHeld(c)'
      BY <2>1, <2>2 DEF Inductive, Scripted, WritesHeld
    <2>6. LocksCompatible'
      BY <2>1, <2>2 DEF Inductive, LocksCompatible
    <2>7. \A do, table : Done(do, table)' <=> Done(do, table)
      BY <2>3 DEF Done
    <2>8. JobSees'
      BY <2>3, <2>7 DEF Inductive, JobSees
    <2>9. JobWrites'
      BY <2>1, <2>7 DEF Inductive, JobWrites
    <2> QED
      BY <2>4, <2>5, <2>6, <2>8, <2>9 DEF Inductive
  <1> QED
    BY <1>1, <1>2, <1>3, <1>4, <1>5, <1>6, <1>7, <1>8 DEF Next

\* In every reachable state the locks that are held exclude each other, whoever has
\* written a row holds the lock of its table, and what the job has looked at or
\* changed is still as it left it (versions/a42f85c9d319, f6f5b16f7d31, env.py).
THEOREM InductiveInvariant == Spec => []Inductive
  <1>1. Init => Inductive
    BY InductiveInit
  <1>2. Inductive /\ [Next]_vars => Inductive'
    BY InductiveStep
  <1> QED
    BY <1>1, <1>2, PTL DEF Spec

\* The committed rows satisfy the constraints of the committed revision, whatever
\* the previous release and others write while the job runs.
THEOREM RevisionAlwaysHolds == Spec => []RevisionHolds
  <1>1. Inductive => RevisionHolds
    BY DEF Inductive
  <1> QED
    BY <1>1, InductiveInvariant, PTL

\* The job is never refused by an active owner or a pending invitation that another
\* connection wrote between a deduplication and the unique index behind it.
THEOREM NeverRefusedByIndexes == Spec => []IndexesNeverRefuse
  <1>1. ASSUME Inductive
        PROVE  IndexesNeverRefuse
    <2> SUFFICES ASSUME Running(Job), ~AtEnd(Job), Current(Job).do \in {"owners", "pending"}
                 PROVE  Accepts(View(Job), Current(Job))
      BY DEF IndexesNeverRefuse
    <2> DEFINE n == tx[Job].at
               own == tx[Job].own
               seen == View(Job)
    <2>1. Job \in Connections
      BY DEF Connections
    <2>2. Current(Job) = UpgradeScript[n] /\ n \in 1..24
      BY <1>1, <2>1, CurrentFacts
    <2>3. WrittenAt(n, own, db)
      BY <1>1, JobAt
    <2>4. /\ db \in [Rows -> Value]
          /\ \A r \in Rows : seen[r] = IF r \in DOMAIN own THEN own[r] ELSE db[r]
      BY <1>1, <2>1, ViewFacts DEF Inductive, TypeOK
    <2>5. UpgradeScript[n].do \in {"owners", "pending"}
      BY <2>2
    <2> HIDE DEF n, own, seen
    <2>6. /\ UpgradeScript[n].do = "owners" => n = 20
          /\ UpgradeScript[n].do = "pending" => n = 22
      <3>1. ASSUME NEW j \in 1..6, n = 5 + 2 * j \/ n = 6 + 2 * j
            PROVE  UpgradeScript[n].do = "nothing" \/ UpgradeScript[n].do = PrincipalTables[j]
        <4>1. /\ Does(5 + 2 * j, PrincipalTables[j], "ShareRowExclusive", "nothing")
              /\ Does(6 + 2 * j, "organization_memberships", "ShareRowExclusive", PrincipalTables[j])
          BY JobStatements
        <4> QED
          BY <3>1, <4>1 DEF Does
      <3>2. \A j \in 1..6 : PrincipalTables[j] \notin {"owners", "pending"}
        BY PrincipalNames
      <3>3. CASE n \in 1..6 \/ n \in 19..24
        <4>1. \/ n = 1 \/ n = 2 \/ n = 3 \/ n = 4 \/ n = 5 \/ n = 6
              \/ n = 19 \/ n = 20 \/ n = 21 \/ n = 22 \/ n = 23 \/ n = 24
          BY <3>3
        <4> QED
          BY SMTT(40), <4>1, JobStatements DEF Does
      <3>4. CASE \E j \in 1..6 : n = 5 + 2 * j \/ n = 6 + 2 * j
        BY <3>1, <3>2, <3>4
      <3> QED
        BY <2>2, <3>3, <3>4, JobIndexes
    <2>7. UpgradeScript[n].do = "owners" => OneActiveOwner(seen)
      <3> SUFFICES ASSUME n = 20 PROVE OneActiveOwner(seen)
        BY <2>6
      <3>1. WrittenAs(own, "organization_memberships", Demoted(db))
        BY <2>3 DEF WrittenAt
      <3> QED
        BY <2>4, <3>1, OneOwnerSeen
    <2>8. UpgradeScript[n].do = "pending" => OnePendingInvitation(seen)
      <3> SUFFICES ASSUME n = 22 PROVE OnePendingInvitation(seen)
        BY <2>6
      <3>1. WrittenAs(own, "organization_invitations", Revoked(db))
        BY <2>3 DEF WrittenAt
      <3> QED
        BY <2>4, <3>1, OneInvitationSeen
    <2>9. \A k \in DOMAIN PrincipalTables : PrincipalTables[k] \notin {"owners", "pending"}
      BY PrincipalNames
    <2>10. Accepts(seen, UpgradeScript[n])
      BY <2>5, <2>7, <2>8, <2>9 DEF Accepts
    <2> QED
      BY <2>2, <2>10 DEF seen
  <1> QED
    BY <1>1, InductiveInvariant, PTL

\* A row as the upgrade leaves it.
LEMMA RepairedRow ==
    ASSUME Inductive, Finish, NEW r \in Rows
    PROVE  db'[r] \in Upgraded(r)
  <1> DEFINE own == tx[Job].own
             seen == View(Job)
             Owners == ActiveOwners(db, r.org)
             Invited == Pending(db, r.org, r.of)
             members == "organization_memberships"
             invitations == "organization_invitations"
  <1>1. Job \in Connections
    BY DEF Connections
  <1>2. /\ db' = seen /\ SeenAt(25, seen) /\ WrittenAt(25, own, db) /\ PointersOwn(seen)
    BY AtFinish
  <1>3. /\ db \in [Rows -> Value] /\ seen \in [Rows -> Value] /\ AbsentRows(seen)
        /\ \A x \in Rows : seen[x] = IF x \in DOMAIN own THEN own[x] ELSE db[x]
    BY <1>1, ViewFacts DEF Inductive, TypeOK
  <1> HIDE DEF own, seen
  <1>4. /\ \A x \in DOMAIN own : WrittenRow(own, db, x)
        /\ WrittenAs(own, members, Demoted(db)) /\ WrittenAs(own, invitations, Revoked(db))
    BY <1>2 DEF WrittenAt
  <1>5. ASSUME NEW x \in Rows, x \in DOMAIN own
        PROVE  x.table \in Emptying \cup Repeated \cup {"documents"}
    BY <1>4, <1>5 DEF WrittenRow
  <1>6. Owners \subseteq Of(members) /\ Invited \subseteq Of(invitations)
    BY DEF ActiveOwners, Pending
  <1>7. CASE r.table \in Emptying
    <2>1. r \notin Present(seen, "sessions") /\ r \notin Present(seen, "oauth_login_states")
      BY <1>2 DEF SeenAt
    <2>2. seen[r].status = "absent"
      BY <1>7, <2>1 DEF Present, Of, Emptying
    <2>3. seen[r] = Absent
      BY <1>3, <2>2 DEF AbsentRows
    <2>4. /\ r.table \in {"sessions", "oauth_login_states"}
          /\ r \notin Owners /\ r \notin Invited /\ r \notin Present(db, "documents")
      BY <1>7 DEF Emptying, ActiveOwners, Pending, Present, Of
    <2>5. Upgraded(r) = {Absent}
      BY <2>4 DEF Upgraded
    <2> QED
      BY <1>2, <2>3, <2>5
  <1>8. CASE r.table = members
    <2>1. r \in Of(members) /\ r \notin Invited /\ r \notin Present(db, "documents")
          /\ r.table \notin {"sessions", "oauth_login_states"}
      BY <1>8 DEF Of, Pending, Present
    <2>2. \A m \in Owners : m \in Of(members) /\ m.rank \in Nat
      BY <1>6, RowAssumption DEF Of
    <2>3. r \in DOMAIN Demoted(db) <=> r \in Owners \ Oldest(Owners)
      <3>1. r \in DOMAIN Demoted(db) <=>
                db[r].status = "OWNER" /\ \E other \in Owners : other.rank < r.rank
        BY <1>3, <2>1, DemotedFacts
      <3>2. r \in Owners <=> db[r].status = "OWNER"
        BY <2>1 DEF ActiveOwners
      <3>3. r \in Oldest(Owners) <=> r \in Owners /\ \A other \in Owners : r.rank <= other.rank
        BY DEF Oldest
      <3> HIDE DEF Owners
      <3> QED
        BY <2>2, <3>1, <3>2, <3>3
    <2>4. CASE r \in DOMAIN Demoted(db)
      <3>1. seen[r] = [db[r] EXCEPT !.status = "ADMIN"]
        BY <1>3, <1>4, <2>4, DemotedFacts DEF WrittenAs
      <3>2. Upgraded(r) = {[db[r] EXCEPT !.status = "ADMIN"]}
        BY <2>1, <2>3, <2>4 DEF Upgraded
      <3> QED
        BY <1>2, <3>1, <3>2
    <2>5. CASE r \notin DOMAIN Demoted(db)
      <3>1. r \notin DOMAIN own
        BY <1>4, <1>8, <2>5 DEF WrittenAs
      <3>2. seen[r] = db[r]
        BY <1>3, <3>1
      <3>3. Upgraded(r) = {db[r]}
        BY <2>1, <2>3, <2>5 DEF Upgraded
      <3> QED
        BY <1>2, <3>2, <3>3
    <2> QED
      BY <2>4, <2>5
  <1>9. CASE r.table = invitations
    <2>1. r \in Of(invitations) /\ r \notin Owners /\ r \notin Present(db, "documents")
          /\ r.table \notin {"sessions", "oauth_login_states"}
      BY <1>9 DEF Of, ActiveOwners, Present
    <2>2. \A i \in Invited : i \in Of(invitations) /\ i.rank \in Nat
      BY <1>6, RowAssumption DEF Of
    <2>3. r \in DOMAIN Revoked(db) <=> r \in Invited \ Newest(Invited)
      <3>1. r \in DOMAIN Revoked(db) <=>
                db[r].status = "PENDING" /\ \E other \in Invited : other.rank > r.rank
        BY <1>3, <2>1, RevokedFacts
      <3>2. r \in Invited <=> db[r].status = "PENDING"
        BY <2>1 DEF Pending
      <3>3. r \in Newest(Invited) <=> r \in Invited /\ \A other \in Invited : r.rank >= other.rank
        BY DEF Newest
      <3> HIDE DEF Invited
      <3> QED
        BY <2>2, <3>1, <3>2, <3>3
    <2>4. CASE r \in DOMAIN Revoked(db)
      <3>1. seen[r] = [db[r] EXCEPT !.status = "REVOKED"]
        BY <1>3, <1>4, <2>4, RevokedFacts DEF WrittenAs
      <3>2. Upgraded(r) = {[db[r] EXCEPT !.status = "REVOKED"]}
        BY <2>1, <2>3, <2>4 DEF Upgraded
      <3> QED
        BY <1>2, <3>1, <3>2
    <2>5. CASE r \notin DOMAIN Revoked(db)
      <3>1. r \notin DOMAIN own
        BY <1>4, <1>9, <2>5 DEF WrittenAs
      <3>2. seen[r] = db[r]
        BY <1>3, <3>1
      <3>3. Upgraded(r) = {db[r]}
        BY <2>1, <2>3, <2>5 DEF Upgraded
      <3> QED
        BY <1>2, <3>2, <3>3
    <2> QED
      BY <2>4, <2>5
  <1>10. CASE r.table \notin Emptying \cup Repeated
    <2>1. /\ r \notin Owners /\ r \notin Invited
          /\ r.table \notin {"sessions", "oauth_login_states"}
      BY <1>10 DEF ActiveOwners, Pending, Of, Emptying, Repeated
    <2>2. CASE r \in Present(db, "documents") /\ ForeignIn(db, r)
      <3>1. \A v \in Of("document_versions") : seen[v] = db[v]
        <4>1. \A v \in Of("document_versions") : v \in Rows /\ v \notin DOMAIN own
          BY <1>5 DEF Of, Emptying, Repeated
        <4> QED
          BY <1>3, <4>1
      <3>2. OwnVersions(seen, r) = OwnVersions(db, r)
        BY <3>1 DEF OwnVersions, Present
      <3>3. r.table = "documents" /\ db[r].status # "absent" /\ db[r] \in Value
        BY <1>3, <2>2 DEF Present, Of
      <3>4. seen[r] = [db[r] EXCEPT !.ref = seen[r].ref] /\ seen[r].status # "absent"
        <4>1. CASE r \in DOMAIN own
          <5>1. own[r] = [db[r] EXCEPT !.ref = own[r].ref]
            BY <1>4, <3>3, <4>1 DEF WrittenRow, Emptying, Repeated
          <5>2. seen[r] = own[r]
            BY <1>3, <4>1
          <5>3. own[r].status = db[r].status
            BY <3>3, <5>1 DEF Value
          <5> QED
            BY <3>3, <5>1, <5>2, <5>3
        <4>2. CASE r \notin DOMAIN own
          BY <1>3, <3>3, <4>2 DEF Value
        <4> QED
          BY <4>1, <4>2
      <3>5. seen[r].ref \in OwnVersions(db, r) \cup {NoVersion}
        BY <1>2, <3>2, <3>3, <3>4 DEF PointersOwn, Present, Of
      <3>6. Upgraded(r) = {[db[r] EXCEPT !.ref = v] : v \in OwnVersions(db, r) \cup {NoVersion}}
        BY <2>1, <2>2 DEF Upgraded, ForeignIn
      <3> QED
        BY <1>2, <3>4, <3>5, <3>6
    <2>3. CASE ~(r \in Present(db, "documents") /\ ForeignIn(db, r))
      <3>1. r \notin DOMAIN own
        BY <1>4, <1>10, <2>3 DEF WrittenRow
      <3>2. seen[r] = db[r]
        BY <1>3, <3>1
      <3>3. Upgraded(r) = {db[r]}
        BY <2>1, <2>3 DEF Upgraded, ForeignIn
      <3> QED
        BY <1>2, <3>2, <3>3
    <2> QED
      BY <2>2, <2>3
  <1> QED
    BY <1>7, <1>8, <1>9, <1>10 DEF Repeated

\* The upgrade, by what is committed at that moment: the oldest of several active
\* owners is left and the newest of several pending invitations, a current version
\* changes only if it was another document's, sessions and sign-ins in progress go,
\* and nothing else changes (versions/a42f85c9d319, f6f5b16f7d31).
THEOREM UpgradeOnlyRepairs == Spec => UpgradeRepairs
  <1>1. Inductive /\ [Next]_vars =>
            [schema' # schema => \A r \in Rows : db'[r] \in Upgraded(r)]_vars
    <2> SUFFICES ASSUME Inductive, Next, schema' # schema, NEW r \in Rows
                 PROVE  db'[r] \in Upgraded(r)
      BY Zenon
    <2>1. Finish
      BY DEF Next, Launch, Start, Begin, Commit, Refuse, Execute, Fail, Break, Abort, Rollback
    <2> QED
      BY <2>1, RepairedRow
  <1> QED
    BY <1>1, InductiveInvariant, PTL DEF Spec, UpgradeRepairs

-----------------------------------------------------------------------------
(* Deadlocks                                                               *)

\* Requests and direct writes lock tables in modes that do not exclude each other: one
\* waits for another only at the row it is about to write.
LEMMA WritersWaitForRows ==
    ASSUME Inductive, NEW a \in Writers, NEW b \in Writers, Blocks(a, b)
    PROVE  /\ Running(b) /\ ~AtEnd(b) /\ Writing(Current(b))
           /\ Current(b).row \in DOMAIN tx[a].own
  <1>1. a \in Connections /\ b \in Connections /\ a # Job /\ b # Job
    BY AbsentAssumption DEF Connections
  <1>2. Running(b) /\ ~AtEnd(b)
    BY DEF Blocks
  <1>3. WriterStatement(Current(b))
    BY <1>1, <1>2, CurrentFacts
  <1>4. \A s \in Held(a) : Current(b).mode \notin Conflicting[s.mode]
    <2> SUFFICES ASSUME NEW s \in Held(a)
                 PROVE  Current(b).mode \notin Conflicting[s.mode]
      OBVIOUS
    <2>1. WriterStatement(s)
      BY <1>1, HeldFacts
    <2> QED
      BY <1>3, <2>1 DEF WriterStatement, Conflicting
  <1>5. DOMAIN tx[a].own \cap DOMAIN Effect(View(b), Current(b)) # {}
    BY <1>4 DEF Blocks
  <1> QED
    BY <1>2, <1>3, <1>5, WriterEffect

\* A writer that has written a row and waits for another one holds no row of the
\* tables that are written last, and waits for such a row.
LEMMA WaitsForLast ==
    ASSUME Inductive, NEW b \in Writers, Running(b), ~AtEnd(b), Writing(Current(b)),
           NEW x \in DOMAIN tx[b].own
    PROVE  x.table \notin LastTables /\ Current(b).row.table \in LastTables
  <1>1. b \in Connections /\ b # Job
    BY AbsentAssumption DEF Connections
  <1>2. PICK s \in Held(b) : s.do \in {"write", "insert"} /\ s.row = x
    BY <1>1 DEF Inductive, WritesHeld
  <1>3. PICK j \in 1..(tx[b].at - 1) : j \in 1..Len(tx[b].script) /\ s = tx[b].script[j]
    BY <1>1, HeldFacts
  <1>4. tx[b].at \in 1..Len(tx[b].script) /\ WriterScript(tx[b].script)
    BY <1>1, ScriptFacts
  <1>5. Current(b) = tx[b].script[tx[b].at] /\ j < tx[b].at
    BY <1>3, <1>4 DEF Current
  <1>6. s.table \notin LastTables /\ Current(b).table \in LastTables
    BY <1>2, <1>3, <1>4, <1>5 DEF WriterScript, Writing
  <1>7. s.table = x.table /\ Current(b).table = Current(b).row.table
    <2>1. WriterStatement(s) /\ WriterStatement(Current(b))
      BY <1>1, HeldFacts, CurrentFacts
    <2> QED
      BY <1>2, <2>1 DEF WriterStatement, Writing
  <1> QED
    BY <1>6, <1>7

\* A request that has read its session is never in a cycle of waiting transactions.
\* While it runs the job waits for its first lock and holds nothing; and without the
\* job there is no cycle, because requests write their rows in the same order.
THEOREM SignedInIsNoVictim == Spec => []SignedInNeverVictim
  <1>1. ASSUME Inductive
        PROVE  SignedInNeverVictim
    <2> SUFFICES ASSUME NEW w \in Writers, SignedIn(w), NEW cycle \in SUBSET Connections, w \in cycle,
                        \A b \in cycle : /\ \E a \in cycle : Blocks(a, b)
                                         /\ \E a \in cycle : Blocks(b, a)
                 PROVE  FALSE
      BY DEF SignedInNeverVictim, Deadlocked
    <2>1. w \in Connections /\ w # Job /\ Job \in Connections
      BY AbsentAssumption DEF Connections
    <2>2. Job \notin cycle
      <3> SUFFICES ASSUME Job \in cycle PROVE FALSE
        OBVIOUS
      <3>1. PICK a \in cycle : Blocks(Job, a)
        OBVIOUS
      <3>2. CASE Held(Job) = {}
        <4>1. DOMAIN tx[Job].own = {}
          BY <1>1, <2>1, <3>2 DEF Inductive, WritesHeld
        <4> QED
          BY <3>1, <3>2, <4>1 DEF Blocks
      <3>3. CASE Held(Job) # {}
        <4>1. Running(Job) /\ tx[Job].at \in 1..25
          BY <1>1, <2>1, <3>3, HeldFacts, DoneNow
        <4>2. tx[Job].at > 1 /\ 1 \in 1..(tx[Job].at - 1)
          BY <3>3, <4>1 DEF Held
        <4>3. UpgradeScript[1] \in Held(Job)
          BY <1>1, <2>1, <4>1, <4>2, ScriptFacts DEF Held
        <4>4. UpgradeScript[1].table = "sessions" /\ UpgradeScript[1].mode = "AccessExclusive"
          BY JobStatements DEF Does
        <4> DEFINE t == tx[w].script[1]
        <4>5. Running(w) /\ t.table = "sessions" /\ tx[w].at > 1
          BY DEF SignedIn
        <4>6. t \in Held(w)
          <5>1. tx[w].at \in Nat
            BY <1>1, <2>1, <4>5, ScriptFacts
          <5>2. 1 \in 1..(tx[w].at - 1)
            BY <4>5, <5>1
          <5> QED
            BY <5>2 DEF Held
        <4>7. t.mode \in Modes
          BY <1>1, <2>1, <4>6, HeldFacts
        <4>8. t.mode \notin Conflicting["AccessExclusive"]
          BY <1>1, <2>1, <4>3, <4>4, <4>5, <4>6 DEF Inductive, LocksCompatible
        <4> QED
          BY <4>7, <4>8, ModeNames DEF Conflicting
      <3> QED
        BY <3>2, <3>3
    <2>3. cycle \subseteq Writers
      BY <2>2 DEF Connections
    <2>4. PICK a \in cycle : Blocks(a, w)
      OBVIOUS
    <2>5. PICK b \in cycle : Blocks(b, a)
      OBVIOUS
    <2>6. PICK c \in cycle : Blocks(w, c)
      OBVIOUS
    <2>7. /\ Running(w) /\ ~AtEnd(w) /\ Writing(Current(w)) /\ Current(w).row \in DOMAIN tx[a].own
          /\ Running(a) /\ ~AtEnd(a) /\ Writing(Current(a))
      BY <1>1, <2>3, <2>4, <2>5, WritersWaitForRows
    <2>8. Current(c).row \in DOMAIN tx[w].own
      BY <1>1, <2>3, <2>6, WritersWaitForRows
    <2>9. Current(w).row.table \notin LastTables
      BY <1>1, <2>3, <2>7, WaitsForLast
    <2>10. Current(w).row.table \in LastTables
      BY <1>1, <2>3, <2>7, <2>8, WaitsForLast
    <2> QED
      BY <2>9, <2>10
  <1> QED
    BY <1>1, InductiveInvariant, PTL
=============================================================================
