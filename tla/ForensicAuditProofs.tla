------------------------ MODULE ForensicAuditProofs -------------------------
(***************************************************************************)
(* Proofs about ForensicAudit, for every image, every number of snapshots  *)
(* and every cap on them.                                                  *)
(***************************************************************************)
EXTENDS ForensicAudit, SequenceTheorems, FiniteSetTheorems, TLAPS

-----------------------------------------------------------------------------
(***************************************************************************)
(* Lists of findings.  What the properties look at is the set of findings, *)
(* the length, and how many there are of two kinds; all four are told from *)
(* the pieces a list is put together of.                                   *)
(***************************************************************************)
At(s, kind) == {k \in DOMAIN s : s[k].kind = kind}

Contents(s, found, most, encrypted, snapshots) ==
  /\ \E S : s \in Seq(S)
  /\ ToSet(s) = found
  /\ Len(s) \in 0 .. most
  /\ Cardinality(At(s, "Encrypted")) = encrypted
  /\ Cardinality(At(s, "Snapshot")) = snapshots

(* The findings of one kind stand at finitely many places of the list. *)
LEMMA Positions ==
  ASSUME NEW S, NEW s \in Seq(S), NEW kind
  PROVE  /\ IsFiniteSet(At(s, kind)) /\ Cardinality(At(s, kind)) \in Nat
         /\ At(s, kind) \subseteq 1 .. Len(s)
<1>1. DOMAIN s = 1 .. Len(s) /\ Len(s) \in Int
  OBVIOUS
<1>2. IsFiniteSet(1 .. Len(s))
  BY <1>1, FS_Interval
<1>3. At(s, kind) \subseteq 1 .. Len(s)
  BY <1>1 DEF At
<1>4. IsFiniteSet(At(s, kind))
  BY <1>2, <1>3, FS_Subset
<1>5. QED
  BY <1>3, <1>4, FS_CardinalityType

(* Of two lists in a row, length, findings and counts add up. *)
LEMMA Concatenated ==
  ASSUME NEW S, NEW s \in Seq(S), NEW t \in Seq(S)
  PROVE  /\ s \o t \in Seq(S) /\ Len(s \o t) = Len(s) + Len(t)
         /\ ToSet(s \o t) = ToSet(s) \cup ToSet(t)
         /\ \A kind : Cardinality(At(s \o t, kind)) =
                        Cardinality(At(s, kind)) + Cardinality(At(t, kind))
<1> DEFINE m == Len(s)
           n == Len(t)
           st == s \o t
<1>1. /\ st \in Seq(S) /\ Len(st) = m + n /\ m \in Nat /\ n \in Nat
      /\ DOMAIN s = 1 .. m /\ DOMAIN t = 1 .. n /\ DOMAIN st = 1 .. (m + n)
      /\ \A k \in 1 .. m : st[k] = s[k]
      /\ \A k \in 1 .. n : st[m + k] = t[k]
  <2>1. /\ st \in Seq(S) /\ Len(st) = m + n
        /\ \A k \in 1 .. (m + n) : st[k] = IF k <= m THEN s[k] ELSE t[k - m]
    BY ConcatProperties
  <2>2. m \in Nat /\ n \in Nat /\ DOMAIN s = 1 .. m /\ DOMAIN t = 1 .. n
    OBVIOUS
  <2>3. DOMAIN st = 1 .. (m + n)
    BY <2>1
  <2> HIDE DEF m, n, st
  <2>4. \A k \in 1 .. m : st[k] = s[k]
    BY <2>1, <2>2
  <2>5. ASSUME NEW k \in 1 .. n
        PROVE  st[m + k] = t[k]
    <3>1. m + k \in 1 .. (m + n) /\ ~(m + k <= m) /\ (m + k) - m = k
      BY <2>2
    <3>2. QED
      BY <2>1, <3>1
  <2>6. QED
    BY <2>1, <2>2, <2>3, <2>4, <2>5
<1> HIDE DEF m, n, st
<1>2. \A k \in 1 .. (m + n) : k \in 1 .. m \/ (k - m \in 1 .. n /\ k = m + (k - m))
  BY <1>1
<1>3. \A k \in 1 .. m : k \in 1 .. (m + n)
  BY <1>1
<1>4. \A k \in 1 .. n : m + k \in 1 .. (m + n) /\ m + k \notin 1 .. m
  BY <1>1
<1>5. ToSet(st) = ToSet(s) \cup ToSet(t)
  <2>1. ToSet(st) \subseteq ToSet(s) \cup ToSet(t)
    BY <1>1, <1>2 DEF ToSet
  <2>2. ToSet(s) \subseteq ToSet(st)
    BY <1>1, <1>3 DEF ToSet
  <2>3. ToSet(t) \subseteq ToSet(st)
    BY <1>1, <1>4 DEF ToSet
  <2>4. QED
    BY <2>1, <2>2, <2>3
<1>6. ASSUME NEW kind
      PROVE  Cardinality(At(st, kind)) = Cardinality(At(s, kind)) + Cardinality(At(t, kind))
  <2> DEFINE shifted == {m + k : k \in At(t, kind)}
  <2>1. At(st, kind) = At(s, kind) \cup shifted
    <3>1. At(st, kind) \subseteq At(s, kind) \cup shifted
      <4>1. ASSUME NEW k \in 1 .. (m + n), st[k].kind = kind, k \notin 1 .. m
            PROVE  k \in shifted
        <5>1. k - m \in 1 .. n /\ k = m + (k - m)
          BY <1>2, <4>1
        <5>2. k - m \in At(t, kind)
          BY <1>1, <4>1, <5>1 DEF At
        <5>3. QED
          BY <5>1, <5>2
      <4>2. QED
        BY <1>1, <4>1 DEF At
    <3>2. At(s, kind) \subseteq At(st, kind)
      BY <1>1, <1>3 DEF At
    <3>3. shifted \subseteq At(st, kind)
      BY <1>1, <1>4 DEF At
    <3>4. QED
      BY <3>1, <3>2, <3>3
  <2>2. At(s, kind) \cap shifted = {}
    BY <1>1, <1>4 DEF At
  <2>3. /\ IsFiniteSet(At(s, kind)) /\ Cardinality(At(s, kind)) \in Nat
        /\ IsFiniteSet(At(t, kind)) /\ Cardinality(At(t, kind)) \in Nat
        /\ At(t, kind) \subseteq 1 .. n
    BY Positions DEF n
  <2>4. IsFiniteSet(shifted) /\ Cardinality(shifted) = Cardinality(At(t, kind))
    <3> DEFINE f == [k \in At(t, kind) |-> m + k]
    <3>1. f \in Bijection(At(t, kind), shifted)
      <4>1. \A j, k \in At(t, kind) : m + j = m + k => j = k
        BY <1>1, <2>3
      <4>2. QED
        BY <4>1 DEF Bijection, Injection, Surjection, IsInjective
    <3>2. QED
      BY <2>3, <3>1, FS_Bijection DEF ExistsBijection
  <2> HIDE DEF shifted
  <2>5. Cardinality(At(s, kind) \cup shifted) =
          Cardinality(At(s, kind)) + Cardinality(shifted) - Cardinality({})
    BY <2>2, <2>3, <2>4, FS_Union
  <2>6. QED
    BY <2>1, <2>3, <2>4, <2>5, FS_EmptySet
<1>7. QED
  BY <1>1, <1>5, <1>6 DEF m, n, st

(* So what is known of two lists gives what is known of both in a row. *)
LEMMA ContentsOfBoth ==
  ASSUME NEW s, NEW A, NEW i \in Nat, NEW e, NEW z, Contents(s, A, i, e, z),
         NEW t, NEW B, NEW j \in Nat, NEW f, NEW y, Contents(t, B, j, f, y)
  PROVE  Contents(s \o t, A \cup B, i + j, e + f, z + y)
<1>1. PICK S, T : s \in Seq(S) /\ t \in Seq(T)
  BY DEF Contents
<1>2. s \in Seq(S \cup T) /\ t \in Seq(S \cup T)
  BY <1>1
<1>3. Len(s) \in 0 .. i /\ Len(t) \in 0 .. j
  BY DEF Contents
<1>4. Len(s) + Len(t) \in 0 .. (i + j)
  BY <1>3
<1>5. /\ s \o t \in Seq(S \cup T) /\ Len(s \o t) = Len(s) + Len(t)
      /\ ToSet(s \o t) = ToSet(s) \cup ToSet(t)
      /\ \A kind : Cardinality(At(s \o t, kind)) =
                     Cardinality(At(s, kind)) + Cardinality(At(t, kind))
  BY <1>2, Concatenated
<1>6. QED
  BY <1>4, <1>5 DEF Contents

(* A finding that is made if c holds (`if c { out.push(a) }'). *)
LEMMA ContentsOfWhen ==
  ASSUME NEW c, NEW a
  PROVE  Contents(When(c, a), IF c THEN {a} ELSE {}, 1,
                  IF c /\ a.kind = "Encrypted" THEN 1 ELSE 0,
                  IF c /\ a.kind = "Snapshot" THEN 1 ELSE 0)
<1>1. CASE c
  <2>1. When(c, a) = <<a>> /\ <<a>> \in Seq({a}) /\ Len(<<a>>) \in 0 .. 1 /\ DOMAIN <<a>> = {1}
        /\ <<a>>[1] = a
    BY <1>1 DEF When
  <2>2. ToSet(<<a>>) = {a}
    BY <2>1 DEF ToSet
  <2>3. ASSUME NEW kind
        PROVE  Cardinality(At(<<a>>, kind)) = IF a.kind = kind THEN 1 ELSE 0
    <3>1. At(<<a>>, kind) = IF a.kind = kind THEN {1} ELSE {}
      BY <2>1 DEF At
    <3>2. QED
      BY <3>1, FS_EmptySet, FS_Singleton
  <2>4. QED
    BY <1>1, <2>1, <2>2, <2>3 DEF Contents
<1>2. CASE ~c
  <2>1. When(c, a) = <<>> /\ <<>> \in Seq({a}) /\ Len(<<>>) \in 0 .. 1 /\ DOMAIN <<>> = {}
    BY <1>2 DEF When
  <2>2. ToSet(<<>>) = {} /\ At(<<>>, "Encrypted") = {} /\ At(<<>>, "Snapshot") = {}
    BY <2>1 DEF ToSet, At
  <2>3. QED
    BY <1>2, <2>1, <2>2, FS_EmptySet DEF Contents
<1>3. QED
  BY <1>1, <1>2

-----------------------------------------------------------------------------
(* The three lists that are put together. *)

Legacy(info) == Finding("LegacyQcow1", <<>>)
Backing(info) == Finding("BackingFile", <<info.name, info.format>>)
Encrypted(info) == Finding("Encrypted", <<info.crypt>>)
Internal(info) == Finding("InternalSnapshots", <<info.nb>>)

AuditFound(info) ==
  (IF info.version = 1 THEN {Legacy(info)} ELSE {})
  \cup (IF info.backing THEN {Backing(info)} ELSE {})
  \cup (IF info.crypt # 0 THEN {Encrypted(info)} ELSE {})
  \cup (IF info.nb > 0 THEN {Internal(info)} ELSE {})
  \cup (IF "dirty" \in info.incompat THEN {Finding("Dirty", <<>>)} ELSE {})
  \cup (IF "corrupt" \in info.incompat THEN {Finding("Corrupt", <<>>)} ELSE {})
  \cup (IF "external data" \in info.incompat THEN {Finding("ExternalDataFile", <<>>)} ELSE {})

(* audit: at most one finding of each of seven kinds. *)
LEMMA AuditContents ==
  ASSUME NEW info
  PROVE  Contents(Audit(info), AuditFound(info), 7, IF info.crypt # 0 THEN 1 ELSE 0, 0)
<1> DEFINE c1 == info.version = 1
           c2 == info.backing
           c3 == info.crypt # 0
           c4 == info.nb > 0
           c5 == "dirty" \in info.incompat
           c6 == "corrupt" \in info.incompat
           c7 == "external data" \in info.incompat
           a1 == Legacy(info)
           a2 == Backing(info)
           a3 == Encrypted(info)
           a4 == Internal(info)
           a5 == Finding("Dirty", <<>>)
           a6 == Finding("Corrupt", <<>>)
           a7 == Finding("ExternalDataFile", <<>>)
           one == IF c3 THEN 1 ELSE 0
<1>1. /\ a1.kind = "LegacyQcow1" /\ a2.kind = "BackingFile" /\ a3.kind = "Encrypted"
      /\ a4.kind = "InternalSnapshots" /\ a5.kind = "Dirty" /\ a6.kind = "Corrupt"
      /\ a7.kind = "ExternalDataFile"
  BY DEF Legacy, Backing, Encrypted, Internal, Finding
<1>2. /\ Audit(info) = When(c1, a1) \o When(c2, a2) \o When(c3, a3) \o When(c4, a4)
                       \o When(c5, a5) \o When(c6, a6) \o When(c7, a7)
      /\ AuditFound(info) =
           (IF c1 THEN {a1} ELSE {}) \cup (IF c2 THEN {a2} ELSE {}) \cup (IF c3 THEN {a3} ELSE {})
           \cup (IF c4 THEN {a4} ELSE {}) \cup (IF c5 THEN {a5} ELSE {})
           \cup (IF c6 THEN {a6} ELSE {}) \cup (IF c7 THEN {a7} ELSE {})
  BY Zenon DEF Audit, AuditFound, Legacy, Backing, Encrypted, Internal
<1> HIDE DEF c1, c2, c3, c4, c5, c6, c7, a1, a2, a3, a4, a5, a6, a7
<1>3. one \in Nat
  OBVIOUS
<1>4. ASSUME NEW c, NEW a, a.kind # "Encrypted", a.kind # "Snapshot"
      PROVE  Contents(When(c, a), IF c THEN {a} ELSE {}, 1, 0, 0)
  <2>1. (IF c /\ a.kind = "Encrypted" THEN 1 ELSE 0) = 0
        /\ (IF c /\ a.kind = "Snapshot" THEN 1 ELSE 0) = 0
    BY <1>4
  <2>2. QED
    BY <2>1, ContentsOfWhen
<1>5. Contents(When(c3, a3), IF c3 THEN {a3} ELSE {}, 1, one, 0)
  <2>1. (IF c3 /\ a3.kind = "Encrypted" THEN 1 ELSE 0) = one
        /\ (IF c3 /\ a3.kind = "Snapshot" THEN 1 ELSE 0) = 0
    BY <1>1
  <2>2. QED
    BY <2>1, ContentsOfWhen
<1> HIDE DEF one
<1> DEFINE f1 == IF c1 THEN {a1} ELSE {}
           f2 == f1 \cup (IF c2 THEN {a2} ELSE {})
           f3 == f2 \cup (IF c3 THEN {a3} ELSE {})
           f4 == f3 \cup (IF c4 THEN {a4} ELSE {})
           f5 == f4 \cup (IF c5 THEN {a5} ELSE {})
           f6 == f5 \cup (IF c6 THEN {a6} ELSE {})
           f7 == f6 \cup (IF c7 THEN {a7} ELSE {})
           s1 == When(c1, a1)
           s2 == s1 \o When(c2, a2)
           s3 == s2 \o When(c3, a3)
           s4 == s3 \o When(c4, a4)
           s5 == s4 \o When(c5, a5)
           s6 == s5 \o When(c6, a6)
           s7 == s6 \o When(c7, a7)
<1>10. ASSUME NEW s, NEW A, NEW i \in Nat, NEW e \in Nat, Contents(s, A, i, e, 0),
              NEW c, NEW a, a.kind # "Encrypted", a.kind # "Snapshot"
       PROVE  Contents(s \o When(c, a), A \cup (IF c THEN {a} ELSE {}), i + 1, e, 0)
  <2>1. Contents(When(c, a), IF c THEN {a} ELSE {}, 1, 0, 0)
    BY <1>4, <1>10
  <2>2. Contents(s \o When(c, a), A \cup (IF c THEN {a} ELSE {}), i + 1, e + 0, 0 + 0)
    BY <1>10, <2>1, ContentsOfBoth
  <2>3. e + 0 = e
    OBVIOUS
  <2>4. QED
    BY <2>2, <2>3
<1>11. Contents(s1, f1, 1, 0, 0)
  BY <1>1, <1>4
<1>12. Contents(s2, f2, 2, 0, 0)
  <2> HIDE DEF s1, f1
  <2>1. Contents(s2, f2, 1 + 1, 0, 0)
    BY <1>1, <1>10, <1>11
  <2>2. QED
    BY <2>1
<1>13. Contents(s3, f3, 3, one, 0)
  <2> HIDE DEF s2, f2
  <2>1. Contents(s3, f3, 2 + 1, 0 + one, 0 + 0)
    BY <1>5, <1>12, ContentsOfBoth
  <2>2. 0 + one = one
    BY <1>3
  <2>3. QED
    BY <2>1, <2>2
<1>14. Contents(s4, f4, 4, one, 0)
  <2> HIDE DEF s3, f3
  <2>1. Contents(s4, f4, 3 + 1, one, 0)
    BY <1>1, <1>3, <1>10, <1>13
  <2>2. QED
    BY <2>1
<1>15. Contents(s5, f5, 5, one, 0)
  <2> HIDE DEF s4, f4
  <2>1. Contents(s5, f5, 4 + 1, one, 0)
    BY <1>1, <1>3, <1>10, <1>14
  <2>2. QED
    BY <2>1
<1>16. Contents(s6, f6, 6, one, 0)
  <2> HIDE DEF s5, f5
  <2>1. Contents(s6, f6, 5 + 1, one, 0)
    BY <1>1, <1>3, <1>10, <1>15
  <2>2. QED
    BY <2>1
<1>17. Contents(s7, f7, 7, one, 0)
  <2> HIDE DEF s6, f6
  <2>1. Contents(s7, f7, 6 + 1, one, 0)
    BY <1>1, <1>3, <1>10, <1>16
  <2>2. QED
    BY <2>1
<1>18. QED
  BY <1>2, <1>17, Zenon DEF one, c3

(* audit_snapshots: a finding for each record. *)
LEMMA SnapshotsContents ==
  ASSUME NEW n \in Nat
  PROVE  Contents(AuditSnapshots(n), {Finding("Snapshot", <<k>>) : k \in 1 .. n}, n, 0, n)
<1> DEFINE s == AuditSnapshots(n)
<1>1. s \in Seq({Finding("Snapshot", <<k>>) : k \in 1 .. n}) /\ Len(s) = n /\ DOMAIN s = 1 .. n
      /\ \A k \in 1 .. n : s[k] = Finding("Snapshot", <<k>>)
  BY DEF AuditSnapshots
<1> HIDE DEF s
<1>2. ToSet(s) = {Finding("Snapshot", <<k>>) : k \in 1 .. n}
  BY <1>1 DEF ToSet
<1>3. \A k \in 1 .. n : s[k].kind = "Snapshot"
  BY <1>1 DEF Finding
<1>4. At(s, "Encrypted") = {} /\ At(s, "Snapshot") = 1 .. n
  BY <1>1, <1>3 DEF At
<1>5. Cardinality(1 .. n) = n
  BY FS_Interval
<1>6. QED
  BY <1>1, <1>2, <1>4, <1>5, FS_EmptySet DEF Contents, s

(* audit_orphans: at most one finding. *)
LEMMA OrphansContents ==
  ASSUME NEW f
  PROVE  Contents(AuditOrphans(f),
                  IF f.orphans > 0
                  THEN {Finding("OrphanClusters", <<f.orphans, f.allocated>>)} ELSE {}, 1, 0, 0)
<1> DEFINE a == Finding("OrphanClusters", <<f.orphans, f.allocated>>)
<1>1. a.kind = "OrphanClusters"
  BY DEF Finding
<1> HIDE DEF a
<1>2. Contents(When(f.orphans > 0, a), IF f.orphans > 0 THEN {a} ELSE {}, 1,
               IF f.orphans > 0 /\ a.kind = "Encrypted" THEN 1 ELSE 0,
               IF f.orphans > 0 /\ a.kind = "Snapshot" THEN 1 ELSE 0)
  BY ContentsOfWhen
<1>3. QED
  BY <1>1, <1>2 DEF AuditOrphans, a

(* The header gives at most seven findings. *)
LEMMA HeaderKinds == Cardinality(HeaderFindings) = 7
<1> DEFINE K1 == {"LegacyQcow1"}
           K2 == K1 \cup {"BackingFile"}
           K3 == K2 \cup {"Encrypted"}
           K4 == K3 \cup {"InternalSnapshots"}
           K5 == K4 \cup {"Dirty"}
           K6 == K5 \cup {"Corrupt"}
           K7 == K6 \cup {"ExternalDataFile"}
<1>1. IsFiniteSet(K1) /\ Cardinality(K1) = 1
  BY FS_Singleton
<1>2. IsFiniteSet(K2) /\ Cardinality(K2) = 2
  BY <1>1, FS_AddElement
<1>3. IsFiniteSet(K3) /\ Cardinality(K3) = 3
  BY <1>2, FS_AddElement
<1>4. IsFiniteSet(K4) /\ Cardinality(K4) = 4
  BY <1>3, FS_AddElement
<1>5. IsFiniteSet(K5) /\ Cardinality(K5) = 5
  BY <1>4, FS_AddElement
<1>6. IsFiniteSet(K6) /\ Cardinality(K6) = 6
  BY <1>5, FS_AddElement
<1>7. IsFiniteSet(K7) /\ Cardinality(K7) = 7
  BY <1>6, FS_AddElement
<1>8. HeaderFindings = K7
  BY DEF HeaderFindings
<1>9. QED
  BY <1>7, <1>8

-----------------------------------------------------------------------------
(***************************************************************************)
(* The inductive invariant.  The list grows by at most so much with each   *)
(* probe, whatever is at the path; and on a path that stays the same       *)
(* without a failing call it is the report of the image there.             *)
(***************************************************************************)
KindsOf(s) == {a.kind : a \in ToSet(s)}

MostFindings ==
  IF pc = "inspect" THEN 0
  ELSE IF pc = "snapshots" THEN 7
  ELSE IF pc = "refcount" THEN 7 + MaxSnapshots
  ELSE 7 + MaxSnapshots + 1

ListInv ==
  /\ path \in Files
  /\ pc \in {"inspect", "snapshots", "refcount", "done"}
  /\ \E S : out \in Seq(S)
  /\ KindsOf(out) \subseteq Anomalies
  /\ Len(out) <= MostFindings
  /\ verdict \in {"none", "ok", "io", "too small", "bad magic", "version", "cluster bits"}
  /\ verdict \notin {"none", "ok"} => out = <<>>
  /\ pc # "done" <=> verdict = "none"
  /\ steady \in BOOLEAN /\ faulty \in BOOLEAN

(* What audit_path has to say of one image. *)
AuditVerdict ==
  IF LenientParse(path, HeaderLen) # "ok" THEN LenientParse(path, HeaderLen)
  ELSE IF SnapshotsParse(path) # "ok" THEN SnapshotsParse(path)
  ELSE RefcountParse(path)

HeaderReport == Audit(Info(path, HeaderLen))
SnapshotReport == HeaderReport \o AuditSnapshots(Listed(path))
Report == SnapshotReport \o AuditOrphans(path)

ReportInv ==
  steady /\ ~faulty =>
    /\ pc = "inspect" => out = <<>>
    /\ pc \in {"snapshots", "refcount"} => LenientParse(path, HeaderLen) = "ok"
    /\ pc = "snapshots" => out = HeaderReport
    /\ pc = "refcount" => SnapshotsParse(path) = "ok" /\ out = SnapshotReport
    /\ pc = "done" => verdict = AuditVerdict /\ (verdict = "ok" => out = Report)

Inv == ListInv /\ ReportInv

(* What AuditAssumption says of one image. *)
LEMMA FileTypes ==
  ASSUME NEW f \in Files
  PROVE  /\ IsHeader(f) /\ f.len \in Nat /\ f.nb \in Nat /\ f.records \in Nat
         /\ f.boff \in Nat /\ f.bsize \in Nat
         /\ f.allocated \in Nat /\ f.orphans \in Nat /\ f.orphans <= f.allocated
<1>1. IsFile(f)
  BY AuditAssumption
<1>2. IsHeader(f) /\ f.records \in Nat /\ f.allocated \in Nat /\ f.orphans \in 0 .. f.allocated
  BY <1>1 DEF IsFile
<1>3. f.len \in Nat /\ f.nb \in Nat /\ f.boff \in Nat /\ f.bsize \in Nat
  BY <1>2 DEF IsHeader
<1>4. f.orphans \in Nat /\ f.orphans <= f.allocated
  BY <1>2
<1>5. QED
  BY <1>2, <1>3, <1>4

(* The constants are natural numbers in their order. *)
LEMMA Sizes ==
  /\ MaxSnapshots \in Nat /\ LenientWindow \in Nat /\ FeatureEnd <= LenientWindow
  /\ MinHeader \in Nat /\ FeatureEnd \in Nat /\ MinHeader < FeatureEnd /\ MaxName \in Nat
<1>1. \A x \in {LenientWindow, MaxSnapshots} : x \in Nat \ {0}
  BY AuditAssumption
<1>2. \A x \in {MinHeader, FeatureEnd, LengthEnd, ExtAlign, MaxExtensions, MaxName} :
        x \in Nat \ {0}
  BY HeaderAssumption
<1>3. QED
  BY <1>1, <1>2, AuditAssumption, HeaderAssumption

(* As many snapshots are listed as the smallest of the three bounds says.  *)
LEMMA ListedIs ==
  ASSUME NEW f \in Files
  PROVE  /\ Listed(f) \in Nat /\ Listed(f) <= MaxSnapshots
         /\ Listed(f) <= f.nb /\ Listed(f) \in {f.nb, MaxSnapshots, f.records}
<1> DEFINE S == {f.nb, MaxSnapshots, f.records}
<1>1. f.nb \in Nat /\ MaxSnapshots \in Nat /\ f.records \in Nat
  BY FileTypes, Sizes
<1>2. \E x \in S : \A y \in S : x <= y
  BY <1>1
<1>3. Min(S) \in S /\ \A y \in S : Min(S) <= y
  BY <1>2 DEF Min
<1>4. QED
  BY <1>1, <1>3 DEF Listed

(* What ListInv needs of a list follows from its contents. *)
LEMMA ListType ==
  ASSUME NEW s, NEW A, NEW i \in Nat, NEW e, NEW z, Contents(s, A, i, e, z)
  PROVE  (\E S : s \in Seq(S)) /\ KindsOf(s) = {a.kind : a \in A}
         /\ Len(s) \in Nat /\ Len(s) <= i
<1>1. Len(s) \in 0 .. i
  BY DEF Contents
<1>2. QED
  BY <1>1 DEF Contents, KindsOf

(* What each probe adds. *)
LEMMA AddedByAudit ==
  ASSUME NEW info
  PROVE  /\ \E S : Audit(info) \in Seq(S)
         /\ KindsOf(Audit(info)) \subseteq Anomalies
         /\ Len(Audit(info)) <= 7
<1>1. /\ \E S : Audit(info) \in Seq(S)
      /\ KindsOf(Audit(info)) = {a.kind : a \in AuditFound(info)}
      /\ Len(Audit(info)) <= 7
  BY AuditContents, ListType
<1>2. \A a \in AuditFound(info) : a.kind \in HeaderFindings
  <2> DEFINE all == {Legacy(info), Backing(info), Encrypted(info), Internal(info),
                     Finding("Dirty", <<>>), Finding("Corrupt", <<>>),
                     Finding("ExternalDataFile", <<>>)}
  <2>1. AuditFound(info) \subseteq all
    BY DEF AuditFound
  <2>2. \A a \in all : a.kind \in HeaderFindings
    BY DEF Legacy, Backing, Encrypted, Internal, Finding, HeaderFindings
  <2>3. QED
    BY <2>1, <2>2
<1>3. QED
  BY <1>1, <1>2 DEF Anomalies

(* audit_snapshots adds one finding for each snapshot. *)
LEMMA AddedBySnapshots ==
  ASSUME NEW n \in Nat
  PROVE  /\ \E S : AuditSnapshots(n) \in Seq(S)
         /\ KindsOf(AuditSnapshots(n)) \subseteq Anomalies
         /\ Len(AuditSnapshots(n)) <= n
<1>1. /\ \E S : AuditSnapshots(n) \in Seq(S)
      /\ KindsOf(AuditSnapshots(n)) =
           {a.kind : a \in {Finding("Snapshot", <<k>>) : k \in 1 .. n}}
      /\ Len(AuditSnapshots(n)) <= n
  BY SnapshotsContents, ListType
<1>2. \A a \in {Finding("Snapshot", <<k>>) : k \in 1 .. n} : a.kind = "Snapshot"
  BY DEF Finding
<1>3. QED
  BY <1>1, <1>2 DEF Anomalies

(* audit_orphans adds one finding at most. *)
LEMMA AddedByOrphans ==
  ASSUME NEW f
  PROVE  /\ \E S : AuditOrphans(f) \in Seq(S)
         /\ KindsOf(AuditOrphans(f)) \subseteq Anomalies
         /\ Len(AuditOrphans(f)) <= 1
<1> DEFINE A == IF f.orphans > 0
                THEN {Finding("OrphanClusters", <<f.orphans, f.allocated>>)} ELSE {}
<1>1. /\ \E S : AuditOrphans(f) \in Seq(S)
      /\ KindsOf(AuditOrphans(f)) = {a.kind : a \in A}
      /\ Len(AuditOrphans(f)) <= 1
  BY OrphansContents, ListType
<1>2. \A a \in A : a.kind = "OrphanClusters"
  BY DEF Finding
<1> HIDE DEF A
<1>3. QED
  BY <1>1, <1>2 DEF Anomalies

(* `out.extend' keeps the kinds and adds the lengths. *)
LEMMA Appended ==
  ASSUME NEW s, NEW t, \E S : s \in Seq(S), \E S : t \in Seq(S),
         KindsOf(s) \subseteq Anomalies, KindsOf(t) \subseteq Anomalies
  PROVE  /\ \E S : s \o t \in Seq(S)
         /\ KindsOf(s \o t) \subseteq Anomalies
         /\ Len(s \o t) = Len(s) + Len(t) /\ Len(s) \in Nat /\ Len(t) \in Nat
<1>1. PICK S, T : s \in Seq(S) /\ t \in Seq(T)
  OBVIOUS
<1>2. s \in Seq(S \cup T) /\ t \in Seq(S \cup T)
  BY <1>1
<1>3. /\ s \o t \in Seq(S \cup T) /\ Len(s \o t) = Len(s) + Len(t)
      /\ ToSet(s \o t) = ToSet(s) \cup ToSet(t)
  BY <1>2, Concatenated
<1>4. KindsOf(s \o t) = KindsOf(s) \cup KindsOf(t)
  BY <1>3 DEF KindsOf
<1>5. Len(s) \in Nat /\ Len(t) \in Nat
  BY <1>1, LenProperties
<1>6. QED
  BY <1>3, <1>4, <1>5

(* The list before the first probe. *)
LEMMA EmptyList ==
  (\E S : <<>> \in Seq(S)) /\ KindsOf(<<>>) = {} /\ Len(<<>>) = 0
<1>1. <<>> \in Seq({}) /\ Len(<<>>) = 0 /\ DOMAIN <<>> = {}
  OBVIOUS
<1>2. ToSet(<<>>) = {}
  BY <1>1 DEF ToSet
<1>3. QED
  BY <1>1, <1>2 DEF KindsOf

(* The verdicts the three header checks can give. *)
LEMMA ParseTypes ==
  ASSUME NEW f, NEW n
  PROVE  /\ LenientParse(f, n) \in {"too small", "bad magic", "version", "ok"}
         /\ SnapshotsParse(f) \in {"too small", "bad magic", "io", "ok"}
         /\ RefcountParse(f) \in {"too small", "bad magic", "version", "cluster bits", "io", "ok"}
  BY DEF LenientParse, SnapshotsParse, RefcountParse, HeaderParse

-----------------------------------------------------------------------------
(* The steps. *)

(* No probe has run: the list is empty. *)
LEMMA InitInv == Init => Inv
<1> SUFFICES ASSUME Init
             PROVE  Inv
  OBVIOUS
<1>1. Len(out) <= MostFindings
  BY DEF Init, MostFindings
<1>2. ListInv
  BY <1>1, EmptyList DEF Init, ListInv
<1>3. ReportInv
  BY DEF Init, ReportInv
<1>4. QED
  BY <1>2, <1>3 DEF Inv

(* An audit that fails returns nothing of its list. *)
LEMMA NothingKept ==
  ASSUME pc' = "done", out' = <<>>
  PROVE  Len(out') <= MostFindings'
<1>1. MostFindings' = 7 + MaxSnapshots + 1
  BY DEF MostFindings
<1>2. 7 + MaxSnapshots + 1 \in Nat
  BY Sizes
<1>3. QED
  BY <1>1, <1>2

(* The audit ends with an error. *)
LEMMA FailInv ==
  ASSUME Inv, UNCHANGED <<path, steady>>, faulty' \in BOOLEAN,
         NEW v \in {"io", "too small", "bad magic", "version", "cluster bits"}, Fail(v),
         steady /\ ~faulty' => v = AuditVerdict
  PROVE  Inv'
<1>1. pc' = "done" /\ out' = <<>> /\ verdict' = v /\ v \notin {"none", "ok"}
  BY DEF Fail
<1>2. Len(out') <= MostFindings'
  BY <1>1, NothingKept
<1>3. ListInv'
  BY <1>1, <1>2, EmptyList DEF Inv, ListInv
<1>4. AuditVerdict' = AuditVerdict
  BY DEF AuditVerdict, HeaderLen
<1>5. ReportInv'
  BY <1>1, <1>4 DEF ReportInv
<1>6. QED
  BY <1>3, <1>5 DEF Inv

(* The findings of the header are those of Info, if inspect takes the file. *)
LEMMA InspectInv ==
  ASSUME Inv, Inspect
  PROVE  Inv'
<1>1. pc = "inspect" /\ UNCHANGED <<path, steady, faulty>> /\ faulty \in BOOLEAN
      /\ verdict = "none"
  BY DEF Inspect, Inv, ListInv
<1>2. CASE LenientParse(path, HeaderLen) = "ok"
  <2>1. /\ out' = Audit(Info(path, HeaderLen)) /\ pc' = "snapshots" /\ verdict' = "none"
    BY <1>1, <1>2 DEF Inspect
  <2>2. ListInv'
    BY <1>1, <2>1, AddedByAudit DEF Inv, ListInv, MostFindings
  <2>3. HeaderLen' = HeaderLen
    BY <1>1 DEF HeaderLen
  <2>4. ReportInv'
    BY <1>1, <1>2, <2>1, <2>3 DEF ReportInv, HeaderReport
  <2>5. QED
    BY <2>2, <2>4 DEF Inv
<1>3. CASE LenientParse(path, HeaderLen) # "ok"
  <2>1. Fail(LenientParse(path, HeaderLen))
    BY <1>3 DEF Inspect
  <2>2. LenientParse(path, HeaderLen) \in {"io", "too small", "bad magic", "version", "cluster bits"}
    BY <1>3, ParseTypes
  <2>3. QED
    BY <1>1, <1>3, <2>1, <2>2, FailInv DEF AuditVerdict
<1>4. QED
  BY <1>2, <1>3

(* The snapshot probe appends what is listed of the same image, or fails. *)
LEMMA SnapshotsInv ==
  ASSUME Inv, Snapshots
  PROVE  Inv'
<1>1. /\ pc = "snapshots" /\ UNCHANGED <<path, steady, faulty>> /\ faulty \in BOOLEAN
      /\ verdict = "none" /\ path \in Files /\ steady \in BOOLEAN
  BY DEF Snapshots, Inv, ListInv
<1>2. steady /\ ~faulty => LenientParse(path, HeaderLen) = "ok" /\ out = HeaderReport
  BY <1>1 DEF Inv, ReportInv
<1>3. CASE SnapshotsParse(path) = "ok"
  <2>1. /\ out' = out \o AuditSnapshots(Listed(path)) /\ pc' = "refcount" /\ verdict' = "none"
    BY <1>1, <1>3 DEF Snapshots
  <2>2. Listed(path) \in Nat /\ Listed(path) <= MaxSnapshots
    BY <1>1, ListedIs
  <2> DEFINE t == AuditSnapshots(Listed(path))
  <2>3. (\E S : t \in Seq(S)) /\ KindsOf(t) \subseteq Anomalies /\ Len(t) <= Listed(path)
    BY <2>2, AddedBySnapshots
  <2> HIDE DEF t
  <2>4. (\E S : out \in Seq(S)) /\ KindsOf(out) \subseteq Anomalies /\ Len(out) <= 7
    BY <1>1 DEF Inv, ListInv, MostFindings
  <2>5. /\ \E S : out \o t \in Seq(S)
        /\ KindsOf(out \o t) \subseteq Anomalies
        /\ Len(out \o t) = Len(out) + Len(t) /\ Len(out) \in Nat /\ Len(t) \in Nat
    BY <2>3, <2>4, Appended
  <2>6. Len(out \o t) <= 7 + MaxSnapshots
    BY <2>2, <2>3, <2>4, <2>5, Sizes
  <2>7. out' = out \o t
    BY <2>1 DEF t
  <2>8. ListInv'
    BY <1>1, <2>1, <2>5, <2>6, <2>7 DEF ListInv, MostFindings
  <2>9. HeaderLen' = HeaderLen
    BY <1>1 DEF HeaderLen
  <2>10. ReportInv'
    BY <1>1, <1>2, <1>3, <2>1, <2>9 DEF ReportInv, HeaderReport, SnapshotReport
  <2>11. QED
    BY <2>8, <2>10 DEF Inv
<1>4. CASE SnapshotsParse(path) # "ok"
  <2>1. Fail(SnapshotsParse(path))
    BY <1>4 DEF Snapshots
  <2>2. SnapshotsParse(path) \in {"io", "too small", "bad magic", "version", "cluster bits"}
    BY <1>4, ParseTypes
  <2>3. QED
    BY <1>1, <1>2, <1>4, <2>1, <2>2, FailInv DEF AuditVerdict
<1>5. QED
  BY <1>3, <1>4

(* The refcount probe appends the orphans of the same image, or fails. *)
LEMMA RefcountInv ==
  ASSUME Inv, Refcount
  PROVE  Inv'
<1>1. /\ pc = "refcount" /\ UNCHANGED <<path, steady, faulty>> /\ faulty \in BOOLEAN
      /\ verdict = "none" /\ path \in Files /\ steady \in BOOLEAN
  BY DEF Refcount, Inv, ListInv
<1>2. steady /\ ~faulty => /\ LenientParse(path, HeaderLen) = "ok"
                           /\ SnapshotsParse(path) = "ok" /\ out = SnapshotReport
  BY <1>1 DEF Inv, ReportInv
<1>3. CASE RefcountParse(path) = "ok"
  <2>1. /\ out' = out \o AuditOrphans(path) /\ pc' = "done" /\ verdict' = "ok"
    BY <1>1, <1>3 DEF Refcount
  <2> DEFINE t == AuditOrphans(path)
  <2>2. (\E S : t \in Seq(S)) /\ KindsOf(t) \subseteq Anomalies /\ Len(t) <= 1
    BY AddedByOrphans
  <2> HIDE DEF t
  <2>3. (\E S : out \in Seq(S)) /\ KindsOf(out) \subseteq Anomalies
        /\ Len(out) <= 7 + MaxSnapshots
    BY <1>1 DEF Inv, ListInv, MostFindings
  <2>4. /\ \E S : out \o t \in Seq(S)
        /\ KindsOf(out \o t) \subseteq Anomalies
        /\ Len(out \o t) = Len(out) + Len(t) /\ Len(out) \in Nat /\ Len(t) \in Nat
    BY <2>2, <2>3, Appended
  <2>5. Len(out \o t) <= 7 + MaxSnapshots + 1
    BY <2>2, <2>3, <2>4, Sizes
  <2>6. out' = out \o t
    BY <2>1 DEF t
  <2>7. ListInv'
    BY <1>1, <2>1, <2>4, <2>5, <2>6 DEF ListInv, MostFindings
  <2>8. HeaderLen' = HeaderLen
    BY <1>1 DEF HeaderLen
  <2>9. ReportInv'
    BY <1>1, <1>2, <1>3, <2>1, <2>8 DEF ReportInv, AuditVerdict, HeaderReport, SnapshotReport, Report
  <2>10. QED
    BY <2>7, <2>9 DEF Inv
<1>4. CASE RefcountParse(path) # "ok"
  <2>1. Fail(RefcountParse(path))
    BY <1>4 DEF Refcount
  <2>2. RefcountParse(path) \in {"io", "too small", "bad magic", "version", "cluster bits"}
    BY <1>4, ParseTypes
  <2>3. QED
    BY <1>1, <1>2, <1>4, <2>1, <2>2, FailInv DEF AuditVerdict
<1>5. QED
  BY <1>3, <1>4

(* A failing call ends the audit; ReportInv says nothing after it. *)
LEMMA FaultInv ==
  ASSUME Inv, Fault
  PROVE  Inv'
<1>1. PICK v \in {"io", "too small"} : Fail(v)
  BY DEF Fault
<1>2. faulty' = TRUE /\ UNCHANGED <<path, steady>>
  BY DEF Fault
<1>3. v \in {"io", "too small", "bad magic", "version", "cluster bits"} /\ faulty' \in BOOLEAN
  BY <1>2
<1>4. QED
  BY <1>1, <1>2, <1>3, FailInv

(* Nor does it of an image that was replaced. *)
LEMMA ReplaceInv ==
  ASSUME Inv, Replace
  PROVE  Inv'
<1>1. path' \in Files /\ steady' = FALSE /\ UNCHANGED <<pc, out, verdict, faulty>>
  BY DEF Replace
<1>2. QED
  BY <1>1 DEF Inv, ListInv, ReportInv, MostFindings

(* Every step of audit_path and of its surroundings keeps Inv. *)
LEMMA NextInv == Inv /\ [Next]_vars => Inv'
<1> SUFFICES ASSUME Inv, [Next]_vars
             PROVE  Inv'
  OBVIOUS
<1>1. CASE UNCHANGED vars
  BY <1>1 DEF vars, Inv, ListInv, ReportInv, MostFindings, AuditVerdict, HeaderReport,
     SnapshotReport, Report, HeaderLen
<1>2. QED
  BY <1>1, InspectInv, SnapshotsInv, RefcountInv, FaultInv, ReplaceInv DEF Next

-----------------------------------------------------------------------------
(* The theorems. *)

(* The list of findings is at each step what the probes so far have to say *)
(* of the image, as long as it stays the same and no call fails            *)
(* (forensic/src/lib.rs audit_path).                                       *)
THEOREM Invariance == Spec => []Inv
<1>1. QED
  BY InitInv, NextInv, PTL DEF Spec

(* TypeOK of ForensicAudit: in particular an audit that fails returns      *)
(* nothing of what it found, and one that does not returns no more than    *)
(* seven findings of the header, one for each snapshot up to the cap and   *)
(* one of the orphans, also when the image is replaced between two probes. *)
THEOREM TypeCorrect == Spec => []TypeOK
<1>1. Inv => TypeOK
  <2> SUFFICES ASSUME Inv
               PROVE  TypeOK
    OBVIOUS
  <2>1. Len(out) <= 7 + MaxSnapshots + 1
    <3>1. PICK S : out \in Seq(S)
      BY DEF Inv, ListInv
    <3>2. Len(out) \in Nat
      BY <3>1, LenProperties
    <3>3. Len(out) <= MostFindings
      BY DEF Inv, ListInv
    <3>4. QED
      BY <3>2, <3>3, Sizes DEF MostFindings
  <2>2. \A k \in DOMAIN out : out[k].kind \in Anomalies
    BY DEF Inv, ListInv, KindsOf, ToSet
  <2>3. Len(out) <= Cardinality(HeaderFindings) + MaxSnapshots + 1
    BY <2>1, HeaderKinds
  <2>4. QED
    BY <2>2, <2>3 DEF Inv, ListInv, TypeOK
<1>2. QED
  BY <1>1, Invariance, PTL

(* What an audit without an error returns of an image that stays the same. *)
LEMMA ReportContents ==
  ASSUME Inv, Answered, verdict = "ok"
  PROVE  LET info == Info(path, HeaderLen) IN
         /\ \A a : a \in ToSet(out) <=>
              \/ a \in AuditFound(info)
              \/ \E k \in 1 .. Listed(path) : a = Finding("Snapshot", <<k>>)
              \/ path.orphans > 0 /\ a = Finding("OrphanClusters", <<path.orphans, path.allocated>>)
         /\ Count("Encrypted") = IF info.crypt # 0 THEN 1 ELSE 0
         /\ Count("Snapshot") = Listed(path)
<1> DEFINE info == Info(path, HeaderLen)
           A == AuditFound(info)
           B == {Finding("Snapshot", <<k>>) : k \in 1 .. Listed(path)}
           C == IF path.orphans > 0
                THEN {Finding("OrphanClusters", <<path.orphans, path.allocated>>)} ELSE {}
           one == IF info.crypt # 0 THEN 1 ELSE 0
           n == Listed(path)
           s1 == Audit(info)
           s2 == AuditSnapshots(n)
           s3 == AuditOrphans(path)
<1>1. n \in Nat
  BY ListedIs DEF Inv, ListInv
<1>2. Contents(s1, A, 7, one, 0)
  BY AuditContents
<1>3. Contents(s2, B, n, 0, n)
  BY <1>1, SnapshotsContents
<1>4. Contents(s3, C, 1, 0, 0)
  BY OrphansContents
<1>5. out = s1 \o s2 \o s3
  BY DEF Inv, ReportInv, Answered, Report, SnapshotReport, HeaderReport
<1>6. one \in Nat
  OBVIOUS
<1>7. /\ \A a : a \in B <=> \E k \in 1 .. Listed(path) : a = Finding("Snapshot", <<k>>)
      /\ \A a : a \in C <=>
           path.orphans > 0 /\ a = Finding("OrphanClusters", <<path.orphans, path.allocated>>)
  OBVIOUS
<1>8. Contents(out, A \cup B \cup C, (7 + n) + 1, one, n)
  <2> HIDE DEF A, B, C, one, n, s1, s2, s3
  <2>1. Contents(s1 \o s2, A \cup B, 7 + n, one + 0, 0 + n)
    BY <1>1, <1>2, <1>3, ContentsOfBoth
  <2>2. one + 0 = one /\ 0 + n = n /\ 7 + n \in Nat
    BY <1>1, <1>6
  <2>3. Contents(s1 \o s2, A \cup B, 7 + n, one, n)
    BY <2>1, <2>2
  <2>4. Contents((s1 \o s2) \o s3, (A \cup B) \cup C, (7 + n) + 1, one + 0, n + 0)
    BY <1>4, <2>2, <2>3, ContentsOfBoth
  <2>5. n + 0 = n
    BY <1>1
  <2>6. QED
    BY <1>5, <2>2, <2>4, <2>5
<1>9. ToSet(out) = A \cup B \cup C /\ Count("Encrypted") = one /\ Count("Snapshot") = n
  BY <1>8, Zenon DEF Contents, Count, At
<1> HIDE DEF A, B, C
<1>10. \A a : a \in ToSet(out) <=> a \in A \/ a \in B \/ a \in C
  BY <1>9
<1>11. QED
  BY <1>7, <1>9, <1>10, Zenon DEF A

(* The findings of a kind among what the header has to say.                *)
LEMMA FoundIs ==
  ASSUME Inv, Answered, verdict = "ok"
  PROVE  LET info == Info(path, HeaderLen) IN
         /\ Found("Encrypted") = IF info.crypt # 0 THEN {Encrypted(info)} ELSE {}
         /\ Found("InternalSnapshots") = IF info.nb > 0 THEN {Internal(info)} ELSE {}
         /\ info.backing => Backing(info) \in Found("BackingFile")
         /\ "external data" \in info.incompat =>
              Finding("ExternalDataFile", <<>>) \in Found("ExternalDataFile")
         /\ Found("OrphanClusters") =
              IF path.orphans > 0
              THEN {Finding("OrphanClusters", <<path.orphans, path.allocated>>)} ELSE {}
<1> DEFINE info == Info(path, HeaderLen)
           orphans == Finding("OrphanClusters", <<path.orphans, path.allocated>>)
<1>1. \A a : a \in ToSet(out) <=>
        \/ a \in AuditFound(info)
        \/ \E k \in 1 .. Listed(path) : a = Finding("Snapshot", <<k>>)
        \/ path.orphans > 0 /\ a = orphans
  BY ReportContents
<1>2. \A k : Finding("Snapshot", <<k>>).kind = "Snapshot"
  BY DEF Finding
<1>3. /\ Legacy(info).kind = "LegacyQcow1" /\ Backing(info).kind = "BackingFile"
      /\ Encrypted(info).kind = "Encrypted" /\ Internal(info).kind = "InternalSnapshots"
      /\ Finding("Dirty", <<>>).kind = "Dirty" /\ Finding("Corrupt", <<>>).kind = "Corrupt"
      /\ Finding("ExternalDataFile", <<>>).kind = "ExternalDataFile"
      /\ orphans.kind = "OrphanClusters"
  BY DEF Legacy, Backing, Encrypted, Internal, Finding
<1>4. \A a : a \in AuditFound(info) <=>
        \/ info.version = 1 /\ a = Legacy(info)
        \/ info.backing /\ a = Backing(info)
        \/ info.crypt # 0 /\ a = Encrypted(info)
        \/ info.nb > 0 /\ a = Internal(info)
        \/ "dirty" \in info.incompat /\ a = Finding("Dirty", <<>>)
        \/ "corrupt" \in info.incompat /\ a = Finding("Corrupt", <<>>)
        \/ "external data" \in info.incompat /\ a = Finding("ExternalDataFile", <<>>)
  <2> HIDE DEF info
  <2>1. QED
    BY DEF AuditFound
<1> HIDE DEF info, orphans
<1>5. \A a : a \in ToSet(out) => a \in AuditFound(info) \/ a.kind = "Snapshot" \/ a = orphans
  BY <1>1, <1>2
<1>6. Found("Encrypted") = IF info.crypt # 0 THEN {Encrypted(info)} ELSE {}
  <2>1. ASSUME NEW a \in ToSet(out), a.kind = "Encrypted"
        PROVE  info.crypt # 0 /\ a = Encrypted(info)
    BY <1>3, <1>4, <1>5, <2>1
  <2>2. info.crypt # 0 => Encrypted(info) \in Found("Encrypted")
    BY <1>1, <1>3, <1>4 DEF Found
  <2>3. QED
    BY <2>1, <2>2 DEF Found
<1>7. Found("InternalSnapshots") = IF info.nb > 0 THEN {Internal(info)} ELSE {}
  <2>1. ASSUME NEW a \in ToSet(out), a.kind = "InternalSnapshots"
        PROVE  info.nb > 0 /\ a = Internal(info)
    BY <1>3, <1>4, <1>5, <2>1
  <2>2. info.nb > 0 => Internal(info) \in Found("InternalSnapshots")
    BY <1>1, <1>3, <1>4 DEF Found
  <2>3. QED
    BY <2>1, <2>2 DEF Found
<1>8. /\ info.backing => Backing(info) \in Found("BackingFile")
      /\ "external data" \in info.incompat =>
           Finding("ExternalDataFile", <<>>) \in Found("ExternalDataFile")
  BY <1>1, <1>3, <1>4 DEF Found
<1>9. Found("OrphanClusters") = IF path.orphans > 0 THEN {orphans} ELSE {}
  <2>1. ASSUME NEW a \in ToSet(out), a.kind = "OrphanClusters"
        PROVE  path.orphans > 0 /\ a = orphans
    BY <1>1, <1>2, <1>3, <1>4, <2>1
  <2>2. path.orphans > 0 => orphans \in Found("OrphanClusters")
    BY <1>1, <1>3 DEF Found
  <2>3. QED
    BY <2>1, <2>2 DEF Found
<1>10. QED
  BY <1>6, <1>7, <1>8, <1>9 DEF info, orphans

(* FindingsTellOneStory: the snapshots that are listed, the number of them *)
(* that the header announces, and the orphans agree, though each comes of  *)
(* a probe of its own (forensic/src/lib.rs audit_path).                    *)
THEOREM OneStory == Spec => []FindingsTellOneStory
<1>1. Inv => FindingsTellOneStory
  <2> SUFFICES ASSUME Inv, Answered, verdict = "ok"
               PROVE  LET listed == Count("Snapshot") IN
                      /\ Found("InternalSnapshots") = {} => listed = 0
                      /\ \A a \in Found("InternalSnapshots") :
                           /\ listed <= a.facts[1]
                           /\ listed < a.facts[1] => listed \in {path.records, MaxSnapshots}
                      /\ \A a \in Found("OrphanClusters") : a.facts[1] \in 1 .. a.facts[2]
                      /\ (path.orphans > 0) = (Found("OrphanClusters") # {})
    BY DEF FindingsTellOneStory
  <2> DEFINE info == Info(path, HeaderLen)
             orphans == Finding("OrphanClusters", <<path.orphans, path.allocated>>)
  <2>1. path \in Files
    BY DEF Inv, ListInv
  <2>2. RefcountParse(path) = "ok"
    BY ParseTypes DEF Inv, ReportInv, Answered, AuditVerdict
  <2>3. path.version # 1
    BY <2>2 DEF RefcountParse
  <2>4. info.nb = path.nb
    BY <2>3 DEF Info
  <2>5. /\ Count("Snapshot") \in Nat /\ Count("Snapshot") <= path.nb
        /\ Count("Snapshot") \in {path.nb, MaxSnapshots, path.records}
        /\ path.nb \in Nat /\ MaxSnapshots \in Nat /\ path.records \in Nat
    BY <2>1, ListedIs, ReportContents, FileTypes, Sizes
  <2>6. /\ Found("InternalSnapshots") = IF path.nb > 0 THEN {Internal(info)} ELSE {}
        /\ Internal(info).facts[1] = path.nb
    BY <2>4, FoundIs DEF Internal, Finding
  <2>7. Found("OrphanClusters") = IF path.orphans > 0 THEN {orphans} ELSE {}
    BY FoundIs
  <2>8. orphans.facts[1] = path.orphans /\ orphans.facts[2] = path.allocated
    BY DEF Finding
  <2>9. path.orphans \in Nat /\ path.allocated \in Nat /\ path.orphans <= path.allocated
    BY <2>1, FileTypes
  <2> HIDE DEF info, orphans
  <2>10. Found("InternalSnapshots") = {} => Count("Snapshot") = 0
    BY <2>5, <2>6
  <2>11. \A a \in Found("InternalSnapshots") :
           /\ Count("Snapshot") <= a.facts[1]
           /\ Count("Snapshot") < a.facts[1] => Count("Snapshot") \in {path.records, MaxSnapshots}
    BY <2>5, <2>6
  <2>12. \A a \in Found("OrphanClusters") : a.facts[1] \in 1 .. a.facts[2]
    BY <2>7, <2>8, <2>9
  <2>13. (path.orphans > 0) = (Found("OrphanClusters") # {})
    BY <2>7
  <2>14. QED
    BY <2>10, <2>11, <2>12, <2>13
<1>2. QED
  BY <1>1, Invariance, PTL

(* RefusedAreDescribed: an image that the strict reader refuses for its    *)
(* backing file, its encryption or its features passes the three header    *)
(* checks of the audit.  It is described if and only if its refcount table *)
(* can be read and its snapshot table sought to, and then the reason is    *)
(* named with what the header says of it (header.rs Qcow2Header::parse,    *)
(* forensic/src/lib.rs audit_path, snapshots.rs snapshots).                *)
THEOREM RefusedDescribed == Spec => []RefusedAreDescribed
<1>1. Inv => RefusedAreDescribed
  <2> DEFINE info == Info(path, HeaderLen)
             reached == path.rt_ok /\ (path.nb > 0 => path.st_ok)
  <2> SUFFICES ASSUME Inv, Answered, path.cluster_bits \in 9 .. 20,
                      path.version \in 2 .. 3,
                      StrictParse(path, HeaderLen) \in {"backing", "crypt", "features"}
               PROVE  /\ verdict = "ok" <=> reached
                      /\ verdict = "ok" =>
                         /\ path.boff # 0 =>
                              \E a \in Found("BackingFile") :
                                path.bsize \in 1 .. MaxName /\ path.boff + path.bsize <= HeaderLen =>
                                  a.facts[1] = <<path.boff, path.bsize>>
                         /\ path.crypt # 0 =>
                              /\ Count("Encrypted") = 1
                              /\ Found("Encrypted") = {Finding("Encrypted", <<path.crypt>>)}
                         /\ "external data" \in IncompatSeen(path, HeaderLen) =>
                              Found("ExternalDataFile") # {}
    BY DEF RefusedAreDescribed
  <2>1. path \in Files /\ path.len \in Nat /\ HeaderLen \in Nat /\ HeaderLen <= path.len
    <3>1. path \in Files
      BY DEF Inv, ListInv
    <3>2. QED
      BY <3>1, FileTypes, Sizes DEF HeaderLen
  <2>2. ~(HeaderLen < MinHeader) /\ path.magic
    BY DEF StrictParse
  <2>3. ~(path.len < MinHeader)
    BY <2>1, <2>2, Sizes
  <2>4. path.version \in 1 .. 3
    OBVIOUS
  <2>5. LenientParse(path, HeaderLen) = "ok" /\ HeaderParse(path) = "ok"
    BY <2>2, <2>3, <2>4 DEF LenientParse, HeaderParse
  <2>6. verdict = "ok" <=> reached
    <3>1. SnapshotsParse(path) = "ok" <=> (path.nb > 0 => path.st_ok)
      BY <2>5 DEF SnapshotsParse
    <3>2. RefcountParse(path) = "ok" <=> path.rt_ok
      BY <2>5 DEF RefcountParse
    <3>3. verdict = AuditVerdict
      BY DEF Inv, ReportInv, Answered
    <3>4. QED
      BY <2>5, <3>1, <3>2, <3>3 DEF AuditVerdict
  <2>7. /\ info.backing <=> path.boff # 0
        /\ info.name = BackingName(path, HeaderLen)
        /\ info.crypt = path.crypt /\ info.incompat = IncompatSeen(path, HeaderLen)
    BY DEF Info
  <2>8. ASSUME verdict = "ok"
        PROVE  /\ Found("Encrypted") = IF info.crypt # 0 THEN {Encrypted(info)} ELSE {}
               /\ Count("Encrypted") = IF info.crypt # 0 THEN 1 ELSE 0
               /\ info.backing => Backing(info) \in Found("BackingFile")
               /\ "external data" \in info.incompat =>
                    Finding("ExternalDataFile", <<>>) \in Found("ExternalDataFile")
    BY <2>8, FoundIs, ReportContents
  <2>9. Backing(info).facts[1] = info.name /\ Encrypted(info) = Finding("Encrypted", <<info.crypt>>)
    BY DEF Backing, Encrypted, Finding
  <2>10. ASSUME path.boff # 0, path.bsize \in 1 .. MaxName, path.boff + path.bsize <= HeaderLen
         PROVE  BackingName(path, HeaderLen) = <<path.boff, path.bsize>>
    <3>1. path.bsize \in Nat /\ path.bsize # 0 /\ path.bsize <= MaxName
      BY <2>10, Sizes
    <3>2. AtMostName(path.bsize) = path.bsize
      BY <3>1, Sizes DEF AtMostName
    <3>3. QED
      BY <2>10, <3>1, <3>2 DEF BackingName, Slice
  <2> HIDE DEF info, reached
  <2>11. QED
    BY <2>6, <2>7, <2>8, <2>9, <2>10
<1>2. QED
  BY <1>1, Invariance, PTL
=============================================================================
