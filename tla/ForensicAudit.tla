--------------------------- MODULE ForensicAudit ---------------------------
(***************************************************************************)
(* forensic/src/lib.rs: audit_path runs inspect, snapshots and             *)
(* refcount_report one after the other, each on its own open of the path,  *)
(* and collects what audit, audit_snapshots and audit_orphans make of      *)
(* them.  The first error ends it and the findings so far are dropped.     *)
(*                                                                         *)
(* Of the snapshot table and the refcounts an image has only what the two  *)
(* probes return (Qcow2Snapshots, Qcow2Refcount): whether the snapshot     *)
(* table can be sought to and how many of its records can be read, whether *)
(* the refcount table the scan asks for can be read, and the counts of the *)
(* scan.  A finding is its kind and what it says of the image.             *)
(***************************************************************************)
EXTENDS Qcow2Header, Sequences, SequencesExt, FiniteSets

CONSTANTS
  Files,          \* the images that may be found at the path
  LenientWindow,  \* 8192, what inspect reads
  MaxSnapshots    \* MAX_SNAPSHOTS

IsFile(f) ==
  /\ IsHeader(f)
  /\ f.st_ok \in BOOLEAN /\ f.records \in Nat /\ f.rt_ok \in BOOLEAN
  /\ f.allocated \in Nat /\ f.orphans \in 0 .. f.allocated

ASSUME AuditAssumption ==
  /\ {LenientWindow, MaxSnapshots} \subseteq Nat \ {0}
  /\ FeatureEnd <= LenientWindow
  /\ \A f \in Files : IsFile(f)

VARIABLES
  path,      \* the image at the path
  pc,        \* "inspect", "snapshots", "refcount" or "done"
  out,       \* the findings collected
  verdict,   \* "none", "ok" or the error
  steady,    \* auxiliary: the image has not been replaced
  faulty     \* auxiliary: an I/O call failed

vars == <<path, pc, out, verdict, steady, faulty>>

HeaderFindings ==
  {"LegacyQcow1", "BackingFile", "Encrypted", "InternalSnapshots", "Dirty", "Corrupt",
   "ExternalDataFile"}

Anomalies == HeaderFindings \cup {"Snapshot", "OrphanClusters"}

TypeOK ==
  /\ path \in Files
  /\ pc \in {"inspect", "snapshots", "refcount", "done"}
  /\ \A k \in DOMAIN out : out[k].kind \in Anomalies
  /\ Len(out) <= Cardinality(HeaderFindings) + MaxSnapshots + 1
  /\ verdict \in {"none", "ok", "io", "too small", "bad magic", "version", "cluster bits"}
  /\ verdict \notin {"none", "ok"} => out = <<>>
  /\ steady \in BOOLEAN /\ faulty \in BOOLEAN

Init ==
  /\ path \in Files
  /\ pc = "inspect"
  /\ out = <<>>
  /\ verdict = "none"
  /\ steady = TRUE /\ faulty = FALSE

-----------------------------------------------------------------------------
HeaderLen == IF path.len < LenientWindow THEN path.len ELSE LenientWindow

Finding(kind, facts) == [kind |-> kind, facts |-> facts]

When(cond, a) == IF cond THEN <<a>> ELSE <<>>

(* audit *)
Audit(info) ==
  When(info.version = 1, Finding("LegacyQcow1", <<>>))
  \o When(info.backing, Finding("BackingFile", <<info.name, info.format>>))
  \o When(info.crypt # 0, Finding("Encrypted", <<info.crypt>>))
  \o When(info.nb > 0, Finding("InternalSnapshots", <<info.nb>>))
  \o When("dirty" \in info.incompat, Finding("Dirty", <<>>))
  \o When("corrupt" \in info.incompat, Finding("Corrupt", <<>>))
  \o When("external data" \in info.incompat, Finding("ExternalDataFile", <<>>))

(* audit_snapshots: one finding per snapshot, named after its record. *)
AuditSnapshots(n) == [k \in 1 .. n |-> Finding("Snapshot", <<k>>)]

(* audit_orphans *)
AuditOrphans(f) ==
  When(f.orphans > 0, Finding("OrphanClusters", <<f.orphans, f.allocated>>))

(* Bug: the table is listed to its end. *)
ListedToTheEnd(f) == f.records

(* Bug: as many snapshots are listed as the header announces. *)
ListedUncapped(f) == Min({f.nb, f.records})

(* How many snapshots the probe lists, whatever the version. *)
Listed(f) == Min({f.nb, MaxSnapshots, f.records})

(* The checks snapshots and refcount_report both make on the header. *)
HeaderParse(f) ==
  IF f.len < MinHeader THEN "too small" ELSE IF ~f.magic THEN "bad magic" ELSE "ok"

(* `?' on the seek: a table that is announced at a place no file can be    *)
(* sought to is an error.                                                  *)
SnapshotsParse(f) ==
  IF HeaderParse(f) # "ok" THEN HeaderParse(f)
  ELSE IF f.nb > 0 /\ ~f.st_ok THEN "io"
  ELSE "ok"

(* Bug: the orphan scan accepts only images that the reader can open. *)
RefcountParseStrict(f) == IF StrictParse(f, f.len) # "ok" THEN "version" ELSE "ok"

RefcountParse(f) ==
  IF HeaderParse(f) # "ok" THEN HeaderParse(f)
  ELSE IF f.version \notin 2 .. 3 THEN "version"
  ELSE IF f.cluster_bits \notin 9 .. 20 THEN "cluster bits"
  ELSE IF ~f.rt_ok THEN "io"
  ELSE "ok"

-----------------------------------------------------------------------------
(* `?': the error is returned and the findings go with the Vec. *)
Fail(v) ==
  /\ verdict' = v
  /\ pc' = "done"
  /\ out' = <<>>

Inspect ==
  /\ pc = "inspect"
  /\ IF LenientParse(path, HeaderLen) = "ok"
     THEN /\ out' = Audit(Info(path, HeaderLen))
          /\ pc' = "snapshots"
          /\ UNCHANGED verdict
     ELSE Fail(LenientParse(path, HeaderLen))
  /\ UNCHANGED <<path, steady, faulty>>

Snapshots ==
  /\ pc = "snapshots"
  /\ IF SnapshotsParse(path) = "ok"
     THEN /\ out' = out \o AuditSnapshots(Listed(path))
          /\ pc' = "refcount"
          /\ UNCHANGED verdict
     ELSE Fail(SnapshotsParse(path))
  /\ UNCHANGED <<path, steady, faulty>>

Refcount ==
  /\ pc = "refcount"
  /\ IF RefcountParse(path) = "ok"
     THEN /\ out' = out \o AuditOrphans(path)
          /\ verdict' = "ok" /\ pc' = "done"
     ELSE Fail(RefcountParse(path))
  /\ UNCHANGED <<path, steady, faulty>>

(* A call on the file of the current probe fails; the header read of the   *)
(* last two may also be short.                                             *)
Fault ==
  /\ pc # "done"
  /\ Fail("io") \/ (pc # "inspect" /\ Fail("too small"))
  /\ faulty' = TRUE
  /\ UNCHANGED <<path, steady>>

(* Another program replaces the image between two opens. *)
Replace ==
  /\ pc \in {"snapshots", "refcount"} /\ steady
  /\ \E f \in Files \ {path} : path' = f
  /\ steady' = FALSE
  /\ UNCHANGED <<pc, out, verdict, faulty>>

Next == Inspect \/ Snapshots \/ Refcount \/ Fault \/ Replace

Spec == Init /\ [][Next]_vars

-----------------------------------------------------------------------------
Answered == pc = "done" /\ steady /\ ~faulty

(* The findings of a kind, and how often it was found. *)
Found(kind) == {a \in ToSet(out) : a.kind = kind}

Count(kind) == Cardinality({k \in DOMAIN out : out[k].kind = kind})

(* "Rejected for decode (still described by inspect()/audit_path())"       *)
(* (docs/PRD.md), made exact: audit_path describes an image that the       *)
(* strict reader refuses if and only if its refcount table can be read and *)
(* its snapshots, if any, are announced at a place that can be sought to.  *)
(* Then the backing file, the encryption or the external data file for     *)
(* which it is refused is named with what the header says of it, though    *)
(* three probes with three header checks had to pass; otherwise there is   *)
(* the error of the probe and no finding at all.                           *)
RefusedAreDescribed ==
  Answered /\ path.cluster_bits \in 9 .. 20 /\ path.version \in 2 .. 3 =>
    LET seen == IncompatSeen(path, HeaderLen) IN
    StrictParse(path, HeaderLen) \in {"backing", "crypt", "features"} =>
      /\ verdict = "ok" <=> path.rt_ok /\ (path.nb > 0 => path.st_ok)
      /\ verdict = "ok" =>
           /\ path.boff # 0 =>
                \E a \in Found("BackingFile") :
                  path.bsize \in 1 .. MaxName /\ path.boff + path.bsize <= HeaderLen =>
                    a.facts[1] = <<path.boff, path.bsize>>
           /\ path.crypt # 0 =>
                /\ Count("Encrypted") = 1
                /\ Found("Encrypted") = {Finding("Encrypted", <<path.crypt>>)}
           /\ "external data" \in seen => Found("ExternalDataFile") # {}

(* The three probes tell one story of an image that stays the same         *)
(* (forensic/src/lib.rs audit_path): as many snapshots are listed as the   *)
(* header finding announces, unless the table is cut or longer than the    *)
(* cap; and orphans are among the clusters the scan went through.          *)
FindingsTellOneStory ==
  Answered /\ verdict = "ok" =>
    LET listed == Count("Snapshot") IN
    /\ Found("InternalSnapshots") = {} => listed = 0
    /\ \A a \in Found("InternalSnapshots") :
         /\ listed <= a.facts[1]
         /\ listed < a.facts[1] => listed \in {path.records, MaxSnapshots}
    /\ \A a \in Found("OrphanClusters") : a.facts[1] \in 1 .. a.facts[2]
    /\ (path.orphans > 0) = (Found("OrphanClusters") # {})

(* "audit_path() ... validated against real ... v1 images" (README.md):    *)
(* the audit of a version 1 image reports the legacy format.               *)
LegacyIsReported ==
  Answered /\ LenientParse(path, HeaderLen) = "ok" /\ path.version = 1 =>
    Found("LegacyQcow1") # {}
=============================================================================
