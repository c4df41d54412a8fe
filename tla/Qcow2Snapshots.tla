--------------------------- MODULE Qcow2Snapshots ---------------------------
(***************************************************************************)
(* core/src/snapshots.rs: snapshots walks the packed snapshot table.  A    *)
(* record is a fixed part, extra data, an id and a name, padded to a       *)
(* multiple of Align; each step is one read or skip of the file.  The one  *)
(* read of the header may be short.                                        *)
(*                                                                         *)
(* A file decodes to the sizes of a record at every place where the fixed  *)
(* part fits.  A string is the place it was read from and its length.      *)
(***************************************************************************)
EXTENDS Integers, Sequences

CONSTANTS
  Files,          \* images whose snapshots may be listed
  MinHeader,      \* 72
  HeaderWindow,   \* 104, what is read of the header
  Fixed,          \* 40, SNAPSHOT_HEADER_FIXED
  Align,          \* 8
  StrSizes,       \* 1 << 16, the number of values of id_str_size and name_size
  MaxStr,         \* MAX_STR_LEN
  MaxExtra,       \* MAX_EXTRA_DATA
  MaxSnapshots,   \* MAX_SNAPSHOTS
  SeekLimit       \* 1 << 63, the first place a File cannot be sought to

IsFile(f) ==
  /\ f.len \in Nat /\ f.magic \in BOOLEAN /\ f.nb \in Nat /\ f.table \in Nat
  /\ f.rec \in [0 .. (f.len - Fixed) ->
                  [id : 0 .. (StrSizes - 1), name : 0 .. (StrSizes - 1), extra : Nat]]

(* A u16 string size is always below its cap, and what is left of the file *)
(* after a record whose padding does not fit holds no other record.        *)
ASSUME SnapshotsAssumption ==
  /\ {MinHeader, HeaderWindow, Fixed, Align, StrSizes, MaxStr, MaxExtra, MaxSnapshots,
      SeekLimit} \subseteq Nat \ {0}
  /\ StrSizes <= MaxStr
  /\ Align <= Fixed
  /\ \A f \in Files : IsFile(f)

VARIABLES
  file,      \* the image; fixed
  pc,        \* "header", "fixed", "extra", "id", "name", "pad" or "done"
  left,      \* how often the loop still runs
  pos,       \* the file cursor
  cur,       \* the record being read, in the form it is returned in
  out,       \* the snapshots found
  faults,    \* auxiliary: which calls failed though the image has the bytes
  verdict    \* "none", "ok" or the error

vars == <<file, pc, left, pos, cur, out, faults, verdict>>

Strings == [at : Nat, size : 0 .. (StrSizes - 1)]

Snapshots == [start : Nat, id : Strings, name : Strings]

NoString == [at |-> 0, size |-> 0]

NoSnapshot == [start |-> 0, id |-> NoString, name |-> NoString]

TypeOK ==
  /\ pc \in {"header", "fixed", "extra", "id", "name", "pad", "done"}
  /\ left \in 0 .. MaxSnapshots
  /\ pos \in Nat
  /\ cur \in Snapshots
  /\ out \in Seq(Snapshots) /\ Len(out) + left <= MaxSnapshots
  /\ faults \subseteq {"part", "padding"}
  /\ verdict \in {"none", "ok", "io", "too small", "bad magic"}

Init ==
  /\ file \in Files
  /\ pc = "header"
  /\ left = 0 /\ pos = 0
  /\ cur = NoSnapshot /\ out = <<>>
  /\ faults = {}
  /\ verdict = "none"

-----------------------------------------------------------------------------
Min2(a, b) == IF a < b THEN a ELSE b

(* Bug: the number of snapshots is taken as it is. *)
CountUncapped(f) == f.nb

(* Bug: the cap is one too low. *)
CountBelowCap(f) == Min2(f.nb, MaxSnapshots - 1)

Count(f) == Min2(f.nb, MaxSnapshots)

Capped(f, p) ==
  [id    |-> Min2(f.rec[p].id, MaxStr),
   name  |-> Min2(f.rec[p].name, MaxStr),
   extra |-> Min2(f.rec[p].extra, MaxExtra)]

(* (8 - (consumed % 8)) % 8 *)
Pad(size) == (Align - (size % Align)) % Align

Sizes == Capped(file, cur.start)

Consumed == Fixed + Sizes.extra + Sizes.id + Sizes.name

Seekable(p) == p < SeekLimit

Finish(v) ==
  /\ verdict' = v
  /\ pc' = "done"

(* The file is opened, its header read and the table sought to; any of the *)
(* calls may fail.                                                         *)
NoHeader ==
  /\ pc = "header"
  /\ Finish("io")
  /\ UNCHANGED <<file, left, pos, cur, out, faults>>

Header ==
  /\ pc = "header"
  /\ \E n \in 0 .. Min2(file.len, HeaderWindow) :
       IF n < MinHeader
       THEN (n = 0 => file.len = 0) /\ Finish("too small") /\ UNCHANGED <<left, pos>>
       ELSE IF ~file.magic THEN Finish("bad magic") /\ UNCHANGED <<left, pos>>
       ELSE IF Count(file) = 0 \/ file.table = 0 THEN Finish("ok") /\ UNCHANGED <<left, pos>>
       ELSE IF ~Seekable(file.table) THEN Finish("io") /\ UNCHANGED <<left, pos>>
       ELSE pc' = "fixed" /\ left' = Count(file) /\ pos' = file.table /\ UNCHANGED verdict
  /\ UNCHANGED <<file, cur, out, faults>>

(* The fixed part is read in full or the walk ends. *)
ReadFixed ==
  /\ pc = "fixed" /\ left > 0 /\ pos + Fixed <= file.len
  /\ pc' = "extra"
  /\ left' = left - 1
  /\ pos' = pos + Fixed
  /\ cur' = [NoSnapshot EXCEPT !.start = pos]
  /\ UNCHANGED <<file, out, faults, verdict>>

(* Bug: the cursor is moved past the end of the file. *)
SkipFitsAlways(size) == TRUE

(* skip checks the end of the file, as seek does not. *)
SkipFits(size) == pos + size <= file.len

SkipExtra ==
  /\ pc = "extra"
  /\ Sizes.extra = 0 \/ SkipFits(Sizes.extra)
  /\ pc' = "id"
  /\ pos' = pos + Sizes.extra
  /\ UNCHANGED <<file, left, cur, out, faults, verdict>>

(* read_string; nothing is read of an empty string. *)
ReadString(field, size, next) ==
  /\ pc = field
  /\ size = 0 \/ pos + size <= file.len
  /\ pc' = next
  /\ pos' = pos + size
  /\ cur' = [cur EXCEPT ![field] = [at |-> pos, size |-> size]]
  /\ UNCHANGED <<file, left, out, faults, verdict>>

ReadId == ReadString("id", Sizes.id, "name")

ReadName == ReadString("name", Sizes.name, "pad")

(* The size of the part that is to be read or skipped. *)
PartSize ==
  CASE pc = "fixed" -> Fixed
    [] pc = "extra" -> Sizes.extra
    [] pc = "id"    -> Sizes.id
    [] pc = "name"  -> Sizes.name

(* The part lies past the end of the file, or the call fails: `break'. *)
StopEarly ==
  /\ pc \in {"fixed", "extra", "id", "name"}
  /\ pc = "fixed" => left > 0
  /\ PartSize > 0
  /\ Finish("ok")
  /\ faults' = faults \cup (IF pos + PartSize <= file.len THEN {"part"} ELSE {})
  /\ UNCHANGED <<file, left, pos, cur, out>>

(* The padding is skipped and the record is kept, also when the skip fails *)
(* and the cursor stays where it is.                                       *)
Push ==
  /\ pc = "pad"
  /\ pc' = "fixed"
  /\ out' = Append(out, cur)
  /\ LET fits == Pad(Consumed) = 0 \/ SkipFits(Pad(Consumed)) IN
     \/ /\ fits
        /\ pos' = pos + Pad(Consumed) /\ UNCHANGED faults
     \/ /\ Pad(Consumed) > 0
        /\ faults' = faults \cup (IF fits THEN {"padding"} ELSE {}) /\ UNCHANGED pos
  /\ UNCHANGED <<file, left, cur, verdict>>

EndOfTable ==
  /\ pc = "fixed" /\ left = 0
  /\ Finish("ok")
  /\ UNCHANGED <<file, left, pos, cur, out, faults>>

Next ==
  \/ NoHeader \/ Header
  \/ ReadFixed \/ SkipExtra \/ ReadId \/ ReadName \/ StopEarly
  \/ Push \/ EndOfTable

Spec == Init /\ [][Next]_vars

-----------------------------------------------------------------------------
(***************************************************************************)
(* The table as the format defines it: each record is where the one before *)
(* it ends, at the next multiple of Align, and its parts follow each other *)
(* at their recorded sizes.                                                *)
(***************************************************************************)
SizeAt(p) == Fixed + file.rec[p].extra + file.rec[p].id + file.rec[p].name

InFile(p) == p \in 0 .. (file.len - Fixed) /\ p + SizeAt(p) <= file.len

(* Where record n begins; -1 when an earlier one does not fit in the file. *)
Start[n \in Nat] ==
  IF n <= 1 THEN file.table
  ELSE IF ~InFile(Start[n - 1]) THEN -1
  ELSE Start[n - 1] + ((SizeAt(Start[n - 1]) + Align - 1) \div Align) * Align

Record(p) ==
  LET id_at == p + Fixed + file.rec[p].extra IN
  [start |-> p,
   id    |-> [at |-> id_at, size |-> file.rec[p].id],
   name  |-> [at |-> id_at + file.rec[p].id, size |-> file.rec[p].name]]

(* Whatever reads fail, the snapshots returned are the first records of    *)
(* the table, each with its own id and name (snapshots.rs snapshots: "a    *)
(* partially-recoverable table still yields the snapshots that parsed      *)
(* cleanly"), unless a padding inside the file could not be skipped.       *)
SnapshotsAreRecords ==
  "padding" \notin faults => \A n \in DOMAIN out :
    /\ InFile(Start[n])
    /\ out[n] = Record(Start[n])

(* "enumeration stops at the first record that cannot be read in full" and *)
(* not before (snapshots.rs snapshots): when no call fails, the list ends  *)
(* at the announced or the largest count, or at the first record that runs *)
(* past the end of the file, be it by its last byte.                       *)
StopsAtFirstUnreadable ==
  verdict = "ok" /\ faults = {} /\ file.table # 0 =>
    \/ Len(out) = Min2(file.nb, MaxSnapshots)
    \/ ~InFile(Start[Len(out) + 1])
=============================================================================
