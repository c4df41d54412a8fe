------------------------ MODULE Qcow2SnapshotsProofs ------------------------
(***************************************************************************)
(* Proofs about Qcow2Snapshots, for every file and every size of a         *)
(* record's parts.                                                         *)
(***************************************************************************)
EXTENDS Qcow2Snapshots, NatFacts, SequenceTheorems

-----------------------------------------------------------------------------
(***************************************************************************)
(* The table as a function of the file f, whose records begin where        *)
(* StartOf(f) says.                                                        *)
(***************************************************************************)
SizeIn(f, p) == Fixed + f.rec[p].extra + f.rec[p].id + f.rec[p].name

FitsIn(f, p) == p \in 0 .. (f.len - Fixed) /\ p + SizeIn(f, p) <= f.len

(* The place after a record of a given size. *)
Padded(size) == ((size + Align - 1) \div Align) * Align

NextPlace(f, p) == IF ~FitsIn(f, p) THEN -1 ELSE p + Padded(SizeIn(f, p))

StartOf(f) ==
  LET start[n \in Nat] == IF n <= 1 THEN f.table ELSE NextPlace(f, start[n - 1])
  IN  start

RecordIn(f, p) ==
  LET id_at == p + Fixed + f.rec[p].extra IN
  [start |-> p,
   id    |-> [at |-> id_at, size |-> f.rec[p].id],
   name  |-> [at |-> id_at + f.rec[p].id, size |-> f.rec[p].name]]

-----------------------------------------------------------------------------
(***************************************************************************)
(* The inductive invariant.  Of what holds of every table: how many        *)
(* records are read and left, and where in the record that is being read   *)
(* the cursor stands.                                                      *)
(***************************************************************************)
InRecord == pc \in {"extra", "id", "name", "pad"}

CountInv ==
  /\ file \in Files
  /\ verdict = "none" <=> pc # "done"
  /\ pc = "header" => out = <<>>
  /\ pc = "fixed" => left + Len(out) = Count(file)
  /\ InRecord => left + Len(out) + 1 = Count(file)

(* The places of the parts of the record at s. *)
IdAt(f, s) == s + Fixed + Capped(f, s).extra
NameAt(f, s) == IdAt(f, s) + f.rec[s].id
EndAt(f, s) == NameAt(f, s) + f.rec[s].name

PartsInv ==
  InRecord =>
    /\ cur.start \in 0 .. (file.len - Fixed)
    /\ pos <= file.len
    /\ pos = CASE pc = "extra" -> cur.start + Fixed
               [] pc = "id"    -> IdAt(file, cur.start)
               [] pc = "name"  -> NameAt(file, cur.start)
               [] pc = "pad"   -> EndAt(file, cur.start)
    /\ pc \in {"name", "pad"} =>
         cur.id = [at |-> IdAt(file, cur.start), size |-> file.rec[cur.start].id]
    /\ pc = "pad" =>
         cur.name = [at |-> NameAt(file, cur.start), size |-> file.rec[cur.start].name]

Inv == TypeOK /\ CountInv /\ PartsInv

(***************************************************************************)
(* Of tables whose extra data is within its cap, as long as no padding was *)
(* left unskipped that could have been: the cursor is on the records the   *)
(* format defines.  After the last record it may be short of the place of  *)
(* the next, as padding past the end of the file cannot be skipped.        *)
(***************************************************************************)
ExtraInCap == \A f \in Files : \A p \in DOMAIN f.rec : f.rec[p].extra <= MaxExtra

Here == StartOf(file)[Len(out) + 1]

PlaceInv ==
  "padding" \notin faults =>
    /\ pc = "fixed" /\ (pos + Fixed <= file.len \/ FitsIn(file, Here)) => pos = Here
    /\ InRecord => cur.start = Here

RecordsInv ==
  "padding" \notin faults => \A n \in 1 .. Len(out) :
    /\ FitsIn(file, StartOf(file)[n])
    /\ out[n] = RecordIn(file, StartOf(file)[n])

StopInv ==
  verdict = "ok" /\ faults = {} /\ file.table # 0 =>
    Len(out) = Count(file) \/ ~FitsIn(file, Here)

WalkInv == PlaceInv /\ RecordsInv /\ StopInv

-----------------------------------------------------------------------------
(* The operators. *)

(* The constants are natural numbers, with the caps and sizes in order. *)
LEMMA Constants ==
  /\ MinHeader \in Nat /\ HeaderWindow \in Nat
  /\ Fixed \in Nat \ {0} /\ Align \in Nat \ {0} /\ Align <= Fixed
  /\ StrSizes \in Nat \ {0} /\ MaxStr \in Nat /\ StrSizes <= MaxStr
  /\ MaxExtra \in Nat /\ MaxSnapshots \in Nat /\ SeekLimit \in Nat
<1>1. \A x \in {MinHeader, HeaderWindow, Fixed, Align, StrSizes, MaxStr, MaxExtra, MaxSnapshots,
                SeekLimit} :
        x \in Nat \ {0}
  BY SnapshotsAssumption
<1>2. StrSizes <= MaxStr /\ Align <= Fixed
  BY SnapshotsAssumption
<1>3. QED
  BY <1>1, <1>2

(* A string is read at its recorded size: the cap of read_string is above  *)
(* what a u16 holds.  Extra data is cut at its cap.                        *)
LEMMA CappedSizes ==
  ASSUME NEW f, IsFile(f), NEW p \in 0 .. (f.len - Fixed)
  PROVE  /\ f.len \in Nat /\ p \in Nat
         /\ f.rec[p].id \in 0 .. (StrSizes - 1)
         /\ f.rec[p].name \in 0 .. (StrSizes - 1)
         /\ f.rec[p].extra \in Nat
         /\ Capped(f, p).id = f.rec[p].id
         /\ Capped(f, p).name = f.rec[p].name
         /\ Capped(f, p).extra \in Nat
         /\ f.rec[p].extra <= MaxExtra => Capped(f, p).extra = f.rec[p].extra
<1>1. f.rec[p] \in [id : 0 .. (StrSizes - 1), name : 0 .. (StrSizes - 1), extra : Nat]
  BY DEF IsFile
<1>2. f.len \in Nat
  BY DEF IsFile
<1>3. /\ f.rec[p].id \in 0 .. (StrSizes - 1)
      /\ f.rec[p].name \in 0 .. (StrSizes - 1)
      /\ f.rec[p].extra \in Nat
  BY <1>1
<1>4. Min2(f.rec[p].id, MaxStr) = f.rec[p].id /\ Min2(f.rec[p].name, MaxStr) = f.rec[p].name
  BY <1>3, Constants DEF Min2
<1>5. /\ Min2(f.rec[p].extra, MaxExtra) \in Nat
      /\ f.rec[p].extra <= MaxExtra => Min2(f.rec[p].extra, MaxExtra) = f.rec[p].extra
  BY <1>3, Constants DEF Min2
<1>6. QED
  BY <1>2, <1>3, <1>4, <1>5 DEF Capped

(* The loop runs no more often than the cap. *)
LEMMA CountType ==
  ASSUME NEW f, IsFile(f)
  PROVE  Count(f) \in 0 .. MaxSnapshots
<1>1. f.nb \in Nat
  BY DEF IsFile
<1>2. QED
  BY <1>1, Constants DEF Count, Min2

(* Skipping the padding gets to the next multiple of Align, which is less  *)
(* than Align away.                                                        *)
LEMMA PadAligns ==
  ASSUME NEW size \in Nat
  PROVE  /\ Pad(size) \in Nat /\ Pad(size) < Align
         /\ Padded(size) = size + Pad(size)
<1> DEFINE c == Align
           q == size \div c
           r == size % c
<1>1. c \in Nat \ {0}
  BY Constants
<1>2. q \in Nat /\ r \in 0 .. (c - 1) /\ size = c * q + r
  BY <1>1, DivMod
<1> HIDE DEF q, r
<1>3. CASE r = 0
  <2>1. Pad(size) = 0
    <3>1. Pad(size) = (c - r) % c
      BY DEF Pad, r
    <3>2. (c * 1 + 0) % c = 0
      BY <1>1
    <3>3. QED
      BY <1>1, <1>3, <3>1, <3>2
  <2>2. Padded(size) = c * q
    <3>1. size + c - 1 = c * q + (c - 1) /\ c - 1 \in 0 .. (c - 1)
      BY <1>1, <1>2, <1>3
    <3>2. (c * q + (c - 1)) \div c = q
      BY <1>1, <1>2, <3>1
    <3>3. QED
      BY <1>1, <1>2, <3>1, <3>2 DEF Padded
  <2>3. QED
    BY <1>1, <1>2, <1>3, <2>1, <2>2
<1>4. CASE r # 0
  <2>1. Pad(size) = c - r
    <3>1. Pad(size) = (c - r) % c
      BY DEF Pad, r
    <3>2. c - r \in 0 .. (c - 1)
      BY <1>1, <1>2, <1>4
    <3> HIDE DEF c
    <3>3. (c - r) % c = c - r
      BY <1>1, <3>2
    <3>4. QED
      BY <3>1, <3>3
  <2>2. Padded(size) = c * q + c
    <3>1. size + c - 1 = c * (q + 1) + (r - 1) /\ r - 1 \in 0 .. (c - 1) /\ q + 1 \in Nat
      BY <1>1, <1>2, <1>4
    <3>2. ASSUME NEW k \in Nat, NEW i \in 0 .. (c - 1)
          PROVE  (c * k + i) \div c = k
      BY <1>1
    <3>3. (c * (q + 1) + (r - 1)) \div c = q + 1
      BY <3>1, <3>2
    <3>4. QED
      BY <1>1, <1>2, <3>1, <3>3 DEF Padded
  <2>3. QED
    BY <1>1, <1>2, <1>4, <2>1, <2>2
<1>5. QED
  BY <1>3, <1>4

(* The places of the records, one after another. *)
LEMMA StartSteps ==
  ASSUME NEW f, IsFile(f)
  PROVE  /\ StartOf(f)[1] = f.table
         /\ \A n \in Nat \ {0} : StartOf(f)[n + 1] = NextPlace(f, StartOf(f)[n])
<1> DEFINE h == [v \in Int |-> NextPlace(f, v)]
           body(s, n) == IF n <= 1 THEN f.table ELSE NextPlace(f, s[n - 1])
<1>1. f.table \in Int
  BY DEF IsFile
<1>2. h \in [Int -> Int]
  <2>1. ASSUME NEW v \in Int, FitsIn(f, v)
        PROVE  v + Padded(SizeIn(f, v)) \in Int
    <3>1. v \in 0 .. (f.len - Fixed)
      BY <2>1 DEF FitsIn
    <3>2. SizeIn(f, v) \in Nat
      BY <3>1, CappedSizes, Constants DEF SizeIn
    <3>3. Padded(SizeIn(f, v)) \in Nat
      BY <3>2, PadAligns
    <3>4. QED
      BY <3>3
  <2>2. \A v \in Int : NextPlace(f, v) \in Int
    BY <2>1 DEF NextPlace
  <2>3. QED
    BY <2>2
<1>3. PICK g \in [Nat -> Int] : g[0] = f.table /\ \A k \in Nat : g[k + 1] = h[g[k]]
  <2> DEFINE v0 == f.table
             V == Int
  <2>1. v0 \in V /\ h \in [V -> V]
    BY <1>1, <1>2
  <2> HIDE DEF h, v0, V
  <2>2. \E g \in [Nat -> V] : g[0] = v0 /\ \A k \in Nat : g[k + 1] = h[g[k]]
    BY <2>1, Iteration
  <2>3. QED
    BY <2>2 DEF v0, V
<1> DEFINE s == [n \in Nat |-> IF n <= 1 THEN f.table ELSE g[n - 1]]
<1>4. s = [n \in Nat |-> body(s, n)]
  <2>1. ASSUME NEW n \in Nat
        PROVE  s[n] = body(s, n)
    <3>1. CASE n <= 1
      BY <3>1
    <3>2. CASE n = 2
      <4>1. s[n] = g[0 + 1] /\ s[n - 1] = f.table
        BY <3>2
      <4>2. g[0 + 1] = NextPlace(f, f.table)
        BY <1>1, <1>3
      <4>3. QED
        BY <3>2, <4>1, <4>2
    <3>3. CASE n > 2
      <4>1. s[n] = g[(n - 2) + 1] /\ s[n - 1] = g[n - 2] /\ n - 2 \in Nat
        BY <3>3
      <4>2. g[(n - 2) + 1] = NextPlace(f, g[n - 2])
        BY <1>3, <4>1
      <4>3. QED
        BY <3>3, <4>1, <4>2
    <3>4. QED
      BY <3>1, <3>2, <3>3
  <2> HIDE DEF body
  <2>2. QED
    BY <2>1
<1> DEFINE start == CHOOSE t : t = [n \in Nat |-> body(t, n)]
<1>5. start = [n \in Nat |-> body(start, n)]
  <2> HIDE DEF body, s
  <2>1. QED
    BY <1>4
<1>6. StartOf(f) = start
  BY DEF StartOf
<1> HIDE DEF start
<1>7. start[1] = f.table
  BY <1>5
<1>8. ASSUME NEW n \in Nat \ {0}
      PROVE  start[n + 1] = NextPlace(f, start[n])
  <2>1. n + 1 \in Nat /\ ~(n + 1 <= 1) /\ (n + 1) - 1 = n
    OBVIOUS
  <2>2. start[n + 1] = body(start, n + 1)
    <3> HIDE DEF body
    <3>1. QED
      BY <1>5, <2>1
  <2>3. QED
    BY <2>1, <2>2
<1>9. QED
  BY <1>6, <1>7, <1>8

(* The table of the file is the table of the specification. *)
LEMMA TableIsTable ==
  /\ Start = StartOf(file)
  /\ \A p : InFile(p) <=> FitsIn(file, p)
  /\ \A p : Record(p) = RecordIn(file, p)
<1>1. \A p : SizeAt(p) = SizeIn(file, p)
  BY DEF SizeAt, SizeIn
<1>2. \A p : InFile(p) <=> FitsIn(file, p)
  BY <1>1 DEF InFile, FitsIn
<1>3. \A p : Record(p) = RecordIn(file, p)
  BY DEF Record, RecordIn
<1>4. Start = StartOf(file)
  BY DEF Start, StartOf, NextPlace, Padded, InFile, FitsIn, SizeAt, SizeIn
<1>5. QED
  BY <1>2, <1>3, <1>4

-----------------------------------------------------------------------------
(* The steps keep Inv. *)

(* No record has been read. *)
LEMMA InitInv == Init => Inv
<1> SUFFICES ASSUME Init
             PROVE  Inv
  OBVIOUS
<1>1. NoSnapshot \in Snapshots
  BY Constants DEF NoSnapshot, NoString, Snapshots, Strings
<1>2. 0 \in 0 .. MaxSnapshots /\ Len(<<>>) + 0 <= MaxSnapshots
  BY Constants
<1>3. <<>> \in Seq(Snapshots)
  OBVIOUS
<1>4. TypeOK
  BY <1>1, <1>2, <1>3 DEF Init, TypeOK
<1>5. CountInv /\ PartsInv
  BY DEF Init, CountInv, PartsInv, InRecord
<1>6. QED
  BY <1>4, <1>5 DEF Inv

(* The file is one of those the assumption speaks of. *)
LEMMA FileType == Inv => IsFile(file)
  BY SnapshotsAssumption DEF Inv, CountInv

(* The call returns. *)
LEMMA DoneInv ==
  ASSUME Inv, pc' = "done", UNCHANGED <<file, left, pos, cur, out>>,
         verdict' \in {"ok", "io", "too small", "bad magic"},
         faults' \subseteq {"part", "padding"}
  PROVE  Inv'
<1>1. TypeOK'
  BY DEF Inv, TypeOK
<1>2. CountInv' /\ PartsInv'
  BY DEF Inv, CountInv, PartsInv, InRecord
<1>3. QED
  BY <1>1, <1>2 DEF Inv

(* The number of turns is the announced one, or the cap. *)
LEMMA HeaderInv ==
  ASSUME Inv, Header
  PROVE  Inv'
<1>1. PICK n \in 0 .. Min2(file.len, HeaderWindow) :
        IF n < MinHeader
        THEN (n = 0 => file.len = 0) /\ Finish("too small") /\ UNCHANGED <<left, pos>>
        ELSE IF ~file.magic THEN Finish("bad magic") /\ UNCHANGED <<left, pos>>
        ELSE IF Count(file) = 0 \/ file.table = 0 THEN Finish("ok") /\ UNCHANGED <<left, pos>>
        ELSE IF ~Seekable(file.table) THEN Finish("io") /\ UNCHANGED <<left, pos>>
        ELSE pc' = "fixed" /\ left' = Count(file) /\ pos' = file.table /\ UNCHANGED verdict
  BY DEF Header
<1>2. UNCHANGED <<file, cur, out, faults>> /\ pc = "header"
  BY DEF Header
<1>3. CASE pc' = "done"
  <2>1. /\ verdict' \in {"ok", "io", "too small", "bad magic"} /\ UNCHANGED <<left, pos>>
        /\ faults' \subseteq {"part", "padding"}
    BY <1>1, <1>2, <1>3 DEF Finish, Inv, TypeOK
  <2>2. QED
    BY <1>2, <1>3, <2>1, DoneInv
<1>4. CASE pc' # "done"
  <2>1. pc' = "fixed" /\ left' = Count(file) /\ pos' = file.table /\ UNCHANGED verdict
    BY <1>1, <1>4 DEF Finish
  <2>2. Count(file) \in 0 .. MaxSnapshots /\ file.table \in Nat
    BY FileType, CountType DEF IsFile
  <2>3. out = <<>>
    BY <1>2 DEF Inv, CountInv
  <2>4. Len(out) = 0
    BY <2>3
  <2>5. left' \in 0 .. MaxSnapshots /\ Len(out') + left' <= MaxSnapshots
    BY <1>2, <2>1, <2>2, <2>4, Constants
  <2>6. TypeOK'
    BY <1>2, <2>1, <2>2, <2>5 DEF Inv, TypeOK
  <2>7. CountInv' /\ PartsInv'
    BY <1>2, <2>1, <2>2, <2>4 DEF Inv, CountInv, PartsInv, InRecord
  <2>8. QED
    BY <2>6, <2>7 DEF Inv
<1>5. QED
  BY <1>3, <1>4

(* The fixed part was read: the cursor is behind it, one turn is used. *)
LEMMA ReadFixedInv ==
  ASSUME Inv, ReadFixed
  PROVE  Inv'
<1>1. /\ pc = "fixed" /\ left > 0 /\ pos + Fixed <= file.len
      /\ pc' = "extra" /\ left' = left - 1 /\ pos' = pos + Fixed
      /\ cur' = [NoSnapshot EXCEPT !.start = pos]
      /\ UNCHANGED <<file, out, faults, verdict>>
  BY DEF ReadFixed
<1>2. /\ left \in 0 .. MaxSnapshots /\ pos \in Nat /\ file.len \in Nat
      /\ Len(out) + left <= MaxSnapshots /\ Len(out) \in Nat
      /\ MaxSnapshots \in Nat /\ Fixed \in Nat
  BY FileType, Constants, LenProperties DEF Inv, TypeOK, IsFile
<1>3. cur'.start = pos /\ cur' \in Snapshots
  <2>1. cur' = [start |-> pos, id |-> NoString, name |-> NoString]
    BY <1>1 DEF NoSnapshot
  <2>2. NoString \in Strings
    BY Constants DEF NoString, Strings
  <2>3. QED
    BY <1>2, <2>1, <2>2 DEF Snapshots
<1>4. TypeOK'
  <2>1. pos' \in Nat /\ left' \in 0 .. MaxSnapshots /\ Len(out') + left' <= MaxSnapshots
    BY <1>1, <1>2
  <2>2. QED
    BY <1>1, <1>3, <2>1 DEF Inv, TypeOK
<1>5. CountInv'
  BY <1>1, <1>2 DEF Inv, CountInv, InRecord
<1>6. PartsInv'
  BY <1>1, <1>2, <1>3 DEF PartsInv, InRecord
<1>7. QED
  BY <1>4, <1>5, <1>6 DEF Inv

(* Inside a record. *)
LEMMA InRecordFacts ==
  ASSUME Inv, InRecord
  PROVE  /\ cur.start \in 0 .. (file.len - Fixed) /\ cur.start \in Nat
         /\ Sizes = Capped(file, cur.start)
         /\ Sizes.extra \in Nat
         /\ Sizes.id = file.rec[cur.start].id /\ Sizes.id \in 0 .. (StrSizes - 1)
         /\ Sizes.name = file.rec[cur.start].name /\ Sizes.name \in 0 .. (StrSizes - 1)
         /\ pos \in Nat /\ file.len \in Nat
<1>1. cur.start \in 0 .. (file.len - Fixed) /\ IsFile(file) /\ pos \in Nat
  BY FileType DEF Inv, PartsInv, TypeOK
<1>2. QED
  BY <1>1, CappedSizes DEF Sizes

(* The extra data is behind the cursor, as far as its cap. *)
LEMMA SkipExtraInv ==
  ASSUME Inv, SkipExtra
  PROVE  Inv'
<1>1. /\ pc = "extra" /\ pc' = "id" /\ pos' = pos + Sizes.extra
      /\ Sizes.extra = 0 \/ pos + Sizes.extra <= file.len
      /\ UNCHANGED <<file, left, cur, out, faults, verdict>>
  BY DEF SkipExtra, SkipFits
<1>2. InRecord
  BY <1>1 DEF InRecord
<1>3. pos = cur.start + Fixed /\ pos <= file.len
  BY <1>1, <1>2 DEF Inv, PartsInv
<1>4. pos' \in Nat /\ pos' <= file.len /\ pos' = IdAt(file, cur.start)
  BY <1>1, <1>2, <1>3, InRecordFacts, Constants DEF IdAt
<1>5. TypeOK'
  BY <1>1, <1>4 DEF Inv, TypeOK
<1>6. CountInv'
  BY <1>1 DEF Inv, CountInv, InRecord
<1>7. PartsInv'
  BY <1>1, <1>2, <1>4, InRecordFacts DEF PartsInv, InRecord
<1>8. QED
  BY <1>5, <1>6, <1>7 DEF Inv

(* The id was read from its place at its size. *)
LEMMA ReadIdInv ==
  ASSUME Inv, ReadId
  PROVE  Inv'
<1> DEFINE string == [at |-> pos, size |-> Sizes.id]
<1>1. /\ pc = "id" /\ pc' = "name" /\ pos' = pos + Sizes.id
      /\ Sizes.id = 0 \/ pos + Sizes.id <= file.len
      /\ cur' = [cur EXCEPT !["id"] = string]
      /\ UNCHANGED <<file, left, out, faults, verdict>>
  BY DEF ReadId, ReadString
<1>2. InRecord
  BY <1>1 DEF InRecord
<1>3. pos = IdAt(file, cur.start) /\ pos <= file.len
  BY <1>1, <1>2 DEF Inv, PartsInv
<1>4. pos' \in Nat /\ pos' <= file.len /\ pos' = NameAt(file, cur.start)
  BY <1>1, <1>2, <1>3, InRecordFacts, Constants DEF NameAt
<1>5. cur \in Snapshots /\ string \in Strings
  BY <1>2, InRecordFacts DEF Inv, TypeOK, Strings
<1>6. cur' \in Snapshots /\ cur'.start = cur.start /\ cur'.id = string
  <2> HIDE DEF string
  <2>1. QED
    BY <1>1, <1>5 DEF Snapshots
<1>7. TypeOK'
  BY <1>1, <1>4, <1>6 DEF Inv, TypeOK
<1>8. CountInv'
  BY <1>1 DEF Inv, CountInv, InRecord
<1>9. PartsInv'
  BY <1>1, <1>2, <1>3, <1>4, <1>6, InRecordFacts DEF PartsInv, InRecord
<1>10. QED
  BY <1>7, <1>8, <1>9 DEF Inv

(* So was the name, behind the id. *)
LEMMA ReadNameInv ==
  ASSUME Inv, ReadName
  PROVE  Inv'
<1> DEFINE string == [at |-> pos, size |-> Sizes.name]
<1>1. /\ pc = "name" /\ pc' = "pad" /\ pos' = pos + Sizes.name
      /\ Sizes.name = 0 \/ pos + Sizes.name <= file.len
      /\ cur' = [cur EXCEPT !["name"] = string]
      /\ UNCHANGED <<file, left, out, faults, verdict>>
  BY DEF ReadName, ReadString
<1>2. InRecord
  BY <1>1 DEF InRecord
<1>3. /\ pos = NameAt(file, cur.start) /\ pos <= file.len
      /\ cur.id = [at |-> IdAt(file, cur.start), size |-> file.rec[cur.start].id]
  BY <1>1, <1>2 DEF Inv, PartsInv
<1>4. pos' \in Nat /\ pos' <= file.len /\ pos' = EndAt(file, cur.start)
  BY <1>1, <1>2, <1>3, InRecordFacts, Constants DEF EndAt
<1>5. cur \in Snapshots /\ string \in Strings
  BY <1>2, InRecordFacts DEF Inv, TypeOK, Strings
<1>6. cur' \in Snapshots /\ cur'.start = cur.start /\ cur'.id = cur.id /\ cur'.name = string
  <2> HIDE DEF string
  <2>1. QED
    BY <1>1, <1>5 DEF Snapshots
<1>7. TypeOK'
  BY <1>1, <1>4, <1>6 DEF Inv, TypeOK
<1>8. CountInv'
  BY <1>1 DEF Inv, CountInv, InRecord
<1>9. PartsInv'
  BY <1>1, <1>2, <1>3, <1>4, <1>6, InRecordFacts DEF PartsInv, InRecord
<1>10. QED
  BY <1>7, <1>8, <1>9 DEF Inv

(* The record is complete and joins the list. *)
LEMMA PushInv ==
  ASSUME Inv, Push
  PROVE  Inv'
<1>1. /\ pc = "pad" /\ pc' = "fixed" /\ out' = Append(out, cur)
      /\ UNCHANGED <<file, left, cur, verdict>>
  BY DEF Push
<1>2. InRecord
  BY <1>1 DEF InRecord
<1>3. /\ pos' \in {pos, pos + Pad(Consumed)}
      /\ faults' \subseteq {"part", "padding"}
  BY DEF Push, Inv, TypeOK
<1>4. Pad(Consumed) \in Nat /\ pos \in Nat
  BY <1>2, InRecordFacts, Constants, PadAligns DEF Consumed
<1>5. /\ out' \in Seq(Snapshots) /\ Len(out') = Len(out) + 1
      /\ Len(out) \in Nat
  BY <1>1, AppendProperties, LenProperties DEF Inv, TypeOK
<1>6. left + Len(out) + 1 = Count(file) /\ Count(file) \in 0 .. MaxSnapshots
  BY <1>2, FileType, CountType DEF Inv, CountInv
<1>7. TypeOK'
  <2>1. pos' \in Nat
    BY <1>3, <1>4
  <2>0. left \in 0 .. MaxSnapshots
    BY DEF Inv, TypeOK
  <2>2. left \in Nat /\ Len(out') + left <= MaxSnapshots
    BY <1>5, <1>6, <2>0, Constants
  <2>3. QED
    BY <1>1, <1>3, <1>5, <2>1, <2>2 DEF Inv, TypeOK
<1>8. CountInv' /\ PartsInv'
  BY <1>1, <1>5, <1>6, Constants DEF Inv, TypeOK, CountInv, PartsInv, InRecord
<1>9. QED
  BY <1>7, <1>8 DEF Inv

(* Every step of the walk keeps Inv. *)
LEMMA NextInv == Inv /\ [Next]_vars => Inv'
<1> SUFFICES ASSUME Inv, [Next]_vars
             PROVE  Inv'
  OBVIOUS
<1>1. CASE NoHeader \/ EndOfTable \/ StopEarly
  BY <1>1, DoneInv DEF NoHeader, EndOfTable, StopEarly, Finish, Inv, TypeOK
<1>2. CASE UNCHANGED vars
  BY <1>2 DEF vars, Inv, TypeOK, CountInv, PartsInv, InRecord
<1>3. QED
  BY <1>1, <1>2, HeaderInv, ReadFixedInv, SkipExtraInv, ReadIdInv, ReadNameInv, PushInv
     DEF Next

-----------------------------------------------------------------------------
(* The steps keep WalkInv, for tables whose extra data is within its cap.  *)

(* Before the walk there is nothing to be misplaced. *)
LEMMA WalkInitInv == Init => WalkInv
<1> SUFFICES ASSUME Init
             PROVE  WalkInv
  OBVIOUS
<1>1. PlaceInv /\ StopInv
  BY DEF Init, PlaceInv, StopInv, InRecord
<1>2. Len(out) = 0
  BY DEF Init
<1>3. RecordsInv
  BY <1>2 DEF RecordsInv
<1>4. QED
  BY <1>1, <1>3 DEF WalkInv

(* In a record of such a table the cursor is where the format has it.      *)
LEMMA InRecordPlaces ==
  ASSUME ExtraInCap, Inv, InRecord
  PROVE  LET s == cur.start IN
         /\ Sizes.extra = file.rec[s].extra
         /\ Consumed = SizeIn(file, s) /\ Consumed \in Nat
         /\ EndAt(file, s) = s + SizeIn(file, s)
         /\ pc = "extra" => pos + Sizes.extra + Sizes.id + Sizes.name = s + SizeIn(file, s)
         /\ pc = "id" => pos + Sizes.id + Sizes.name = s + SizeIn(file, s)
         /\ pc = "name" => pos + Sizes.name = s + SizeIn(file, s)
         /\ pc = "pad" => pos = s + SizeIn(file, s) /\ cur = RecordIn(file, s)
<1> DEFINE s == cur.start
<1>1. /\ s \in 0 .. (file.len - Fixed) /\ s \in Nat
      /\ Sizes = Capped(file, s)
      /\ Sizes.extra \in Nat
      /\ Sizes.id = file.rec[s].id /\ Sizes.id \in 0 .. (StrSizes - 1)
      /\ Sizes.name = file.rec[s].name /\ Sizes.name \in 0 .. (StrSizes - 1)
      /\ pos \in Nat /\ file.len \in Nat
  BY InRecordFacts
<1>2. file \in Files /\ IsFile(file)
  BY FileType DEF Inv, CountInv
<1>3. Sizes.extra = file.rec[s].extra
  <2>1. s \in DOMAIN file.rec
    BY <1>1, <1>2 DEF IsFile
  <2>2. file.rec[s].extra <= MaxExtra
    BY <1>2, <2>1 DEF ExtraInCap
  <2>3. QED
    BY <1>1, <1>2, <2>2, CappedSizes
<1>4. /\ pos = CASE pc = "extra" -> s + Fixed
               [] pc = "id"    -> IdAt(file, s)
               [] pc = "name"  -> NameAt(file, s)
               [] pc = "pad"   -> EndAt(file, s)
      /\ pc = "pad" => /\ cur.id = [at |-> IdAt(file, s), size |-> file.rec[s].id]
                       /\ cur.name = [at |-> NameAt(file, s), size |-> file.rec[s].name]
  BY DEF Inv, PartsInv
<1>5. cur \in Snapshots
  BY DEF Inv, TypeOK
<1> HIDE DEF s
<1>6. IdAt(file, s) = s + Fixed + Sizes.extra
  BY <1>1 DEF IdAt
<1>7. NameAt(file, s) = s + Fixed + Sizes.extra + Sizes.id
  BY <1>1, <1>6 DEF NameAt
<1>8. EndAt(file, s) = s + Fixed + Sizes.extra + Sizes.id + Sizes.name
  BY <1>1, <1>7 DEF EndAt
<1>9. SizeIn(file, s) = Fixed + Sizes.extra + Sizes.id + Sizes.name /\ SizeIn(file, s) \in Nat
  BY <1>1, <1>3, Constants DEF SizeIn
<1>10. Consumed = SizeIn(file, s)
  BY <1>9 DEF Consumed
<1>11. ASSUME pc = "pad"
       PROVE  cur = RecordIn(file, s)
  <2>1. cur = [start |-> cur.start, id |-> cur.id, name |-> cur.name]
    BY <1>5 DEF Snapshots
  <2>2. cur.id = [at |-> s + Fixed + file.rec[s].extra, size |-> file.rec[s].id]
    BY <1>3, <1>4, <1>6, <1>11
  <2>3. cur.name = [at |-> s + Fixed + file.rec[s].extra + file.rec[s].id,
                    size |-> file.rec[s].name]
    BY <1>1, <1>3, <1>4, <1>7, <1>11
  <2>4. QED
    BY <2>1, <2>2, <2>3 DEF RecordIn, s
<1>12. EndAt(file, s) = s + SizeIn(file, s)
  BY <1>1, <1>8, <1>9, Constants
<1>13. /\ pc = "extra" => pos + Sizes.extra + Sizes.id + Sizes.name = s + SizeIn(file, s)
       /\ pc = "id" => pos + Sizes.id + Sizes.name = s + SizeIn(file, s)
       /\ pc = "name" => pos + Sizes.name = s + SizeIn(file, s)
       /\ pc = "pad" => pos = s + SizeIn(file, s)
  <2>1. CASE pc = "extra"
    <3>1. pos = s + Fixed
      BY <1>4, <2>1
    <3>2. QED
      BY <1>1, <1>9, <2>1, <3>1, Constants
  <2>2. CASE pc = "id"
    <3>1. pos = IdAt(file, s)
      BY <1>4, <2>2
    <3>2. QED
      BY <1>1, <1>6, <1>9, <2>2, <3>1, Constants
  <2>3. CASE pc = "name"
    <3>1. pos = NameAt(file, s)
      BY <1>4, <2>3
    <3>2. QED
      BY <1>1, <1>7, <1>9, <2>3, <3>1, Constants
  <2>4. CASE pc = "pad"
    <3>1. pos = EndAt(file, s)
      BY <1>4, <2>4
    <3>2. QED
      BY <1>12, <2>4, <3>1
  <2>5. QED
    BY <2>1, <2>2, <2>3, <2>4
<1>14. QED
  BY <1>3, <1>9, <1>10, <1>11, <1>12, <1>13 DEF s

(* A step that adds no snapshot and stays in the table. *)
LEMMA RecordsStay ==
  ASSUME WalkInv, UNCHANGED <<file, out>>, faults \subseteq faults'
  PROVE  RecordsInv' /\ Here' = Here
  BY DEF WalkInv, RecordsInv, Here

(* The walk begins at the first record. *)
LEMMA WalkHeaderInv ==
  ASSUME Inv, WalkInv, NoHeader \/ Header
  PROVE  WalkInv'
<1>1. /\ pc = "header" /\ UNCHANGED <<file, cur, out, faults>>
      /\ \/ pc' = "done" /\ verdict' # "ok"
         \/ pc' = "done" /\ (Count(file) = 0 \/ file.table = 0)
         \/ pc' = "fixed" /\ verdict' = verdict /\ pos' = file.table
  BY DEF NoHeader, Header, Finish
<1>2. verdict = "none" /\ Len(out) = 0
  BY <1>1 DEF Inv, CountInv
<1>3. RecordsInv' /\ Here' = Here
  BY <1>1, RecordsStay
<1>4. Here = file.table
  BY <1>2, FileType, StartSteps DEF Here
<1>5. PlaceInv'
  BY <1>1, <1>3, <1>4 DEF PlaceInv, InRecord
<1>6. StopInv'
  BY <1>1, <1>2 DEF StopInv
<1>7. QED
  BY <1>3, <1>5, <1>6 DEF WalkInv

(* What was read at the cursor is the record that belongs there. *)
LEMMA WalkReadFixedInv ==
  ASSUME Inv, WalkInv, ReadFixed
  PROVE  WalkInv'
<1>1. /\ pc = "fixed" /\ pos + Fixed <= file.len /\ pc' = "extra"
      /\ cur' = [NoSnapshot EXCEPT !.start = pos]
      /\ UNCHANGED <<file, out, faults, verdict>>
  BY DEF ReadFixed
<1>2. RecordsInv' /\ Here' = Here
  BY <1>1, RecordsStay
<1>3. cur'.start = pos
  BY <1>1 DEF NoSnapshot
<1>4. PlaceInv'
  BY <1>1, <1>2, <1>3 DEF WalkInv, PlaceInv, InRecord
<1>5. StopInv'
  BY <1>1, <1>2 DEF WalkInv, StopInv
<1>6. QED
  BY <1>2, <1>4, <1>5 DEF WalkInv

(* Within a record the list and the record stay what they are. *)
LEMMA WalkPartInv ==
  ASSUME Inv, WalkInv, SkipExtra \/ ReadId \/ ReadName
  PROVE  WalkInv'
<1>1. UNCHANGED <<file, out, faults, verdict>> /\ InRecord /\ InRecord'
  BY DEF SkipExtra, ReadId, ReadName, ReadString, InRecord
<1>2. pc' # "fixed"
  BY <1>1 DEF InRecord
<1>3. cur'.start = cur.start
  <2>1. cur \in Snapshots
    BY DEF Inv, TypeOK
  <2>2. QED
    BY <2>1 DEF SkipExtra, ReadId, ReadName, ReadString, Snapshots
<1>4. RecordsInv' /\ Here' = Here
  BY <1>1, RecordsStay
<1>5. PlaceInv'
  BY <1>1, <1>2, <1>3, <1>4 DEF WalkInv, PlaceInv
<1>6. StopInv'
  BY <1>1, <1>4 DEF WalkInv, StopInv
<1>7. QED
  BY <1>4, <1>5, <1>6 DEF WalkInv

(* Where no call failed the walk ends early at a record that does not fit. *)
LEMMA WalkStopEarlyInv ==
  ASSUME ExtraInCap, Inv, WalkInv, StopEarly
  PROVE  WalkInv'
<1>1. /\ pc \in {"fixed", "extra", "id", "name"} /\ pc' = "done"
      /\ faults' = faults \cup (IF pos + PartSize <= file.len THEN {"part"} ELSE {})
      /\ UNCHANGED <<file, left, pos, cur, out>>
  BY DEF StopEarly, Finish
<1>2. RecordsInv' /\ Here' = Here
  BY <1>1, RecordsStay
<1>3. PlaceInv'
  BY <1>1 DEF PlaceInv, InRecord
<1>4. ASSUME faults' = {}
      PROVE  ~FitsIn(file, Here)
  <2>1. faults = {} /\ ~(pos + PartSize <= file.len)
    BY <1>1, <1>4
  <2>2. CASE pc = "fixed"
    <3>1. FitsIn(file, Here) => pos = Here
      BY <2>1, <2>2 DEF WalkInv, PlaceInv
    <3>2. PartSize = Fixed
      BY <2>2 DEF PartSize
    <3>3. pos \in Nat /\ file.len \in Nat /\ Fixed \in Nat
      BY FileType, Constants DEF Inv, TypeOK, IsFile
    <3>4. pos \notin 0 .. (file.len - Fixed)
      BY <2>1, <3>2, <3>3
    <3>5. QED
      BY <3>1, <3>4 DEF FitsIn
  <2>3. CASE pc \in {"extra", "id", "name"}
    <3>1. InRecord
      BY <2>3 DEF InRecord
    <3> DEFINE s == cur.start
    <3>2. s = Here
      BY <2>1, <3>1 DEF WalkInv, PlaceInv
    <3>3. /\ s \in Nat /\ pos \in Nat /\ file.len \in Nat
          /\ Sizes.extra \in Nat /\ Sizes.id \in 0 .. (StrSizes - 1)
          /\ Sizes.name \in 0 .. (StrSizes - 1) /\ StrSizes \in Nat
      BY <3>1, InRecordFacts, Constants
    <3>4. pos + PartSize <= s + SizeIn(file, s) /\ PartSize \in Nat
      <4>1. CASE pc = "extra"
        BY <3>1, <3>3, <4>1, InRecordPlaces DEF PartSize
      <4>2. CASE pc = "id"
        BY <3>1, <3>3, <4>2, InRecordPlaces DEF PartSize
      <4>3. CASE pc = "name"
        BY <3>1, <3>3, <4>3, InRecordPlaces DEF PartSize
      <4>4. QED
        BY <2>3, <4>1, <4>2, <4>3
    <3>5. SizeIn(file, s) \in Nat
      BY <3>1, InRecordPlaces
    <3> HIDE DEF s
    <3>6. ~(s + SizeIn(file, s) <= file.len)
      BY <2>1, <3>3, <3>4, <3>5
    <3>7. QED
      BY <3>2, <3>6 DEF FitsIn
  <2>4. QED
    BY <1>1, <2>2, <2>3
<1>5. StopInv'
  BY <1>1, <1>2, <1>4 DEF StopInv
<1>6. QED
  BY <1>2, <1>3, <1>5 DEF WalkInv

(* With no turn left the list has the announced length, or the cap. *)
LEMMA WalkEndOfTableInv ==
  ASSUME Inv, WalkInv, EndOfTable
  PROVE  WalkInv'
<1>1. /\ pc = "fixed" /\ left = 0 /\ pc' = "done"
      /\ UNCHANGED <<file, left, pos, cur, out, faults>>
  BY DEF EndOfTable, Finish
<1>2. RecordsInv' /\ Here' = Here
  BY <1>1, RecordsStay
<1>3. Len(out) = Count(file)
  BY <1>1, LenProperties DEF Inv, TypeOK, CountInv
<1>4. PlaceInv' /\ StopInv'
  BY <1>1, <1>3 DEF PlaceInv, StopInv, InRecord
<1>5. QED
  BY <1>2, <1>4 DEF WalkInv

(* A record that is kept is the next one of the table, and the cursor goes *)
(* on to the one after it, unless it is short of a padding past the end of *)
(* the file; then no record begins where the cursor is either.             *)
LEMMA WalkPushInv ==
  ASSUME ExtraInCap, Inv, WalkInv, Push
  PROVE  WalkInv'
<1> DEFINE s == cur.start
           fits == Pad(Consumed) = 0 \/ SkipFits(Pad(Consumed))
<1>1. /\ pc = "pad" /\ pc' = "fixed" /\ out' = Append(out, cur)
      /\ UNCHANGED <<file, left, cur, verdict>>
      /\ \/ fits /\ pos' = pos + Pad(Consumed) /\ faults' = faults
         \/ /\ Pad(Consumed) > 0 /\ pos' = pos
            /\ faults' = faults \cup (IF fits THEN {"padding"} ELSE {})
  BY DEF Push
<1>2. InRecord /\ verdict = "none"
  BY <1>1 DEF InRecord, Inv, CountInv
<1>3. /\ s \in 0 .. (file.len - Fixed) /\ s \in Nat /\ pos \in Nat /\ file.len \in Nat
      /\ pos <= file.len
      /\ Consumed = SizeIn(file, s) /\ Consumed \in Nat
      /\ pos = s + SizeIn(file, s) /\ cur = RecordIn(file, s)
  BY <1>1, <1>2, InRecordFacts, InRecordPlaces DEF Inv, PartsInv
<1>4. /\ Pad(Consumed) \in Nat /\ Pad(Consumed) < Align
      /\ Padded(SizeIn(file, s)) = Consumed + Pad(Consumed)
  BY <1>3, PadAligns
<1>5. FitsIn(file, s)
  BY <1>3 DEF FitsIn
<1>6. /\ Len(out) \in Nat /\ Len(out') = Len(out) + 1 /\ out'[Len(out) + 1] = cur
      /\ \A n \in 1 .. Len(out) : out'[n] = out[n]
  <2>1. out \in Seq(Snapshots) /\ cur \in Snapshots
    BY DEF Inv, TypeOK
  <2>2. QED
    BY <1>1, <2>1, AppendProperties, LenProperties
<1>7. "padding" \notin faults' => "padding" \notin faults
  BY <1>1
<1>8. "padding" \notin faults => s = Here
  BY <1>2 DEF WalkInv, PlaceInv
<1> HIDE DEF s, fits
<1>9. "padding" \notin faults => Here' = s + Consumed + Pad(Consumed)
  <2> SUFFICES ASSUME "padding" \notin faults
               PROVE  Here' = s + Consumed + Pad(Consumed)
    OBVIOUS
  <2>1. Here' = StartOf(file)[(Len(out) + 1) + 1]
    BY <1>1, <1>6 DEF Here
  <2>2. Here' = NextPlace(file, Here)
    BY <1>6, <2>1, FileType, StartSteps DEF Here
  <2>3. Here' = s + Padded(SizeIn(file, s))
    BY <1>5, <1>8, <2>2 DEF NextPlace
  <2>4. QED
    BY <1>3, <1>4, <2>3
<1>10. RecordsInv'
  <2> SUFFICES ASSUME "padding" \notin faults', NEW n \in 1 .. Len(out')
               PROVE  /\ FitsIn(file, StartOf(file)[n])
                      /\ out'[n] = RecordIn(file, StartOf(file)[n])
    BY <1>1 DEF RecordsInv
  <2>1. CASE n \in 1 .. Len(out)
    BY <1>6, <1>7, <2>1 DEF WalkInv, RecordsInv
  <2>2. CASE n = Len(out) + 1
    BY <1>3, <1>5, <1>6, <1>7, <1>8, <2>2 DEF Here
  <2>3. QED
    BY <1>6, <2>1, <2>2
<1>11. PlaceInv'
  <2> SUFFICES ASSUME "padding" \notin faults',
                      pos' + Fixed <= file.len \/ FitsIn(file, Here')
               PROVE  pos' = Here'
    BY <1>1 DEF PlaceInv, InRecord
  <2>1. Here' = s + Consumed + Pad(Consumed)
    BY <1>7, <1>9
  <2>2. CASE fits /\ pos' = pos + Pad(Consumed)
    BY <1>3, <2>1, <2>2
  <2>3. CASE pos' = pos /\ ~fits
    <3>1. pos + Pad(Consumed) > file.len
      BY <1>3, <1>4, <2>3 DEF fits, SkipFits
    <3>2. ~(pos' + Fixed <= file.len)
      BY <1>3, <1>4, <2>3, <3>1, Constants
    <3>3. ~FitsIn(file, Here')
      <4>1. Here' \in Nat /\ Here' > file.len
        BY <1>3, <1>4, <2>1, <3>1
      <4>2. QED
        BY <1>3, <4>1, Constants DEF FitsIn
    <3>4. QED
      BY <3>2, <3>3
  <2>4. CASE pos' = pos /\ fits
    <3>1. pos' = pos + Pad(Consumed)
      BY <1>1, <2>4
    <3>2. QED
      BY <2>2, <2>4, <3>1
  <2>5. QED
    BY <1>1, <2>2, <2>3, <2>4
<1>12. StopInv'
  BY <1>1, <1>2 DEF StopInv
<1>13. QED
  BY <1>10, <1>11, <1>12 DEF WalkInv

(* Every step of the walk keeps it on the records of the format. *)
LEMMA WalkNextInv == ExtraInCap /\ Inv /\ WalkInv /\ [Next]_vars => WalkInv'
<1> SUFFICES ASSUME ExtraInCap, Inv, WalkInv, [Next]_vars
             PROVE  WalkInv'
  OBVIOUS
<1>1. CASE UNCHANGED vars
  <2>1. RecordsInv' /\ Here' = Here
    BY <1>1, RecordsStay DEF vars
  <2>2. QED
    BY <1>1, <2>1 DEF vars, WalkInv, PlaceInv, StopInv, InRecord
<1>2. QED
  BY <1>1, WalkHeaderInv, WalkReadFixedInv, WalkPartInv, WalkStopEarlyInv,
     WalkEndOfTableInv, WalkPushInv DEF Next

-----------------------------------------------------------------------------
(***************************************************************************)
(* The theorems.                                                           *)
(***************************************************************************)

(* Whatever sizes the records announce and whichever calls fail, the       *)
(* cursor keeps to the parts of the record that is read (snapshots.rs      *)
(* snapshots).                                                             *)
THEOREM Invariance == Spec => []Inv
<1>1. QED
  BY InitInv, NextInv, PTL DEF Spec

(* The list never outgrows MAX_SNAPSHOTS, and each string in it is at most *)
(* as long as a u16 can say (snapshots.rs snapshots, read_string).         *)
THEOREM TypeCorrect == Spec => []TypeOK
<1>1. Inv => TypeOK
  BY DEF Inv
<1>2. QED
  BY <1>1, Invariance, PTL

(* Of tables whose extra data is within its cap: the walk is on the        *)
(* records that the format defines (snapshots.rs snapshots).               *)
THEOREM WalkInvariance ==
  ASSUME ExtraInCap
  PROVE  Spec => [](Inv /\ WalkInv)
<1>1. Inv /\ WalkInv /\ [Next]_vars => (Inv /\ WalkInv)'
  BY NextInv, WalkNextInv
<1>2. Init => Inv /\ WalkInv
  BY InitInv, WalkInitInv
<1>3. QED
  BY <1>1, <1>2, PTL DEF Spec

(* Whatever reads fail, the snapshots returned are the first records of    *)
(* the table, each with its own id and name (snapshots.rs snapshots).      *)
THEOREM SnapshotsAreTheRecords ==
  ASSUME ExtraInCap
  PROVE  Spec => []SnapshotsAreRecords
<1>1. ASSUME Inv, WalkInv
      PROVE  SnapshotsAreRecords
  <2>1. DOMAIN out = 1 .. Len(out)
    BY <1>1, LenProperties DEF Inv, TypeOK
  <2>2. QED
    BY <1>1, <2>1, TableIsTable DEF WalkInv, RecordsInv, SnapshotsAreRecords
<1>2. QED
  BY <1>1, WalkInvariance, PTL

(* When no call fails, the list ends at the announced or the largest count *)
(* or at the first record that runs past the end of the file               *)
(* (snapshots.rs snapshots).                                               *)
THEOREM StopsAtUnreadable ==
  ASSUME ExtraInCap
  PROVE  Spec => []StopsAtFirstUnreadable
<1>1. ASSUME WalkInv
      PROVE  StopsAtFirstUnreadable
  <2>1. Count(file) = Min2(file.nb, MaxSnapshots)
    BY DEF Count
  <2>2. Here = Start[Len(out) + 1]
    BY TableIsTable DEF Here
  <2>3. QED
    BY <1>1, <2>1, <2>2, TableIsTable DEF WalkInv, StopInv, StopsAtFirstUnreadable
<1>2. QED
  BY <1>1, WalkInvariance, PTL
=============================================================================
