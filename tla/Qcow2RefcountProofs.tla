------------------------ MODULE Qcow2RefcountProofs -------------------------
(***************************************************************************)
(* Proofs about Qcow2Refcount, for every image, every size of its tables   *)
(* and every cap.                                                          *)
(***************************************************************************)
EXTENDS Qcow2Refcount, Qcow2FormatProofs, SequenceTheorems

-----------------------------------------------------------------------------
(***************************************************************************)
(* The inductive invariant.  The scan goes through the guest clusters in   *)
(* order, though it keeps no number of the one it is at: what is left of   *)
(* the two tables says it.                                                 *)
(***************************************************************************)
PerTable == file.cluster \div EntrySize

(* The entries of the tables that are looked at. *)
L1Count == Smaller(file.l1size, MaxL1)
RtCount == Smaller(RtEntries, MaxL1)

(* The guest cluster whose entry is next. *)
Place == (L1Count - Len(l1)) * PerTable - Len(l2)

(* The L1 entry whose L2 table is being scanned. *)
L1Entry == file.word[file.l1off + (L1Count - Len(l1) - 1) * EntrySize]

TablesInv ==
  /\ pc \in {"l1", "scan"} =>
       IF NoTable(file.rtoff, RtCount) THEN rt = <<>>
       ELSE TableReadable(file, file.rtoff, RtCount) /\ rt = Table(file, file.rtoff, RtCount)
  /\ Len(l1) <= L1Count
  /\ l1 # <<>> =>
       /\ TableReadable(file, file.l1off, L1Count)
       /\ \A k \in 1 .. Len(l1) :
            l1[k] = file.word[file.l1off + (L1Count - Len(l1) + k - 1) * EntrySize]
  /\ l2 # <<>> =>
       /\ TableReadable(file, file.l1off, L1Count) /\ Len(l1) < L1Count
       /\ HostOffset(L1Entry) # 0 /\ TableReadable(file, HostOffset(L1Entry), PerTable)
       /\ \A k \in 1 .. Len(l2) :
            l2[k] = file.word[HostOffset(L1Entry) + (PerTable - Len(l2) + k - 1) * EntrySize]

(* Every entry that is counted is looked up, but for the one over the cap. *)
ScanInv ==
  /\ file \in Files
  /\ pc \in {"header", "rt", "l1"} => allocated = 0 /\ l1 = <<>> /\ l2 = <<>>
  /\ pc = "scan" => allocated <= MaxScanned
  /\ pc # "done" => examined = allocated
  /\ examined <= allocated
  /\ pc = "header" => order <= 6
  /\ pc # "done" <=> verdict = "none"

Inv == TypeOK /\ TablesInv /\ ScanInv

(* The counts against the guest clusters that the scan has passed. *)
MappedSoFar == Mapped \cap (0 .. (Place - 1))
OrphanedSoFar == Orphaned \cap (0 .. (Place - 1))

CountsSoFar ==
  /\ allocated <= Cardinality(MappedSoFar)
  /\ Clean /\ NoReservedL2 => allocated = Cardinality(MappedSoFar)
  /\ order = TrueOrder => orphans <= Cardinality(OrphanedSoFar)
  /\ order = TrueOrder /\ Clean => orphans = Cardinality(OrphanedSoFar)

CountInv ==
  NoReservedL1 =>
    /\ pc = "scan" => CountsSoFar
    /\ pc = "done" => ScanAgreesWithReader /\ NoFalseOrphans /\ CleanScanIsComplete

-----------------------------------------------------------------------------
(* The operators. *)

(* The constants are natural numbers; the masks are runs of bits. *)
LEMMA Constants ==
  /\ CompressedBit \in Nat \ {0} /\ EntrySize \in Nat \ {0}
  /\ ReservedBit \in Nat \ {0} /\ AlignUnit \in Nat \ {0}
  /\ ReservedBit % AlignUnit = 0 /\ CompressedBit % ReservedBit = 0
  /\ MinHeader \in Nat /\ OrderEnd \in Nat /\ HeaderWindow \in Nat
  /\ MaxL1 \in Nat /\ MaxScanned \in Nat
<1>1. \A x \in {ReservedBit, AlignUnit, MinHeader, OrderEnd, HeaderWindow, MaxL1, MaxScanned} :
        x \in Nat \ {0}
  BY RefcountAssumption
<1>2. QED
  BY <1>1, RefcountAssumption, FormatAssumption

(* What IsFile says of one image, field by field. *)
LEMMA FileTypes ==
  ASSUME NEW f, IsFile(f)
  PROVE  /\ f.len \in Nat /\ f.cluster \in Nat \ {0} /\ f.order \in Nat
         /\ f.rtoff \in Nat /\ f.rtclusters \in Nat
         /\ f.l1size \in Nat /\ f.l1off \in Nat
         /\ f.cluster \div EntrySize \in Nat
         /\ (f.rtclusters * f.cluster) \div EntrySize \in Nat
         /\ \A p \in 0 .. (f.len - 1) : f.byte[p] \in Byte /\ f.word[p] \in Word
<1>1. /\ f.len \in Nat /\ f.cluster \in Nat \ {0} /\ f.order \in Nat
      /\ f.rtoff \in Nat /\ f.rtclusters \in Nat
      /\ f.l1size \in Nat /\ f.l1off \in Nat
      /\ \A p \in 0 .. (f.len - 1) : f.byte[p] \in Byte /\ f.word[p] \in Word
  BY DEF IsFile
<1>2. f.cluster \div EntrySize \in Nat
  BY <1>1, Constants, DivMod
<1>3. f.rtclusters * f.cluster \in Nat
  BY <1>1
<1>4. (f.rtclusters * f.cluster) \div EntrySize \in Nat
  BY <1>3, Constants, DivMod
<1>5. QED
  BY <1>1, <1>2, <1>4

(* A count under its cap. *)
LEMMA SmallerIs ==
  ASSUME NEW a \in Nat, NEW b \in Nat
  PROVE  Smaller(a, b) \in Nat /\ Smaller(a, b) <= a /\ Smaller(a, b) <= b
         /\ (a <= b => Smaller(a, b) = a)
  BY DEF Smaller

(* The scan's offset mask against the reader's: it keeps no bit that the   *)
(* reader clears, so an entry with an offset has one for both.             *)
LEMMA HostOffsetIs ==
  ASSUME NEW e \in Word
  PROVE  /\ e \in Nat /\ HostOffset(e) \in Nat
         /\ HostOffset(e) # 0 => e % CompressedBit # 0
<1>1. e \in Nat
  BY Constants DEF Word, CopiedBit
<1>2. e % ReservedBit \in Nat /\ e % AlignUnit \in Nat
  BY <1>1, Constants, DivMod
<1>3. e % AlignUnit <= e % ReservedBit
  BY <1>1, Constants, ModOfMod
<1>4. HostOffset(e) \in Nat
  BY <1>2, <1>3 DEF HostOffset
<1>5. e % ReservedBit <= e % CompressedBit
  BY <1>1, Constants, ModOfMod
<1>6. e % CompressedBit \in Nat
  BY <1>1, Constants, DivMod
<1>7. HostOffset(e) # 0 => e % CompressedBit # 0
  BY <1>2, <1>3, <1>5, <1>6 DEF HostOffset
<1>8. QED
  BY <1>1, <1>4, <1>7

(* A place within a table of n entries at off.                             *)
LEMMA EntryPlace ==
  ASSUME NEW f, IsFile(f), NEW off \in Nat, NEW n \in Nat, TableReadable(f, off, n),
         NEW k \in 0 .. (n - 1)
  PROVE  /\ k * EntrySize \in Nat /\ off + k * EntrySize \in 0 .. (f.len - 1)
         /\ WordReadable(f, off + k * EntrySize)
         /\ f.word[off + k * EntrySize] \in Word
<1>1. EntrySize \in Nat \ {0} /\ f.len \in Nat
  BY Constants, FileTypes
<1>2. (k + 1) * EntrySize <= n * EntrySize
  <2>1. ASSUME NEW j \in Nat, n = (k + 1) + j
        PROVE  (k + 1) * EntrySize <= n * EntrySize
    <3>1. n * EntrySize = (k + 1) * EntrySize + j * EntrySize /\ j * EntrySize \in Nat
      BY <1>1, <2>1
    <3>2. (k + 1) * EntrySize \in Nat
      BY <1>1
    <3>3. QED
      BY <3>1, <3>2
  <2>2. n - (k + 1) \in Nat /\ n = (k + 1) + (n - (k + 1))
    OBVIOUS
  <2>3. QED
    BY <2>1, <2>2
<1>3. k * EntrySize \in Nat /\ (k + 1) * EntrySize = k * EntrySize + EntrySize
      /\ n * EntrySize \in Nat
  BY <1>1
<1>4. off + k * EntrySize + EntrySize <= f.len
  BY <1>1, <1>2, <1>3 DEF TableReadable
<1>5. off + k * EntrySize \in 0 .. (f.len - 1)
  BY <1>1, <1>3, <1>4
<1>6. QED
  BY <1>3, <1>4, <1>5, FileTypes DEF WordReadable

(* A table that can be read is a sequence of words.                        *)
LEMMA TableType ==
  ASSUME NEW f, IsFile(f), NEW off \in Nat, NEW n \in Nat, TableReadable(f, off, n)
  PROVE  /\ Table(f, off, n) \in Seq(Word) /\ Len(Table(f, off, n)) = n
         /\ \A k \in 1 .. n : Table(f, off, n)[k] = f.word[off + (k - 1) * EntrySize]
<1>1. ASSUME NEW k \in 1 .. n
      PROVE  f.word[off + (k - 1) * EntrySize] \in Word
  <2>1. k - 1 \in 0 .. (n - 1)
    OBVIOUS
  <2>2. QED
    BY <2>1, EntryPlace
<1> DEFINE w(k) == f.word[off + (k - 1) * EntrySize]
<1> HIDE DEF w
<1>2. [k \in 1 .. n |-> w(k)] \in Seq(Word) /\ Len([k \in 1 .. n |-> w(k)]) = n
  BY <1>1 DEF w
<1>3. QED
  BY <1>2 DEF Table, w

(* The order the scan takes is a number, also when it was not read. *)
LEMMA OrderType ==
  ASSUME NEW f, IsFile(f), NEW n
  PROVE  RefcountOrder(f, n) \in Nat
  BY FileTypes DEF RefcountOrder

-----------------------------------------------------------------------------
(* The steps keep Inv. *)

(* Nothing is loaded and nothing counted. *)
LEMMA InitInv == Init => Inv
<1> SUFFICES ASSUME Init
             PROVE  Inv
  OBVIOUS
<1>1. IsFile(file)
  BY RefcountAssumption DEF Init
<1>2. <<>> \in Seq(Word) /\ Len(<<>>) = 0
  OBVIOUS
<1>3. PerTable \in Nat
  BY <1>1, FileTypes DEF PerTable
<1>4. L1Count \in Nat
  BY <1>1, FileTypes, SmallerIs, Constants DEF L1Count
<1>5. TypeOK
  <2>1. Len(<<>>) <= MaxL1 /\ Len(<<>>) <= file.cluster \div EntrySize
    BY <1>2, <1>3, Constants DEF PerTable
  <2>2. 0 \in 0 .. (MaxScanned + 1) /\ 0 \in 0 .. MaxScanned /\ 0 \in 0 .. 0
    BY Constants
  <2>3. QED
    BY <1>2, <2>1, <2>2 DEF Init, TypeOK
<1>6. TablesInv /\ ScanInv
  BY <1>2, <1>4, Constants DEF Init, TablesInv, ScanInv
<1>7. QED
  BY <1>5, <1>6 DEF Inv

(* The types of Inv, as the proofs below cite them. *)
LEMMA Types ==
  ASSUME Inv
  PROVE  /\ IsFile(file) /\ file \in Files
         /\ PerTable \in Nat /\ L1Count \in Nat /\ RtCount \in Nat /\ RtEntries \in Nat
         /\ L1Count <= MaxL1 /\ L1Count <= file.l1size /\ RtCount <= MaxL1 /\ RtCount <= RtEntries
         /\ file.l1size <= MaxL1 => L1Count = file.l1size
         /\ RtEntries <= MaxL1 => RtCount = RtEntries
         /\ rt \in Seq(Word) /\ l1 \in Seq(Word) /\ l2 \in Seq(Word)
         /\ Len(rt) \in Nat /\ Len(l1) \in Nat /\ Len(l2) \in Nat
         /\ Len(l1) <= L1Count /\ Len(l2) <= PerTable
         /\ order \in Nat /\ allocated \in Nat /\ orphans \in Nat /\ examined \in Nat
         /\ orphans <= examined /\ faults \in BOOLEAN
<1>1. IsFile(file) /\ file \in Files
  BY RefcountAssumption DEF Inv, ScanInv
<1>2. PerTable \in Nat /\ RtEntries \in Nat
  BY <1>1, FileTypes DEF PerTable, RtEntries
<1>3. /\ L1Count \in Nat /\ L1Count <= MaxL1 /\ L1Count <= file.l1size
      /\ file.l1size <= MaxL1 => L1Count = file.l1size
  BY <1>1, FileTypes, SmallerIs, Constants DEF L1Count
<1>4. /\ RtCount \in Nat /\ RtCount <= MaxL1 /\ RtCount <= RtEntries
      /\ RtEntries <= MaxL1 => RtCount = RtEntries
  BY <1>2, SmallerIs, Constants DEF RtCount
<1>5. /\ rt \in Seq(Word) /\ l1 \in Seq(Word) /\ l2 \in Seq(Word)
      /\ Len(l2) <= PerTable /\ faults \in BOOLEAN /\ order \in Nat
  BY DEF Inv, TypeOK, PerTable
<1>6. Len(rt) \in Nat /\ Len(l1) \in Nat /\ Len(l2) \in Nat
  BY <1>5, LenProperties
<1>7. Len(l1) <= L1Count
  BY DEF Inv, TablesInv
<1>8. allocated \in Nat /\ examined \in Nat /\ orphans \in Nat /\ orphans <= examined
  <2>1. /\ allocated \in 0 .. (MaxScanned + 1)
        /\ examined \in 0 .. MaxScanned /\ orphans \in 0 .. examined
    BY DEF Inv, TypeOK
  <2>2. QED
    BY <2>1, Constants
<1>9. QED
  BY <1>1, <1>2, <1>3, <1>4, <1>5, <1>6, <1>7, <1>8

(* The report is returned. *)
LEMMA DoneInv ==
  ASSUME Inv, pc # "done", pc' = "done", UNCHANGED <<file, rt, l1, l2, orphans, examined>>,
         order' \in Nat, allocated' \in 0 .. (MaxScanned + 1), faults' \in BOOLEAN,
         examined <= allocated',
         verdict' \in {"ok", "io", "too small", "bad magic", "version", "cluster bits"}
  PROVE  Inv'
<1>1. TypeOK'
  BY DEF Inv, TypeOK
<1>2. TablesInv'
  BY DEF Inv, TablesInv, L1Count, PerTable, L1Entry
<1>3. ScanInv'
  BY DEF Inv, ScanInv
<1>4. QED
  BY <1>1, <1>2, <1>3 DEF Inv

(* Without a header the report ends with nothing counted. *)
LEMMA NoHeaderInv ==
  ASSUME Inv, NoHeader
  PROVE  Inv'
<1>1. allocated \in 0 .. (MaxScanned + 1) /\ order \in Nat
      /\ examined <= allocated /\ faults \in BOOLEAN
  BY DEF Inv, TypeOK, ScanInv
<1>2. QED
  BY <1>1, DoneInv DEF NoHeader, Finish

(* An order past 6 ends the report before any refcount is looked up. *)
LEMMA HeaderInv ==
  ASSUME Inv, Header
  PROVE  Inv'
<1>1. PICK n \in 0 .. Smaller(file.len, HeaderWindow) :
        IF n < MinHeader THEN Finish("too small") /\ UNCHANGED order
        ELSE IF ~file.magic THEN Finish("bad magic") /\ UNCHANGED order
        ELSE IF file.version \notin 2 .. 3 THEN Finish("version") /\ UNCHANGED order
        ELSE IF ~file.bits_ok THEN Finish("cluster bits") /\ UNCHANGED order
        ELSE /\ order' = RefcountOrder(file, n)
             /\ IF order' > 6 THEN Finish("ok") ELSE pc' = "rt" /\ UNCHANGED verdict
  BY DEF Header
<1>2. pc = "header" /\ UNCHANGED <<file, rt, l1, l2, allocated, orphans, examined, faults>>
  BY DEF Header
<1>3. allocated \in 0 .. (MaxScanned + 1) /\ order \in Nat /\ faults \in BOOLEAN
      /\ examined <= allocated
  BY DEF Inv, TypeOK, ScanInv
<1>4. RefcountOrder(file, n) \in Nat
  BY Types, OrderType
<1>5. order' \in Nat
  BY <1>1, <1>3, <1>4 DEF Finish
<1>6. CASE pc' = "done"
  <2>1. verdict' \in {"ok", "io", "too small", "bad magic", "version", "cluster bits"}
    BY <1>1, <1>6 DEF Finish
  <2>2. QED
    BY <1>2, <1>3, <1>5, <1>6, <2>1, DoneInv
<1>7. CASE pc' # "done"
  <2>1. pc' = "rt" /\ UNCHANGED verdict /\ ~(order' > 6)
    BY <1>1, <1>7 DEF Finish
  <2>2. order' <= 6
    BY <1>5, <2>1
  <2>3. TypeOK'
    BY <1>2, <1>5, <2>1, <2>2 DEF Inv, TypeOK
  <2>4. TablesInv'
    BY <1>2, <2>1 DEF Inv, TablesInv, L1Count, PerTable, L1Entry
  <2>5. ScanInv'
    BY <1>2, <2>1 DEF Inv, ScanInv
  <2>6. QED
    BY <2>3, <2>4, <2>5 DEF Inv
<1>8. QED
  BY <1>6, <1>7

(* The refcount table is the one in the file, cut at its cap, or empty. *)
LEMMA LoadRefcountTableInv ==
  ASSUME Inv, LoadRefcountTable
  PROVE  Inv'
<1>1. /\ pc = "rt" /\ UNCHANGED <<file, order, l1, l2, allocated, orphans, examined>>
      /\ \/ NoTable(file.rtoff, RtCount) /\ rt' = <<>> /\ pc' = "l1" /\ UNCHANGED <<verdict, faults>>
         \/ /\ ~NoTable(file.rtoff, RtCount) /\ TableReadable(file, file.rtoff, RtCount)
            /\ rt' = Table(file, file.rtoff, RtCount) /\ pc' = "l1"
            /\ UNCHANGED <<verdict, faults>>
         \/ pc' = "done" /\ verdict' = "io" /\ faults' \in BOOLEAN /\ UNCHANGED rt
  BY Types DEF LoadRefcountTable, Finish, RtCount, RtEntries, TableReadable
<1>2. allocated \in 0 .. (MaxScanned + 1) /\ order \in Nat /\ examined <= allocated
  BY DEF Inv, TypeOK, ScanInv
<1>3. CASE pc' = "done"
  BY <1>1, <1>2, <1>3, DoneInv
<1>4. CASE pc' # "done"
  <2>1. pc' = "l1" /\ UNCHANGED <<verdict, faults>>
    BY <1>1, <1>4
  <2>2. RtCount' = RtCount
    BY <1>1 DEF RtCount, RtEntries
  <2>3. IF NoTable(file.rtoff, RtCount) THEN rt' = <<>>
        ELSE TableReadable(file, file.rtoff, RtCount) /\ rt' = Table(file, file.rtoff, RtCount)
    BY <1>1, <1>4
  <2>4. rt' \in Seq(Word) /\ Len(rt') <= MaxL1
    <3>1. CASE NoTable(file.rtoff, RtCount)
      BY <2>3, <3>1, Constants
    <3>2. CASE ~NoTable(file.rtoff, RtCount)
      <4>1. file.rtoff \in Nat
        BY Types, FileTypes
      <4>2. QED
        BY <2>3, <3>2, <4>1, Types, TableType
    <3>3. QED
      BY <3>1, <3>2
  <2>5. TypeOK'
    BY <1>1, <2>1, <2>4 DEF Inv, TypeOK
  <2>6. TablesInv'
    BY <1>1, <2>1, <2>2, <2>3 DEF Inv, TablesInv, L1Count, PerTable, L1Entry
  <2>7. ScanInv'
    BY <1>1, <2>1 DEF Inv, ScanInv
  <2>8. QED
    BY <2>5, <2>6, <2>7 DEF Inv
<1>5. QED
  BY <1>3, <1>4

(* LoadL1 in the terms of the invariant. *)
LEMMA LoadL1Is ==
  ASSUME Inv, LoadL1
  PROVE  /\ pc = "l1" /\ pc' = "scan"
         /\ UNCHANGED <<file, order, rt, l2, allocated, orphans, examined, verdict>>
         /\ l1 = <<>> /\ l2 = <<>> /\ allocated = 0 /\ examined = 0 /\ orphans = 0
         /\ \/ /\ ~NoTable(file.l1off, L1Count) /\ TableReadable(file, file.l1off, L1Count)
               /\ l1' = Table(file, file.l1off, L1Count) /\ UNCHANGED faults
            \/ /\ l1' = <<>>
               /\ faults' = (faults \/ (~NoTable(file.l1off, L1Count)
                                        /\ TableReadable(file, file.l1off, L1Count)))
<1>1. pc = "l1"
  BY DEF LoadL1
<1>2. l1 = <<>> /\ l2 = <<>> /\ allocated = 0 /\ examined = 0
  BY <1>1 DEF Inv, ScanInv
<1>3. orphans = 0
  BY <1>2, Types
<1>4. QED
  BY <1>2, <1>3 DEF LoadL1, L1Count

(* So is the L1 table, and the scan is at its first entry. *)
LEMMA LoadL1Inv ==
  ASSUME Inv, LoadL1
  PROVE  Inv'
<1>1. /\ pc = "l1" /\ pc' = "scan"
      /\ UNCHANGED <<file, order, rt, l2, allocated, orphans, examined, verdict>>
      /\ l1 = <<>> /\ l2 = <<>> /\ allocated = 0 /\ examined = 0 /\ orphans = 0
      /\ \/ /\ TableReadable(file, file.l1off, L1Count)
            /\ l1' = Table(file, file.l1off, L1Count) /\ UNCHANGED faults
         \/ l1' = <<>> /\ faults' \in BOOLEAN
  BY LoadL1Is, Types DEF TableReadable
<1>2. L1Count' = L1Count /\ RtCount' = RtCount
  BY <1>1 DEF L1Count, RtCount, RtEntries
<1>3. file.l1off \in Nat
  BY Types, FileTypes
<1>4. /\ l1' \in Seq(Word) /\ Len(l1') \in {0, L1Count}
      /\ l1' # <<>> =>
           /\ TableReadable(file, file.l1off, L1Count) /\ Len(l1') = L1Count
           /\ \A k \in 1 .. L1Count : l1'[k] = file.word[file.l1off + (k - 1) * EntrySize]
  <2>1. CASE l1' = <<>>
    BY <2>1
  <2>2. CASE l1' # <<>>
    BY <1>1, <1>3, <2>2, Types, TableType
  <2>3. QED
    BY <2>1, <2>2
<1>5. TypeOK'
  <2>1. Len(l1') <= MaxL1
    <3>1. L1Count \in Nat /\ L1Count <= MaxL1 /\ MaxL1 \in Nat
      BY Types, Constants
    <3>2. Len(l1') = 0 \/ Len(l1') = L1Count
      BY <1>4
    <3>3. QED
      BY <3>1, <3>2
  <2>2. faults' \in BOOLEAN
    BY <1>1 DEF Inv, TypeOK
  <2>3. QED
    BY <1>1, <1>4, <2>1, <2>2 DEF Inv, TypeOK
<1>6. TablesInv'
  <2>1. Len(l1') <= L1Count
    BY <1>4, Types
  <2>2. ASSUME l1' # <<>>, NEW k \in 1 .. Len(l1')
        PROVE  l1'[k] = file.word[file.l1off + (L1Count - Len(l1') + k - 1) * EntrySize]
    <3>1. L1Count - Len(l1') + k - 1 = k - 1
      BY <1>4, <2>2, Types
    <3>2. QED
      BY <1>4, <2>2, <3>1
  <2>3. QED
    BY <1>1, <1>2, <1>4, <2>1, <2>2 DEF Inv, TablesInv
<1>7. ScanInv'
  BY <1>1, Constants DEF Inv, ScanInv
<1>8. QED
  BY <1>5, <1>6, <1>7 DEF Inv

(* The first entry of what is left of the L1 table, and its offset.        *)
LEMMA HeadOfL1 ==
  ASSUME Inv, l1 # <<>>
  PROVE  /\ Len(l1) \in 1 .. L1Count
         /\ TableReadable(file, file.l1off, L1Count)
         /\ Head(l1) = file.word[file.l1off + (L1Count - Len(l1)) * EntrySize]
         /\ Head(l1) \in Word /\ HostOffset(Head(l1)) \in Nat
         /\ Tail(l1) \in Seq(Word) /\ Len(Tail(l1)) = Len(l1) - 1
         /\ \A k \in 1 .. (Len(l1) - 1) : Tail(l1)[k] = l1[k + 1]
<1>1. l1 \in Seq(Word) /\ l1 # <<>>
  BY Types
<1>2. /\ Head(l1) = l1[1] /\ Head(l1) \in Word
      /\ Tail(l1) \in Seq(Word) /\ Len(Tail(l1)) = Len(l1) - 1
      /\ \A k \in 1 .. Len(Tail(l1)) : Tail(l1)[k] = l1[k + 1]
      /\ Len(l1) \in Nat /\ Len(l1) # 0
  BY <1>1, HeadTailProperties, EmptySeq, LenProperties
<1>3. /\ TableReadable(file, file.l1off, L1Count)
      /\ \A k \in 1 .. Len(l1) :
           l1[k] = file.word[file.l1off + (L1Count - Len(l1) + k - 1) * EntrySize]
  BY DEF Inv, TablesInv
<1>4. L1Count - Len(l1) + 1 - 1 = L1Count - Len(l1) /\ Len(l1) \in 1 .. L1Count
  BY <1>2, Types
<1>5. l1[1] = file.word[file.l1off + (L1Count - Len(l1) + 1 - 1) * EntrySize]
  BY <1>3, <1>4
<1>6. QED
  BY <1>2, <1>3, <1>4, <1>5, HostOffsetIs

(* The first entry of what is left of the L2 table.                        *)
LEMMA HeadOfL2 ==
  ASSUME Inv, l2 # <<>>
  PROVE  /\ Len(l2) \in 1 .. PerTable /\ Len(l1) < L1Count
         /\ TableReadable(file, file.l1off, L1Count)
         /\ HostOffset(L1Entry) # 0 /\ TableReadable(file, HostOffset(L1Entry), PerTable)
         /\ Head(l2) = file.word[HostOffset(L1Entry) + (PerTable - Len(l2)) * EntrySize]
         /\ Head(l2) \in Word
         /\ Tail(l2) \in Seq(Word) /\ Len(Tail(l2)) = Len(l2) - 1
         /\ \A k \in 1 .. (Len(l2) - 1) : Tail(l2)[k] = l2[k + 1]
<1>1. l2 \in Seq(Word) /\ l2 # <<>>
  BY Types
<1>2. /\ Head(l2) = l2[1] /\ Head(l2) \in Word
      /\ Tail(l2) \in Seq(Word) /\ Len(Tail(l2)) = Len(l2) - 1
      /\ \A k \in 1 .. Len(Tail(l2)) : Tail(l2)[k] = l2[k + 1]
      /\ Len(l2) \in Nat /\ Len(l2) # 0
  BY <1>1, HeadTailProperties, EmptySeq, LenProperties
<1>3. /\ TableReadable(file, file.l1off, L1Count) /\ Len(l1) < L1Count
      /\ HostOffset(L1Entry) # 0 /\ TableReadable(file, HostOffset(L1Entry), PerTable)
      /\ \A k \in 1 .. Len(l2) :
           l2[k] = file.word[HostOffset(L1Entry) + (PerTable - Len(l2) + k - 1) * EntrySize]
  BY DEF Inv, TablesInv
<1>4. PerTable - Len(l2) + 1 - 1 = PerTable - Len(l2) /\ Len(l2) \in 1 .. PerTable
  BY <1>2, Types
<1>5. l2[1] = file.word[HostOffset(L1Entry) + (PerTable - Len(l2) + 1 - 1) * EntrySize]
  BY <1>3, <1>4
<1>6. QED
  BY <1>2, <1>3, <1>4, <1>5

(* The next L1 entry: its L2 table is the one in the file, or empty. *)
LEMMA NextL1Inv ==
  ASSUME Inv, NextL1
  PROVE  Inv'
<1> DEFINE off == HostOffset(Head(l1))
<1>1. /\ pc = "scan" /\ l2 = <<>> /\ l1 # <<>> /\ l1' = Tail(l1)
      /\ \/ off # 0 /\ TableReadable(file, off, PerTable)
            /\ l2' = Table(file, off, PerTable)
         \/ l2' = <<>>
      /\ faults' \in BOOLEAN
      /\ UNCHANGED <<file, pc, order, rt, allocated, orphans, examined, verdict>>
  <2>1. faults \in BOOLEAN
    BY Types
  <2>2. QED
    BY <2>1 DEF NextL1, PerTable, TableReadable
<1>2. /\ Len(l1) \in 1 .. L1Count
      /\ TableReadable(file, file.l1off, L1Count)
      /\ Head(l1) = file.word[file.l1off + (L1Count - Len(l1)) * EntrySize]
      /\ off \in Nat
      /\ Tail(l1) \in Seq(Word) /\ Len(Tail(l1)) = Len(l1) - 1
      /\ \A k \in 1 .. (Len(l1) - 1) : Tail(l1)[k] = l1[k + 1]
  BY <1>1, HeadOfL1
<1>3. L1Count' = L1Count /\ RtCount' = RtCount /\ PerTable' = PerTable
  BY <1>1 DEF L1Count, RtCount, RtEntries, PerTable
<1>4. L1Entry' = Head(l1)
  <2>1. L1Count - Len(Tail(l1)) - 1 = L1Count - Len(l1)
    BY <1>2, Types
  <2>2. L1Entry' = file.word[file.l1off + (L1Count - Len(Tail(l1)) - 1) * EntrySize]
    BY <1>1, <1>3 DEF L1Entry
  <2>3. QED
    BY <1>2, <2>1, <2>2
<1> HIDE DEF off
<1>5. /\ l2' \in Seq(Word) /\ Len(l2') <= PerTable
      /\ l2' # <<>> =>
           /\ off # 0 /\ TableReadable(file, off, PerTable) /\ Len(l2') = PerTable
           /\ \A k \in 1 .. PerTable : l2'[k] = file.word[off + (k - 1) * EntrySize]
  <2>1. CASE l2' = <<>>
    <3>1. <<>> \in Seq(Word) /\ Len(<<>>) = 0
      OBVIOUS
    <3>2. QED
      BY <2>1, <3>1, Types
  <2>2. CASE l2' # <<>>
    <3>1. off # 0 /\ TableReadable(file, off, PerTable) /\ l2' = Table(file, off, PerTable)
      BY <1>1, <2>2
    <3>2. QED
      BY <1>2, <3>1, Types, TableType
  <2>3. QED
    BY <2>1, <2>2
<1>6. TypeOK'
  <2>1. Len(l1) <= MaxL1 /\ Len(l1) \in Nat /\ Len(l1') = Len(l1) - 1
    BY <1>1, <1>2, Types DEF Inv, TypeOK
  <2>2. Len(l1') <= MaxL1
    BY <2>1, Constants
  <2>3. QED
    BY <1>1, <1>2, <1>5, <2>2 DEF Inv, TypeOK, PerTable
<1>7. TablesInv'
  <2>1. Len(l1') <= L1Count /\ Len(l1') < L1Count /\ Len(l1') = Len(l1) - 1
    BY <1>1, <1>2, Types
  <2>2. ASSUME NEW k \in 1 .. Len(l1')
        PROVE  l1'[k] = file.word[file.l1off + (L1Count - Len(l1') + k - 1) * EntrySize]
    <3>1. k + 1 \in 1 .. Len(l1) /\ k \in 1 .. (Len(l1) - 1)
      BY <1>2, <2>1, <2>2
    <3>2. L1Count - Len(l1') + k - 1 = L1Count - Len(l1) + (k + 1) - 1
      BY <1>2, <2>1, <2>2, Types
    <3>3. l1[k + 1] = file.word[file.l1off + (L1Count - Len(l1) + (k + 1) - 1) * EntrySize]
      BY <1>1, <3>1 DEF Inv, TablesInv
    <3>4. QED
      BY <1>1, <1>2, <3>1, <3>2, <3>3
  <2>3. ASSUME l2' # <<>>, NEW k \in 1 .. Len(l2')
        PROVE  l2'[k] = file.word[off + (PerTable - Len(l2') + k - 1) * EntrySize]
    <3>1. PerTable - Len(l2') + k - 1 = k - 1 /\ k \in 1 .. PerTable
      BY <1>5, <2>3, Types
    <3>2. QED
      BY <1>5, <2>3, <3>1
  <2>4. HostOffset(L1Entry') = off
    BY <1>4 DEF off
  <2>5. QED
    BY <1>1, <1>2, <1>3, <1>5, <2>1, <2>2, <2>3, <2>4 DEF Inv, TablesInv
<1>8. ScanInv'
  BY <1>1 DEF Inv, ScanInv
<1>9. QED
  BY <1>6, <1>7, <1>8 DEF Inv

(* The scan goes on to the next entry of the L2 table.                     *)
LEMMA NextEntryInv ==
  ASSUME Inv, pc = "scan", l2 # <<>>, l2' = Tail(l2), UNCHANGED <<file, pc, rt, l1>>
  PROVE  /\ TablesInv' /\ l2' \in Seq(Word) /\ Len(l2') <= PerTable
         /\ Place' = Place + 1
<1>1. /\ Len(l2) \in 1 .. PerTable /\ Len(l1) < L1Count
      /\ l2' \in Seq(Word) /\ Len(l2') = Len(l2) - 1
      /\ \A k \in 1 .. (Len(l2) - 1) : l2'[k] = l2[k + 1]
  BY HeadOfL2
<1>2. L1Count' = L1Count /\ RtCount' = RtCount /\ PerTable' = PerTable /\ L1Entry' = L1Entry
  BY DEF L1Count, RtCount, RtEntries, PerTable, L1Entry
<1>3. ASSUME NEW k \in 1 .. Len(l2')
      PROVE  l2'[k] = file.word[HostOffset(L1Entry) + (PerTable - Len(l2') + k - 1) * EntrySize]
  <2>1. k + 1 \in 1 .. Len(l2) /\ k \in 1 .. (Len(l2) - 1)
    BY <1>1, <1>3
  <2>2. PerTable - Len(l2') + k - 1 = PerTable - Len(l2) + (k + 1) - 1
    BY <1>1, <1>3, Types
  <2>3. l2[k + 1] = file.word[HostOffset(L1Entry) + (PerTable - Len(l2) + (k + 1) - 1) * EntrySize]
    BY <2>1 DEF Inv, TablesInv
  <2>4. QED
    BY <1>1, <2>1, <2>2, <2>3
<1>4. TablesInv'
  BY <1>2, <1>3 DEF Inv, TablesInv
<1>5. Place' = Place + 1
  <2> DEFINE before == (L1Count - Len(l1)) * PerTable
  <2>1. before \in Int
    BY Types
  <2>2. Place = before - Len(l2) /\ Place' = before - Len(l2')
    BY <1>2 DEF Place
  <2> HIDE DEF before
  <2>3. QED
    BY <1>1, <2>1, <2>2
<1>6. QED
  BY <1>1, <1>4, <1>5, Types

(* An entry that is not a data cluster is passed. *)
LEMMA SkipEntryInv ==
  ASSUME Inv, SkipEntry
  PROVE  Inv'
<1>1. /\ pc = "scan" /\ l2 # <<>> /\ l2' = Tail(l2)
      /\ UNCHANGED <<file, pc, order, rt, l1, allocated, orphans, examined, faults, verdict>>
  BY DEF SkipEntry
<1>2. TablesInv' /\ l2' \in Seq(Word) /\ Len(l2') <= PerTable
  BY <1>1, NextEntryInv
<1>3. TypeOK'
  BY <1>1, <1>2 DEF Inv, TypeOK, PerTable
<1>4. ScanInv'
  BY <1>1 DEF Inv, ScanInv
<1>5. QED
  BY <1>2, <1>3, <1>4 DEF Inv

(* CheckEntry in the terms of the invariant. *)
LEMMA CheckEntryIs ==
  ASSUME CheckEntry
  PROVE  LET zero == RefcountOf(file, rt, HostOffset(Head(l2)) \div file.cluster, 2 ^ order) = "zero"
         IN
         /\ pc = "scan" /\ l2 # <<>> /\ ~Skipped(Head(l2))
         /\ allocated' = allocated + 1 /\ UNCHANGED <<file, order, rt, l1>>
         /\ \/ /\ allocated + 1 > MaxScanned /\ pc' = "done" /\ verdict' = "ok"
               /\ UNCHANGED <<l2, orphans, examined, faults>>
            \/ /\ ~(allocated + 1 > MaxScanned) /\ l2' = Tail(l2) /\ examined' = examined + 1
               /\ UNCHANGED <<pc, verdict>>
               /\ \/ orphans' = orphans + (IF zero THEN 1 ELSE 0) /\ UNCHANGED faults
                  \/ faults' = TRUE /\ UNCHANGED orphans
  BY DEF CheckEntry, OverCap, Finish

(* A data cluster is counted and looked up, or counted over the cap. *)
LEMMA CheckEntryInv ==
  ASSUME Inv, CheckEntry
  PROVE  Inv'
<1>1. /\ pc = "scan" /\ l2 # <<>>
      /\ allocated' = allocated + 1 /\ UNCHANGED <<file, order, rt, l1>>
  BY CheckEntryIs
<1>2. allocated <= MaxScanned /\ examined = allocated
  BY <1>1 DEF Inv, ScanInv
<1>3. CASE allocated + 1 > MaxScanned /\ pc' = "done" /\ verdict' = "ok"
           /\ UNCHANGED <<l2, orphans, examined, faults>>
  <2>1. allocated' \in 0 .. (MaxScanned + 1) /\ examined <= allocated'
    BY <1>1, <1>2, Types, Constants
  <2>2. QED
    BY <1>1, <1>3, <2>1, Types, DoneInv
<1>4. CASE /\ ~(allocated + 1 > MaxScanned) /\ l2' = Tail(l2) /\ examined' = examined + 1
           /\ UNCHANGED <<pc, verdict>> /\ orphans' \in {orphans, orphans + 1}
           /\ faults' \in BOOLEAN
  <2>1. TablesInv' /\ l2' \in Seq(Word) /\ Len(l2') <= PerTable
    BY <1>1, <1>4, NextEntryInv
  <2>2. /\ allocated' \in 0 .. (MaxScanned + 1) /\ allocated' <= MaxScanned
        /\ examined' \in 0 .. MaxScanned /\ orphans' \in 0 .. examined'
    BY <1>1, <1>2, <1>4, Types, Constants
  <2>3. TypeOK'
    BY <1>1, <1>4, <2>1, <2>2 DEF Inv, TypeOK, PerTable
  <2>4. ScanInv'
    BY <1>1, <1>2, <1>4, <2>2 DEF Inv, ScanInv
  <2>5. QED
    BY <2>1, <2>3, <2>4 DEF Inv
<1>5. QED
  <2> DEFINE zero == RefcountOf(file, rt, HostOffset(Head(l2)) \div file.cluster, 2 ^ order) = "zero"
  <2>1. orphans \in Nat /\ faults \in BOOLEAN
    BY Types
  <2>2. orphans + (IF zero THEN 1 ELSE 0) \in {orphans, orphans + 1}
    <3> HIDE DEF zero
    <3>1. QED
      BY <2>1
  <2>3. \/ /\ allocated + 1 > MaxScanned /\ pc' = "done" /\ verdict' = "ok"
           /\ UNCHANGED <<l2, orphans, examined, faults>>
        \/ /\ ~(allocated + 1 > MaxScanned) /\ l2' = Tail(l2) /\ examined' = examined + 1
           /\ UNCHANGED <<pc, verdict>>
           /\ \/ orphans' = orphans + (IF zero THEN 1 ELSE 0) /\ UNCHANGED faults
              \/ faults' = TRUE /\ UNCHANGED orphans
    BY CheckEntryIs
  <2> HIDE DEF zero
  <2>4. QED
    BY <1>3, <1>4, <2>1, <2>2, <2>3

(* Both tables are used up. *)
LEMMA EndScanInv ==
  ASSUME Inv, EndScan
  PROVE  Inv'
<1>1. allocated \in 0 .. (MaxScanned + 1) /\ order \in Nat /\ faults \in BOOLEAN
      /\ examined <= allocated
  BY DEF Inv, TypeOK, ScanInv
<1>2. QED
  BY <1>1, DoneInv DEF EndScan, Finish

(* Every step of refcount_report keeps Inv. *)
LEMMA NextInv == Inv /\ [Next]_vars => Inv'
<1> SUFFICES ASSUME Inv, [Next]_vars
             PROVE  Inv'
  OBVIOUS
<1>1. CASE UNCHANGED vars
  BY <1>1 DEF vars, Inv, TypeOK, TablesInv, ScanInv, L1Count, RtCount, RtEntries, PerTable, L1Entry
<1>2. QED
  BY <1>1, NoHeaderInv, HeaderInv, LoadRefcountTableInv, LoadL1Inv, NextL1Inv, SkipEntryInv,
     CheckEntryInv, EndScanInv DEF Next

-----------------------------------------------------------------------------
(* The image at once. *)

(* What the image records is fixed with the file. *)
LEMMA ImageStays ==
  ASSUME file' = file
  PROVE  /\ Image' = Image /\ Mapped' = Mapped /\ Orphaned' = Orphaned
         /\ NoReservedL1' = NoReservedL1 /\ NoReservedL2' = NoReservedL2
         /\ TrueOrder' = TrueOrder /\ RtEntries' = RtEntries
<1>1. Image' = Image
  BY DEF Image, EntryAt
<1>2. Mapped' = Mapped
  BY <1>1 DEF Mapped, Guest
<1>3. TrueOrder' = TrueOrder /\ RtEntries' = RtEntries
  BY DEF TrueOrder, RtEntries
<1>4. Orphaned' = Orphaned
  BY <1>1, <1>2, <1>3 DEF Orphaned, HostOf, Free, WithoutBlock, DefiniteZero, HasRange, BlockOf,
     RangeEntry, TrueBits, Guest, EntryAt
<1>5. NoReservedL1' = NoReservedL1 /\ NoReservedL2' = NoReservedL2
  BY <1>1, <1>2 DEF NoReservedL1, NoReservedL2, HostOf, Guest
<1>6. QED
  BY <1>1, <1>2, <1>3, <1>4, <1>5

(* The image as the reader has it, in terms of the file of the scan. *)
LEMMA ImageIs ==
  ASSUME Inv
  PROVE  /\ Image.cluster = file.cluster /\ Image.l1size = file.l1size
         /\ Image.len = file.len /\ Image.word = file.word
         /\ L2Entries(Image) = PerTable
         /\ DOMAIN Image.l1 = 0 .. (file.l1size - 1)
         /\ \A i \in 0 .. (file.l1size - 1) : Image.l1[i] = EntryAt(file.l1off + i * EntrySize)
  BY DEF Image, L2Entries, PerTable

(* The reader's lookup of guest cluster j of the i-th L2 table. *)
LEMMA LookupOfPlace ==
  ASSUME Inv, NEW i \in 0 .. (file.l1size - 1), NEW j \in 0 .. (PerTable - 1)
  PROVE  LET n == PerTable * i + j IN
         /\ n \in 0 .. (file.l1size * L2Entries(Image) - 1)
         /\ L2TableOffset(Image, Guest(n)) = Image.l1[i] % CopiedBit
         /\ L2EntryPos(Image, Guest(n)) = (Image.l1[i] % CopiedBit) + j * EntrySize
<1> DEFINE n == PerTable * i + j
<1>1. /\ PerTable \in Nat \ {0} /\ file.l1size \in Nat /\ file.cluster \in Nat \ {0}
      /\ i \in Nat /\ j \in Nat
  <2>1. PerTable \in Nat /\ file.l1size \in Nat /\ file.cluster \in Nat \ {0}
    BY Types, FileTypes
  <2>2. QED
    BY <2>1
<1>2. n \in Nat /\ n \div PerTable = i /\ n % PerTable = j
  <2>1. n \in Nat
    BY <1>1
  <2>2. n \div PerTable = i /\ n % PerTable = j
    BY <1>1, DivModOf, Zenon
  <2>3. QED
    BY <2>1, <2>2
<1>3. n < file.l1size * PerTable
  <2>1. PICK m \in Nat : file.l1size = (i + 1) + m
    <3>1. file.l1size - (i + 1) \in Nat /\ file.l1size = (i + 1) + (file.l1size - (i + 1))
      BY <1>1
    <3>2. QED
      BY <3>1
  <2>2. file.l1size * PerTable = PerTable * i + PerTable + m * PerTable /\ m * PerTable \in Nat
    BY <1>1, <2>1
  <2>3. PerTable * i \in Nat
    BY <1>1
  <2>4. QED
    BY <1>1, <2>2, <2>3
<1> HIDE DEF n
<1>4. Guest(n) \div file.cluster = n
  <2>1. Guest(n) = file.cluster * n + 0
    BY <1>1, <1>2 DEF Guest
  <2>2. 0 \in 0 .. (file.cluster - 1)
    BY <1>1
  <2>3. (file.cluster * n + 0) \div file.cluster = n
    BY <1>1, <1>2, <2>2, DivModOf, Zenon
  <2>4. QED
    BY <2>1, <2>3
<1>5. ClusterIdx(Image, Guest(n)) = n
  BY <1>4, ImageIs DEF ClusterIdx
<1>6. i < file.l1size
  BY <1>1
<1>7. L2TableOffset(Image, Guest(n)) = Image.l1[i] % CopiedBit
  BY <1>2, <1>5, <1>6, ImageIs DEF L2TableOffset
<1>8. L2EntryPos(Image, Guest(n)) = (Image.l1[i] % CopiedBit) + j * EntrySize
  BY <1>2, <1>5, <1>7, ImageIs DEF L2EntryPos
<1>9. file.l1size * PerTable \in Nat
  BY <1>1
<1>10. n \in 0 .. (file.l1size * L2Entries(Image) - 1)
  BY <1>2, <1>3, <1>9, ImageIs
<1>11. QED
  BY <1>7, <1>8, <1>10 DEF n

(* Every guest cluster has a place. *)
LEMMA PlaceOfGuest ==
  ASSUME Inv, NEW n \in 0 .. (file.l1size * L2Entries(Image) - 1)
  PROVE  /\ n \in Nat /\ PerTable # 0
         /\ n \div PerTable \in 0 .. (file.l1size - 1) /\ n % PerTable \in 0 .. (PerTable - 1)
         /\ n = PerTable * (n \div PerTable) + (n % PerTable)
<1>1. PerTable \in Nat /\ file.l1size \in Nat /\ L2Entries(Image) = PerTable
  BY Types, FileTypes, ImageIs
<1>2. n \in Nat /\ n < file.l1size * PerTable
  <2>1. file.l1size * PerTable \in Nat
    BY <1>1
  <2>2. QED
    BY <1>1, <2>1
<1>3. PerTable # 0
  BY <1>1, <1>2
<1> DEFINE q == n \div PerTable
           r == n % PerTable
<1>4. q \in Nat /\ r \in 0 .. (PerTable - 1) /\ n = PerTable * q + r
  BY <1>1, <1>2, <1>3, DivMod
<1> HIDE DEF q, r
<1>5. q < file.l1size
  <2> SUFFICES ASSUME q >= file.l1size
               PROVE  FALSE
    BY <1>1, <1>4
  <2>1. PICK m \in Nat : q = file.l1size + m
    <3>1. q - file.l1size \in Nat /\ q = file.l1size + (q - file.l1size)
      BY <1>1, <1>4
    <3>2. QED
      BY <3>1
  <2>2. PerTable * q = file.l1size * PerTable + PerTable * m /\ PerTable * m \in Nat
    BY <1>1, <2>1
  <2>3. file.l1size * PerTable \in Nat
    BY <1>1
  <2>4. QED
    BY <1>1, <1>2, <1>4, <2>2, <2>3
<1>6. QED
  BY <1>1, <1>2, <1>3, <1>4, <1>5 DEF q, r

(* The offset of an L2 table, where no entry has a reserved bit: the scan  *)
(* and the reader go to the same place.                                    *)
LEMMA L2Offset ==
  ASSUME Inv, NoReservedL1, NEW i \in 0 .. (L1Count - 1), TableReadable(file, file.l1off, L1Count)
  PROVE  /\ i \in 0 .. (file.l1size - 1)
         /\ Image.l1[i] = file.word[file.l1off + i * EntrySize]
         /\ Image.l1[i] % CopiedBit = HostOffset(file.word[file.l1off + i * EntrySize])
<1>0. L1Count \in Nat /\ L1Count <= file.l1size /\ IsFile(file)
  BY Types
<1>1. i \in 0 .. (file.l1size - 1) /\ file.l1off \in Nat /\ IsFile(file)
  <2>1. file.l1size \in Nat /\ file.l1off \in Nat
    BY <1>0, FileTypes
  <2>2. QED
    BY <1>0, <2>1
<1>2. WordReadable(file, file.l1off + i * EntrySize)
  BY <1>1, Types, EntryPlace
<1>3. Image.l1[i] = file.word[file.l1off + i * EntrySize]
  BY <1>1, <1>2, ImageIs DEF EntryAt
<1>4. QED
  BY <1>1, <1>3, ImageIs DEF NoReservedL1

(* The entry that the scan is at is the one that the reader finds for the  *)
(* guest cluster at its place.                                             *)
LEMMA EntryScanned ==
  ASSUME Inv, NoReservedL1, l2 # <<>>
  PROVE  /\ Place \in Nat /\ Place \in 0 .. (file.l1size * L2Entries(Image) - 1)
         /\ L2TableOffset(Image, Guest(Place)) # 0
         /\ file.word[L2EntryPos(Image, Guest(Place))] = Head(l2)
         /\ WordReadable(Image, L2EntryPos(Image, Guest(Place)))
<1> DEFINE i == L1Count - Len(l1) - 1
           j == PerTable - Len(l2)
           off == HostOffset(L1Entry)
<1>1. /\ Len(l2) \in 1 .. PerTable /\ Len(l1) < L1Count
      /\ TableReadable(file, file.l1off, L1Count)
      /\ off # 0 /\ TableReadable(file, off, PerTable)
      /\ Head(l2) = file.word[off + j * EntrySize]
  BY HeadOfL2
<1>0. /\ PerTable \in Nat /\ L1Count \in Nat /\ Len(l1) \in Nat
      /\ file.l1off \in Nat /\ IsFile(file)
  BY Types, FileTypes
<1>2. /\ i \in 0 .. (L1Count - 1) /\ j \in 0 .. (PerTable - 1)
      /\ PerTable \in Nat /\ L1Count \in Nat /\ file.l1off \in Nat /\ IsFile(file)
  BY <1>0, <1>1
<1>3. Place = PerTable * i + j
  <2>1. (L1Count - Len(l1)) = i + 1 /\ Len(l2) = PerTable - j /\ i \in Nat /\ j \in Nat
    BY <1>1, <1>2, Types
  <2> HIDE DEF i, j
  <2>2. (i + 1) * PerTable = PerTable * i + PerTable /\ PerTable * i \in Nat
    BY <1>2, <2>1
  <2>3. Place = (i + 1) * PerTable - (PerTable - j)
    BY <2>1 DEF Place
  <2>4. QED
    BY <1>2, <2>1, <2>2, <2>3
<1>4. /\ i \in 0 .. (file.l1size - 1)
      /\ Image.l1[i] % CopiedBit = off
  <2>1. L1Entry = file.word[file.l1off + i * EntrySize]
    BY DEF L1Entry
  <2> HIDE DEF i
  <2>2. QED
    BY <1>1, <1>2, <2>1, L2Offset
<1> HIDE DEF i, j, off
<1>5. /\ Place \in 0 .. (file.l1size * L2Entries(Image) - 1)
      /\ L2TableOffset(Image, Guest(Place)) = off
      /\ L2EntryPos(Image, Guest(Place)) = off + j * EntrySize
  BY <1>2, <1>3, <1>4, LookupOfPlace
<1>6. off \in Nat
  <2>1. file.word[file.l1off + i * EntrySize] \in Word
    BY <1>1, <1>2, EntryPlace
  <2>2. QED
    BY <2>1, HostOffsetIs DEF i, off, L1Entry
<1>7. WordReadable(file, off + j * EntrySize)
  BY <1>1, <1>2, <1>6, EntryPlace
<1>8. WordReadable(Image, off + j * EntrySize)
  BY <1>7, ImageIs DEF WordReadable
<1>9. QED
  BY <1>1, <1>5, <1>8

(* What the scan makes of an entry and what the reader makes of it: a      *)
(* cluster that is counted is one the reader goes to a data cluster for;   *)
(* one that is passed over is none, or its offset is all reserved bits.    *)
LEMMA EntryCounted ==
  ASSUME Inv, NoReservedL1, l2 # <<>>
  PROVE  /\ HostOf(Place) = HostOffset(Head(l2))
         /\ ~Skipped(Head(l2)) => Place \in Mapped /\ HostOf(Place) # 0
         /\ Skipped(Head(l2)) => Place \notin Orphaned /\ (NoReservedL2 => Place \notin Mapped)
<1> DEFINE n == Place
           e == Head(l2)
<1>1. /\ n \in 0 .. (file.l1size * L2Entries(Image) - 1)
      /\ L2TableOffset(Image, Guest(n)) # 0
      /\ file.word[L2EntryPos(Image, Guest(n))] = e
      /\ WordReadable(Image, L2EntryPos(Image, Guest(n)))
  BY EntryScanned
<1>2. e \in Word
  BY HeadOfL2
<1> HIDE DEF n, e
<1>3. Resolved(Image, Guest(n)) /\ GuestRef(Image, Guest(n)) = DecodeL2(Image, e)
  BY <1>1, ImageIs DEF Resolved, GuestRef
<1>4. n \in Mapped <=> DecodeL2(Image, e).kind = "normal"
  BY <1>1, <1>3 DEF Mapped
<1>5. DecodeL2(Image, e).kind = "normal" <=>
        (e \div CompressedBit) % 2 # 1 /\ e % 2 # 1 /\ e % CompressedBit # 0
  BY DEF DecodeL2, CompressedRef, ZeroCluster, Unallocated, Ref
<1>6. DecodeL2(Image, e).kind = "normal" => DecodeL2(Image, e).off = e % CompressedBit
  BY DEF DecodeL2, CompressedRef, ZeroCluster, Unallocated, Ref
<1>7. HostOf(n) = HostOffset(e)
  BY <1>1 DEF HostOf
<1>8. HostOffset(e) # 0 => e % CompressedBit # 0
  BY <1>2, HostOffsetIs
<1>9. ~Skipped(e) => n \in Mapped /\ HostOf(n) # 0
  BY <1>4, <1>5, <1>7, <1>8 DEF Skipped
<1>10. ASSUME Skipped(e), n \in Mapped
       PROVE  HostOf(n) = 0 /\ ~NoReservedL2
  <2>1. HostOffset(e) = 0
    BY <1>4, <1>5, <1>10 DEF Skipped
  <2>2. GuestRef(Image, Guest(n)).off # 0
    BY <1>3, <1>4, <1>5, <1>6, <1>10
  <2>3. QED
    BY <1>7, <1>10, <2>1, <2>2 DEF NoReservedL2
<1>11. Skipped(e) => n \notin Orphaned /\ (NoReservedL2 => n \notin Mapped)
  BY <1>10 DEF Orphaned
<1>12. QED
  BY <1>7, <1>9, <1>11 DEF n, e

(* No guest cluster of an L1 entry without an offset is mapped.            *)
LEMMA NoTableNothingMapped ==
  ASSUME Inv, NoReservedL1, NEW n \in Mapped, PerTable # 0,
         Image.l1[n \div PerTable] % CopiedBit = 0
  PROVE  FALSE
<1>1. n \in 0 .. (file.l1size * L2Entries(Image) - 1) /\ GuestRef(Image, Guest(n)).kind = "normal"
  BY DEF Mapped
<1> DEFINE i == n \div PerTable
           j == n % PerTable
<1>2. i \in 0 .. (file.l1size - 1) /\ j \in 0 .. (PerTable - 1) /\ n = PerTable * i + j
  BY <1>1, PlaceOfGuest
<1> HIDE DEF i, j
<1>3. L2TableOffset(Image, Guest(n)) = Image.l1[i] % CopiedBit
  BY <1>2, LookupOfPlace
<1>4. GuestRef(Image, Guest(n)).kind = "unallocated"
  BY <1>3 DEF GuestRef, Unallocated, Ref, i
<1>5. QED
  BY <1>1, <1>4

-----------------------------------------------------------------------------
(* Refcounts, bit by bit. *)

(* The widths of a refcount. *)
RefcountWidths == {1, 2, 4, 8, 16, 32, 64}

(* The orders up to 6 are the widths the scan unpacks. *)
LEMMA Widths ==
  ASSUME NEW o \in 0 .. 6
  PROVE  2 ^ o \in RefcountWidths
<1>1. /\ 2 ^ 0 = 1 /\ 2 ^ 1 = 2 /\ 2 ^ 2 = 4 /\ 2 ^ 3 = 8
      /\ 2 ^ 4 = 16 /\ 2 ^ 5 = 32 /\ 2 ^ 6 = 64
  OBVIOUS
<1>2. o \in {0, 1, 2, 3, 4, 5, 6}
  OBVIOUS
<1>3. QED
  BY <1>1, <1>2 DEF RefcountWidths

(* Bit r of a byte, the highest first. *)
BitOf(b, r) == (b \div (2 ^ (7 - r))) % 2

(* A byte is zero if its eight bits are. *)
LEMMA BitsOfByte ==
  ASSUME NEW b \in Byte
  PROVE  b = 0 <=> \A r \in 0 .. 7 : BitOf(b, r) = 0
<1>1. /\ BitOf(b, 0) = (b \div 128) % 2 /\ BitOf(b, 1) = (b \div 64) % 2
      /\ BitOf(b, 2) = (b \div 32) % 2 /\ BitOf(b, 3) = (b \div 16) % 2
      /\ BitOf(b, 4) = (b \div 8) % 2 /\ BitOf(b, 5) = (b \div 4) % 2
      /\ BitOf(b, 6) = (b \div 2) % 2 /\ BitOf(b, 7) = (b \div 1) % 2
  <2>1. /\ 2 ^ (7 - 0) = 128 /\ 2 ^ (7 - 1) = 64 /\ 2 ^ (7 - 2) = 32 /\ 2 ^ (7 - 3) = 16
        /\ 2 ^ (7 - 4) = 8 /\ 2 ^ (7 - 5) = 4 /\ 2 ^ (7 - 6) = 2 /\ 2 ^ (7 - 7) = 1
    OBVIOUS
  <2>2. QED
    BY <2>1 DEF BitOf
<1>2. (\A r \in 0 .. 7 : BitOf(b, r) = 0) <=>
        /\ BitOf(b, 0) = 0 /\ BitOf(b, 1) = 0 /\ BitOf(b, 2) = 0 /\ BitOf(b, 3) = 0
        /\ BitOf(b, 4) = 0 /\ BitOf(b, 5) = 0 /\ BitOf(b, 6) = 0 /\ BitOf(b, 7) = 0
  <2>1. 0 .. 7 = {0, 1, 2, 3, 4, 5, 6, 7}
    OBVIOUS
  <2>2. QED
    BY <2>1, Zenon
<1>3. b \in 0 .. 255
  BY DEF Byte
<1>4. QED
  BY <1>1, <1>2, <1>3

(* A refcount narrower than a byte, shifted down from the high end. *)
LEMMA BitsBelowByte ==
  ASSUME NEW b \in Byte, NEW bits \in {1, 2, 4}, NEW r \in 0 .. 7, r % bits = 0
  PROVE  (b \div (2 ^ (8 - r - bits))) % (2 ^ bits) = 0 <=>
           \A k \in 0 .. (bits - 1) : BitOf(b, r + k) = 0
<1>0. /\ 2 ^ 0 = 1 /\ 2 ^ 1 = 2 /\ 2 ^ 2 = 4 /\ 2 ^ 3 = 8
      /\ 2 ^ 4 = 16 /\ 2 ^ 5 = 32 /\ 2 ^ 6 = 64 /\ 2 ^ 7 = 128
  OBVIOUS
<1>1. b \in 0 .. 255 /\ r \in {0, 1, 2, 3, 4, 5, 6, 7}
  BY DEF Byte
<1>2. CASE bits = 1
  <2>1. 8 - r - bits = 7 - r /\ 2 ^ bits = 2
    BY <1>0, <1>1, <1>2
  <2>2. (b \div (2 ^ (8 - r - bits))) % (2 ^ bits) = BitOf(b, r)
    BY <2>1 DEF BitOf
  <2>3. (\A k \in 0 .. (bits - 1) : BitOf(b, r + k) = 0) <=> BitOf(b, r + 0) = 0
    BY <1>2
  <2>4. QED
    BY <1>1, <2>2, <2>3
<1>3. CASE bits = 2
  <2>1. r \in {0, 2, 4, 6}
    BY <1>1, <1>3
  <2>2. (\A k \in 0 .. (bits - 1) : BitOf(b, r + k) = 0) <=>
          BitOf(b, r + 0) = 0 /\ BitOf(b, r + 1) = 0
    BY <1>3
  <2>3. CASE r = 0
    BY <1>0, <1>1, <1>3, <2>2, <2>3 DEF BitOf
  <2>4. CASE r = 2
    BY <1>0, <1>1, <1>3, <2>2, <2>4 DEF BitOf
  <2>5. CASE r = 4
    BY <1>0, <1>1, <1>3, <2>2, <2>5 DEF BitOf
  <2>6. CASE r = 6
    BY <1>0, <1>1, <1>3, <2>2, <2>6 DEF BitOf
  <2>7. QED
    BY <2>1, <2>3, <2>4, <2>5, <2>6
<1>4. CASE bits = 4
  <2>1. r \in {0, 4}
    BY <1>1, <1>4
  <2>2. (\A k \in 0 .. (bits - 1) : BitOf(b, r + k) = 0) <=>
          /\ BitOf(b, r + 0) = 0 /\ BitOf(b, r + 1) = 0
          /\ BitOf(b, r + 2) = 0 /\ BitOf(b, r + 3) = 0
    <3>1. 0 .. (bits - 1) = {0, 1, 2, 3}
      BY <1>4
    <3>2. QED
      BY <3>1, Zenon
  <2>3. CASE r = 0
    BY <1>0, <1>1, <1>4, <2>2, <2>3 DEF BitOf
  <2>4. CASE r = 4
    BY <1>0, <1>1, <1>4, <2>2, <2>4 DEF BitOf
  <2>5. QED
    BY <2>1, <2>3, <2>4
<1>5. QED
  BY <1>2, <1>3, <1>4

(* The bytes that refcount_of reads are in the file. *)
RefcountInFile(f, block, bit_off, bits) ==
  BytesThere(f, block + (bit_off \div 8), IF bits < 8 THEN 1 ELSE bits \div 8)

(* The bits of the file from the given one on are there and 0. *)
BitsZero(f, from, bits) ==
  from + bits <= f.len * 8 /\ \A k \in 0 .. (bits - 1) : Bit(f, from + k) = 0

(* The bits that refcount_of looks at are the ones the image records for   *)
(* the cluster, for every width of a refcount, and it looks at them only   *)
(* when all of them are in the file.                                       *)
LEMMA RefcountBits ==
  ASSUME NEW f, IsFile(f), NEW block \in Nat, NEW m \in Nat,
         NEW bits \in RefcountWidths
  PROVE  RefcountInFile(f, block, m * bits, bits) /\ ~RefcountNonZero(f, block, m * bits, bits)
           <=> BitsZero(f, block * 8 + m * bits, bits)
<1> DEFINE bit_off == m * bits
           from == block * 8 + bit_off
           width == IF bits < 8 THEN 1 ELSE bits \div 8
           q == bit_off \div 8
           r == bit_off % 8
           at == block + q
<1>0. bits \in {1, 2, 4, 8, 16, 32, 64}
  BY DEF RefcountWidths
<1>1. bit_off \in Nat /\ bit_off % bits = 0
  <2>1. bit_off = bits * m + 0 /\ bits \in Nat \ {0} /\ 0 \in 0 .. (bits - 1)
    BY <1>0
  <2>2. (bits * m + 0) % bits = 0
    BY <2>1, DivModOf, Zenon
  <2>3. QED
    BY <2>1, <2>2
<1>2. f.len \in Nat /\ \A p \in 0 .. (f.len - 1) : f.byte[p] \in Byte
  BY FileTypes
<1> HIDE DEF bit_off
<1>3. q \in Nat /\ r \in 0 .. 7 /\ bit_off = 8 * q + r
  BY <1>1
<1> HIDE DEF q, r
<1>4. from = 8 * at + r /\ at \in Nat
  BY <1>3
<1>5. ASSUME bits \in {1, 2, 4}
      PROVE  /\ block + q + width <= f.len <=> from + bits <= f.len * 8
             /\ from + bits <= f.len * 8 =>
                  (RefcountNonZero(f, block, bit_off, bits) <=>
                     \E k \in 0 .. (bits - 1) : Bit(f, from + k) # 0)
  <2>1. r % bits = 0
    <3>1. 8 % bits = 0 /\ bits \in Nat \ {0} /\ 8 \in Nat \ {0}
      BY <1>5
    <3>2. (bit_off % 8) % bits = bit_off % bits
      BY <1>1, <3>1, ModOfMod, Zenon
    <3>3. QED
      BY <1>1, <3>2 DEF r
  <2>2. r + bits <= 8
    <3>1. CASE bits = 1
      BY <1>3, <3>1
    <3>2. CASE bits = 2
      BY <1>3, <2>1, <3>2
    <3>3. CASE bits = 4
      BY <1>3, <2>1, <3>3
    <3>4. QED
      BY <1>5, <3>1, <3>2, <3>3
  <2>3. width = 1
    BY <1>5
  <2>4. block + q + width <= f.len <=> from + bits <= f.len * 8
    BY <1>2, <1>3, <1>4, <1>5, <2>2, <2>3
  <2> HIDE DEF from, at
  <2>5. ASSUME from + bits <= f.len * 8
        PROVE  RefcountNonZero(f, block, bit_off, bits) <=>
                 \E k \in 0 .. (bits - 1) : Bit(f, from + k) # 0
    <3>1. at \in 0 .. (f.len - 1) /\ f.byte[at] \in Byte
      BY <1>2, <1>3, <1>4, <1>5, <2>5
    <3>2. \A k \in 0 .. (bits - 1) : Bit(f, from + k) = BitOf(f.byte[at], r + k)
      <4>1. ASSUME NEW k \in 0 .. (bits - 1)
            PROVE  (from + k) \div 8 = at /\ (from + k) % 8 = r + k
        <5>1. from + k = 8 * at + (r + k) /\ r + k \in 0 .. 7
          BY <1>3, <1>4, <1>5, <2>2
        <5>2. QED
          BY <1>4, <5>1
      <4>2. QED
        BY <4>1 DEF Bit, BitOf
    <3>3. RefcountNonZero(f, block, bit_off, bits) <=>
            (f.byte[at] \div (2 ^ (8 - r - bits))) % (2 ^ bits) # 0
      <4>1. ~(bits >= 8)
        BY <1>5
      <4>2. QED
        BY <4>1 DEF RefcountNonZero, Shift, at, q, r
    <3>4. (f.byte[at] \div (2 ^ (8 - r - bits))) % (2 ^ bits) = 0 <=>
            \A k \in 0 .. (bits - 1) : BitOf(f.byte[at], r + k) = 0
      BY <1>3, <1>5, <2>1, <3>1, BitsBelowByte, Zenon
    <3>5. QED
      BY <3>2, <3>3, <3>4, Zenon
  <2>6. QED
    BY <2>4, <2>5 DEF from, at
<1>6. ASSUME bits \in {8, 16, 32, 64}
      PROVE  /\ block + q + width <= f.len <=> from + bits <= f.len * 8
             /\ from + bits <= f.len * 8 =>
                  (RefcountNonZero(f, block, bit_off, bits) <=>
                     \E k \in 0 .. (bits - 1) : Bit(f, from + k) # 0)
  <2> DEFINE w == bits \div 8
  <2>1. w \in {1, 2, 4, 8} /\ bits = 8 * w /\ width = w
    BY <1>6
  <2>2. r = 0
    <3>1. PICK c \in Nat : bit_off = 8 * c
      <4>1. m * w \in Nat /\ m * (8 * w) = 8 * (m * w)
        BY <2>1
      <4>2. QED
        BY <2>1, <4>1 DEF bit_off
    <3>2. QED
      BY <1>3, <3>1
  <2> HIDE DEF w, width
  <2>3. block + q + width <= f.len <=> from + bits <= f.len * 8
    BY <1>2, <1>3, <1>4, <2>1, <2>2
  <2> HIDE DEF from, at
  <2>4. ASSUME from + bits <= f.len * 8
        PROVE  RefcountNonZero(f, block, bit_off, bits) <=>
                 \E k \in 0 .. (bits - 1) : Bit(f, from + k) # 0
    <3>1. ASSUME NEW a \in 0 .. (w - 1)
          PROVE  f.byte[at + a] \in Byte
      <4>1. at + a \in 0 .. (f.len - 1)
        BY <1>2, <1>4, <2>1, <2>2, <2>4
      <4>2. QED
        BY <1>2, <4>1
    <3>2. ASSUME NEW a \in 0 .. (w - 1), NEW c \in 0 .. 7
          PROVE  8 * a + c \in 0 .. (bits - 1) /\ Bit(f, from + (8 * a + c)) = BitOf(f.byte[at + a], c)
      <4>1. 8 * a + c \in 0 .. (bits - 1)
        BY <2>1
      <4>2. from + (8 * a + c) = 8 * (at + a) + c /\ at + a \in Nat
        BY <1>4, <2>1, <2>2
      <4>3. (from + (8 * a + c)) \div 8 = at + a /\ (from + (8 * a + c)) % 8 = c
        BY <4>2
      <4>4. QED
        BY <4>1, <4>3 DEF Bit, BitOf
    <3>3. RefcountNonZero(f, block, bit_off, bits) <=> \E a \in 0 .. (w - 1) : f.byte[at + a] # 0
      <4>1. bits >= 8
        BY <1>6
      <4>2. QED
        BY <4>1 DEF RefcountNonZero, at, q, w
    <3>4. ASSUME NEW a \in 0 .. (w - 1), f.byte[at + a] # 0
          PROVE  \E k \in 0 .. (bits - 1) : Bit(f, from + k) # 0
      <4>1. PICK c \in 0 .. 7 : BitOf(f.byte[at + a], c) # 0
        BY <3>1, <3>4, BitsOfByte
      <4>2. QED
        BY <3>2, <4>1
    <3>5. ASSUME NEW k \in 0 .. (bits - 1), Bit(f, from + k) # 0
          PROVE  \E a \in 0 .. (w - 1) : f.byte[at + a] # 0
      <4>1. k \div 8 \in 0 .. (w - 1) /\ k % 8 \in 0 .. 7 /\ k = 8 * (k \div 8) + (k % 8)
        BY <2>1
      <4>2. BitOf(f.byte[at + (k \div 8)], k % 8) # 0
        BY <3>2, <3>5, <4>1
      <4>3. f.byte[at + (k \div 8)] # 0
        BY <3>1, <4>1, <4>2, BitsOfByte
      <4>4. QED
        BY <4>1, <4>3
    <3>6. QED
      BY <3>3, <3>4, <3>5
  <2>5. QED
    BY <2>3, <2>4 DEF from, at, width
<1>7. /\ block + q + width <= f.len <=> from + bits <= f.len * 8
      /\ from + bits <= f.len * 8 =>
           (RefcountNonZero(f, block, bit_off, bits) <=>
              \E k \in 0 .. (bits - 1) : Bit(f, from + k) # 0)
  BY <1>0, <1>5, <1>6
<1>9. RefcountInFile(f, block, bit_off, bits) <=> block + q + width <= f.len
  BY DEF RefcountInFile, BytesThere, q
<1>10. BitsZero(f, from, bits) <=>
         from + bits <= f.len * 8 /\ \A k \in 0 .. (bits - 1) : Bit(f, from + k) = 0
  BY DEF BitsZero
<1> HIDE DEF from, width
<1>11. RefcountInFile(f, block, bit_off, bits) /\ ~RefcountNonZero(f, block, bit_off, bits)
         <=> BitsZero(f, from, bits)
  BY <1>7, <1>9, <1>10, Zenon
<1>12. QED
  BY <1>11 DEF from, bit_off

(* The scan finds a cluster free where nothing the image records keeps it  *)
(* alive, and with the whole refcount table only misses it there.          *)
LEMMA ZeroIsFree ==
  ASSUME Inv, pc = "scan", order = TrueOrder, NEW idx \in Nat
  PROVE  /\ RefcountOf(file, rt, idx, 2 ^ order) = "zero" => Free(idx)
         /\ Free(idx) /\ RtEntries <= MaxL1 => RefcountOf(file, rt, idx, 2 ^ order) = "zero"
<1> DEFINE bits == 2 ^ order
           per == PerBlock(file, bits)
           i == idx \div per
           m == idx % per
           at == file.rtoff + i * EntrySize
<1>1. /\ IsFile(file) /\ file.len \in Nat /\ file.cluster \in Nat \ {0} /\ file.rtoff \in Nat
      /\ RtCount \in Nat /\ RtEntries \in Nat /\ RtCount <= RtEntries
      /\ RtEntries <= MaxL1 => RtCount = RtEntries
      /\ EntrySize \in Nat \ {0}
  BY Types, FileTypes, Constants
<1>2. bits \in RefcountWidths /\ bits \in Nat \ {0}
  <2>1. order \in 0 .. 6
    <3>1. order <= 6
      BY DEF Inv, TypeOK
    <3>2. order \in Nat
      BY Types
    <3>3. QED
      BY <3>1, <3>2
  <2>2. QED
    <3>1. bits \in RefcountWidths
      BY <2>1, Widths
    <3> HIDE DEF bits
    <3>2. bits \in Nat \ {0}
      BY <3>1 DEF RefcountWidths
    <3>3. QED
      BY <3>1, <3>2
<1>3. per \in Nat
  <2>1. file.cluster * 8 \in Nat /\ bits \in Nat \ {0}
    BY <1>1, <1>2
  <2> HIDE DEF bits
  <2>2. QED
    BY <2>1, DivMod DEF PerBlock
<1>4. IF NoTable(file.rtoff, RtCount) THEN rt = <<>>
      ELSE TableReadable(file, file.rtoff, RtCount) /\ rt = Table(file, file.rtoff, RtCount)
  BY DEF Inv, TablesInv
<1>5. bits = 2 ^ TrueOrder
  OBVIOUS
<1> HIDE DEF bits
<1>6. CASE per = 0
  BY <1>5, <1>6 DEF RefcountOf, InTable, Free, WithoutBlock, DefiniteZero, HasRange, TrueBits
<1>7. CASE per # 0
  <2>1. i \in Nat /\ m \in Nat
    BY <1>3, <1>7, DivMod
  <2>2. InTable(file, rt, idx, bits) <=> i + 1 \in DOMAIN rt
    BY <1>7 DEF InTable
  <2>3. BitOffset(file, idx, bits) = m * bits
    BY DEF BitOffset
  <2>4. ASSUME i + 1 \in DOMAIN rt
        PROVE  /\ file.rtoff # 0 /\ i < RtEntries /\ WordReadable(file, at)
               /\ BlockOffset(file, rt, idx, bits) = EntryAt(at) - (EntryAt(at) % file.cluster)
               /\ BlockOffset(file, rt, idx, bits) \in Nat
    <3>1. rt # <<>>
      BY <2>4
    <3>2. /\ ~NoTable(file.rtoff, RtCount) /\ TableReadable(file, file.rtoff, RtCount)
          /\ rt = Table(file, file.rtoff, RtCount)
      BY <1>4, <3>1
    <3>3. DOMAIN rt = 1 .. RtCount
      BY <3>2 DEF Table
    <3>4. i \in 0 .. (RtCount - 1) /\ i + 1 \in 1 .. RtCount /\ (i + 1) - 1 = i
      BY <1>1, <2>1, <2>4, <3>3
    <3> HIDE DEF i
    <3>5. rt[i + 1] = file.word[file.rtoff + ((i + 1) - 1) * EntrySize]
      <4>1. \A k \in 1 .. RtCount :
              Table(file, file.rtoff, RtCount)[k] = file.word[file.rtoff + (k - 1) * EntrySize]
        BY <1>1, <3>2, TableType
      <4>2. QED
        BY <3>2, <3>4, <4>1, Zenon
    <3>6. WordReadable(file, at) /\ file.word[at] \in Word
      BY <1>1, <3>2, <3>4, EntryPlace
    <3>7. rt[i + 1] = EntryAt(at)
      BY <3>4, <3>5, <3>6 DEF EntryAt
    <3>8. EntryAt(at) \in Nat
      <4>1. EntryAt(at) \in Word
        BY <3>6 DEF EntryAt
      <4>2. QED
        BY <4>1, HostOffsetIs
    <3> DEFINE entry == EntryAt(at)
    <3> HIDE DEF at
    <3>9. BlockOffset(file, rt, idx, bits) = entry - (entry % file.cluster)
      BY <3>7 DEF BlockOffset, i
    <3>10. entry - (entry % file.cluster) \in Nat
      <4> HIDE DEF entry
      <4>1. entry \in Nat
        BY <3>8 DEF entry
      <4>2. PICK q \in Nat, r \in Nat : entry = file.cluster * q + r /\ entry % file.cluster = r
        BY <1>1, <4>1, DivMod
      <4>3. file.cluster * q \in Nat
        BY <1>1
      <4>4. QED
        BY <4>2, <4>3
    <3>11. file.rtoff # 0 /\ i < RtEntries
      BY <1>1, <2>1, <3>2, <3>4 DEF NoTable
    <3>12. QED
      BY <3>6, <3>9, <3>10, <3>11 DEF at
  <2>5. ASSUME file.rtoff # 0, i < RtEntries, RtEntries <= MaxL1
        PROVE  i + 1 \in DOMAIN rt
    <3>1. i \in 0 .. (RtCount - 1) /\ RtCount # 0
      BY <1>1, <2>1, <2>5
    <3>2. rt = Table(file, file.rtoff, RtCount)
      BY <1>4, <2>5, <3>1 DEF NoTable
    <3>3. QED
      BY <1>1, <3>1, <3>2 DEF Table
  <2> DEFINE block == BlockOffset(file, rt, idx, bits)
             from == block * 8 + m * bits
  <2>6. ASSUME i + 1 \in DOMAIN rt
        PROVE  RefcountOf(file, rt, idx, bits) = "zero" <=>
                 block = 0 \/ BitsZero(file, from, bits)
    <3> HIDE DEF block
    <3>1. block \in Nat
      BY <2>4, <2>6 DEF block
    <3> HIDE DEF m
    <3>2. RefcountInFile(file, block, m * bits, bits) /\ ~RefcountNonZero(file, block, m * bits, bits)
            <=> BitsZero(file, from, bits)
      BY <1>1, <1>2, <2>1, <3>1, RefcountBits, Zenon
    <3>3. RefcountOf(file, rt, idx, bits) =
            IF block = 0 THEN "zero"
            ELSE IF ~RefcountInFile(file, block, m * bits, bits) THEN "unknown"
            ELSE IF RefcountNonZero(file, block, m * bits, bits) THEN "used" ELSE "zero"
      BY <2>2, <2>3, <2>6, Zenon DEF RefcountOf, RefcountInFile, block
    <3> HIDE DEF from
    <3>4. QED
      BY <3>2, <3>3
  <2>7. Free(idx) <=>
          /\ file.rtoff # 0 /\ i < RtEntries /\ WordReadable(file, at)
          /\ LET b == EntryAt(at) - (EntryAt(at) % file.cluster)
             IN b = 0 \/ BitsZero(file, b * 8 + m * bits, bits)
    <3>1. bits = TrueBits
      BY <1>5 DEF TrueBits
    <3>2. HasRange(idx) <=> file.rtoff # 0 /\ i < RtEntries /\ WordReadable(file, at)
      BY <1>7, <3>1 DEF HasRange, RangeEntry
    <3>3. BlockOf(idx) = EntryAt(at) - (EntryAt(at) % file.cluster)
      BY <3>1 DEF BlockOf, RangeEntry
    <3> DEFINE b == EntryAt(at) - (EntryAt(at) % file.cluster)
    <3>4. DefiniteZero(idx) <=> HasRange(idx) /\ b # 0 /\ BitsZero(file, b * 8 + m * bits, bits)
      BY <3>1, <3>3, Zenon DEF DefiniteZero, BitsZero
    <3>5. WithoutBlock(idx) <=> HasRange(idx) /\ b = 0
      BY <3>3 DEF WithoutBlock
    <3> HIDE DEF b, i, m, at
    <3>6. Free(idx) <=>
            /\ file.rtoff # 0 /\ i < RtEntries /\ WordReadable(file, at)
            /\ b = 0 \/ BitsZero(file, b * 8 + m * bits, bits)
      BY <3>2, <3>4, <3>5, Zenon DEF Free
    <3>7. QED
      BY <3>6 DEF b
  <2>8. i + 1 \notin DOMAIN rt => RefcountOf(file, rt, idx, bits) # "zero"
    BY <2>2 DEF RefcountOf
  <2>9. i + 1 \in DOMAIN rt => (Free(idx) <=> RefcountOf(file, rt, idx, bits) = "zero")
    <3> SUFFICES ASSUME i + 1 \in DOMAIN rt
                 PROVE  Free(idx) <=> RefcountOf(file, rt, idx, bits) = "zero"
      OBVIOUS
    <3>1. /\ file.rtoff # 0 /\ i < RtEntries /\ WordReadable(file, at)
          /\ block = EntryAt(at) - (EntryAt(at) % file.cluster)
      BY <2>4
    <3> HIDE DEF i, at
    <3>2. QED
      BY <2>6, <2>7, <3>1, Zenon
  <2>10. Free(idx) /\ RtEntries <= MaxL1 => i + 1 \in DOMAIN rt
    BY <2>5, <2>7
  <2>11. QED
    BY <2>8, <2>9, <2>10 DEF bits
<1>8. QED
  BY <1>6, <1>7

-----------------------------------------------------------------------------
(* The steps keep CountInv. *)

(* The counts of what has been passed are bounded by the whole, and grow. *)
LEMMA Counting ==
  ASSUME Inv
  PROVE  /\ Place \in Int /\ Mapped \in SUBSET Nat /\ Orphaned \in SUBSET Nat
         /\ Cardinality(Mapped) \in Nat /\ Cardinality(Orphaned) \in Nat
         /\ \A a \in Int :
              /\ Cardinality(Mapped \cap (0 .. (a - 1))) \in Nat
              /\ Cardinality(Orphaned \cap (0 .. (a - 1))) \in Nat
              /\ Cardinality(Mapped \cap (0 .. (a - 1))) <= Cardinality(Mapped)
              /\ Cardinality(Orphaned \cap (0 .. (a - 1))) <= Cardinality(Orphaned)
              /\ \A b \in Int : a <= b =>
                   /\ Cardinality(Mapped \cap (0 .. (a - 1))) <= Cardinality(Mapped \cap (0 .. (b - 1)))
                   /\ Cardinality(Orphaned \cap (0 .. (a - 1))) <= Cardinality(Orphaned \cap (0 .. (b - 1)))
<1> DEFINE top == file.l1size * L2Entries(Image)
<1>1. top \in Nat
  <2>1. file.l1size \in Nat /\ L2Entries(Image) \in Nat
    BY Types, FileTypes, ImageIs
  <2>2. QED
    BY <2>1
<1>2. Place \in Int
  BY Types DEF Place
<1>3. Mapped \subseteq 0 .. (top - 1) /\ Orphaned \subseteq Mapped
  BY DEF Mapped, Orphaned
<1> HIDE DEF top
<1>4. /\ Mapped \in SUBSET Nat /\ Orphaned \in SUBSET Nat
      /\ Mapped \subseteq 0 .. (top - 1) /\ Orphaned \subseteq 0 .. (top - 1)
  BY <1>1, <1>3
<1>5. Cardinality(Mapped) \in Nat /\ Cardinality(Orphaned) \in Nat
  <2>1. top \in Int /\ Mapped \cap (0 .. (top - 1)) \subseteq Mapped
        /\ Orphaned \cap (0 .. (top - 1)) \subseteq Orphaned
    BY <1>1
  <2>2. QED
    BY <1>4, <2>1, CountMore, Zenon
<1>6. ASSUME NEW S \in SUBSET Nat, S \subseteq 0 .. (top - 1), NEW a \in Int
      PROVE  /\ Cardinality(S \cap (0 .. (a - 1))) \in Nat
             /\ Cardinality(S \cap (0 .. (a - 1))) <= Cardinality(S)
             /\ \A b \in Int : a <= b =>
                  Cardinality(S \cap (0 .. (a - 1))) <= Cardinality(S \cap (0 .. (b - 1)))
  <2>1. top \in Int /\ S \cap (0 .. (a - 1)) \subseteq S
    BY <1>1
  <2>2. /\ Cardinality(S \cap (0 .. (a - 1))) \in Nat
        /\ Cardinality(S \cap (0 .. (a - 1))) <= Cardinality(S)
    BY <1>6, <2>1, CountMore, Zenon
  <2>3. ASSUME NEW b \in Int, a <= b
        PROVE  Cardinality(S \cap (0 .. (a - 1))) <= Cardinality(S \cap (0 .. (b - 1)))
    <3>1. S \cap (0 .. (a - 1)) \subseteq S \cap (0 .. (b - 1))
      BY <2>3
    <3>2. S \cap (0 .. (b - 1)) \in SUBSET Nat /\ S \cap (0 .. (b - 1)) \subseteq 0 .. (b - 1)
      OBVIOUS
    <3>3. QED
      BY <1>6, <2>3, <3>1, <3>2, CountMore, Zenon
  <2>4. QED
    BY <2>2, <2>3
<1>7. QED
  BY <1>2, <1>4, <1>5, <1>6, Zenon

(* What a step leaves of it that the scan saw everything. *)
LEMMA CleanBefore ==
  ASSUME file' = file, Clean', faults => faults'
  PROVE  Clean
  BY ImageStays DEF Clean

(* A report that fails, or that knows no refcounts, has counted nothing.   *)
LEMMA NotDone ==
  ASSUME ~Done', allocated' = 0, pc' # "scan"
  PROVE  CountInv'
  BY DEF CountInv, ScanAgreesWithReader, NoFalseOrphans, CleanScanIsComplete

(* Before the scan nothing is counted. *)
LEMMA HeaderCount ==
  ASSUME Inv, NoHeader \/ Header \/ LoadRefcountTable
  PROVE  CountInv'
<1>1. allocated' = 0
  BY DEF Inv, ScanInv, NoHeader, Header, LoadRefcountTable
<1>2. CASE NoHeader
  BY <1>1, <1>2, NotDone DEF NoHeader, Finish, Done
<1>3. CASE Header
  <2>1. pc = "header" /\ verdict = "none"
    BY <1>3 DEF Header, Inv, ScanInv
  <2>2. PICK n \in 0 .. Smaller(file.len, HeaderWindow) :
          IF n < MinHeader THEN Finish("too small") /\ UNCHANGED order
          ELSE IF ~file.magic THEN Finish("bad magic") /\ UNCHANGED order
          ELSE IF file.version \notin 2 .. 3 THEN Finish("version") /\ UNCHANGED order
          ELSE IF ~file.bits_ok THEN Finish("cluster bits") /\ UNCHANGED order
          ELSE /\ order' = RefcountOrder(file, n)
               /\ IF order' > 6 THEN Finish("ok") ELSE pc' = "rt" /\ UNCHANGED verdict
    BY <1>3 DEF Header
  <2>3. \/ pc' = "done" /\ verdict' # "ok"
        \/ pc' = "done" /\ order' = RefcountOrder(file, n) /\ order' > 6
        \/ pc' = "rt"
    BY <2>2 DEF Finish
  <2>4. order' = RefcountOrder(file, n) /\ order' > 6 => ~(order' <= 6)
    BY Types, OrderType
  <2>5. ~Done' /\ pc' # "scan"
    BY <2>3, <2>4 DEF Done
  <2>6. QED
    BY <1>1, <2>5, NotDone
<1>4. CASE LoadRefcountTable
  BY <1>1, <1>4, NotDone DEF LoadRefcountTable, Finish, Done
<1>5. QED
  BY <1>2, <1>3, <1>4

(* The guest clusters passed so far, after a step. *)
LEMMA SoFarNext ==
  ASSUME file' = file
  PROVE  /\ MappedSoFar' = Mapped \cap (0 .. (Place' - 1))
         /\ OrphanedSoFar' = Orphaned \cap (0 .. (Place' - 1))
         /\ NoReservedL1' = NoReservedL1 /\ NoReservedL2' = NoReservedL2
         /\ TrueOrder' = TrueOrder
  BY ImageStays DEF MappedSoFar, OrphanedSoFar

(* The scan starts: where the L1 table was not loaded, and had entries, it *)
(* did not see them all.                                                   *)
LEMMA LoadL1Count ==
  ASSUME Inv, Inv', LoadL1
  PROVE  CountInv'
<1>1. /\ pc' = "scan"
      /\ UNCHANGED <<file, order, rt, l2, allocated, orphans, examined, verdict>>
      /\ l2 = <<>> /\ allocated = 0 /\ orphans = 0
      /\ \/ /\ ~NoTable(file.l1off, L1Count) /\ TableReadable(file, file.l1off, L1Count)
            /\ l1' = Table(file, file.l1off, L1Count)
         \/ /\ l1' = <<>>
            /\ faults' = (faults \/ (~NoTable(file.l1off, L1Count)
                                     /\ TableReadable(file, file.l1off, L1Count)))
  BY LoadL1Is
<1>2. L1Count' = L1Count /\ PerTable' = PerTable /\ L1Count \in Nat /\ PerTable \in Nat
  BY <1>1, Types DEF L1Count, PerTable
<1>3. Place' \in Int
  <2>1. l1' \in Seq(Word) /\ l2' \in Seq(Word)
    BY DEF Inv, TypeOK
  <2>2. Len(l1') \in Nat /\ Len(l2') \in Nat
    BY <2>1, LenProperties
  <2>3. QED
    BY <1>2, <2>2 DEF Place
<1>4. Clean' => Place' = 0
  <2> SUFFICES ASSUME Clean'
               PROVE  Place' = 0
    OBVIOUS
  <2>1. Len(l1') = L1Count
    <3>1. CASE l1' = Table(file, file.l1off, L1Count) /\ TableReadable(file, file.l1off, L1Count)
      <4>1. file.l1off \in Nat /\ IsFile(file)
        BY Types, FileTypes
      <4>2. QED
        BY <1>2, <3>1, <4>1, TableType
    <3>2. CASE /\ l1' = <<>>
               /\ faults' = (faults \/ (~NoTable(file.l1off, L1Count)
                                        /\ TableReadable(file, file.l1off, L1Count)))
      <4>1. /\ ~faults' /\ file'.l1size <= MaxL1 /\ file'.l1off # 0
            /\ TableReadable(file', file'.l1off, file'.l1size)
        BY DEF Clean
      <4>2. L1Count = file.l1size
        BY <1>1, <4>1, Types
      <4>3. NoTable(file.l1off, L1Count)
        BY <1>1, <3>2, <4>1, <4>2
      <4>4. L1Count = 0 /\ Len(<<>>) = 0
        BY <1>1, <4>1, <4>3 DEF NoTable
      <4>5. QED
        BY <3>2, <4>4
    <3>3. QED
      BY <1>1, <3>1, <3>2
  <2>2. Len(l2') = 0
    BY <1>1
  <2>3. Place' = (L1Count - L1Count) * PerTable - 0
    BY <1>2, <2>1, <2>2 DEF Place
  <2>4. QED
    BY <1>2, <2>3
<1>5. /\ Cardinality(MappedSoFar') \in Nat /\ Cardinality(OrphanedSoFar') \in Nat
      /\ Place' = 0 => Cardinality(MappedSoFar') = 0 /\ Cardinality(OrphanedSoFar') = 0
  <2>1. Cardinality(MappedSoFar') \in Nat /\ Cardinality(OrphanedSoFar') \in Nat
    BY <1>1, <1>3, SoFarNext, Counting
  <2>2. ASSUME Place' = 0
        PROVE  MappedSoFar' = {} /\ OrphanedSoFar' = {}
    <3>1. 0 .. (Place' - 1) = {}
      BY <2>2
    <3>2. QED
      BY <1>1, <3>1, SoFarNext
  <2>3. QED
    BY <2>1, <2>2, FS_EmptySet
<1>6. CountsSoFar'
  <2>1. allocated' = 0 /\ orphans' = 0
    BY <1>1
  <2>2. QED
    BY <1>4, <1>5, <2>1 DEF CountsSoFar
<1>7. QED
  BY <1>1, <1>6 DEF CountInv

(* The next L2 table: one that is not loaded is of a run of guest clusters *)
(* of which none is mapped, or the scan did not see it.                    *)
LEMMA NextL1Count ==
  ASSUME Inv, Inv', CountInv, NextL1
  PROVE  CountInv'
<1> DEFINE off == HostOffset(Head(l1))
           i == L1Count - Len(l1)
<1>1. /\ pc = "scan" /\ l2 = <<>> /\ l1 # <<>> /\ l1' = Tail(l1)
      /\ \/ off # 0 /\ TableReadable(file, off, PerTable)
            /\ l2' = Table(file, off, PerTable) /\ faults' = faults
         \/ l2' = <<>> /\ faults' = (faults \/ (off # 0 /\ TableReadable(file, off, PerTable)))
      /\ UNCHANGED <<file, pc, order, rt, allocated, orphans, examined, verdict>>
  BY DEF NextL1, PerTable, TableReadable
<1>2. /\ Len(l1) \in 1 .. L1Count /\ Len(l1') = Len(l1) - 1
      /\ TableReadable(file, file.l1off, L1Count)
      /\ Head(l1) = file.word[file.l1off + (L1Count - Len(l1)) * EntrySize]
      /\ off \in Nat
  BY <1>1, HeadOfL1
<1>3. /\ L1Count' = L1Count /\ PerTable' = PerTable
      /\ L1Count \in Nat /\ PerTable \in Nat /\ i \in Nat /\ i \in 0 .. (L1Count - 1)
  <2>1. L1Count' = L1Count /\ PerTable' = PerTable
    BY <1>1 DEF L1Count, PerTable
  <2>2. L1Count \in Nat /\ PerTable \in Nat
    BY Types
  <2>3. QED
    BY <1>2, <2>1, <2>2
<1> HIDE DEF off
<1>4. Place = PerTable * i /\ Place \in Nat
      /\ Place' = PerTable * i + PerTable - Len(l2') /\ Len(l2') \in Nat
  <2>1. Len(l2) = 0 /\ Len(l2') \in Nat
    <3>1. l2' \in Seq(Word)
      BY DEF Inv, TypeOK
    <3>2. QED
      BY <1>1, <3>1, LenProperties
  <2>2. Place = i * PerTable - 0
    BY <2>1 DEF Place
  <2>3. Place' = (L1Count - Len(l1')) * PerTable - Len(l2')
    BY <1>3 DEF Place
  <2>4. L1Count - Len(l1') = i + 1
    BY <1>2, <1>3
  <2> HIDE DEF i
  <2>5. PerTable * i \in Nat /\ i * PerTable = PerTable * i /\ (i + 1) * PerTable = PerTable * i + PerTable
    BY <1>3
  <2>6. QED
    BY <1>3, <2>1, <2>2, <2>3, <2>4, <2>5
<1> SUFFICES ASSUME NoReservedL1
             PROVE  CountsSoFar'
  BY <1>1, SoFarNext DEF CountInv
<1>5. CountsSoFar
  BY <1>1 DEF CountInv
<1>6. /\ MappedSoFar' = Mapped \cap (0 .. (Place' - 1))
      /\ OrphanedSoFar' = Orphaned \cap (0 .. (Place' - 1))
      /\ NoReservedL2' = NoReservedL2 /\ TrueOrder' = TrueOrder
  BY <1>1, SoFarNext
<1>7. Clean' => Clean
  <2>1. faults \in BOOLEAN
    BY Types
  <2>2. faults => faults'
    BY <1>1, <2>1
  <2>3. QED
    BY <1>1, <2>2, CleanBefore
<1>8. Place' \in Int /\ Place <= Place'
  <2>1. Len(l2') <= PerTable
    BY <1>3 DEF Inv, TypeOK, PerTable
  <2> HIDE DEF i
  <2>2. PerTable * i \in Nat
    BY <1>3
  <2>3. QED
    BY <1>3, <1>4, <2>1, <2>2
<1>9. Clean' => MappedSoFar' = MappedSoFar /\ OrphanedSoFar' = OrphanedSoFar
  <2> SUFFICES ASSUME Clean'
               PROVE  \A n \in Mapped : n \in 0 .. (Place' - 1) => n \in 0 .. (Place - 1)
    <3>1. Orphaned \subseteq Mapped
      BY DEF Orphaned
    <3>2. 0 .. (Place - 1) \subseteq 0 .. (Place' - 1)
      BY <1>4, <1>8
    <3>3. QED
      BY <1>6, <3>1, <3>2 DEF MappedSoFar, OrphanedSoFar
  <2>1. CASE l2' = Table(file, off, PerTable) /\ TableReadable(file, off, PerTable)
    <3>1. Len(l2') = PerTable
      BY <1>2, <1>3, <2>1, Types, TableType
    <3>2. Place' = Place
      <4> HIDE DEF i
      <4>1. PerTable * i \in Nat
        BY <1>3
      <4>2. QED
        BY <1>3, <1>4, <3>1, <4>1
    <3>3. QED
      BY <3>2
  <2>2. CASE /\ l2' = <<>>
             /\ faults' = (faults \/ (off # 0 /\ TableReadable(file, off, PerTable)))
    <3>1. /\ i \in 0 .. (file.l1size - 1)
          /\ Image.l1[i] % CopiedBit = off
          /\ HostOffset(Image.l1[i]) = off
      BY <1>2, <1>3, L2Offset DEF off
    <3>2. off = 0
      <4>1. ~faults' /\ \A k \in DOMAIN Image.l1 : TableReadable(file, HostOffset(Image.l1[k]), PerTable)
        BY <1>1, <1>7, ImageIs DEF Clean
      <4>2. TableReadable(file, off, PerTable)
        BY <3>1, <4>1, ImageIs
      <4>3. QED
        BY <2>2, <4>1, <4>2
    <3>3. ASSUME NEW n \in Mapped, n \in 0 .. (Place' - 1), ~(n \in 0 .. (Place - 1))
          PROVE  FALSE
      <4>1. Place' = PerTable * i + PerTable
        <5>1. Len(l2') = 0
          BY <2>2
        <5> HIDE DEF i
        <5>2. PerTable * i \in Nat
          BY <1>3
        <5>3. QED
          BY <1>3, <1>4, <5>1, <5>2
      <4> DEFINE j == n - PerTable * i
      <4> HIDE DEF i
      <4>2. n \in Nat /\ PerTable * i \in Nat
        BY <1>3, <3>3, Counting
      <4>3. j \in 0 .. (PerTable - 1) /\ n = PerTable * i + j /\ PerTable # 0
        BY <1>3, <1>4, <3>3, <4>1, <4>2
      <4> HIDE DEF j
      <4>4. (PerTable * i + j) \div PerTable = i
        BY <1>3, <4>3, DivModOf, Zenon
      <4>5. n \div PerTable = i
        BY <4>3, <4>4
      <4>6. QED
        BY <3>1, <3>2, <3>3, <4>3, <4>5, NoTableNothingMapped
    <3>4. QED
      BY <3>3
  <2>3. QED
    BY <1>1, <2>1, <2>2
<1>10. /\ Cardinality(MappedSoFar) \in Nat /\ Cardinality(OrphanedSoFar) \in Nat
       /\ Cardinality(MappedSoFar') \in Nat /\ Cardinality(OrphanedSoFar') \in Nat
       /\ Cardinality(MappedSoFar) <= Cardinality(MappedSoFar')
       /\ Cardinality(OrphanedSoFar) <= Cardinality(OrphanedSoFar')
  BY <1>4, <1>6, <1>8, Counting DEF MappedSoFar, OrphanedSoFar
<1>11. allocated' = allocated /\ orphans' = orphans /\ order' = order
       /\ allocated \in Nat /\ orphans \in Nat
  BY <1>1, Types
<1>12. QED
  BY <1>5, <1>6, <1>7, <1>9, <1>10, <1>11 DEF CountsSoFar

(* The counts with the next guest cluster. *)
LEMMA EntryPassed ==
  ASSUME Inv, pc = "scan", l2 # <<>>, l2' = Tail(l2), UNCHANGED <<file, pc, rt, l1>>
  PROVE  /\ Cardinality(MappedSoFar') =
              Cardinality(MappedSoFar) + (IF Place \in Mapped THEN 1 ELSE 0)
         /\ Cardinality(OrphanedSoFar') =
              Cardinality(OrphanedSoFar) + (IF Place \in Orphaned THEN 1 ELSE 0)
         /\ Cardinality(MappedSoFar) \in Nat /\ Cardinality(OrphanedSoFar) \in Nat
<1>1. Place' = Place + 1 /\ Place \in Int
  BY NextEntryInv, Counting
<1>2. CASE Place \in Nat
  <2>1. /\ MappedSoFar' = Mapped \cap (0 .. ((Place + 1) - 1))
        /\ OrphanedSoFar' = Orphaned \cap (0 .. ((Place + 1) - 1))
    BY <1>1, SoFarNext
  <2>2. Mapped \in SUBSET Nat /\ Orphaned \in SUBSET Nat
    BY Counting
  <2>3. /\ Cardinality(Mapped \cap (0 .. ((Place + 1) - 1))) =
             Cardinality(Mapped \cap (0 .. (Place - 1))) + (IF Place \in Mapped THEN 1 ELSE 0)
        /\ Cardinality(Orphaned \cap (0 .. ((Place + 1) - 1))) =
             Cardinality(Orphaned \cap (0 .. (Place - 1))) + (IF Place \in Orphaned THEN 1 ELSE 0)
    BY <1>2, <2>2, CountUpTo, Zenon
  <2>4. Cardinality(MappedSoFar) \in Nat /\ Cardinality(OrphanedSoFar) \in Nat
    BY <1>1, Counting DEF MappedSoFar, OrphanedSoFar
  <2>5. QED
    BY <2>1, <2>3, <2>4, Zenon DEF MappedSoFar, OrphanedSoFar
<1>3. CASE Place \notin Nat
  <2>1. Len(l2) \in 1 .. PerTable /\ Len(l1) < L1Count
    BY HeadOfL2
  <2> DEFINE i == L1Count - Len(l1) - 1
             j == PerTable - Len(l2)
  <2>2. i \in Nat /\ j \in Nat /\ PerTable \in Nat
    BY <2>1, Types
  <2>3. L1Count - Len(l1) = i + 1 /\ Len(l2) = PerTable - j
    BY <2>1, Types
  <2> HIDE DEF i, j
  <2>4. (i + 1) * PerTable = i * PerTable + PerTable /\ i * PerTable \in Nat
    BY <2>2
  <2>5. Place = (i + 1) * PerTable - (PerTable - j)
    BY <2>3 DEF Place
  <2>6. Place = i * PerTable + j
    BY <2>2, <2>4, <2>5
  <2>7. QED
    BY <1>3, <2>2, <2>4, <2>6
<1>4. QED
  BY <1>2, <1>3

(* An entry that is skipped is of no mapped cluster: nothing is to count. *)
LEMMA SkipEntryCount ==
  ASSUME Inv, CountInv, SkipEntry
  PROVE  CountInv'
<1>1. /\ pc = "scan" /\ l2 # <<>> /\ l2' = Tail(l2) /\ Skipped(Head(l2))
      /\ UNCHANGED <<file, pc, order, rt, l1, allocated, orphans, examined, faults, verdict>>
  BY DEF SkipEntry
<1> SUFFICES ASSUME NoReservedL1
             PROVE  CountsSoFar'
  BY <1>1, SoFarNext DEF CountInv
<1>2. CountsSoFar
  BY <1>1 DEF CountInv
<1>3. Place \notin Orphaned /\ (NoReservedL2 => Place \notin Mapped)
  BY <1>1, EntryCounted
<1>4. /\ Cardinality(MappedSoFar') =
           Cardinality(MappedSoFar) + (IF Place \in Mapped THEN 1 ELSE 0)
      /\ Cardinality(OrphanedSoFar') =
           Cardinality(OrphanedSoFar) + (IF Place \in Orphaned THEN 1 ELSE 0)
      /\ Cardinality(MappedSoFar) \in Nat /\ Cardinality(OrphanedSoFar) \in Nat
  BY <1>1, EntryPassed
<1>5. /\ NoReservedL2' = NoReservedL2 /\ TrueOrder' = TrueOrder
      /\ allocated' = allocated /\ orphans' = orphans /\ order' = order
      /\ allocated \in Nat /\ orphans \in Nat
  BY <1>1, SoFarNext, Types
<1>6. Clean' => Clean
  BY <1>1, CleanBefore
<1>7. QED
  BY <1>2, <1>3, <1>4, <1>5, <1>6 DEF CountsSoFar

(* A data cluster: the one that goes over the cap ends a report that did   *)
(* not see everything.                                                     *)
LEMMA CheckEntryCount ==
  ASSUME Inv, CountInv, CheckEntry
  PROVE  CountInv'
<1> DEFINE idx == HostOffset(Head(l2)) \div file.cluster
           zero == RefcountOf(file, rt, idx, 2 ^ order) = "zero"
<1>1. /\ pc = "scan" /\ l2 # <<>> /\ ~Skipped(Head(l2))
      /\ allocated' = allocated + 1 /\ UNCHANGED <<file, order, rt, l1>>
      /\ \/ /\ allocated + 1 > MaxScanned /\ pc' = "done" /\ verdict' = "ok"
            /\ UNCHANGED <<l2, orphans, examined, faults>>
         \/ /\ ~(allocated + 1 > MaxScanned) /\ l2' = Tail(l2) /\ examined' = examined + 1
            /\ UNCHANGED <<pc, verdict>>
            /\ \/ orphans' = orphans + (IF zero THEN 1 ELSE 0) /\ UNCHANGED faults
               \/ faults' = TRUE /\ UNCHANGED orphans
  BY CheckEntryIs
<1>2. idx \in Nat
  <2>1. HostOffset(Head(l2)) \in Nat /\ file.cluster \in Nat \ {0}
    BY <1>1, HeadOfL2, HostOffsetIs, Types, FileTypes
  <2>2. QED
    BY <2>1, DivMod
<1>3. ASSUME order = TrueOrder
      PROVE  /\ zero => Free(idx)
             /\ Free(idx) /\ RtEntries <= MaxL1 => zero
  <2> HIDE DEF idx
  <2>1. QED
    BY <1>1, <1>2, <1>3, ZeroIsFree
<1> SUFFICES ASSUME NoReservedL1
             PROVE  (pc' = "scan" => CountsSoFar')
                    /\ (pc' = "done" =>
                          ScanAgreesWithReader' /\ NoFalseOrphans' /\ CleanScanIsComplete')
  BY <1>1, SoFarNext DEF CountInv
<1>4. CountsSoFar
  BY <1>1 DEF CountInv
<1>5. Place \in Mapped /\ (Place \in Orphaned <=> Free(idx))
  BY <1>1, EntryCounted DEF Orphaned
<1> HIDE DEF zero, idx
<1>6. allocated \in Nat /\ orphans \in Nat
  BY Types
<1>7. CASE /\ allocated + 1 > MaxScanned /\ pc' = "done" /\ verdict' = "ok"
           /\ UNCHANGED <<l2, orphans, examined, faults>>
  <2>1. allocated' <= Cardinality(Mapped)
    <3>1. Place \in Nat /\ Mapped \in SUBSET Nat
      BY <1>5, Counting
    <3>2. Cardinality(Mapped \cap (0 .. ((Place + 1) - 1))) =
            Cardinality(Mapped \cap (0 .. (Place - 1))) + (IF Place \in Mapped THEN 1 ELSE 0)
      BY <3>1, CountUpTo, Zenon
    <3>3. /\ Cardinality(Mapped \cap (0 .. ((Place + 1) - 1))) <= Cardinality(Mapped)
          /\ Cardinality(Mapped \cap (0 .. (Place - 1))) \in Nat
      <4>1. Place \in Int /\ Place + 1 \in Int
        BY <3>1
      <4>2. QED
        BY <4>1, Counting, Zenon
    <3>4. allocated <= Cardinality(Mapped \cap (0 .. (Place - 1)))
      BY <1>4 DEF CountsSoFar, MappedSoFar
    <3>5. QED
      BY <1>1, <1>5, <1>6, <3>2, <3>3, <3>4, Counting
  <2>2. order = TrueOrder => orphans' <= Cardinality(Orphaned)
    <3>1. /\ Cardinality(OrphanedSoFar) <= Cardinality(Orphaned)
          /\ Cardinality(OrphanedSoFar) \in Nat /\ Cardinality(Orphaned) \in Nat
      BY Counting DEF OrphanedSoFar
    <3>2. QED
      BY <1>4, <1>6, <1>7, <3>1 DEF CountsSoFar
  <2>3. ~(allocated' <= MaxScanned)
    BY <1>1, <1>6, <1>7, Constants
  <2>4. ~WholeScan'
    BY <2>3 DEF WholeScan
  <2>5. /\ Mapped' = Mapped /\ Orphaned' = Orphaned /\ TrueOrder' = TrueOrder
        /\ order' = order /\ pc' # "scan"
    BY <1>1, <1>7, ImageStays
  <2>6. Clean' => Clean
    BY <1>1, <1>7, CleanBefore
  <2>7. Clean' /\ NoReservedL2 /\ order = TrueOrder =>
          /\ Cardinality(Mapped \cap (0 .. (Place - 1))) = MaxScanned
          /\ orphans' = Cardinality(Orphaned \cap (0 .. (Place - 1)))
    <3>1. allocated = MaxScanned
      BY <1>1, <1>6, <1>7, Constants DEF Inv, ScanInv
    <3>2. QED
      BY <1>4, <1>7, <2>6, <3>1 DEF CountsSoFar, MappedSoFar, OrphanedSoFar
  <2>8. NoReservedL2' = NoReservedL2
    BY <1>1, SoFarNext
  <2>9. ScanAgreesWithReader' /\ NoFalseOrphans'
    BY <2>1, <2>2, <2>4, <2>5 DEF ScanAgreesWithReader, NoFalseOrphans
  <2>10. CleanScanIsComplete'
    <3>1. order' = TrueOrder' /\ Clean' /\ NoReservedL2' =>
            \E n \in Mapped' :
              /\ Cardinality(Mapped' \cap (0 .. (n - 1))) = MaxScanned
              /\ orphans' = Cardinality(Orphaned' \cap (0 .. (n - 1)))
      BY <1>5, <2>5, <2>7, <2>8
    <3>2. QED
      BY <2>4, <3>1 DEF CleanScanIsComplete
  <2>11. QED
    BY <2>5, <2>9, <2>10
<1>8. CASE /\ ~(allocated + 1 > MaxScanned) /\ l2' = Tail(l2)
           /\ UNCHANGED <<pc, verdict>>
           /\ \/ orphans' = orphans + (IF zero THEN 1 ELSE 0) /\ UNCHANGED faults
              \/ faults' = TRUE /\ UNCHANGED orphans
  <2>1. /\ Cardinality(MappedSoFar') =
             Cardinality(MappedSoFar) + (IF Place \in Mapped THEN 1 ELSE 0)
        /\ Cardinality(OrphanedSoFar') =
             Cardinality(OrphanedSoFar) + (IF Place \in Orphaned THEN 1 ELSE 0)
        /\ Cardinality(MappedSoFar) \in Nat /\ Cardinality(OrphanedSoFar) \in Nat
    BY <1>1, <1>8, EntryPassed
  <2>2. /\ NoReservedL2' = NoReservedL2 /\ TrueOrder' = TrueOrder /\ order' = order
        /\ allocated' = allocated + 1
    BY <1>1, SoFarNext
  <2>3. Clean' => Clean /\ ~faults'
    <3>1. faults \in BOOLEAN
      BY Types
    <3>2. faults => faults'
      BY <1>8, <3>1
    <3>3. Clean' => ~faults'
      BY DEF Clean
    <3>4. QED
      BY <1>1, <3>2, <3>3, CleanBefore
  <2>4. Clean => RtEntries <= MaxL1
    BY DEF Clean
  <2>5. \/ orphans' = orphans + (IF zero THEN 1 ELSE 0)
        \/ faults' /\ orphans' = orphans
    BY <1>8
  <2>6. order = TrueOrder => orphans' <= Cardinality(OrphanedSoFar')
    BY <1>3, <1>4, <1>5, <1>6, <2>1, <2>5 DEF CountsSoFar
  <2>7. order = TrueOrder /\ Clean' => orphans' = Cardinality(OrphanedSoFar')
    BY <1>3, <1>4, <1>5, <1>6, <2>1, <2>3, <2>4, <2>5 DEF CountsSoFar
  <2>8. /\ allocated' <= Cardinality(MappedSoFar')
        /\ Clean' /\ NoReservedL2 => allocated' = Cardinality(MappedSoFar')
    BY <1>4, <1>5, <1>6, <2>1, <2>2, <2>3 DEF CountsSoFar
  <2>9. CountsSoFar'
    BY <2>2, <2>6, <2>7, <2>8 DEF CountsSoFar
  <2>10. QED
    BY <1>1, <1>8, <2>9
<1>9. QED
  BY <1>1, <1>7, <1>8

(* The scan has passed every guest cluster that its tables have.           *)
LEMMA EndScanCount ==
  ASSUME Inv, CountInv, EndScan
  PROVE  CountInv'
<1>1. /\ pc = "scan" /\ l1 = <<>> /\ l2 = <<>> /\ pc' = "done" /\ verdict' = "ok"
      /\ UNCHANGED <<file, order, rt, l1, l2, allocated, orphans, examined, faults>>
  BY DEF EndScan, Finish
<1> SUFFICES ASSUME NoReservedL1
             PROVE  ScanAgreesWithReader' /\ NoFalseOrphans' /\ CleanScanIsComplete'
  BY <1>1, SoFarNext DEF CountInv
<1>2. CountsSoFar
  BY <1>1 DEF CountInv
<1>3. /\ Mapped' = Mapped /\ Orphaned' = Orphaned /\ TrueOrder' = TrueOrder
      /\ NoReservedL2' = NoReservedL2
      /\ order' = order /\ allocated' = allocated /\ orphans' = orphans
  BY <1>1, ImageStays
<1>4. /\ Cardinality(MappedSoFar) <= Cardinality(Mapped) /\ Cardinality(MappedSoFar) \in Nat
      /\ Cardinality(OrphanedSoFar) <= Cardinality(Orphaned) /\ Cardinality(OrphanedSoFar) \in Nat
      /\ Cardinality(Mapped) \in Nat /\ Cardinality(Orphaned) \in Nat
      /\ allocated \in Nat /\ orphans \in Nat
  BY Counting, Types DEF MappedSoFar, OrphanedSoFar
<1>5. WholeScan' => Clean
  BY <1>1, ImageStays DEF WholeScan, Clean
<1>6. Clean => MappedSoFar = Mapped /\ OrphanedSoFar = Orphaned
  <2> SUFFICES ASSUME Clean
               PROVE  Mapped \subseteq 0 .. (Place - 1)
    BY DEF MappedSoFar, OrphanedSoFar, Orphaned
  <2>1. L1Count = file.l1size /\ L1Count \in Nat /\ PerTable \in Nat
    BY Types DEF Clean
  <2>2. Len(l1) = 0 /\ Len(l2) = 0
    BY <1>1
  <2>3. Place = file.l1size * PerTable
    <3>1. Place = (file.l1size - 0) * PerTable - 0 /\ file.l1size \in Nat
      BY <2>1, <2>2 DEF Place
    <3>2. file.l1size * PerTable \in Nat
      BY <2>1
    <3>3. QED
      BY <3>1, <3>2
  <2>4. QED
    BY <2>3, ImageIs DEF Mapped
<1>7. allocated <= Cardinality(Mapped) /\ (order = TrueOrder => orphans <= Cardinality(Orphaned))
  BY <1>2, <1>4 DEF CountsSoFar
<1>8. WholeScan' => /\ NoReservedL2 => allocated = Cardinality(Mapped)
                    /\ order = TrueOrder => orphans = Cardinality(Orphaned)
  BY <1>2, <1>5, <1>6 DEF CountsSoFar
<1>9. Clean' => WholeScan'
  BY <1>1 DEF WholeScan, Inv, ScanInv
<1>10. ScanAgreesWithReader' /\ NoFalseOrphans'
  BY <1>3, <1>7, <1>8 DEF ScanAgreesWithReader, NoFalseOrphans
<1>11. CleanScanIsComplete'
  BY <1>3, <1>8, <1>9 DEF CleanScanIsComplete
<1>12. QED
  BY <1>10, <1>11

(* A step that changes nothing keeps the counts. *)
LEMMA CountStays ==
  ASSUME CountInv, UNCHANGED vars
  PROVE  CountInv'
<1>1. UNCHANGED <<file, pc, order, rt, l1, l2, allocated, orphans, examined, faults, verdict>>
  BY DEF vars
<1>2. /\ Place' = Place /\ MappedSoFar' = MappedSoFar /\ OrphanedSoFar' = OrphanedSoFar
      /\ Clean' = Clean /\ WholeScan' = WholeScan /\ Done' = Done
  <2>1. Place' = Place
    BY <1>1 DEF Place, L1Count, PerTable
  <2>2. MappedSoFar' = MappedSoFar /\ OrphanedSoFar' = OrphanedSoFar
    BY <1>1, <2>1, ImageStays DEF MappedSoFar, OrphanedSoFar
  <2>3. Clean' = Clean /\ WholeScan' = WholeScan /\ Done' = Done
    BY <1>1, ImageStays DEF Clean, WholeScan, Done
  <2>4. QED
    BY <2>1, <2>2, <2>3
<1>3. CountsSoFar' = CountsSoFar
  BY <1>1, <1>2, ImageStays DEF CountsSoFar
<1>4. /\ ScanAgreesWithReader' = ScanAgreesWithReader /\ NoFalseOrphans' = NoFalseOrphans
      /\ CleanScanIsComplete' = CleanScanIsComplete
  BY <1>1, <1>2, ImageStays DEF ScanAgreesWithReader, NoFalseOrphans, CleanScanIsComplete
<1>5. QED
  BY <1>1, <1>3, <1>4, ImageStays DEF CountInv

(* No scan has begun. *)
LEMMA CountInit == Init => CountInv
  BY DEF Init, CountInv

(* Every step of refcount_report keeps the counts in agreement. *)
LEMMA CountNext == Inv /\ Inv' /\ CountInv /\ [Next]_vars => CountInv'
<1> SUFFICES ASSUME Inv, Inv', CountInv, [Next]_vars
             PROVE  CountInv'
  OBVIOUS
<1>1. CASE UNCHANGED vars
  BY <1>1, CountStays
<1>2. QED
  BY <1>1, HeaderCount, LoadL1Count, NextL1Count, SkipEntryCount, CheckEntryCount, EndScanCount
  DEF Next

-----------------------------------------------------------------------------
(* The theorems. *)

(* What is left of the tables is always the rest of what the file has, and *)
(* every cluster counted has its refcount looked up, but for the one over  *)
(* the cap (refcount.rs refcount_report).                                  *)
THEOREM Invariance == Spec => []Inv
<1>1. QED
  BY InitInv, NextInv, PTL DEF Spec

(* TypeOK of Qcow2Refcount, for every image and every cap: in particular   *)
(* the scan never looks up a refcount with an order past 6, and never      *)
(* counts more than one cluster over the cap.                              *)
THEOREM TypeCorrect == Spec => []TypeOK
<1>1. Inv => TypeOK
  BY DEF Inv
<1>2. QED
  BY <1>1, Invariance, PTL

(* The counts agree with the image as far as the scan has come.            *)
THEOREM Counts == Spec => []CountInv
<1>1. QED
  BY CountInit, CountNext, Invariance, PTL DEF Spec

(* ScanAgreesWithReader: the scan's own decoding of the L1 and L2 entries  *)
(* counts no cluster the reader's lookup does not map, and with whole      *)
(* tables counts each of them (refcount.rs refcount_report, lib.rs         *)
(* cluster_ref_for).                                                       *)
THEOREM ScanAgrees == Spec => []ScanAgreesWithReader
<1>1. Inv /\ CountInv => ScanAgreesWithReader
  <2> SUFFICES ASSUME Inv, CountInv, NoReservedL1, allocated > 0 \/ Done
               PROVE  /\ allocated <= Cardinality(Mapped)
                      /\ Done /\ WholeScan /\ NoReservedL2 => allocated = Cardinality(Mapped)
    BY DEF ScanAgreesWithReader
  <2>1. CASE pc = "done"
    BY <2>1 DEF CountInv, ScanAgreesWithReader
  <2>2. CASE pc = "scan"
    <3>1. allocated <= Cardinality(MappedSoFar)
      BY <2>2 DEF CountInv, CountsSoFar
    <3>2. /\ Cardinality(MappedSoFar) <= Cardinality(Mapped)
          /\ Cardinality(MappedSoFar) \in Nat /\ Cardinality(Mapped) \in Nat
      BY Counting DEF MappedSoFar
    <3>3. QED
      BY <2>2, <3>1, <3>2, Types DEF Done
  <2>3. CASE pc \in {"header", "rt", "l1"}
    <3>1. allocated = 0 /\ ~Done
      BY <2>3 DEF Inv, ScanInv, Done
    <3>2. QED
      BY <3>1
  <2>4. QED
    BY <2>1, <2>2, <2>3 DEF Inv, TypeOK
<1>2. QED
  BY <1>1, Invariance, Counts, PTL

(* NoFalseOrphans: whatever reads fail and whatever table is cut or        *)
(* capped, the report counts no more orphans than the image has, for any   *)
(* width of a refcount (refcount.rs refcount_of and refcount_report).      *)
THEOREM NoFalseOrphan == Spec => []NoFalseOrphans
<1>1. CountInv => NoFalseOrphans
  BY DEF CountInv, NoFalseOrphans, Done
<1>2. QED
  BY <1>1, Counts, PTL

(* CleanScanIsComplete: a scan whose tables were all there misses no       *)
(* orphan, and one stopped by MAX_CLUSTERS_SCANNED none among the clusters *)
(* it came to (refcount.rs refcount_report).                               *)
THEOREM CleanScanComplete == Spec => []CleanScanIsComplete
<1>1. CountInv => CleanScanIsComplete
  BY DEF CountInv, CleanScanIsComplete, Done
<1>2. QED
  BY <1>1, Counts, PTL
=============================================================================
