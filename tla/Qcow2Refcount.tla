--------------------------- MODULE Qcow2Refcount ---------------------------
(***************************************************************************)
(* core/src/refcount.rs: refcount_report walks the active L1 and L2 tables *)
(* and counts the data clusters whose host refcount is provably 0.  A step *)
(* is one table read or one L2 entry; each read may fail, and the one read *)
(* of the header may be short.                                             *)
(***************************************************************************)
EXTENDS Qcow2Format, Sequences, FiniteSets

CONSTANTS
  Files,          \* images that may be reported on
  ReservedBit,    \* 1 << 56, the first bit above the offset mask
  AlignUnit,      \* 512, the low bits the offset mask clears
  MinHeader,      \* 72
  OrderEnd,       \* 100, the end of refcount_order in the header
  HeaderWindow,   \* 104, what is read of the header
  MaxL1,          \* MAX_L1_ENTRIES, the cap on both bootstrap tables
  MaxScanned      \* MAX_CLUSTERS_SCANNED

(* The header fields, the contents, and whether cluster_bits is in range. *)
IsFile(f) ==
  /\ f.len \in Nat /\ f.magic \in BOOLEAN /\ f.version \in Nat
  /\ f.bits_ok \in BOOLEAN /\ f.cluster \in Nat \ {0}
  /\ f.order \in Nat /\ f.rtoff \in Nat /\ f.rtclusters \in Nat
  /\ f.l1size \in Nat /\ f.l1off \in Nat
  /\ f.byte \in [0 .. (f.len - 1) -> Byte]
  /\ f.word \in [0 .. (f.len - 1) -> Word]

(* The offset mask is a run of bits below the flags of an entry.           *)
ASSUME RefcountAssumption ==
  /\ \A f \in Files : IsFile(f)
  /\ {ReservedBit, AlignUnit, MinHeader, OrderEnd, HeaderWindow, MaxL1, MaxScanned}
       \subseteq Nat \ {0}
  /\ OrderEnd <= HeaderWindow
  /\ ReservedBit % AlignUnit = 0 /\ CompressedBit % ReservedBit = 0

VARIABLES
  file,          \* the image; fixed
  pc,            \* "header", "rt", "l1", "scan", "done"
  order,         \* refcount_order, as it was understood
  rt, l1, l2,    \* the refcount table; what is left of the L1 and L2 tables
  allocated, orphans,
  examined,      \* auxiliary: the entries whose refcount was looked up
  faults,        \* auxiliary: the reads that failed for no fault of the image
  verdict        \* "none", "ok" or the error

vars == <<file, pc, order, rt, l1, l2, allocated, orphans, examined, faults, verdict>>

TypeOK ==
  /\ pc \in {"header", "rt", "l1", "scan", "done"}
  /\ order \in Nat /\ (pc \in {"rt", "l1", "scan"} => order <= 6)
  /\ rt \in Seq(Word) /\ l1 \in Seq(Word) /\ l2 \in Seq(Word)
  /\ Len(rt) <= MaxL1 /\ Len(l1) <= MaxL1
  /\ Len(l2) <= file.cluster \div EntrySize
  /\ allocated \in 0 .. (MaxScanned + 1)
  /\ orphans \in 0 .. examined /\ examined \in 0 .. MaxScanned
  /\ faults \in BOOLEAN
  /\ verdict \in {"none", "ok", "io", "too small", "bad magic", "version", "cluster bits"}

Init ==
  /\ file \in Files
  /\ pc = "header"
  /\ order = 4
  /\ rt = <<>> /\ l1 = <<>> /\ l2 = <<>>
  /\ allocated = 0 /\ orphans = 0 /\ examined = 0
  /\ faults = FALSE
  /\ verdict = "none"

-----------------------------------------------------------------------------
(* The order in the first n bytes of the header; version 2 has the fixed 4. *)
RefcountOrder(f, n) == IF f.version = 3 /\ n >= OrderEnd THEN f.order ELSE 4

(* l1_entry or l2_entry & 0x00ff_ffff_ffff_fe00. *)
HostOffset(e) == (e % ReservedBit) - (e % AlignUnit)

Table(f, off, n) == [k \in 1 .. n |-> f.word[off + (k - 1) * EntrySize]]

(* read_u64_table_checked reads all n entries. *)
TableReadable(f, off, n) == off + n * EntrySize <= f.len

NoTable(off, n) == n = 0 \/ off = 0

(* One bit of the file, the highest of a byte first. *)
Bit(f, n) == (f.byte[n \div 8] \div (2 ^ (7 - (n % 8)))) % 2

(* Where refcount_of finds cluster idx with refcounts of `bits' bits: the  *)
(* block, 0 for one that is not allocated, and the place in it.            *)
PerBlock(f, bits) == (f.cluster * 8) \div bits

InTable(f, table, idx, bits) ==
  PerBlock(f, bits) # 0 /\ (idx \div PerBlock(f, bits)) + 1 \in DOMAIN table

BlockOffset(f, table, idx, bits) ==
  LET entry == table[(idx \div PerBlock(f, bits)) + 1] IN entry - (entry % f.cluster)

BitOffset(f, idx, bits) == (idx % PerBlock(f, bits)) * bits

(* Bug: sub-byte refcounts are taken from the low end of the byte. *)
ShiftLowFirst(bit_off, bits) == bit_off % 8

(* Below a byte a refcount is shifted down from the high end. *)
Shift(bit_off, bits) == 8 - (bit_off % 8) - bits

(* The refcount at that place is not 0; whole bytes are read big-endian. *)
RefcountNonZero(f, block, bit_off, bits) ==
  LET at == block + (bit_off \div 8) IN
  IF bits >= 8
  THEN \E k \in 0 .. ((bits \div 8) - 1) : f.byte[at + k] # 0
  ELSE (f.byte[at] \div (2 ^ Shift(bit_off, bits))) % (2 ^ bits) # 0

(* Bug: the last byte of the file is not read. *)
BytesThereBelowEnd(f, at, width) == at + width < f.len

(* read_at gets all the bytes. *)
BytesThere(f, at, width) == at + width <= f.len

(* refcount_of: "zero" is Some(0), "used" Some of more, "unknown" None.  A *)
(* range without a refcount block is not left unknown but has refcount 0.  *)
RefcountOf(f, table, idx, bits) ==
  LET block == BlockOffset(f, table, idx, bits)
      bit_off == BitOffset(f, idx, bits)
      width == IF bits < 8 THEN 1 ELSE bits \div 8
  IN  IF ~InTable(f, table, idx, bits) THEN "unknown"
      ELSE IF block = 0 THEN "zero"
      ELSE IF ~BytesThere(f, block + (bit_off \div 8), width) THEN "unknown"
      ELSE IF RefcountNonZero(f, block, bit_off, bits) THEN "used" ELSE "zero"

(* The refcount is one that is read from the file. *)
ReadsBlock(f, table, idx, bits) ==
  InTable(f, table, idx, bits) /\ BlockOffset(f, table, idx, bits) # 0

-----------------------------------------------------------------------------
Finish(v) ==
  /\ verdict' = v
  /\ pc' = "done"

(* The file cannot be opened or its header cannot be read. *)
NoHeader ==
  /\ pc = "header"
  /\ Finish("io")
  /\ faults' = TRUE
  /\ UNCHANGED <<file, order, rt, l1, l2, allocated, orphans, examined>>

(* One read of the header, which may return any part of it, and the header *)
(* checks; an order past 6 yields an empty report.                         *)
Header ==
  /\ pc = "header"
  /\ \E n \in 0 .. Smaller(file.len, HeaderWindow) :
       /\ n = 0 => file.len = 0
       /\ IF n < MinHeader THEN Finish("too small") /\ UNCHANGED order
          ELSE IF ~file.magic THEN Finish("bad magic") /\ UNCHANGED order
          ELSE IF file.version \notin 2 .. 3 THEN Finish("version") /\ UNCHANGED order
          ELSE IF ~file.bits_ok THEN Finish("cluster bits") /\ UNCHANGED order
          ELSE /\ order' = RefcountOrder(file, n)
               /\ IF order' > 6 THEN Finish("ok") ELSE pc' = "rt" /\ UNCHANGED verdict
  /\ UNCHANGED <<file, rt, l1, l2, allocated, orphans, examined, faults>>

(* The refcount table is read whole or the report fails. *)
LoadRefcountTable ==
  LET n == Smaller((file.rtclusters * file.cluster) \div EntrySize, MaxL1) IN
  /\ pc = "rt"
  /\ \/ /\ NoTable(file.rtoff, n)
        /\ rt' = <<>> /\ pc' = "l1" /\ UNCHANGED <<verdict, faults>>
     \/ /\ ~NoTable(file.rtoff, n) /\ TableReadable(file, file.rtoff, n)
        /\ rt' = Table(file, file.rtoff, n) /\ pc' = "l1"
        /\ UNCHANGED <<verdict, faults>>
     \/ /\ ~NoTable(file.rtoff, n)
        /\ Finish("io") /\ faults' = (faults \/ TableReadable(file, file.rtoff, n))
        /\ UNCHANGED rt
  /\ UNCHANGED <<file, order, l1, l2, allocated, orphans, examined>>

(* The L1 table is read whole or taken to be empty. *)
LoadL1 ==
  LET n == Smaller(file.l1size, MaxL1) IN
  /\ pc = "l1"
  /\ pc' = "scan"
  /\ \/ /\ ~NoTable(file.l1off, n) /\ TableReadable(file, file.l1off, n)
        /\ l1' = Table(file, file.l1off, n) /\ UNCHANGED faults
     \/ /\ l1' = <<>>
        /\ faults' = (faults \/ (~NoTable(file.l1off, n) /\ TableReadable(file, file.l1off, n)))
  /\ UNCHANGED <<file, order, rt, l2, allocated, orphans, examined, verdict>>

(* The next L1 entry: its L2 table is read whole or taken to be empty. *)
NextL1 ==
  LET off == HostOffset(Head(l1))
      n == file.cluster \div EntrySize
  IN  /\ pc = "scan" /\ l2 = <<>> /\ l1 # <<>>
      /\ l1' = Tail(l1)
      /\ \/ /\ off # 0 /\ TableReadable(file, off, n)
            /\ l2' = Table(file, off, n) /\ UNCHANGED faults
         \/ /\ l2' = <<>>
            /\ faults' = (faults \/ (off # 0 /\ TableReadable(file, off, n)))
      /\ UNCHANGED <<file, pc, order, rt, allocated, orphans, examined, verdict>>

(* Bug: the zero flag is not looked at. *)
SkippedNoZeroFlag(e) == (e \div CompressedBit) % 2 = 1 \/ HostOffset(e) = 0

(* A compressed, zero or unallocated entry has no data cluster of its own. *)
Skipped(e) ==
  \/ (e \div CompressedBit) % 2 = 1
  \/ e % 2 = 1
  \/ HostOffset(e) = 0

SkipEntry ==
  /\ pc = "scan" /\ l2 # <<>> /\ Skipped(Head(l2))
  /\ l2' = Tail(l2)
  /\ UNCHANGED <<file, pc, order, rt, l1, allocated, orphans, examined, faults, verdict>>

(* Bug: the scan does not stop at the cap. *)
OverCapNever(n) == FALSE

OverCap(n) == n > MaxScanned

(* A data cluster: counted, then looked up, unless the cap is passed.  A   *)
(* read of the refcount that fails leaves it unknown.                      *)
CheckEntry ==
  LET idx == HostOffset(Head(l2)) \div file.cluster
      bits == 2 ^ order
  IN  /\ pc = "scan" /\ l2 # <<>> /\ ~Skipped(Head(l2))
      /\ allocated' = allocated + 1
      /\ IF OverCap(allocated + 1)
         THEN Finish("ok") /\ UNCHANGED <<l2, orphans, examined, faults>>
         ELSE /\ l2' = Tail(l2)
              /\ examined' = examined + 1
              /\ \/ /\ orphans' = orphans + IF RefcountOf(file, rt, idx, bits) = "zero" THEN 1 ELSE 0
                    /\ UNCHANGED faults
                 \/ /\ ReadsBlock(file, rt, idx, bits)
                    /\ faults' = TRUE /\ UNCHANGED orphans
              /\ UNCHANGED <<pc, verdict>>
      /\ UNCHANGED <<file, order, rt, l1>>

EndScan ==
  /\ pc = "scan" /\ l1 = <<>> /\ l2 = <<>>
  /\ Finish("ok")
  /\ UNCHANGED <<file, order, rt, l1, l2, allocated, orphans, examined, faults>>

Next ==
  \/ NoHeader \/ Header
  \/ LoadRefcountTable \/ LoadL1
  \/ NextL1 \/ SkipEntry \/ CheckEntry \/ EndScan

Spec == Init /\ [][Next]_vars

-----------------------------------------------------------------------------
(***************************************************************************)
(* The same question asked of the image at once: the guest clusters that   *)
(* the reader's lookup (Qcow2Format) maps to a data cluster, also those    *)
(* past virtual_disk_size, and what the image records as the refcount of   *)
(* that cluster.                                                           *)
(***************************************************************************)
EntryAt(p) == IF WordReadable(file, p) THEN file.word[p] ELSE 0

Image ==
  [cluster |-> file.cluster, l1size |-> file.l1size, len |-> file.len, word |-> file.word,
   l1 |-> [i \in 0 .. (file.l1size - 1) |-> EntryAt(file.l1off + i * EntrySize)]]

Guest(n) == n * file.cluster

Mapped ==
  {n \in 0 .. (file.l1size * L2Entries(Image) - 1) :
     Resolved(Image, Guest(n)) /\ GuestRef(Image, Guest(n)).kind = "normal"}

HostOf(n) == HostOffset(file.word[L2EntryPos(Image, Guest(n))])

TrueOrder == RefcountOrder(file, file.len)

RtEntries == (file.rtclusters * file.cluster) \div EntrySize

TrueBits == 2 ^ TrueOrder

(* The refcount table has an entry for the range that cluster idx is in. *)
RangeEntry(idx) == file.rtoff + (idx \div PerBlock(file, TrueBits)) * EntrySize

HasRange(idx) ==
  /\ PerBlock(file, TrueBits) # 0 /\ file.rtoff # 0
  /\ idx \div PerBlock(file, TrueBits) < RtEntries
  /\ WordReadable(file, RangeEntry(idx))

BlockOf(idx) == EntryAt(RangeEntry(idx)) - (EntryAt(RangeEntry(idx)) % file.cluster)

(* The range has no refcount block. *)
WithoutBlock(idx) == HasRange(idx) /\ BlockOf(idx) = 0

(* The range has one, and the bits of cluster idx are there and all 0. *)
DefiniteZero(idx) ==
  LET from == BlockOf(idx) * 8 + (idx % PerBlock(file, TrueBits)) * TrueBits IN
  /\ HasRange(idx) /\ BlockOf(idx) # 0
  /\ from + TrueBits <= file.len * 8
  /\ \A k \in 0 .. (TrueBits - 1) : Bit(file, from + k) = 0

(* Nothing the image records keeps cluster idx alive. *)
Free(idx) == WithoutBlock(idx) \/ DefiniteZero(idx)

Orphaned ==
  {n \in Mapped : HostOf(n) # 0 /\ Free(HostOf(n) \div file.cluster)}

DefinitelyOrphaned ==
  {n \in Mapped : HostOf(n) # 0 /\ DefiniteZero(HostOf(n) \div file.cluster)}

(* No entry has a reserved bit: the scan and the reader see the same offset. *)
NoReservedL1 ==
  \A i \in DOMAIN Image.l1 : HostOffset(Image.l1[i]) = Image.l1[i] % CopiedBit

NoReservedL2 == \A n \in Mapped : HostOf(n) = GuestRef(Image, Guest(n)).off

(* The tables the scan came to were all there: none over a cap or cut by   *)
(* the end of the file, and no read failed.                                *)
Clean ==
  /\ ~faults
  /\ file.l1size <= MaxL1 /\ RtEntries <= MaxL1
  /\ file.l1off # 0 /\ TableReadable(file, file.l1off, file.l1size)
  /\ \A i \in DOMAIN Image.l1 : TableReadable(file, HostOffset(Image.l1[i]), L2Entries(Image))

(* And it was not stopped on its way through them. *)
WholeScan == Clean /\ allocated <= MaxScanned

Done == pc = "done" /\ verdict = "ok" /\ order <= 6

(* "Unresolvable refcounts are conservatively skipped - never reported as  *)
(* orphans" (refcount.rs refcount_report): whatever reads fail, whatever   *)
(* table is cut or capped, the report never counts more orphans than the   *)
(* image has, for any width of refcount, provided that the header came     *)
(* with its refcount_order.  A cluster counts as an orphan of the image by *)
(* what the code and the test missing_refcount_block_means_orphan take for *)
(* a refcount of 0: zero bits in the block, or a range without a block.    *)
(* The doc comment of refcount_of excepts the latter (OrphansAreDefinite). *)
NoFalseOrphans ==
  Done /\ NoReservedL1 /\ order = TrueOrder => orphans <= Cardinality(Orphaned)

(* A scan that found its tables whole misses no orphan in the sense of     *)
(* NoFalseOrphans: it counts every one of the image, or, stopped by        *)
(* MAX_CLUSTERS_SCANNED, every one among that many first data clusters     *)
(* (refcount.rs refcount_report).                                          *)
CleanScanIsComplete ==
  Done /\ NoReservedL1 /\ order = TrueOrder /\ Clean =>
    /\ WholeScan => orphans = Cardinality(Orphaned)
    /\ ~WholeScan /\ NoReservedL2 =>
         \E n \in Mapped :
           /\ Cardinality(Mapped \cap (0 .. (n - 1))) = MaxScanned
           /\ orphans = Cardinality(Orphaned \cap (0 .. (n - 1)))

(* "Returns `None` when the refcount cannot be resolved (block absent or   *)
(* out-of-range), which the caller treats as `not provably orphaned' - we  *)
(* only count a definite refcount of 0, never guess" (refcount.rs          *)
(* refcount_of): only a refcount that was read from a block is counted.    *)
OrphansAreDefinite ==
  Done /\ NoReservedL1 /\ order = TrueOrder => orphans <= Cardinality(DefinitelyOrphaned)

(* The scan decodes the L1 and L2 entries with masks of its own: it never  *)
(* counts more data clusters than the reader's lookup maps (Mapped),       *)
(* whatever fails, and with whole tables and no reserved bit it counts     *)
(* each of them, also when the header came without its refcount_order      *)
(* (refcount.rs refcount_report and lib.rs cluster_ref_for).               *)
ScanAgreesWithReader ==
  (allocated > 0 \/ Done) /\ NoReservedL1 =>
      /\ allocated <= Cardinality(Mapped)
      /\ Done /\ WholeScan /\ NoReservedL2 => allocated = Cardinality(Mapped)

(* "Malformed input surfaces as an error rather than silent emptiness"     *)
(* (forensic/src/lib.rs audit_path): a report without allocated clusters   *)
(* comes of an image whose L1 table could be read.                         *)
EmptyReportIsEmptyImage ==
  Done /\ ~faults /\ allocated = 0 =>
    NoTable(file.l1off, file.l1size) \/ TableReadable(file, file.l1off, file.l1size)
=============================================================================
