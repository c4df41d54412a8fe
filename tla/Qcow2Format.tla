---------------------------- MODULE Qcow2Format ----------------------------
(***************************************************************************)
(* The QCOW2 cluster mapping as core/src/lib.rs decodes it: the fields of  *)
(* an open Qcow2Reader, the two-level L1 -> L2 lookup of cluster_ref_for,  *)
(* the fields of a compressed-cluster descriptor, and what the DEFLATE     *)
(* codec (flate2, external) makes of a possibly cut stream.                *)
(*                                                                         *)
(* Every shift and mask of the code is by a power of two, so it is written *)
(* here as \div and %.  One constant scales the 64-bit word: CompressedBit *)
(* is 1 << 62 in the code, and 1 << 63 and 1 << 64 follow from it.  The    *)
(* definitions hold for any such word, also for the small one TLC uses.    *)
(***************************************************************************)
EXTENDS Integers

CONSTANTS
  CompressedBit,   \* 1 << 62, the compressed flag of an L2 entry
  EntrySize,       \* 8, bytes per L1 or L2 entry
  SectorSize       \* 512, the unit of a compressed length

ASSUME FormatAssumption ==
  /\ CompressedBit \in Nat \ {0}
  /\ EntrySize \in Nat \ {0}
  /\ SectorSize \in Nat \ {0}

(* 1 << 63: the COPIED flag, and the first u64 that is negative as an i64. *)
CopiedBit == 2 * CompressedBit

(* u64 values. *)
Word == 0 .. (2 * CopiedBit - 1)

Byte == 0 .. 255

Smaller(a, b) == IF a <= b THEN a ELSE b

(***************************************************************************)
(* An open image: the fields of Qcow2Reader (virtual_disk_size,            *)
(* cluster_size and l1_table; l2_bits and l2_mask follow from cluster_size)*)
(* and the contents of its backing, of length `len': the byte at each      *)
(* offset, the big-endian word that starts there, and the DEFLATE stream   *)
(* that starts there: whether it is one at all, how many compressed bytes  *)
(* it takes, and what it inflates to.  l1off is where the L1 table was     *)
(* read from.                                                              *)
(***************************************************************************)
IsImage(img) ==
  /\ img.size \in Word
  /\ img.cluster \in Nat \ {0}
  /\ img.cluster \div EntrySize \in Nat \ {0}
  /\ img.cluster \div 2 \in Nat \ {0}
  /\ CopiedBit \div img.cluster \in Nat \ {0}
  /\ img.l1off \in Nat
  /\ img.l1size \in Nat
  /\ img.l1 \in [0 .. (img.l1size - 1) -> Word]
  /\ img.len \in Nat
  /\ img.byte \in [0 .. (img.len - 1) -> Byte]
  /\ img.word \in [0 .. (img.len - 1) -> Word]
  /\ DOMAIN img.stream = 0 .. (img.len - 1)
  /\ \A p \in DOMAIN img.stream :
       LET s == img.stream[p] IN
         /\ s.valid \in BOOLEAN
         /\ s.need \in Nat \ {0}
         /\ s.outlen \in Nat
         /\ s.data \in [0 .. (s.outlen - 1) -> Byte]

-----------------------------------------------------------------------------
(* The two-level lookup. *)

L2Entries(img) == img.cluster \div EntrySize

ClusterIdx(img, v) == v \div img.cluster

OffsetInCluster(img, v) == v % img.cluster

(* The L2 table's file offset for virtual offset v: the COPIED bit masked  *)
(* off, and 0 when the L1 table has no such entry.                         *)
L2TableOffset(img, v) ==
  LET l1_idx == ClusterIdx(img, v) \div L2Entries(img)
  IN  IF l1_idx < img.l1size THEN img.l1[l1_idx] % CopiedBit ELSE 0

L2EntryPos(img, v) ==
  L2TableOffset(img, v) + (ClusterIdx(img, v) % L2Entries(img)) * EntrySize

(* A cluster reference; `off' and `bytes' are 0 where the kind has none.   *)
Ref(kind, off, bytes) == [kind |-> kind, off |-> off, bytes |-> bytes]

Refs == [kind : {"unallocated", "zero", "normal", "compressed"},
         off : Nat, bytes : Nat]

Unallocated == Ref("unallocated", 0, 0)

ZeroCluster == Ref("zero", 0, 0)

(* The fields of a compressed descriptor: below the flag, the upper        *)
(* cluster_bits - 1 bits count sectors less one and the lower              *)
(* 63 - cluster_bits bits are a byte offset.                               *)
CompressedRef(img, e) ==
  LET split      == CopiedBit \div img.cluster
      nb_sectors == ((e \div split) % (img.cluster \div 2)) + 1
  IN  Ref("compressed", e % split, nb_sectors * SectorSize)

(* The L2 entry e: compressed flag first, then the zero flag, then the     *)
(* offset under the mask 0x3FFF_FFFF_FFFF_FFFF.                            *)
DecodeL2(img, e) ==
  IF (e \div CompressedBit) % 2 = 1 THEN CompressedRef(img, e)
  ELSE IF e % 2 = 1 THEN ZeroCluster
  ELSE IF e % CompressedBit = 0 THEN Unallocated
  ELSE Ref("normal", e % CompressedBit, 0)

(* read_exact of one entry at p succeeds. *)
WordReadable(img, p) == p + EntrySize <= img.len

-----------------------------------------------------------------------------
(* The codec: decompress_cluster reads at most `bytes' bytes from `off'    *)
(* and hands what it got to flate2.                                        *)

Filled(img, ref) ==
  IF ref.off >= img.len THEN 0 ELSE Smaller(ref.bytes, img.len - ref.off)

(* The lengths flate2 may produce without an error.  An empty input        *)
(* inflates to nothing without an error, a whole stream to its plaintext,  *)
(* and a cut one to some prefix.                                           *)
InflatedLengths(img, ref) ==
  LET s == img.stream[ref.off]
      filled == Filled(img, ref)
  IN  IF filled = 0 THEN {0}
      ELSE IF ~s.valid THEN {}
      ELSE IF filled >= s.need THEN {s.outlen}
      ELSE 0 .. s.outlen

(* flate2 may report an error: bytes that are no stream, or a cut one. *)
InflateMayFail(img, ref) ==
  LET s == img.stream[ref.off]
      filled == Filled(img, ref)
  IN  filled # 0 /\ (~s.valid \/ filled < s.need)

(* Byte j of the cluster after resize(cluster_size, 0), when `got' bytes   *)
(* of the plaintext came out.                                              *)
InflatedByte(img, ref, got, j) ==
  IF j < got THEN img.stream[ref.off].data[j] ELSE 0

-----------------------------------------------------------------------------
(***************************************************************************)
(* The guest disk, the reference every read is compared with: the byte the *)
(* image records at virtual offset v, without cursors, chunks or threads.  *)
(***************************************************************************)
Resolved(img, v) == L2TableOffset(img, v) = 0 \/ WordReadable(img, L2EntryPos(img, v))

GuestRef(img, v) ==
  IF L2TableOffset(img, v) = 0 THEN Unallocated
  ELSE DecodeL2(img, img.word[L2EntryPos(img, v)])

FileOffset(img, v) == GuestRef(img, v).off + OffsetInCluster(img, v)

(* The byte lies in a data cluster, past the end of the backing. *)
Truncated(img, v) ==
  /\ Resolved(img, v)
  /\ GuestRef(img, v).kind = "normal"
  /\ FileOffset(img, v) >= img.len

(* The byte lies in a compressed cluster whose stream runs past what the   *)
(* reader was able to get of it.                                           *)
CutStream(img, v) ==
  /\ Resolved(img, v)
  /\ GuestRef(img, v).kind = "compressed"
  /\ LET ref == GuestRef(img, v)
     IN  \/ Filled(img, ref) = 0
         \/ /\ img.stream[ref.off].valid
            /\ Filled(img, ref) < img.stream[ref.off].need

(* b is what a read of virtual offset v may deliver: the recorded byte,    *)
(* zero where nothing is recorded, and in a cut stream zero for what was   *)
(* lost.                                                                   *)
GuestByte(img, v, b) ==
  LET ref == GuestRef(img, v) IN
    /\ Resolved(img, v)
    /\ CASE ref.kind = "normal" ->
              FileOffset(img, v) < img.len /\ b = img.byte[FileOffset(img, v)]
         [] ref.kind = "compressed" ->
              \/ CutStream(img, v) /\ b = 0
              \/ /\ Filled(img, ref) # 0
                 /\ img.stream[ref.off].valid
                 /\ b = InflatedByte(img, ref, img.stream[ref.off].outlen,
                                     OffsetInCluster(img, v))
         [] OTHER -> b = 0

=============================================================================
