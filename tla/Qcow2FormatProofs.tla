------------------------- MODULE Qcow2FormatProofs --------------------------
(***************************************************************************)
(* Proofs about Qcow2Format: the lookup and what a chunk of one cluster    *)
(* holds, for every image.                                                 *)
(***************************************************************************)
EXTENDS Qcow2Format, NatFacts

-----------------------------------------------------------------------------
(* The lookup of cluster_ref_for. *)

(* Every value the lookup computes is a natural number. *)
LEMMA LookupTypes ==
  ASSUME NEW i, IsImage(i), NEW v \in Nat
  PROVE  /\ ClusterIdx(i, v) \in Nat
         /\ OffsetInCluster(i, v) \in 0 .. (i.cluster - 1)
         /\ L2TableOffset(i, v) \in Nat
         /\ L2EntryPos(i, v) \in Nat
<1>1. i.cluster \in Nat \ {0} /\ L2Entries(i) \in Nat \ {0} /\ i.l1size \in Nat
  BY DEF IsImage, L2Entries
<1>2. ClusterIdx(i, v) \in Nat /\ OffsetInCluster(i, v) \in 0 .. (i.cluster - 1)
  BY <1>1, DivMod DEF ClusterIdx, OffsetInCluster
<1>3. /\ ClusterIdx(i, v) \div L2Entries(i) \in Nat
      /\ ClusterIdx(i, v) % L2Entries(i) \in Nat
  BY <1>1, <1>2, DivMod
<1>4. CopiedBit \in Nat \ {0}
  BY FormatAssumption DEF CopiedBit
<1>5. L2TableOffset(i, v) \in Nat
  <2>1. CASE ClusterIdx(i, v) \div L2Entries(i) < i.l1size
    <3> DEFINE k == ClusterIdx(i, v) \div L2Entries(i)
    <3>1. k \in 0 .. (i.l1size - 1) /\ i.l1 \in [0 .. (i.l1size - 1) -> Word]
      BY <1>1, <1>3, <2>1 DEF IsImage
    <3>2. i.l1[k] \in Word
      BY <3>1
    <3>3. i.l1[k] \in Nat
      BY <3>2, <1>4 DEF Word
    <3>4. QED
      BY <3>3, <2>1, <1>4, DivMod DEF L2TableOffset
  <2>2. CASE ~(ClusterIdx(i, v) \div L2Entries(i) < i.l1size)
    BY <2>2 DEF L2TableOffset
  <2>3. QED
    BY <2>1, <2>2
<1>6. (ClusterIdx(i, v) % L2Entries(i)) * EntrySize \in Nat
  BY <1>3, FormatAssumption
<1>7. QED
  BY <1>2, <1>5, <1>6 DEF L2EntryPos

(* Decoding an entry yields a cluster reference. *)
LEMMA DecodeType ==
  ASSUME NEW i, IsImage(i), NEW e \in Word
  PROVE  DecodeL2(i, e) \in Refs
<1>1. CompressedBit \in Nat \ {0} /\ CopiedBit \in Nat \ {0} /\ SectorSize \in Nat
  BY FormatAssumption DEF CopiedBit
<1>2. e \in Nat
  BY <1>1 DEF Word
<1>3. CompressedRef(i, e) \in Refs
  <2> DEFINE split == CopiedBit \div i.cluster
             half == i.cluster \div 2
  <2>1. split \in Nat \ {0} /\ half \in Nat \ {0}
    BY DEF IsImage
  <2> HIDE DEF split, half
  <2>2. e % split \in Nat /\ e \div split \in Nat
    BY <1>2, <2>1, DivMod
  <2>3. (e \div split) % half \in Nat
    BY <2>1, <2>2, DivMod
  <2>4. (((e \div split) % half) + 1) * SectorSize \in Nat
    BY <1>1, <2>3
  <2>5. QED
    BY <2>2, <2>4 DEF CompressedRef, Ref, Refs, split, half
<1>4. e % CompressedBit \in Nat
  BY <1>1, <1>2, DivMod
<1>5. QED
  BY <1>3, <1>4 DEF DecodeL2, Ref, Refs, ZeroCluster, Unallocated

(* Within one cluster the lookup gives one answer. *)
LEMMA LookupSameCluster ==
  ASSUME NEW i, IsImage(i), NEW p \in Nat, NEW k \in Nat,
         OffsetInCluster(i, p) + k < i.cluster
  PROVE  /\ L2TableOffset(i, p + k) = L2TableOffset(i, p)
         /\ L2EntryPos(i, p + k) = L2EntryPos(i, p)
         /\ GuestRef(i, p + k) = GuestRef(i, p)
         /\ OffsetInCluster(i, p + k) = OffsetInCluster(i, p) + k
<1>1. i.cluster \in Nat \ {0}
  BY DEF IsImage
<1>2. /\ ClusterIdx(i, p + k) = ClusterIdx(i, p)
      /\ OffsetInCluster(i, p + k) = OffsetInCluster(i, p) + k
  BY <1>1, SameCluster DEF ClusterIdx, OffsetInCluster
<1>3. QED
  BY <1>2 DEF L2TableOffset, L2EntryPos, GuestRef

(* An L2 entry that was read decodes to a reference. *)
LEMMA GuestRefType ==
  ASSUME NEW i, IsImage(i), NEW v \in Nat,
         L2TableOffset(i, v) # 0, WordReadable(i, L2EntryPos(i, v))
  PROVE  /\ GuestRef(i, v) = DecodeL2(i, i.word[L2EntryPos(i, v)])
         /\ GuestRef(i, v) \in Refs
<1>1. L2EntryPos(i, v) \in Nat
  BY LookupTypes
<1>2. L2EntryPos(i, v) \in 0 .. (i.len - 1)
  BY <1>1, FormatAssumption DEF WordReadable, IsImage
<1>3. i.word[L2EntryPos(i, v)] \in Word
  BY <1>2 DEF IsImage
<1>4. QED
  BY <1>3, DecodeType DEF GuestRef

-----------------------------------------------------------------------------
(* What one chunk holds.  In each lemma p is the cursor and p + k an       *)
(* offset of the chunk that read() delivers.                               *)

(* A chunk of zeros, for a cluster that records none. *)
LEMMA ZerosAreRight ==
  ASSUME NEW i, IsImage(i), NEW p \in Nat, NEW k \in Nat,
         OffsetInCluster(i, p) + k < i.cluster,
         \/ L2TableOffset(i, p) = 0
         \/ /\ WordReadable(i, L2EntryPos(i, p))
            /\ GuestRef(i, p).kind \in {"unallocated", "zero"}
  PROVE  GuestByte(i, p + k, 0)
<1>1. /\ L2TableOffset(i, p + k) = L2TableOffset(i, p)
      /\ L2EntryPos(i, p + k) = L2EntryPos(i, p)
      /\ GuestRef(i, p + k) = GuestRef(i, p)
  BY LookupSameCluster
<1>2. Resolved(i, p + k)
  BY <1>1 DEF Resolved
<1>3. GuestRef(i, p + k).kind \in {"unallocated", "zero"}
  BY <1>1 DEF GuestRef, Unallocated, Ref
<1>4. QED
  BY <1>2, <1>3 DEF GuestByte

(* A chunk of a data cluster, as far as the backing goes. *)
LEMMA DataIsRight ==
  ASSUME NEW i, IsImage(i), NEW p \in Nat, NEW k \in Nat,
         OffsetInCluster(i, p) + k < i.cluster,
         WordReadable(i, L2EntryPos(i, p)),
         GuestRef(i, p).kind = "normal",
         GuestRef(i, p).off \in Nat,
         FileOffset(i, p) + k < i.len
  PROVE  /\ GuestByte(i, p + k, i.byte[FileOffset(i, p) + k])
         /\ i.byte[FileOffset(i, p) + k] \in Byte
<1>1. /\ L2EntryPos(i, p + k) = L2EntryPos(i, p)
      /\ GuestRef(i, p + k) = GuestRef(i, p)
      /\ OffsetInCluster(i, p + k) = OffsetInCluster(i, p) + k
  BY LookupSameCluster
<1>2. Resolved(i, p + k)
  BY <1>1 DEF Resolved
<1>3. OffsetInCluster(i, p) \in Nat
  BY LookupTypes
<1>4. FileOffset(i, p + k) = FileOffset(i, p) + k /\ FileOffset(i, p) \in Nat
  BY <1>1, <1>3 DEF FileOffset
<1>5. i.byte \in [0 .. (i.len - 1) -> Byte] /\ i.len \in Nat
  BY DEF IsImage
<1>6. i.byte[FileOffset(i, p) + k] \in Byte
  BY <1>4, <1>5
<1>7. QED
  BY <1>1, <1>2, <1>4, <1>6 DEF GuestByte

(* A chunk of a compressed cluster, however much of it inflated. *)
LEMMA InflatedIsRight ==
  ASSUME NEW i, IsImage(i), NEW p \in Nat, NEW k \in Nat,
         OffsetInCluster(i, p) + k < i.cluster,
         WordReadable(i, L2EntryPos(i, p)),
         GuestRef(i, p).kind = "compressed",
         GuestRef(i, p) \in Refs,
         NEW got \in InflatedLengths(i, GuestRef(i, p))
  PROVE  LET b == InflatedByte(i, GuestRef(i, p), got, OffsetInCluster(i, p) + k)
         IN  GuestByte(i, p + k, b) /\ b \in Byte
<1> DEFINE r == GuestRef(i, p)
           s == i.stream[r.off]
           j == OffsetInCluster(i, p) + k
           b == InflatedByte(i, r, got, j)
           filled == Filled(i, r)
<1>1. /\ L2EntryPos(i, p + k) = L2EntryPos(i, p)
      /\ GuestRef(i, p + k) = r
      /\ OffsetInCluster(i, p + k) = j
  BY LookupSameCluster
<1>2. Resolved(i, p + k)
  BY <1>1 DEF Resolved
<1>3. j \in Nat
  BY LookupTypes
<1>4. r.off \in Nat /\ r.bytes \in Nat /\ i.len \in Nat /\ r.kind = "compressed"
  BY DEF Refs, IsImage
<1>5. /\ CutStream(i, p + k) <=> (filled = 0 \/ (s.valid /\ filled < s.need))
      /\ \A x : GuestByte(i, p + k, x) <=>
                  \/ CutStream(i, p + k) /\ x = 0
                  \/ /\ filled # 0
                     /\ s.valid
                     /\ x = InflatedByte(i, r, s.outlen, j)
  BY <1>1, <1>2, <1>4 DEF CutStream, GuestByte
<1>6. CASE filled = 0
  <2>1. got = 0
    BY <1>6 DEF InflatedLengths
  <2>2. b = 0
    BY <2>1, <1>3 DEF InflatedByte
  <2>3. QED
    BY <2>2, <1>5, <1>6 DEF Byte
<1>7. CASE filled # 0
  <2>1. r.off \in 0 .. (i.len - 1)
    BY <1>4, <1>7 DEF Filled
  <2>2. /\ s.need \in Nat
        /\ s.outlen \in Nat
        /\ s.data \in [0 .. (s.outlen - 1) -> Byte]
    BY <2>1 DEF IsImage
  <2> filled \in Int
    BY <1>4 DEF Filled, Smaller
  <2>3. s.valid /\ got \in 0 .. s.outlen /\ (got # s.outlen => filled < s.need)
    BY <1>7, <2>2 DEF InflatedLengths
  <2>4. CASE j < got
    <3>1. b = s.data[j] /\ j \in 0 .. (s.outlen - 1)
      BY <2>2, <2>3, <2>4, <1>3 DEF InflatedByte
    <3>2. InflatedByte(i, r, s.outlen, j) = s.data[j]
      BY <3>1, <2>2 DEF InflatedByte
    <3>3. b \in Byte
      BY <3>1, <2>2
    <3>4. QED
      BY <3>1, <3>2, <3>3, <2>3, <1>5, <1>7
  <2>5. CASE ~(j < got)
    <3>1. b = 0
      BY <2>5 DEF InflatedByte
    <3>2. CASE got = s.outlen
      <4>1. InflatedByte(i, r, s.outlen, j) = 0
        BY <2>5, <3>2 DEF InflatedByte
      <4>2. QED
        BY <3>1, <4>1, <2>3, <1>5, <1>7 DEF Byte
    <3>3. CASE got # s.outlen
      BY <3>1, <3>3, <2>3, <1>5 DEF Byte
    <3>4. QED
      BY <3>2, <3>3
  <2>6. QED
    BY <2>4, <2>5
<1>8. QED
  BY <1>6, <1>7
=============================================================================
