------------------------- MODULE Qcow2ReaderProofs --------------------------
(***************************************************************************)
(* Proofs about Qcow2Reader, for every image, every argument and both      *)
(* build profiles.                                                         *)
(***************************************************************************)
EXTENDS Qcow2Reader, Qcow2FormatProofs

-----------------------------------------------------------------------------
(* The i64 arithmetic of seek. *)

(* Half a word is at least 2, and a u64 is a natural number. *)
LEMMA WordFacts ==
  /\ CopiedBit \in Nat \ {0}
  /\ Word = 0 .. (2 * CopiedBit - 1)
  /\ Word \subseteq Nat
  BY FormatAssumption DEF CopiedBit, Word

(* `as i64' yields an i64. *)
LEMMA AsI64Type ==
  ASSUME NEW u \in Word
  PROVE  AsI64(u) \in -CopiedBit .. (CopiedBit - 1)
  BY WordFacts DEF AsI64

(* A wrapped sum is an i64, and a sum that is one is left alone. *)
LEMMA WrapI64Type ==
  ASSUME NEW x \in Int
  PROVE  /\ WrapI64(x) \in -CopiedBit .. (CopiedBit - 1)
         /\ x \in -CopiedBit .. (CopiedBit - 1) => WrapI64(x) = x
<1> DEFINE m == 2 * CopiedBit
<1>1. m \in Nat \ {0} /\ CopiedBit \in Nat
  BY WordFacts
<1> HIDE DEF m
<1>2. (x + CopiedBit) % m \in 0 .. (m - 1)
  BY <1>1
<1>3. x + CopiedBit \in 0 .. (m - 1) => (x + CopiedBit) % m = x + CopiedBit
  BY <1>1
<1>4. QED
  BY <1>1, <1>2, <1>3 DEF WrapI64, m

(* Past the largest i64 a sum of two that are not negative turns negative: *)
(* seek refuses it.                                                        *)
LEMMA WrapI64Overflow ==
  ASSUME NEW x \in CopiedBit .. (2 * CopiedBit - 1)
  PROVE  WrapI64(x) < 0
<1> DEFINE m == 2 * CopiedBit
<1>1. m \in Nat \ {0} /\ CopiedBit \in Nat
  BY WordFacts
<1>2. x + CopiedBit = m * 1 + (x - CopiedBit) /\ x - CopiedBit \in 0 .. (m - 1)
  BY <1>1
<1> HIDE DEF m
<1>3. (x + CopiedBit) % m = x - CopiedBit
  BY <1>1, <1>2
<1>4. QED
  BY <1>1, <1>2, <1>3 DEF WrapI64, m

-----------------------------------------------------------------------------
(* How far a read may get. *)

(* A chunk never leaves the disk. *)
LEMMA ToReadType ==
  ASSUME NEW n \in Nat, IsImage(img), pos \in Nat, pos < img.size
  PROVE  ToRead(n) \in Nat /\ ToRead(n) <= img.size - pos
<1>1. img.size \in Nat /\ img.cluster \in Nat \ {0}
  BY WordFacts DEF IsImage
<1>2. OffsetInCluster(img, pos) \in 0 .. (img.cluster - 1)
  BY LookupTypes
<1>3. (img.size - pos) % UsizeMod \in Nat /\ (img.size - pos) % UsizeMod <= img.size - pos
  <2> DEFINE d == img.size - pos
  <2>1. d \in Nat /\ UsizeMod \in Nat \ {0}
    BY <1>1, ReaderAssumption
  <2> HIDE DEF d
  <2>2. d % UsizeMod \in Nat /\ d \div UsizeMod \in Nat
        /\ d = UsizeMod * (d \div UsizeMod) + (d % UsizeMod)
    BY <2>1, DivMod
  <2>3. UsizeMod * (d \div UsizeMod) \in Nat
    BY <2>1, <2>2
  <2>4. QED
    BY <2>1, <2>2, <2>3 DEF d
<1>4. QED
  BY <1>1, <1>2, <1>3 DEF ToRead, Smaller

(* A chunk is empty only if the buffer is, or the rest of the disk as a    *)
(* usize.                                                                  *)
LEMMA ToReadPositive ==
  ASSUME NEW n \in Nat \ {0}, IsImage(img), pos \in Nat, pos < img.size,
         (img.size - pos) % UsizeMod # 0
  PROVE  ToRead(n) # 0
<1>1. img.size \in 0 .. (2 * CopiedBit - 1) /\ img.cluster \in Nat \ {0}
  BY WordFacts DEF IsImage
<1>2. OffsetInCluster(img, pos) \in 0 .. (img.cluster - 1)
  BY LookupTypes
<1>3. QED
  BY <1>1, <1>2 DEF ToRead, Smaller

(* A usize as wide as a u64 holds what is left of any disk. *)
LEMMA UsizeHolds ==
  ASSUME NEW d \in 1 .. (2 * CopiedBit - 1), 2 * CopiedBit <= UsizeMod
  PROVE  d % UsizeMod # 0
<1>1. d \in 0 .. (UsizeMod - 1) /\ UsizeMod \in Nat \ {0}
  BY ReaderAssumption, WordFacts
<1>2. d % UsizeMod = d
  BY <1>1
<1>3. QED
  BY <1>2

(* A read returns a part of its chunk, and none of it at a truncation or   *)
(* when the chunk is empty.                                                *)
LEMMA ReadLengthsBound ==
  ASSUME NEW n \in Nat, IsImage(img), pos \in Nat, pos < img.size,
         NEW k \in ReadLengths(n)
  PROVE  /\ k \in 0 .. ToRead(n)
         /\ k = 0 => ToRead(n) = 0 \/ Truncated(img, pos)
<1> DEFINE r == GuestRef(img, pos)
           file_off == FileOffset(img, pos)
<1>1. ToRead(n) \in Nat
  BY ToReadType
<1>2. Resolved(img, pos)
  BY DEF ReadLengths
<1>3. CASE r.kind = "normal"
  <2>1. L2TableOffset(img, pos) # 0 /\ WordReadable(img, L2EntryPos(img, pos))
    BY <1>2, <1>3 DEF GuestRef, Unallocated, Ref, Resolved
  <2>2. r.off \in Nat
    BY <2>1, GuestRefType DEF Refs
  <2>3. file_off \in Nat /\ img.len \in Nat
    <3>1. OffsetInCluster(img, pos) \in Nat
      BY LookupTypes
    <3>2. img.len \in Nat
      BY DEF IsImage
    <3>3. QED
      BY <2>2, <3>1, <3>2 DEF FileOffset
  <2>4. k \in (IF file_off >= img.len \/ ToRead(n) = 0 THEN {0}
               ELSE 1 .. Smaller(ToRead(n), img.len - file_off))
    BY <1>2, <1>3 DEF ReadLengths
  <2>5. CASE file_off >= img.len \/ ToRead(n) = 0
    BY <1>1, <1>2, <1>3, <2>4, <2>5 DEF Truncated
  <2>6. CASE ~(file_off >= img.len \/ ToRead(n) = 0)
    BY <1>1, <2>3, <2>4, <2>6 DEF Smaller
  <2>7. QED
    BY <2>5, <2>6
<1>4. CASE r.kind # "normal"
  BY <1>1, <1>4 DEF ReadLengths
<1>5. QED
  BY <1>3, <1>4

-----------------------------------------------------------------------------
(***************************************************************************)
(* The inductive invariant.  A seek starts at a position that an earlier   *)
(* seek or read left: on a disk that fits an i64 it is one itself.         *)
(***************************************************************************)
PosFits == img.size < CopiedBit => pos < CopiedBit

Inv == TypeOK /\ PosFits /\ SeekLandsExactly

(* A reader starts at 0 and nothing has been called. *)
LEMMA InitInv == Init => Inv
  BY WordFacts, ReaderAssumption
     DEF Init, Inv, TypeOK, PosFits, SeekLandsExactly, Call, IsImage

(* The tail of seek, for any i64 it is called with. *)
LEMMA SeekEndTypes ==
  ASSUME TypeOK, PosFits, UNCHANGED img, NEW op, NEW n,
         NEW new \in -CopiedBit .. (CopiedBit - 1), SeekEnd(op, n, new)
  PROVE  TypeOK' /\ PosFits'
<1>1. CASE new < 0
  BY <1>1, WordFacts DEF SeekEnd, TypeOK, PosFits, Call
<1>2. CASE ~(new < 0)
  <2>1. new \in 0 .. (CopiedBit - 1)
    BY <1>2, WordFacts
  <2>2. QED
    BY <1>2, <2>1, WordFacts DEF SeekEnd, TypeOK, PosFits, Call
<1>3. QED
  BY <1>1, <1>2

(* SeekFrom::Start. *)
LEMMA SeekStartInv ==
  ASSUME Inv, NEW n \in Starts, SeekStart(n)
  PROVE  Inv'
<1>1. AsI64(n) \in -CopiedBit .. (CopiedBit - 1)
  BY AsI64Type, ReaderAssumption
<1>2. TypeOK' /\ PosFits'
  BY <1>1, SeekEndTypes DEF SeekStart, Inv
<1>3. last'.op = "start" /\ last'.arg = n /\ n \in Word
  BY ReaderAssumption DEF SeekStart, SeekEnd, Call
<1>4. CASE n < CopiedBit
  <2>1. AsI64(n) = n /\ ~(n < 0)
    BY <1>3, <1>4, WordFacts DEF AsI64
  <2>2. last'.result = "ok" /\ last'.n = n /\ pos' = n
    BY <2>1 DEF SeekStart, SeekEnd, Call
  <2>3. QED
    BY <1>2, <1>3, <2>2, WordFacts DEF Inv, SeekLandsExactly, Base
<1>5. CASE ~(n < CopiedBit)
  <2>1. AsI64(n) < 0
    BY <1>3, <1>5, WordFacts DEF AsI64
  <2>2. last'.result = "err"
    BY <2>1 DEF SeekStart, SeekEnd, Call
  <2>3. QED
    BY <1>2, <1>3, <1>5, <2>2, WordFacts DEF Inv, SeekLandsExactly, Base
<1>6. QED
  BY <1>4, <1>5

(* SeekFrom::Current and SeekFrom::End, of the position or the size. *)
LEMMA SeekByInv ==
  ASSUME Inv, NEW n \in Moves, NEW op \in {"current", "end"},
         NEW base \in Word, base = (IF op = "current" THEN pos ELSE img.size),
         SeekBy(op, base, n)
  PROVE  Inv'
<1> DEFINE sum == AsI64(base) + n
<1>1. /\ AsI64(base) \in -CopiedBit .. (CopiedBit - 1)
      /\ n \in -CopiedBit .. (CopiedBit - 1)
      /\ CopiedBit \in Nat \ {0}
      /\ sum \in Int
  BY AsI64Type, ReaderAssumption, WordFacts
<1>2. WrapI64(sum) \in -CopiedBit .. (CopiedBit - 1)
  BY <1>1, WrapI64Type
<1>3. UNCHANGED img /\ last'.op = op /\ last'.from = pos /\ last'.arg = n
  BY DEF SeekBy, SeekEnd, Call
<1>4. CASE OverflowChecks /\ sum # WrapI64(sum)
  <2>1. last' = Call(op, pos, n, "panic", 0) /\ UNCHANGED pos
    BY <1>4 DEF SeekBy
  <2>2. ASSUME img.size < CopiedBit
        PROVE  base + n \notin 0 .. (CopiedBit - 1)
    <3>1. sum = base + n
      BY <2>2 DEF AsI64, Inv, PosFits
    <3>2. sum \notin -CopiedBit .. (CopiedBit - 1)
      BY <1>1, <1>4, WrapI64Type
    <3> HIDE DEF sum
    <3>3. QED
      BY <1>1, <3>1, <3>2
  <2>3. SeekLandsExactly'
    BY <1>3, <2>1, <2>2 DEF SeekLandsExactly, Base, Call
  <2>4. QED
    BY <1>3, <2>1, <2>3 DEF Inv, TypeOK, PosFits, Call
<1>5. CASE ~(OverflowChecks /\ sum # WrapI64(sum))
  <2>1. SeekEnd(op, n, WrapI64(sum))
    BY <1>5 DEF SeekBy
  <2>2. TypeOK' /\ PosFits'
    BY <1>2, <1>3, <2>1, SeekEndTypes DEF Inv
  <2>3. ASSUME img.size < CopiedBit
        PROVE  /\ last'.result = "ok" => last'.n = base + n /\ pos' = last'.n
               /\ last'.result # "ok" => base + n \notin 0 .. (CopiedBit - 1)
    <3>1. base < CopiedBit
      BY <2>3 DEF Inv, PosFits
    <3>2. sum = base + n
      BY <3>1 DEF AsI64
    <3>3. sum < -CopiedBit => FALSE
      BY <1>1, <3>1, <3>2, WordFacts
    <3>4. sum \in CopiedBit .. (2 * CopiedBit - 1) => WrapI64(sum) < 0
      BY WrapI64Overflow
    <3>5. sum \in -CopiedBit .. (CopiedBit - 1) => WrapI64(sum) = sum
      BY <1>1, WrapI64Type
    <3>6. sum \in -CopiedBit .. (2 * CopiedBit - 1)
      BY <1>1, <3>1, <3>2, WordFacts
    <3> HIDE DEF sum
    <3>7. CASE WrapI64(sum) < 0
      <4>1. last'.result = "err"
        BY <2>1, <3>7 DEF SeekEnd, Call
      <4>2. sum \notin 0 .. (CopiedBit - 1)
        BY <1>1, <3>5, <3>7
      <4>3. QED
        BY <3>2, <4>1, <4>2
    <3>8. CASE ~(WrapI64(sum) < 0)
      <4>1. sum \in 0 .. (CopiedBit - 1) /\ WrapI64(sum) = sum
        BY <1>1, <3>4, <3>5, <3>6, <3>8
      <4>2. last'.result = "ok" /\ last'.n = sum /\ pos' = sum
        BY <2>1, <3>8, <4>1 DEF SeekEnd, Call
      <4>3. QED
        BY <3>2, <4>2
    <3>9. QED
      BY <3>7, <3>8
  <2>4. SeekLandsExactly'
    BY <1>3, <2>3 DEF SeekLandsExactly, Base
  <2>5. QED
    BY <2>2, <2>4 DEF Inv
<1>6. QED
  BY <1>4, <1>5

(* Read::read moves the position over what it returns. *)
LEMMA ReadInv ==
  ASSUME Inv, NEW n \in Lengths, Read(n)
  PROVE  Inv'
<1>1. IsImage(img) /\ pos \in Nat /\ n \in Nat /\ img.size \in Word /\ img.size \in Nat
  BY ReaderAssumption, WordFacts DEF Inv, TypeOK, IsImage
<1>2. last'.op = "read" /\ last'.from = pos /\ last'.result \in {"ok", "err"}
      /\ UNCHANGED img
  BY DEF Read, Call
<1>3. SeekLandsExactly'
  BY <1>2 DEF SeekLandsExactly
<1>4. CASE UNCHANGED pos
  BY <1>2, <1>3, <1>4 DEF Inv, TypeOK, PosFits
<1>5. CASE pos < img.size /\ \E k \in ReadLengths(n) : pos' = pos + k
  <2>1. PICK k \in ReadLengths(n) : pos' = pos + k
    BY <1>5
  <2>2. k \in 0 .. ToRead(n) /\ ToRead(n) \in Nat /\ ToRead(n) <= img.size - pos
    BY <1>1, <1>5, ToReadType, ReadLengthsBound
  <2>3. pos' \in 0 .. img.size
    BY <1>1, <2>1, <2>2
  <2>4. pos' \in Word /\ PosFits'
    BY <1>1, <1>2, <2>3, WordFacts DEF PosFits
  <2>5. QED
    BY <1>2, <1>3, <2>4 DEF Inv, TypeOK
<1>6. QED
  BY <1>1, <1>4, <1>5 DEF Read

(* Every seek and every read keeps Inv. *)
LEMMA NextInv == Inv /\ [Next]_vars => Inv'
<1> SUFFICES ASSUME Inv, [Next]_vars
             PROVE  Inv'
  OBVIOUS
<1>1. ASSUME NEW n \in Starts, SeekStart(n)
      PROVE  Inv'
  BY <1>1, SeekStartInv
<1>2. ASSUME NEW n \in Moves, SeekBy("current", pos, n)
      PROVE  Inv'
  <2>1. pos \in Word
    BY DEF Inv, TypeOK
  <2>2. QED
    BY <1>2, <2>1, SeekByInv
<1>3. ASSUME NEW n \in Moves, SeekBy("end", img.size, n)
      PROVE  Inv'
  <2>1. img.size \in Word
    BY ReaderAssumption DEF Inv, TypeOK, IsImage
  <2>2. QED
    BY <1>3, <2>1, SeekByInv
<1>4. ASSUME NEW n \in Lengths, Read(n)
      PROVE  Inv'
  BY <1>4, ReadInv
<1>5. CASE UNCHANGED vars
  BY <1>5 DEF vars, Inv, TypeOK, PosFits, SeekLandsExactly, Base
<1>6. QED
  BY <1>1, <1>2, <1>3, <1>4, <1>5 DEF Next, Seek

-----------------------------------------------------------------------------
(***************************************************************************)
(* The theorems.                                                           *)
(***************************************************************************)

(* The types, the bound on the position and the landing place of a seek    *)
(* hold together in every reachable state (lib.rs read and seek).          *)
THEOREM Invariance == Spec => []Inv
<1>1. QED
  BY InitInv, NextInv, PTL DEF Spec

(* The position stays a u64 through every seek and read (lib.rs            *)
(* Qcow2Reader.pos).                                                       *)
THEOREM TypeCorrect == Spec => []TypeOK
<1>1. Inv => TypeOK
  BY DEF Inv
<1>2. QED
  BY <1>1, Invariance, PTL

(* On every disk whose size an i64 holds, for every u64 and i64 argument   *)
(* and in both build profiles, a seek lands exactly at the sum or fails    *)
(* because no i64 holds it or it is negative (lib.rs seek).                *)
THEOREM SeeksLandExactly == Spec => []SeekLandsExactly
<1>1. Inv => SeekLandsExactly
  BY DEF Inv
<1>2. QED
  BY <1>1, Invariance, PTL

(* A seek or read that fails or panics leaves the position where it was    *)
(* (lib.rs seek and read).                                                 *)
THEOREM FailuresKeepPlace == Spec => FailureKeepsPlace
<1>1. ASSUME Inv, [Next]_vars, ~(UNCHANGED vars), last'.result # "ok"
      PROVE  pos' = pos
  <2>1. ASSUME NEW n \in Starts, SeekStart(n)
        PROVE  pos' = pos
    BY <1>1, <2>1 DEF SeekStart, SeekEnd, Call
  <2>2. ASSUME NEW op, NEW base, NEW n \in Moves, SeekBy(op, base, n)
        PROVE  pos' = pos
    BY <1>1, <2>2 DEF SeekBy, SeekEnd, Call
  <2>3. ASSUME NEW n \in Lengths, Read(n)
        PROVE  pos' = pos
    BY <1>1, <2>3 DEF Read, Call
  <2>4. QED
    BY <1>1, <2>1, <2>2, <2>3 DEF Next, Seek
<1>2. Inv /\ [Next]_vars => [last'.result # "ok" => pos' = pos]_vars
  BY <1>1
<1>3. QED
  BY <1>2, Invariance, PTL DEF Spec, FailureKeepsPlace

(* ReadEndsOnlyAtEnd, for every disk and every width of a usize: a read    *)
(* with room in its buffer returns 0 where it says and nowhere else, and   *)
(* no read goes over the end of the disk (lib.rs read).                    *)
THEOREM ReadsEndAtEnd == Spec => []ReadEndsOnlyAtEnd
<1>1. Init => ReadEndsOnlyAtEnd
  BY DEF Init, Call, ReadEndsOnlyAtEnd
<1>2. Inv /\ ReadEndsOnlyAtEnd /\ [Next]_vars => ReadEndsOnlyAtEnd'
  <2> SUFFICES ASSUME Inv, ReadEndsOnlyAtEnd, [Next]_vars
               PROVE  ReadEndsOnlyAtEnd'
    OBVIOUS
  <2>1. CASE Seek
    BY <2>1 DEF Seek, SeekStart, SeekBy, SeekEnd, Call, ReadEndsOnlyAtEnd
  <2>2. ASSUME NEW n \in Lengths, Read(n)
        PROVE  ReadEndsOnlyAtEnd'
    <3>1. IsImage(img) /\ pos \in Nat /\ n \in Nat /\ img.size \in Nat /\ UNCHANGED img
      BY <2>2, ReaderAssumption, WordFacts DEF Inv, TypeOK, IsImage, Read
    <3>2. CASE pos >= img.size \/ n = 0
      BY <2>2, <3>1, <3>2 DEF Read, Call, ReadEndsOnlyAtEnd
    <3>3. CASE last'.result = "err"
      BY <3>3 DEF ReadEndsOnlyAtEnd
    <3>4. ASSUME pos < img.size, n # 0, NEW k \in ReadLengths(n),
                 last' = Call("read", pos, n, "ok", k), pos' = pos + k
          PROVE  ReadEndsOnlyAtEnd'
      <4>1. k \in 0 .. ToRead(n) /\ ToRead(n) \in Nat /\ ToRead(n) <= img.size - pos
        BY <3>1, <3>4, ToReadType, ReadLengthsBound
      <4>2. k = 0 => Truncated(img, pos) \/ (img.size - pos) % UsizeMod = 0
        BY <3>1, <3>4, ReadLengthsBound, ToReadPositive
      <4>3. pos + k <= img.size
        BY <3>1, <4>1
      <4>4. /\ last'.n = k /\ last'.from = pos
            /\ Truncated(img, pos) => Truncated(img', last'.from)
        BY <3>1, <3>4 DEF Call
      <4>5. QED
        BY <3>1, <3>4, <4>2, <4>3, <4>4 DEF ReadEndsOnlyAtEnd
    <3>5. QED
      BY <2>2, <3>1, <3>2, <3>3, <3>4 DEF Read, Call
  <2>3. CASE UNCHANGED vars
    BY <2>3 DEF vars, ReadEndsOnlyAtEnd
  <2>4. QED
    BY <2>1, <2>2, <2>3 DEF Next
<1>3. QED
  BY <1>1, <1>2, Invariance, PTL DEF Spec

(* Where a usize has 64 bits the cast of what is left of the disk loses    *)
(* nothing: a read with room returns 0 only at the end of the disk or at a *)
(* truncation (lib.rs read).                                               *)
THEOREM NoEarlyEndOn64Bits ==
  ASSUME 2 * CopiedBit <= UsizeMod
  PROVE  Spec => [](/\ last.op = "read" /\ last.result = "ok"
                    /\ last.n = 0 /\ last.arg # 0 /\ last.from < img.size
                    => Truncated(img, last.from))
<1>1. Inv /\ ReadEndsOnlyAtEnd =>
        (/\ last.op = "read" /\ last.result = "ok"
         /\ last.n = 0 /\ last.arg # 0 /\ last.from < img.size
         => Truncated(img, last.from))
  <2> SUFFICES ASSUME Inv, ReadEndsOnlyAtEnd, last.op = "read", last.result = "ok",
                      last.n = 0, last.arg # 0, last.from < img.size
               PROVE  Truncated(img, last.from)
    OBVIOUS
  <2>1. img.size - last.from \in 1 .. (2 * CopiedBit - 1)
    BY ReaderAssumption, WordFacts DEF Inv, TypeOK, IsImage
  <2>2. (img.size - last.from) % UsizeMod # 0
    BY <2>1, UsizeHolds
  <2>3. last.from \in Nat /\ img.size \in Nat
    BY ReaderAssumption, WordFacts DEF Inv, TypeOK, IsImage
  <2>4. QED
    BY <2>2, <2>3 DEF ReadEndsOnlyAtEnd
<1>2. QED
  BY <1>1, Invariance, ReadsEndAtEnd, PTL
=============================================================================
