---------------------------- MODULE Qcow2Reader ----------------------------
(***************************************************************************)
(* core/src/lib.rs as its single owner sees it: Read and Seek of one       *)
(* Qcow2Reader, each call atomic because both take &mut self.  What a read *)
(* delivers is the business of Qcow2Source; here it is how far it gets,    *)
(* and the i64 arithmetic of seek, which the profile of the build decides: *)
(* with overflow checks (dev, test and fuzz builds) an overflowing `+'     *)
(* panics, without them (release) it wraps.                                *)
(***************************************************************************)
EXTENDS Qcow2Format

CONSTANTS
  Images,           \* open images
  Starts,           \* arguments of SeekFrom::Start, u64
  Moves,            \* arguments of SeekFrom::Current and SeekFrom::End, i64
  Lengths,          \* buf.len() of a read
  UsizeMod,         \* 1 << 64, or 1 << 32 on a 32-bit target
  OverflowChecks    \* of the build profile

ASSUME ReaderAssumption ==
  /\ \A i \in Images : IsImage(i)
  /\ Starts \subseteq Word
  /\ Moves \subseteq -CopiedBit .. (CopiedBit - 1)
  /\ Lengths \subseteq Nat /\ UsizeMod \in Nat \ {0}
  /\ OverflowChecks \in BOOLEAN

VARIABLES
  img,    \* the image; fixed
  pos,    \* Qcow2Reader.pos
  last    \* the last call: what it was, from where, its argument and result

vars == <<img, pos, last>>

Call(op, from, arg, result, n) ==
  [op |-> op, from |-> from, arg |-> arg, result |-> result, n |-> n]

TypeOK ==
  /\ img \in Images
  /\ pos \in Word
  /\ last.from \in Word
  /\ last.result \in {"none", "ok", "err", "panic"}

Init ==
  /\ img \in Images
  /\ pos = 0
  /\ last = Call("open", 0, 0, "none", 0)

-----------------------------------------------------------------------------
(* u64 as i64, and the wrapping of an i64 sum. *)
AsI64(u) == IF u < CopiedBit THEN u ELSE u - 2 * CopiedBit

WrapI64(x) == ((x + CopiedBit) % (2 * CopiedBit)) - CopiedBit

(* Bug: a negative position is not refused. *)
SeekEndUnchecked(op, n, new) ==
  last' = Call(op, pos, n, "ok", new) /\ pos' = new

(* Bug: the position is stored before it is checked. *)
SeekEndStoresFirst(op, n, new) ==
  /\ pos' = IF new < 0 THEN new + 2 * CopiedBit ELSE new
  /\ last' = Call(op, pos, n, IF new < 0 THEN "err" ELSE "ok", new)

(* The tail of seek, for a new position computed as an i64. *)
SeekEnd(op, n, new) ==
  IF new < 0
  THEN last' = Call(op, pos, n, "err", 0) /\ UNCHANGED pos
  ELSE last' = Call(op, pos, n, "ok", new) /\ pos' = new

SeekStart(n) == SeekEnd("start", n, AsI64(n)) /\ UNCHANGED img

(* Bug: the sum saturates at 0. *)
SeekBySaturating(op, base, n) ==
  LET sum == AsI64(base) + n
  IN  /\ SeekEnd(op, n, IF sum < 0 THEN 0 ELSE WrapI64(sum))
      /\ UNCHANGED img

(* Current and End: base as i64, plus n. *)
SeekBy(op, base, n) ==
  LET sum == AsI64(base) + n
  IN  /\ IF OverflowChecks /\ sum # WrapI64(sum)
         THEN last' = Call(op, pos, n, "panic", 0) /\ UNCHANGED pos
         ELSE SeekEnd(op, n, WrapI64(sum))
      /\ UNCHANGED img

-----------------------------------------------------------------------------
(* Bug: the mask of the cluster is taken for its size. *)
ToReadMasked(n) ==
  Smaller(n, Smaller((img.size - pos) % UsizeMod, img.cluster - 1 - OffsetInCluster(img, pos)))

(* The chunk is cut to the buffer, the disk and the cluster.  What is left *)
(* of the disk is cast `as usize'.                                         *)
ToRead(n) ==
  Smaller(n, Smaller((img.size - pos) % UsizeMod, img.cluster - OffsetInCluster(img, pos)))

(* The lengths read() may return for the cluster under the cursor. *)
ReadLengths(n) ==
  LET r == GuestRef(img, pos)
      file_off == FileOffset(img, pos)
  IN  IF ~Resolved(img, pos) THEN {}
      ELSE CASE r.kind = "normal" ->
                  IF file_off >= img.len \/ ToRead(n) = 0 THEN {0}
                  ELSE 1 .. Smaller(ToRead(n), img.len - file_off)
             [] r.kind = "compressed" ->
                  IF InflatedLengths(img, r) = {} THEN {} ELSE {ToRead(n)}
             [] OTHER -> {ToRead(n)}

Read(n) ==
  /\ IF pos >= img.size \/ n = 0
     THEN last' = Call("read", pos, n, "ok", 0) /\ UNCHANGED pos
     ELSE \/ \E k \in ReadLengths(n) :
               last' = Call("read", pos, n, "ok", k) /\ pos' = pos + k
          \/ /\ L2TableOffset(img, pos) # 0   \* the backing is called, and may fail
             /\ last' = Call("read", pos, n, "err", 0)
             /\ UNCHANGED pos
  /\ UNCHANGED img

Seek ==
  \/ \E n \in Starts : SeekStart(n)
  \/ \E n \in Moves : SeekBy("current", pos, n) \/ SeekBy("end", img.size, n)

(* A panic unwinds to the owner, who still has the reader. *)
Next == Seek \/ \E n \in Lengths : Read(n)

Spec == Init /\ [][Next]_vars

-----------------------------------------------------------------------------
Base ==
  CASE last.op = "current" -> last.from
    [] last.op = "end" -> img.size
    [] OTHER -> 0

(* "SeekFrom::End is relative to the virtual disk size", "SeekFrom::Current *)
(* advances relative to the current position" (tests of lib.rs): on a disk  *)
(* whose size an i64 holds, a seek that succeeds lands at that sum, in full *)
(* precision, and one that fails or panics asked for a place no i64 holds   *)
(* or one before the start.  SeekFrom::Start does so on every disk.         *)
SeekLandsExactly ==
  \/ last.op = "start"
  \/ last.op \in {"current", "end"} /\ img.size < CopiedBit
  => /\ last.result = "ok" => last.n = Base + last.arg /\ pos = last.n
     /\ last.result # "ok" => Base + last.arg \notin 0 .. (CopiedBit - 1)

(* A call that fails leaves the cursor alone, so that a caller can try     *)
(* again from where it was (lib.rs seek and read).                         *)
FailureKeepsPlace ==
  [][last'.result # "ok" => pos' = pos]_vars

(* Ok(0) is how a Read tells its caller that the stream is over, and what *)
(* the loop of read_at stops at (vfs.rs): a read with room in its buffer   *)
(* returns it at the end of the disk, where the backing ends inside a data *)
(* cluster, and where what is left of the disk is 0 as a usize, which is   *)
(* before the end only where a usize is narrower than a u64; it does so    *)
(* nowhere else, no border of a cluster included; and no read takes the    *)
(* cursor over the end of the disk (lib.rs read).                          *)
ReadEndsOnlyAtEnd ==
  last.op = "read" /\ last.result = "ok" =>
    /\ last.n = 0 =>
         \/ last.arg = 0 \/ last.from >= img.size \/ Truncated(img, last.from)
         \/ (img.size - last.from) % UsizeMod = 0
    /\ last.n # 0 => last.from + last.n = pos /\ pos <= img.size

(* "Production code is panic-free" (lib.rs): no call panics. *)
NeverPanics == last.result # "panic"
=============================================================================
