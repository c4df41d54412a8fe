--------------------------- MODULE MCQcow2Reader ---------------------------
(***************************************************************************)
(* Qcow2Reader with a six-bit word (CompressedBit = 16, so 1 << 63 is 32): *)
(* small enough to try every u64 and every i64 a seek can be given.        *)
(* Clusters have four bytes, entries one.  A usize has six bits in the     *)
(* checked build and four, fewer than a word as on a 32-bit target, in the *)
(* other: there three of the disks have more bytes left than it holds, at  *)
(* some positions a multiple of 16, which it takes for 0.                  *)
(***************************************************************************)
EXTENDS Qcow2Reader

NoStream == [valid |-> FALSE, need |-> 1, outlen |-> 0, data |-> [i \in 0 .. -1 |-> 0]]

(* One L2 table at 4: a data cluster at 8 (cut at 10), a compressed one at *)
(* 7 that is no stream, a zero cluster, and an unallocated one.            *)
FileByte(p) ==
  CASE p = 4 -> 8 [] p = 5 -> 16 + 7 [] p = 6 -> 1 [] OTHER -> 0

Image(size, table) ==
  [size |-> size, cluster |-> 4, l1off |-> 0, l1size |-> 1,
   l1 |-> [i \in 0 .. 0 |-> table],
   len |-> 10,
   byte |-> [p \in 0 .. 9 |-> FileByte(p)],
   word |-> [p \in 0 .. 9 |-> FileByte(p)],
   stream |-> [p \in 0 .. 9 |-> NoStream]]

(* Disks that fit an i64, up to the largest, and one that does not. *)
SmallImages == {Image(18, 4), Image(31, 0), Image(0, 0), Image(40, 4)}

AllStarts == Word

AllMoves == -CopiedBit .. (CopiedBit - 1)
=============================================================================
