-------------------------- MODULE MCQcow2Source ----------------------------
(***************************************************************************)
(* Qcow2Source on small images: a 16-bit word (CompressedBit = 1 << 14),   *)
(* two-byte table entries, four-byte clusters (two entries per L2 table)   *)
(* and two-byte sectors.  The file of every image is laid out as           *)
(*    0 header, 4 L2 table 0, 8 L2 table 1, 12 and 16 data, 20 a stream    *)
(* and cut at its `len'; a data byte is its own file offset.               *)
(***************************************************************************)
EXTENDS Qcow2Source, TestImage

Flag == 32768        \* COPIED

Compressed(o) == 16384 + o

(* The L2 entries: data, compressed | zero with an offset, data. *)
Entry(p) ==
  CASE p = 4  -> Flag + 12
    [] p = 6  -> Compressed(20)
    [] p = 8  -> Flag + 17
    [] p = 10 -> 16

FileByte(p) ==
  IF p \in 4 .. 11
  THEN IF p % 2 = 0 THEN Entry(p) \div 256 ELSE Entry(p - 1) % 256
  ELSE p

NoStream == [valid |-> FALSE, need |-> 1, outlen |-> 0, data |-> [i \in 0 .. -1 |-> 0]]

Stream(valid, n) ==
  [valid |-> valid, need |-> 2, outlen |-> n, data |-> [i \in 0 .. (n - 1) |-> 101 + i]]

Image(size, l1, len, stream) ==
  [size |-> size, cluster |-> 4, l1off |-> 0, l1size |-> 2,
   l1 |-> [i \in 0 .. 1 |-> l1[i + 1]],
   len |-> len,
   byte |-> [p \in 0 .. (len - 1) |-> FileByte(p)],
   word |-> [p \in 0 .. (len - 1) |-> (FileByte(p) * 256 + FileByte(p + 1)) % 65536],
   stream |-> [p \in 0 .. (len - 1) |-> IF p = 20 THEN stream ELSE NoStream]]

(* The image of the tests as an open reader has it. *)
TestDisk(sector_data) ==
  LET byte(p) == TestByte(4, EntrySize, sector_data, p)
      word(p) == (byte(p) * 256 + byte(p + 1)) % 65536
  IN  [size |-> 4, cluster |-> 4, l1off |-> L1_OFFSET(4), l1size |-> 1,
       l1 |-> [i \in 0 .. 0 |-> word(L1_OFFSET(4))],
       len |-> TestHeader(4, 9).len,
       byte |-> [p \in 0 .. 19 |-> byte(p)],
       word |-> [p \in 0 .. 19 |-> word(p)],
       stream |-> [p \in 0 .. 19 |-> NoStream]]

(* "a minimal valid QCOW2 v2 image containing sector_data in cluster 0",   *)
(* "zero-padded or truncated" (testutil.rs).                               *)
ASSUME TestDiskReadsBack ==
  \A sector_data \in {<<>>, <<7, 8, 9>>, <<1, 2, 3, 4, 5>>} :
    LET disk == TestDisk(sector_data) IN
    /\ IsImage(disk)
    /\ \A v \in 0 .. 3, b \in 0 .. 255 :
         GuestByte(disk, v, b) <=>
           b = IF v + 1 \in DOMAIN sector_data THEN sector_data[v + 1] ELSE 0

Tables == <<Flag + 4, 8>>

Whole     == Image(13, Tables, 24, Stream(TRUE, 4))
ShortText == Image(13, Tables, 24, Stream(TRUE, 2))
CutText   == Image(13, Tables, 21, Stream(TRUE, 4))
BadText   == Image(13, Tables, 24, Stream(FALSE, 4))
CutData   == Image(13, Tables, 13, Stream(TRUE, 4))
CutTable  == Image(13, Tables, 10, Stream(TRUE, 4))
NoTable   == Image(13, <<0, 200>>, 24, Stream(TRUE, 4))
Huge      == Image(Flag + 6, Tables, 24, Stream(TRUE, 4))

AllImages == {Whole, ShortText, CutText, BadText, CutData, CutTable, NoTable, Huge,
              TestDisk(<<7, 8, 9>>)}

ShortStreams == {ShortText}

(* From the first cluster on, from inside the compressed one to the end of *)
(* the disk, past what an i64 holds.                                       *)
CallOffsets == {3, 7, Flag}
=============================================================================
