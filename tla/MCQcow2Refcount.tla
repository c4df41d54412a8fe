-------------------------- MODULE MCQcow2Refcount --------------------------
(***************************************************************************)
(* Qcow2Refcount on eight four-byte clusters with one-byte table entries:  *)
(*    0 header, 4 refcount table, 8 L1, 12 and 24 L2, 16 refcount block,   *)
(*    20 and 28 data.                                                      *)
(* In an entry bit 6 is the compressed flag, bit 5 the first bit above the *)
(* offset mask and bits 0 and 1 are below it.                              *)
(***************************************************************************)
EXTENDS Qcow2Refcount

(* The refcount block, in every width, with zeros in each place. *)
Blocks == {<<0, a, b, c>> : a \in {0, 16, 255}, b \in {0, 1, 64}, c \in {0, 4, 255}}

(* Refcount tables: the block for every range, no block, one past the end. *)
RefTables == {<<16, 16, 16, 16>>, <<0, 16, 0, 16>>, <<60, 60, 60, 60>>}

(* An L2 table: data, compressed, zero with an offset, data. *)
Entries == <<128 + 20, 64 + 4, 24 + 1, 28>>

(* And one with a reserved bit set and low bits in the offset. *)
MoreEntries == <<32 + 20, 32, 2, 30>>

File(version, ord, table, top, l1size, block, len) ==
  LET at(p) ==
        CASE p \in 4 .. 7   -> table[p - 3]
          [] p \in 8 .. 11 /\ p - 7 \in DOMAIN top -> top[p - 7]
          [] p \in 12 .. 15 -> Entries[p - 11]
          [] p \in 16 .. 19 -> block[p - 15]
          [] p \in 24 .. 27 -> MoreEntries[p - 23]
          [] OTHER -> 0
  IN  [len |-> len, magic |-> TRUE, version |-> version, bits_ok |-> TRUE,
       cluster |-> 4, order |-> ord, rtoff |-> 4, rtclusters |-> 1,
       l1size |-> l1size, l1off |-> 8,
       byte |-> [p \in 0 .. (len - 1) |-> at(p)],
       word |-> [p \in 0 .. (len - 1) |-> at(p)]]

Plain == File(3, 3, <<16, 16, 16, 16>>, <<12, 0>>, 2, <<0, 0, 0, 0>>, 32)

(* Headers the report refuses, and a table outside the file. *)
Odd ==
  {[Plain EXCEPT !.magic = FALSE], [Plain EXCEPT !.version = 1],
   [Plain EXCEPT !.bits_ok = FALSE],
   File(3, 3, <<16, 16, 16, 16>>, <<12, 0>>, 2, <<0, 0, 0, 0>>, 1),
   [Plain EXCEPT !.rtoff = 30], [Plain EXCEPT !.rtoff = 0],
   [Plain EXCEPT !.l1size = 0]}

Short == {File(3, 3, t, <<12, 24>>, 2, <<0, 1, 1, 0>>, n) :
            t \in RefTables, n \in {14, 17, 22, 26}}
  \cup {File(3, 3, t, <<12, 0>>, 2, <<0, 1, 1, 0>>, 20) : t \in RefTables}

(* More data clusters than MaxScanned, tables longer than MaxL1, an L1     *)
(* entry with a reserved bit.                                              *)
Capped ==
  {File(3, o, t, <<12, 12>>, 2, b, 32) : o \in {1, 3}, t \in RefTables, b \in Blocks}
  \cup {[File(3, 3, <<16, 16, 0, 0>>, <<0, 12, 24>>, 5, b, 32) EXCEPT !.l1off = 6] : b \in Blocks}
  \cup {[File(3, 5, <<16, 0, 16, 0>>, <<12, 24>>, 2, b, 32) EXCEPT !.rtclusters = 2] : b \in Blocks}
  \cup {File(3, 3, t, <<32 + 12, 24>>, 2, <<0, 0, 0, 0>>, 32) : t \in RefTables}

SmallFiles ==
  {File(3, o, t, top, 2, b, 32) :
     o \in 0 .. 6, t \in RefTables, top \in {<<12, 24>>, <<24, 0>>, <<12, 0>>}, b \in Blocks}
  \cup {File(2, 0, t, <<128 + 12, 24>>, 2, b, 32) : t \in RefTables, b \in Blocks}
  \cup {File(3, 7, t, <<12, 24>>, 2, <<0, 0, 0, 0>>, 32) : t \in RefTables}
  \cup Short \cup Odd \cup Capped

(* The refcount table has no block for any range. *)
NoBlocks == {File(3, 3, <<0, 0, 0, 0>>, <<12, 0>>, 2, <<0, 0, 0, 0>>, 32)}

LostL1 == {[Plain EXCEPT !.l1off = 31]}
=============================================================================
