---------------------------- MODULE MCQcow2Open ----------------------------
(***************************************************************************)
(* Qcow2Open with a header of 4 units (5 with the features, 6 with its     *)
(* length), windows of 6 and 14 units and an L1 cap of 2, over files that  *)
(* vary in every field.                                                    *)
(***************************************************************************)
EXTENDS Qcow2Open, TestImage

Plain ==
  [len |-> 16, magic |-> TRUE, version |-> 3, boff |-> 0, bsize |-> 0,
   cluster_bits |-> 16, crypt |-> 0, l1size |-> 2, l1off |-> 4, nb |-> 0,
   incompat |-> {}, hlen |-> 6, ext |-> [p \in {} |-> 0]]

Lens == {3, 4, 5, 8}

SomeFeatures == {{}, {"dirty", "corrupt"}, {"dirty", "external data"}}

(* What decides whether a file is refused. *)
Refusals ==
  {[Plain EXCEPT !.len = len, !.version = v, !.boff = b, !.bsize = 1, !.cluster_bits = bits,
                 !.crypt = c, !.incompat = i] :
     len \in Lens, v \in 1 .. 4, b \in {0, 7}, bits \in {8, 9, 21}, c \in {0, 2},
     i \in SomeFeatures}

(* Where the L1 table is. *)
Tables ==
  {[Plain EXCEPT !.len = len, !.magic = m, !.version = 2, !.l1size = n, !.l1off = o] :
     len \in Lens, m \in BOOLEAN, n \in 0 .. 3, o \in {0, 4, 7, 20}}

Ext(type, len) == [type |-> type, len |-> len]

Heads == {Ext("end", 0), Ext("other", 0), Ext("other", 1), Ext("backing format", 2),
          Ext("backing format", 4)}

(* Header extensions, and names inside, across and past the window. *)
Overlays ==
  {[Plain EXCEPT !.boff = 12, !.bsize = 1, !.hlen = h,
                 !.ext = [p \in {6, 8, 10} |-> IF p = 6 THEN a ELSE IF p = 8 THEN b ELSE c]] :
     h \in {6, 8}, a \in Heads, b \in Heads, c \in Heads}
  \cup {[Plain EXCEPT !.version = v, !.hlen = h, !.len = 9, !.boff = 7, !.bsize = s,
                      !.ext = [p \in {4, 6} |-> IF p = 4 THEN a ELSE Ext("backing format", 1)]] :
          v \in 1 .. 3, h \in {0, 6}, a \in Heads, s \in {0, 2, 4}}

(* The image of the tests opens. *)
TestFile == TestHeader(4, 9)

ASSUME TestFileIsReadable == Readable(TestFile, TestFile)

SmallFiles == {TestFile} \cup Refusals \cup Tables \cup Overlays

(* Headers further on: one that is whole, and bytes that are none. *)
InnerHeaders ==
  {[Plain EXCEPT !.len = 7], [Plain EXCEPT !.len = 6, !.magic = FALSE]}
=============================================================================
