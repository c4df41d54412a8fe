----------------------------- MODULE TestImage -----------------------------
(***************************************************************************)
(* core/src/testutil.rs: test_qcow2, the builder of the image that the     *)
(* tests of this crate and, with the feature test-helpers, of other crates *)
(* read.  It lays out five clusters: header, L1 table, refcount table, L2  *)
(* table and data.                                                         *)
(***************************************************************************)
EXTENDS Integers, Sequences

L1_OFFSET(cluster) == cluster

L2_OFFSET(cluster) == 3 * cluster

DATA_OFFSET(cluster) == 4 * cluster

(* The header, in the fields of Qcow2Header; none of version 3 is set. *)
TestHeader(cluster, bits) ==
  [len |-> 5 * cluster, magic |-> TRUE, version |-> 2, boff |-> 0, bsize |-> 0,
   cluster_bits |-> bits, crypt |-> 0, l1size |-> 1, l1off |-> L1_OFFSET(cluster),
   nb |-> 0, incompat |-> {}, hlen |-> 0, ext |-> [p \in {} |-> 0]]

(* to_be_bytes of a table entry: byte k of its n. *)
BeByte(v, n, k) == (v \div (256 ^ (n - 1 - k))) % 256

(* What the builder writes at offset p; sector_data is cut to a cluster, or *)
(* followed by zeros.  Only the first entry of each table is set.           *)
TestByte(cluster, entry, sector_data, p) ==
  IF p \in L1_OFFSET(cluster) .. (L1_OFFSET(cluster) + entry - 1)
  THEN BeByte(L2_OFFSET(cluster), entry, p - L1_OFFSET(cluster))
  ELSE IF p \in L2_OFFSET(cluster) .. (L2_OFFSET(cluster) + entry - 1)
  THEN BeByte(DATA_OFFSET(cluster), entry, p - L2_OFFSET(cluster))
  ELSE IF p - DATA_OFFSET(cluster) + 1 \in DOMAIN sector_data
  THEN sector_data[p - DATA_OFFSET(cluster) + 1]
  ELSE 0
=============================================================================
