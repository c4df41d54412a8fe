-------------------------- MODULE MCForensicAudit --------------------------
(***************************************************************************)
(* ForensicAudit over images that vary in every fact a finding or a check  *)
(* depends on, with a header of 3 units (4 with the features).             *)
(***************************************************************************)
EXTENDS ForensicAudit

File(len, magic, version, bits, backing, crypt, incompat, nb, records, rt, orphans) ==
  [len |-> len, magic |-> magic, version |-> version,
   boff |-> IF backing THEN 5 ELSE 0, bsize |-> IF backing THEN 2 ELSE 0,
   cluster_bits |-> bits, crypt |-> crypt, l1size |-> 1, l1off |-> 4, nb |-> nb,
   incompat |-> incompat, hlen |-> 5,
   ext |-> [p \in {5} |-> [type |-> "backing format", len |-> 1]],
   st_ok |-> TRUE, records |-> records, rt_ok |-> rt, allocated |-> 2 * orphans, orphans |-> orphans]

Audited ==
  {File(9, TRUE, v, 16, b, c, i, nb, 2 + 6 * o, TRUE, o) :
     v \in 1 .. 3, b \in BOOLEAN, c \in {0, 2}, nb \in {0, 1, 8}, o \in 0 .. 1,
     i \in {{}, {"dirty", "external data"}, {"corrupt", "extended L2"}}}

(* Images that a probe refuses, and those with a snapshot table, announced *)
(* or not, out of reach.                                                   *)
Refused ==
  {File(len, m, v, bits, TRUE, 0, {"dirty"}, 1, 1, rt, 1) :
     len \in {2, 3, 9}, m \in BOOLEAN, v \in {1, 3, 4}, bits \in {8, 9},
     rt \in BOOLEAN}
  \cup {[f EXCEPT !.st_ok = FALSE] : f \in Audited}

SmallFiles == Audited \cup Refused

LegacyFiles == {File(9, TRUE, 1, 16, FALSE, 0, {}, 0, 0, FALSE, 0)}
=============================================================================
