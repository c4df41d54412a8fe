-------------------------- MODULE MCQcow2Snapshots --------------------------
(***************************************************************************)
(* Qcow2Snapshots with a fixed part of three bytes, records aligned to two *)
(* bytes and a table at 4.  A place where no record was written decodes to *)
(* Stray: the contents of the table do not guard against a wrong cursor.   *)
(***************************************************************************)
EXTENDS Qcow2Snapshots

Stray == [id |-> 2, name |-> 0, extra |-> 0]

Records(extras) == [id : 0 .. 1, name : {0, 2}, extra : extras]

After(p, r) == p + ((3 + r.extra + r.id + r.name + 1) \div 2) * 2

File(a, b, nb, len) ==
  [len |-> len, magic |-> TRUE, nb |-> nb, table |-> 4,
   rec |-> [p \in 0 .. (len - 3) |->
              IF p = 4 THEN a ELSE IF p = After(4, a) THEN b ELSE Stray]]

Odd ==
  LET f == File(Stray, Stray, 2, 12) IN
  {[f EXCEPT !.magic = FALSE], [f EXCEPT !.table = 0], [f EXCEPT !.nb = 0],
   [f EXCEPT !.table = 31], [f EXCEPT !.table = 32], [f EXCEPT !.table = 32, !.nb = 0],
   [File(Stray, Stray, 2, 1) EXCEPT !.table = 0]}

(* Extra data up to the cap, files cut at every byte. *)
SmallFiles ==
  Odd \cup {File(a, b, nb, len) :
    a \in Records(0 .. 2), b \in Records({0, 2}), nb \in 1 .. 4, len \in 5 .. 21}

(* Extra data one byte past the cap. *)
MoreExtra ==
  {File(a, b, 2, 21) : a \in Records({3}), b \in Records({0})}
=============================================================================
