------------------------- MODULE Qcow2SourceProofs --------------------------
(***************************************************************************)
(* Proofs about Qcow2Source, for every set of threads, every image and     *)
(* every request.                                                          *)
(***************************************************************************)
EXTENDS Qcow2Source, Qcow2FormatProofs, TLAPS

-----------------------------------------------------------------------------
(***************************************************************************)
(* The inductive invariant: the types, the lock discipline with what each  *)
(* thread inside the mutex relies on, what every call has asked for, and   *)
(* the properties of what it got.                                          *)
(***************************************************************************)
CallsInv ==
  \A t \in Threads :
    /\ want[t] = 0 \/ off[t] + want[t] <= img.size
    /\ pc[t] # "idle" => res[t] = "none"
    /\ pc[t] \in {"lock", "seek"} => total[t] = 0

Inv ==
  /\ TypeOK
  /\ CursorsHeld
  /\ CallsInv
  /\ ReadAtFaithful
  /\ ShortReadOnlyAtTruncation
  /\ ErrorTellsOfDefect

(* Facts about the image and the call of a thread inside a backing call or *)
(* about to make one.                                                      *)
LEMMA InsideFacts ==
  ASSUME Inv, NEW t \in Threads, pc[t] \in {"loop"} \cup BackingCalls,
         total[t] < want[t]
  PROVE  /\ IsImage(img)
         /\ lock = t
         /\ pos \in Nat /\ pos = off[t] + total[t] /\ pos < img.size
         /\ img.size \in Nat
         /\ ToRead(t) \in Nat \ {0}
         /\ total[t] + ToRead(t) <= want[t]
         /\ OffsetInCluster(img, pos) + ToRead(t) <= img.cluster
<1>1. IsImage(img)
  BY SourceAssumption DEF Inv, TypeOK
<1>2. img.size \in Nat /\ img.cluster \in Nat \ {0}
  BY <1>1, FormatAssumption DEF IsImage, Word, CopiedBit
<1>3. /\ pos \in Nat /\ pos = off[t] + total[t]
      /\ off[t] \in Nat /\ total[t] \in Nat /\ want[t] \in Nat
      /\ lock = t
  BY DEF Inv, TypeOK, CursorsHeld, HoldsPlace, Inside
<1>4. pos < img.size
  BY <1>2, <1>3 DEF Inv, CallsInv
<1>5. OffsetInCluster(img, pos) \in 0 .. (img.cluster - 1)
  BY <1>1, <1>3, LookupTypes
<1>6. QED
  BY <1>1, <1>2, <1>3, <1>4, <1>5 DEF ToRead, Smaller

(* read() returned Ok(n) with the right bytes: the invariant goes on. *)
LEMMA DeliverKeepsInv ==
  ASSUME Inv, NEW t \in Threads, pc[t] \in {"loop"} \cup BackingCalls,
         total[t] < want[t],
         NEW n \in 1 .. ToRead(t), NEW b,
         b \in [0 .. (want[t] - 1) -> Byte \cup {Stale}],
         \A i \in 0 .. (want[t] - 1) :
           IF total[t] <= i /\ i < total[t] + n
           THEN GuestByte(img, off[t] + i, b[i])
           ELSE b[i] = buf[t][i],
         buf' = [buf EXCEPT ![t] = b],
         total' = [total EXCEPT ![t] = total[t] + n],
         pos' = pos + n,
         ref' = [ref EXCEPT ![t] = Unallocated],
         pc' = [pc EXCEPT ![t] = "loop"],
         fpos' \in Nat,
         UNCHANGED <<img, lock, poisoned, off, want, res>>
  PROVE  Inv'
<1>1. /\ ToRead(t) \in Nat \ {0} /\ total[t] + ToRead(t) <= want[t]
      /\ lock = t /\ pos \in Nat /\ pos = off[t] + total[t]
  BY InsideFacts
<1>2. total[t] + n \in Nat /\ total[t] + n <= want[t] /\ pos + n \in Nat
  BY <1>1 DEF Inv, TypeOK
<1>3. TypeOK'
  <2>1. Unallocated \in Refs
    BY DEF Unallocated, Ref, Refs
  <2>2. total' \in [Threads -> Nat] /\ pc' \in [Threads -> {"idle", "lock"} \cup Inside]
    BY <1>2 DEF Inv, TypeOK, Inside
  <2>3. ref' \in [Threads -> Refs]
    BY <2>1 DEF Inv, TypeOK
  <2>4. /\ DOMAIN buf' = Threads
        /\ \A u \in Threads : buf'[u] \in [0 .. (want'[u] - 1) -> Byte \cup {Stale}]
    BY DEF Inv, TypeOK
  <2>5. QED
    BY <1>2, <2>2, <2>3, <2>4 DEF Inv, TypeOK
<1>4. CursorsHeld'
  <2>1. \A u \in Threads : pc'[u] \in Inside <=> lock' = u
    BY <1>1 DEF Inv, TypeOK, CursorsHeld, Inside
  <2>2. ASSUME NEW u \in Threads PROVE HoldsPlace(u)'
    <3>1. CASE u = t
      BY <1>1, <3>1 DEF Inv, TypeOK, HoldsPlace, BackingCalls
    <3>2. CASE u # t
      <4>1. pc'[u] = pc[u] /\ pc[u] \notin Inside
        BY <1>1, <3>2 DEF Inv, TypeOK, CursorsHeld
      <4>2. QED
        BY <4>1 DEF HoldsPlace, Inside, BackingCalls
    <3>3. QED
      BY <3>1, <3>2
  <2>3. QED
    BY <2>1, <2>2 DEF CursorsHeld
<1>5. CallsInv' /\ res[t] = "none"
  BY DEF Inv, TypeOK, CallsInv, BackingCalls
<1>6. ReadAtFaithful'
  <2>1. ASSUME NEW u \in Threads
        PROVE  /\ total'[u] <= want'[u]
               /\ \A i \in 0 .. (want'[u] - 1) :
                    IF i < total'[u] THEN GuestByte(img', off'[u] + i, buf'[u][i])
                                     ELSE buf'[u][i] = Stale
    <3>1. CASE u = t
      <4>1. /\ total[t] \in Nat /\ want[t] \in Nat /\ total'[t] = total[t] + n
            /\ buf'[t] = b
        BY DEF Inv, TypeOK
      <4>2. ASSUME NEW i \in 0 .. (want[t] - 1)
            PROVE  IF i < total[t] + n THEN GuestByte(img, off[t] + i, b[i])
                                       ELSE b[i] = Stale
        BY <4>1, <1>2 DEF Inv, ReadAtFaithful
      <4>3. QED
        BY <4>1, <4>2, <1>2, <3>1
    <3>2. CASE u # t
      BY <3>2 DEF Inv, TypeOK, ReadAtFaithful
    <3>3. QED
      BY <3>1, <3>2
  <2>2. QED
    BY <2>1 DEF ReadAtFaithful
<1>7. ShortReadOnlyAtTruncation'
  BY <1>5 DEF Inv, TypeOK, ShortReadOnlyAtTruncation
<1>8. ErrorTellsOfDefect'
  BY <1>5 DEF Inv, TypeOK, ErrorTellsOfDefect
<1>9. QED
  BY <1>3, <1>4, <1>5, <1>6, <1>7, <1>8 DEF Inv

(* The call ends and the guard is dropped: the invariant goes on if the    *)
(* way it ends is justified.                                               *)
LEMMA LeaveKeepsInv ==
  ASSUME Inv, NEW t \in Threads, pc[t] \in Inside,
         NEW how \in Results \ {"none"}, Leave(t, how),
         how = "ok" /\ total[t] < want[t] => Truncated(img, off[t] + total[t]),
         how = "err" =>
           \/ off[t] >= CopiedBit
           \/ ~Resolved(img, off[t] + total[t])
           \/ /\ GuestRef(img, off[t] + total[t]).kind = "compressed"
              /\ InflateMayFail(img, GuestRef(img, off[t] + total[t])),
         poisoned' \in BOOLEAN, fpos' \in Nat,
         UNCHANGED <<img, pos, off, want, total, buf>>
  PROVE  Inv'
<1>1. lock = t
  BY DEF Inv, CursorsHeld
<1>2. TypeOK'
  <2>1. Unallocated \in Refs
    BY DEF Unallocated, Ref, Refs
  <2>2. QED
    BY <2>1 DEF Leave, Inv, TypeOK
<1>3. CursorsHeld'
  <2>1. \A u \in Threads : pc'[u] \notin Inside /\ lock' # u
    BY <1>1, SourceAssumption
    DEF Leave, Inv, TypeOK, CursorsHeld, Inside, BackingCalls
  <2>2. QED
    BY <2>1 DEF CursorsHeld, HoldsPlace, Inside, BackingCalls
<1>4. CallsInv'
  BY DEF Leave, Inv, TypeOK, CallsInv
<1>5. ReadAtFaithful'
  BY DEF Inv, ReadAtFaithful
<1>6. ShortReadOnlyAtTruncation'
  BY DEF Leave, Inv, TypeOK, ShortReadOnlyAtTruncation
<1>7. ErrorTellsOfDefect'
  BY DEF Leave, Inv, TypeOK, ErrorTellsOfDefect
<1>8. QED
  BY <1>2, <1>3, <1>4, <1>5, <1>6, <1>7 DEF Inv

(* A step that only takes a thread inside on to its next call of the       *)
(* backing keeps the invariant if that thread knows its place there.       *)
LEMMA AdvanceKeepsInv ==
  ASSUME Inv, NEW t \in Threads, pc[t] \in Inside,
         NEW next \in {"loop"} \cup BackingCalls, pc' = [pc EXCEPT ![t] = next],
         pos' \in Nat, fpos' \in Nat, ref' \in [Threads -> Refs],
         HoldsPlace(t)',
         UNCHANGED <<img, lock, poisoned, off, want, total, buf, res>>
  PROVE  Inv'
<1>1. lock = t
  BY DEF Inv, CursorsHeld
<1>2. TypeOK'
  BY DEF Inv, TypeOK, Inside
<1>3. CursorsHeld'
  <2>1. \A u \in Threads : pc'[u] \in Inside <=> lock' = u
    BY <1>1 DEF Inv, TypeOK, CursorsHeld, Inside
  <2>2. ASSUME NEW u \in Threads, u # t PROVE HoldsPlace(u)'
    <3>1. pc'[u] \notin Inside
      BY <1>1, <2>1, <2>2
    <3>2. QED
      BY <3>1 DEF HoldsPlace, Inside, BackingCalls
  <2>3. QED
    BY <2>1, <2>2 DEF CursorsHeld
<1>4. CallsInv'
  BY DEF Inv, TypeOK, CallsInv, Inside, BackingCalls
<1>5. ReadAtFaithful' /\ ShortReadOnlyAtTruncation' /\ ErrorTellsOfDefect'
  BY DEF Inv, ReadAtFaithful, ShortReadOnlyAtTruncation, ErrorTellsOfDefect
<1>6. QED
  BY <1>2, <1>3, <1>4, <1>5 DEF Inv

-----------------------------------------------------------------------------
(* One lemma per action. *)

(* The initial states satisfy the invariant. *)
LEMMA InitInv == Init => Inv
<1> SUFFICES ASSUME Init PROVE Inv
  OBVIOUS
<1>1. IsImage(img)
  BY SourceAssumption DEF Init
<1>2. TypeOK
  <2>1. Unallocated \in Refs
    BY DEF Unallocated, Ref, Refs
  <2>2. img.l1off + img.l1size * EntrySize \in Nat
    <3>1. img.l1off \in Nat /\ img.l1size \in Nat
      BY <1>1 DEF IsImage
    <3>2. EntrySize \in Nat
      BY FormatAssumption
    <3>3. QED
      BY <3>1, <3>2, SumOfProduct
  <2>3. \A t \in Threads : buf[t] \in [0 .. (want[t] - 1) -> Byte \cup {Stale}]
    BY DEF Init
  <2>4. QED
    BY <2>1, <2>2, <2>3 DEF Init, TypeOK, Results
<1>3. CursorsHeld
  BY SourceAssumption DEF Init, CursorsHeld, HoldsPlace, Inside, BackingCalls
<1>4. CallsInv /\ ReadAtFaithful
  BY DEF Init, CallsInv, ReadAtFaithful
<1>5. ShortReadOnlyAtTruncation /\ ErrorTellsOfDefect
  BY DEF Init, ShortReadOnlyAtTruncation, ErrorTellsOfDefect
<1>6. QED
  BY <1>2, <1>3, <1>4, <1>5 DEF Inv

(* A new call asks for bytes the disk has. *)
LEMMA ReadAtInv ==
  ASSUME Inv, NEW t \in Threads, NEW o \in Offsets, NEW n \in Lengths,
         ReadAt(t, o, n)
  PROVE  Inv'
<1> DEFINE avail == IF o <= img.size THEN img.size - o ELSE 0
           w == Smaller(n, avail)
<1>1. o \in Nat /\ n \in Nat
  BY SourceAssumption
<1>2. img.size \in Nat
  BY SourceAssumption, FormatAssumption DEF Inv, TypeOK, IsImage, Word, CopiedBit
<1>3. avail \in Nat /\ w \in Nat /\ (w = 0 \/ o + w <= img.size) /\ (avail = 0 => w = 0)
  BY <1>1, <1>2 DEF Smaller
<1>4. /\ pc[t] = "idle"
      /\ off' = [off EXCEPT ![t] = o]
      /\ want' = [want EXCEPT ![t] = w]
      /\ total' = [total EXCEPT ![t] = 0]
      /\ buf' = [buf EXCEPT ![t] = [i \in 0 .. (w - 1) |-> Stale]]
      /\ \/ w = 0 /\ res' = [res EXCEPT ![t] = "ok"] /\ pc' = [pc EXCEPT ![t] = "idle"]
         \/ pc' = [pc EXCEPT ![t] = "lock"] /\ res' = [res EXCEPT ![t] = "none"]
      /\ UNCHANGED <<img, lock, poisoned, pos, fpos, ref>>
  <2>1. avail = Avail(o)
    BY DEF Avail
  <2>2. CASE avail = 0
    BY <1>3, <2>1, <2>2 DEF ReadAt, Request
  <2>3. CASE avail # 0
    BY <2>1, <2>3 DEF ReadAt, Request
  <2>4. QED
    BY <2>2, <2>3
<1> HIDE DEF avail, w
<1>5. TypeOK'
  <2>1. /\ off' \in [Threads -> Nat] /\ want' \in [Threads -> Nat]
        /\ total' \in [Threads -> Nat]
    BY <1>1, <1>3, <1>4 DEF Inv, TypeOK
  <2>2. /\ pc' \in [Threads -> {"idle", "lock"} \cup Inside]
        /\ res' \in [Threads -> Results]
    BY <1>4 DEF Inv, TypeOK, Results
  <2>3. /\ DOMAIN buf' = Threads
        /\ \A u \in Threads : buf'[u] \in [0 .. (want'[u] - 1) -> Byte \cup {Stale}]
    BY <1>4 DEF Inv, TypeOK
  <2>4. QED
    BY <1>4, <2>1, <2>2, <2>3 DEF Inv, TypeOK
<1>6. CursorsHeld'
  <2>1. ASSUME NEW u \in Threads
        PROVE  (pc'[u] \in Inside <=> lock' = u) /\ HoldsPlace(u)'
    <3>1. CASE u = t
      <4>1. pc'[u] \notin Inside /\ lock # t
        BY <1>4, <3>1 DEF Inv, TypeOK, CursorsHeld, Inside, BackingCalls
      <4>2. QED
        BY <4>1, <1>4, <3>1 DEF HoldsPlace, Inside, BackingCalls
    <3>2. CASE u # t
      <4>1. /\ pc'[u] = pc[u] /\ off'[u] = off[u] /\ total'[u] = total[u]
            /\ want'[u] = want[u]
        BY <1>4, <3>2 DEF Inv, TypeOK
      <4>2. QED
        BY <4>1, <1>4 DEF Inv, CursorsHeld, HoldsPlace
    <3>3. QED
      BY <3>1, <3>2
  <2>2. QED
    BY <2>1 DEF CursorsHeld
<1>7. CallsInv'
  BY <1>3, <1>4 DEF Inv, TypeOK, CallsInv
<1>8. ReadAtFaithful'
  <2>1. ASSUME NEW u \in Threads
        PROVE  /\ total'[u] <= want'[u]
               /\ \A i \in 0 .. (want'[u] - 1) :
                    IF i < total'[u] THEN GuestByte(img', off'[u] + i, buf'[u][i])
                                     ELSE buf'[u][i] = Stale
    <3>1. CASE u = t
      BY <3>1, <1>3, <1>4 DEF Inv, TypeOK
    <3>2. CASE u # t
      BY <3>2, <1>4 DEF Inv, TypeOK, ReadAtFaithful
    <3>3. QED
      BY <3>1, <3>2
  <2>2. QED
    BY <2>1 DEF ReadAtFaithful
<1>9. ShortReadOnlyAtTruncation'
  BY <1>4 DEF Inv, TypeOK, ShortReadOnlyAtTruncation
<1>10. ErrorTellsOfDefect'
  BY <1>4 DEF Inv, TypeOK, ErrorTellsOfDefect
<1>11. QED
  BY <1>5, <1>6, <1>7, <1>8, <1>9, <1>10 DEF Inv

(* The mutex is entered by one thread, when it is free. *)
LEMMA LockInv ==
  ASSUME Inv, NEW t \in Threads, Lock(t)
  PROVE  Inv'
<1>1. TypeOK'
  BY DEF Lock, MutexFree, Inv, TypeOK, Inside
<1>2. CursorsHeld'
  <2>1. \A u \in Threads : pc[u] \notin Inside
    BY SourceAssumption DEF Lock, MutexFree, Inv, CursorsHeld
  <2>2. \A u \in Threads : pc'[u] \in Inside <=> lock' = u
    BY <2>1 DEF Lock, MutexFree, Inv, TypeOK, Inside
  <2>3. \A u \in Threads : pc'[u] \notin {"loop"} \cup BackingCalls
    BY <2>1 DEF Lock, MutexFree, Inv, TypeOK, Inside, BackingCalls
  <2>4. QED
    BY <2>2, <2>3 DEF CursorsHeld, HoldsPlace, BackingCalls
<1>3. CallsInv'
  BY DEF Lock, MutexFree, Inv, TypeOK, CallsInv
<1>4. ReadAtFaithful' /\ ShortReadOnlyAtTruncation' /\ ErrorTellsOfDefect'
  BY DEF Lock, MutexFree, Inv, ReadAtFaithful, ShortReadOnlyAtTruncation, ErrorTellsOfDefect
<1>5. QED
  BY <1>1, <1>2, <1>3, <1>4 DEF Inv

(* The seek puts the cursor at the caller's offset, or refuses it. *)
LEMMA SeekStartInv ==
  ASSUME Inv, NEW t \in Threads, SeekStart(t)
  PROVE  Inv'
<1>1. pc[t] \in Inside /\ fpos' \in Nat /\ poisoned' \in BOOLEAN
  BY DEF SeekStart, Inside, Inv, TypeOK
<1>2. CASE off[t] < CopiedBit
  <2>1. /\ pc' = [pc EXCEPT ![t] = "loop"] /\ pos' = off[t]
        /\ UNCHANGED <<img, lock, poisoned, fpos, off, want, total, buf, ref, res>>
    BY <1>2 DEF SeekStart
  <2>2. HoldsPlace(t)'
    BY <2>1 DEF HoldsPlace, SeekStart, Inv, TypeOK, CallsInv, BackingCalls
  <2>3. QED
    BY <1>1, <2>1, <2>2, AdvanceKeepsInv DEF Inv, TypeOK, Inside
<1>3. CASE ~(off[t] < CopiedBit)
  <2>1. /\ Leave(t, "err")
        /\ UNCHANGED <<img, pos, off, want, total, buf>>
    BY <1>3 DEF SeekStart
  <2>2. off[t] >= CopiedBit
    BY <1>3, FormatAssumption DEF Inv, TypeOK, CopiedBit
  <2>3. QED
    BY <1>1, <2>1, <2>2, LeaveKeepsInv DEF Results
<1>4. QED
  BY <1>2, <1>3

(* The loop ends with a full buffer: the disk's end never comes first. *)
LEMMA LoopExitInv ==
  ASSUME Inv, NEW t \in Threads, LoopExit(t)
  PROVE  Inv'
<1>1. /\ pc[t] \in Inside /\ fpos' \in Nat /\ poisoned' \in BOOLEAN
      /\ Leave(t, "ok") /\ UNCHANGED <<img, pos, off, want, total, buf>>
  BY DEF LoopExit, LoopOver, Inside, Inv, TypeOK
<1>2. ~(total[t] < want[t])
  <2>1. SUFFICES ASSUME total[t] < want[t] PROVE FALSE
    OBVIOUS
  <2>2. pos < img.size /\ pos \in Nat /\ img.size \in Nat
    BY <2>1, InsideFacts DEF LoopExit, LoopOver
  <2>3. total[t] \in Nat /\ want[t] \in Nat
    BY DEF Inv, TypeOK
  <2>4. QED
    BY <2>1, <2>2, <2>3 DEF LoopExit, LoopOver
<1>3. QED
  BY <1>1, <1>2, LeaveKeepsInv DEF Results

(* A backing that fails or panics ends the call and nothing else. *)
LEMMA FaultInv ==
  ASSUME Inv, NEW t \in Threads, IoError(t) \/ BackingPanic(t)
  PROVE  Inv'
<1>1. /\ pc[t] \in Inside /\ fpos' \in Nat /\ poisoned' \in BOOLEAN
      /\ UNCHANGED <<img, pos, off, want, total, buf>>
      /\ Leave(t, "io") \/ Leave(t, "panic")
  BY DEF IoError, BackingPanic, Inside, Inv, TypeOK
<1>2. CASE Leave(t, "io")
  BY <1>1, <1>2, LeaveKeepsInv DEF Results
<1>3. CASE Leave(t, "panic")
  BY <1>1, <1>3, LeaveKeepsInv DEF Results
<1>4. QED
  BY <1>1, <1>2, <1>3

(* What Deliver writes, byte by byte. *)
LEMMA DeliverWrites ==
  ASSUME NEW t, NEW n \in Nat, NEW chunk, NEW b,
         want[t] \in Nat, total[t] \in Nat,
         Deliver(t, n, chunk),
         b = [i \in 0 .. (want[t] - 1) |-> b[i]],
         \A i \in 0 .. (want[t] - 1) :
           b[i] = IF total[t] <= i /\ i < total[t] + n
                  THEN chunk[i - total[t]] ELSE buf[t][i]
  PROVE  /\ buf' = [buf EXCEPT ![t] = b]
         /\ total' = [total EXCEPT ![t] = total[t] + n]
         /\ pos' = pos + n
         /\ ref' = [ref EXCEPT ![t] = Unallocated]
         /\ pc' = [pc EXCEPT ![t] = "loop"]
         /\ UNCHANGED <<lock, res>>
<1> DEFINE c == [i \in 0 .. (want[t] - 1) |->
                   IF total[t] <= i /\ i < total[t] + n
                   THEN chunk[i - total[t]] ELSE buf[t][i]]
<1>1. c = b
  BY Zenon
<1>2. buf' = [buf EXCEPT ![t] = c]
  BY DEF Deliver
<1>3. QED
  BY <1>1, <1>2 DEF Deliver

(* A chunk of zeros is delivered where the cluster under the cursor holds  *)
(* none.                                                                   *)
LEMMA DeliverZerosInv ==
  ASSUME Inv, NEW t \in Threads, pc[t] \in {"loop"} \cup BackingCalls,
         total[t] < want[t],
         Deliver(t, ToRead(t), Zeros(ToRead(t))),
         \/ L2TableOffset(img, pos) = 0
         \/ /\ WordReadable(img, L2EntryPos(img, pos))
            /\ GuestRef(img, pos).kind \in {"unallocated", "zero"},
         fpos' \in Nat,
         UNCHANGED <<img, poisoned, off, want>>
  PROVE  Inv'
<1> DEFINE n == ToRead(t)
           b == [i \in 0 .. (want[t] - 1) |->
                   IF total[t] <= i /\ i < total[t] + n THEN 0 ELSE buf[t][i]]
<1>1. /\ IsImage(img) /\ pos \in Nat /\ pos = off[t] + total[t]
      /\ n \in Nat \ {0} /\ OffsetInCluster(img, pos) + n <= img.cluster
  BY InsideFacts
<1>2. OffsetInCluster(img, pos) \in Nat /\ img.cluster \in Nat
  <2>1. OffsetInCluster(img, pos) \in 0 .. (img.cluster - 1) /\ img.cluster \in Nat
    BY <1>1, LookupTypes DEF IsImage
  <2>2. QED
    BY <2>1
<1>3. off[t] \in Nat /\ total[t] \in Nat /\ want[t] \in Nat
  BY DEF Inv, TypeOK
<1>4. ASSUME NEW i \in 0 .. (want[t] - 1), total[t] <= i, i < total[t] + n
      PROVE  GuestByte(img, off[t] + i, 0)
  <2>1. i - total[t] \in Nat /\ off[t] + i = pos + (i - total[t])
    BY <1>1, <1>3, <1>4
  <2>2. OffsetInCluster(img, pos) + (i - total[t]) < img.cluster
    BY <1>1, <1>2, <1>3, <1>4
  <2>3. GuestByte(img, pos + (i - total[t]), 0)
    BY <1>1, <2>1, <2>2, ZerosAreRight
  <2>4. QED
    BY <2>1, <2>3
<1>5. b \in [0 .. (want[t] - 1) -> Byte \cup {Stale}]
  <2>1. buf[t] \in [0 .. (want[t] - 1) -> Byte \cup {Stale}] /\ 0 \in Byte
    BY DEF Inv, TypeOK, Byte
  <2>2. QED
    BY <2>1
<1>6. \A i \in 0 .. (want[t] - 1) :
        IF total[t] <= i /\ i < total[t] + n
        THEN GuestByte(img, off[t] + i, b[i]) ELSE b[i] = buf[t][i]
  BY <1>4
<1>7. /\ buf' = [buf EXCEPT ![t] = b]
      /\ total' = [total EXCEPT ![t] = total[t] + n]
      /\ pos' = pos + n
      /\ ref' = [ref EXCEPT ![t] = Unallocated]
      /\ pc' = [pc EXCEPT ![t] = "loop"]
      /\ UNCHANGED <<img, lock, poisoned, off, want, res>>
  <2> DEFINE chunk == Zeros(n)
  <2>1. \A i \in 0 .. (want[t] - 1) :
          total[t] <= i /\ i < total[t] + n => chunk[i - total[t]] = 0
    BY <1>1, <1>3 DEF Zeros
  <2>2. n \in Nat /\ Deliver(t, n, chunk)
    BY <1>1
  <2> HIDE DEF n, chunk
  <2>3. \A i \in 0 .. (want[t] - 1) :
          b[i] = IF total[t] <= i /\ i < total[t] + n
                 THEN chunk[i - total[t]] ELSE buf[t][i]
    BY <2>1
  <2>4. b = [i \in 0 .. (want[t] - 1) |-> b[i]]
    OBVIOUS
  <2> HIDE DEF b
  <2>5. /\ buf' = [buf EXCEPT ![t] = b]
        /\ total' = [total EXCEPT ![t] = total[t] + n]
        /\ pos' = pos + n
        /\ ref' = [ref EXCEPT ![t] = Unallocated]
        /\ pc' = [pc EXCEPT ![t] = "loop"]
        /\ UNCHANGED <<lock, res>>
    BY <1>3, <2>2, <2>3, <2>4, DeliverWrites
  <2>6. QED
    BY <2>5
<1>8. n \in 1 .. ToRead(t)
  BY <1>1
<1> HIDE DEF n, b
<1>9. QED
  BY <1>5, <1>6, <1>7, <1>8, DeliverKeepsInv

(* read() is entered: zeros for a missing table, or on to the L2 entry. *)
LEMMA ReadEnterInv ==
  ASSUME Inv, NEW t \in Threads, ReadEnter(t)
  PROVE  Inv'
<1>1. /\ pc[t] = "loop" /\ total[t] < want[t]
      /\ pc[t] \in {"loop"} \cup BackingCalls /\ pc[t] \in Inside
  BY DEF ReadEnter, LoopOver, Inside, Inv, TypeOK
<1>2. IsImage(img) /\ pos \in Nat /\ pos = off[t] + total[t]
  BY <1>1, InsideFacts
<1>3. CASE L2TableOffset(img, pos) = 0
  <2>1. /\ Deliver(t, ToRead(t), Zeros(ToRead(t))) /\ fpos' \in Nat
        /\ UNCHANGED <<img, poisoned, off, want>>
    BY <1>3 DEF ReadEnter, Inv, TypeOK
  <2>2. QED
    BY <1>1, <1>3, <2>1, DeliverZerosInv
<1>4. CASE L2TableOffset(img, pos) # 0
  <2>1. /\ fpos' = L2EntryPos(img, pos)
        /\ pc' = [pc EXCEPT ![t] = "l2"]
        /\ UNCHANGED <<img, lock, poisoned, pos, off, want, total, buf, ref, res>>
    BY <1>4 DEF ReadEnter
  <2>2. fpos' \in Nat
    BY <1>2, <2>1, LookupTypes
  <2>3. HoldsPlace(t)'
    BY <1>1, <1>2, <1>4, <2>1 DEF HoldsPlace, Inv, TypeOK, BackingCalls
  <2>4. QED
    BY <1>1, <1>2, <2>1, <2>2, <2>3, AdvanceKeepsInv DEF Inv, TypeOK, Inside, BackingCalls
<1>5. QED
  BY <1>3, <1>4

(* An L2 entry outside the backing is an error. *)
LEMMA L2MissingInv ==
  ASSUME Inv, NEW t \in Threads, L2Missing(t)
  PROVE  Inv'
<1>1. /\ pc[t] = "l2" /\ pc[t] \in Inside /\ pc[t] \in {"loop"} \cup BackingCalls
      /\ Leave(t, "err")
      /\ UNCHANGED <<img, poisoned, pos, off, want, total, buf>>
  BY DEF L2Missing, Inside, BackingCalls
<1>2. /\ total[t] < want[t] /\ fpos = L2EntryPos(img, pos)
      /\ L2TableOffset(img, pos) # 0
  BY <1>1 DEF Inv, CursorsHeld, HoldsPlace, BackingCalls
<1>3. IsImage(img) /\ pos = off[t] + total[t]
  BY <1>1, <1>2, InsideFacts
<1>4. ~Resolved(img, off[t] + total[t])
  BY <1>2, <1>3 DEF L2Missing, Resolved
<1>5. fpos' \in Nat /\ poisoned' \in BOOLEAN
  BY <1>1, <1>3 DEF L2Missing, Inv, TypeOK, IsImage
<1>6. QED
  BY <1>1, <1>4, <1>5, LeaveKeepsInv DEF Results

(* The entry is decoded into the reference of the cluster under the        *)
(* cursor, and the backing is put where that cluster is stored.            *)
LEMMA L2ReadInv ==
  ASSUME Inv, NEW t \in Threads, L2Read(t)
  PROVE  Inv'
<1> DEFINE e == DecodeL2(img, img.word[fpos])
<1>1. /\ pc[t] = "l2" /\ pc[t] \in Inside /\ pc[t] \in {"loop"} \cup BackingCalls
      /\ WordReadable(img, fpos)
      /\ UNCHANGED <<img, poisoned, off, want>>
  BY DEF L2Read, Inside, BackingCalls
<1>2. /\ total[t] < want[t] /\ fpos = L2EntryPos(img, pos)
      /\ L2TableOffset(img, pos) # 0
  BY <1>1 DEF Inv, CursorsHeld, HoldsPlace, BackingCalls
<1>3. IsImage(img) /\ pos \in Nat /\ pos = off[t] + total[t]
  BY <1>1, <1>2, InsideFacts
<1>4. e = GuestRef(img, pos) /\ e \in Refs
  BY <1>1, <1>2, <1>3, GuestRefType
<1>5. e.off \in Nat /\ e.kind \in {"unallocated", "zero", "normal", "compressed"}
  BY <1>4 DEF Refs
<1>6. CASE e.kind = "normal"
  <2>1. /\ fpos' = e.off + OffsetInCluster(img, pos)
        /\ ref' = [ref EXCEPT ![t] = e]
        /\ pc' = [pc EXCEPT ![t] = "data"]
        /\ UNCHANGED <<lock, pos, total, buf, res>>
    BY <1>6 DEF L2Read
  <2>2. OffsetInCluster(img, pos) \in 0 .. (img.cluster - 1)
    BY <1>3, LookupTypes
  <2>3. fpos' \in Nat /\ pos' \in Nat
    BY <1>3, <1>5, <2>1, <2>2
  <2>4. ref' \in [Threads -> Refs]
    BY <1>4, <2>1 DEF Inv, TypeOK
  <2>5. HoldsPlace(t)'
    <3>1. pc'[t] = "data" /\ ref'[t] = e
      BY <2>1 DEF Inv, TypeOK
    <3>2. fpos' = FileOffset(img, pos)
      BY <1>4, <2>1 DEF FileOffset
    <3>3. QED
      BY <1>1, <1>2, <1>3, <1>4, <1>6, <2>1, <3>1, <3>2 DEF HoldsPlace, BackingCalls
  <2>6. QED
    BY <1>1, <2>1, <2>3, <2>4, <2>5, AdvanceKeepsInv DEF BackingCalls
<1>7. CASE e.kind = "compressed"
  <2>1. /\ fpos' = e.off
        /\ ref' = [ref EXCEPT ![t] = e]
        /\ pc' = [pc EXCEPT ![t] = "inflate"]
        /\ UNCHANGED <<lock, pos, total, buf, res>>
    BY <1>7 DEF L2Read
  <2>2. fpos' \in Nat /\ pos' \in Nat
    BY <1>3, <1>5, <2>1
  <2>3. ref' \in [Threads -> Refs]
    BY <1>4, <2>1 DEF Inv, TypeOK
  <2>4. HoldsPlace(t)'
    <3>1. pc'[t] = "inflate" /\ ref'[t] = e
      BY <2>1 DEF Inv, TypeOK
    <3>2. QED
      BY <1>1, <1>2, <1>3, <1>4, <1>7, <2>1, <3>1 DEF HoldsPlace, BackingCalls
  <2>5. QED
    BY <1>1, <2>1, <2>2, <2>3, <2>4, AdvanceKeepsInv DEF BackingCalls
<1>8. CASE e.kind \in {"unallocated", "zero"}
  <2>1. fpos' = fpos + EntrySize /\ Deliver(t, ToRead(t), Zeros(ToRead(t)))
    BY <1>8 DEF L2Read
  <2>2. fpos' \in Nat
    BY <2>1, FormatAssumption DEF Inv, TypeOK
  <2>3. /\ WordReadable(img, L2EntryPos(img, pos))
        /\ GuestRef(img, pos).kind \in {"unallocated", "zero"}
    BY <1>1, <1>2, <1>4, <1>8
  <2>4. QED
    BY <1>1, <1>2, <2>1, <2>2, <2>3, DeliverZerosInv
<1>9. QED
  BY <1>5, <1>6, <1>7, <1>8

(* The backing's bytes go to the caller, or it ends inside the cluster. *)
LEMMA DataReadInv ==
  ASSUME Inv, NEW t \in Threads, DataRead(t)
  PROVE  Inv'
<1> DEFINE there == IF fpos < img.len THEN img.len - fpos ELSE 0
<1>1. /\ pc[t] = "data" /\ pc[t] \in Inside /\ pc[t] \in {"loop"} \cup BackingCalls
      /\ UNCHANGED <<img, poisoned, off, want>>
  BY DEF DataRead, Inside, BackingCalls
<1>2. /\ total[t] < want[t] /\ L2TableOffset(img, pos) # 0
      /\ WordReadable(img, L2EntryPos(img, pos))
      /\ GuestRef(img, pos).kind = "normal" /\ fpos = FileOffset(img, pos)
  BY <1>1 DEF Inv, CursorsHeld, HoldsPlace, BackingCalls
<1>3. /\ IsImage(img) /\ pos \in Nat /\ pos = off[t] + total[t]
      /\ ToRead(t) \in Nat \ {0}
      /\ OffsetInCluster(img, pos) + ToRead(t) <= img.cluster
  BY <1>1, <1>2, InsideFacts
<1>4. img.len \in Nat /\ fpos \in Nat /\ img.cluster \in Nat
  BY <1>3 DEF Inv, TypeOK, IsImage
<1>5. off[t] \in Nat /\ total[t] \in Nat /\ want[t] \in Nat
  BY DEF Inv, TypeOK
<1>6. CASE there = 0
  <2>1. Leave(t, "ok") /\ UNCHANGED <<pos, fpos, total, buf>>
    BY <1>6 DEF DataRead
  <2>2. Truncated(img, off[t] + total[t])
    <3>1. fpos >= img.len
      BY <1>4, <1>6
    <3>2. QED
      BY <1>2, <1>3, <3>1 DEF Truncated, Resolved
  <2>3. fpos' \in Nat /\ poisoned' \in BOOLEAN
    BY <1>1, <2>1 DEF Inv, TypeOK
  <2>4. QED
    BY <1>1, <2>1, <2>2, <2>3, LeaveKeepsInv DEF Results
<1>7. CASE there # 0
  <2>1. PICK n \in 1 .. Smaller(ToRead(t), there) :
          /\ buf' = [buf EXCEPT ![t] =
                       [i \in 0 .. (want[t] - 1) |->
                          IF total[t] <= i /\ i < total[t] + n
                          THEN img.byte[fpos + (i - total[t])] ELSE buf[t][i]]]
          /\ total' = [total EXCEPT ![t] = total[t] + n]
          /\ pos' = pos + n
          /\ ref' = [ref EXCEPT ![t] = Unallocated]
          /\ pc' = [pc EXCEPT ![t] = "loop"]
          /\ UNCHANGED <<lock, res>>
          /\ fpos' = fpos + n
    <3>1. PICK n \in 1 .. Smaller(ToRead(t), there) :
            /\ Deliver(t, n, [k \in 0 .. (n - 1) |-> img.byte[fpos + k]])
            /\ fpos' = fpos + n
      BY <1>7 DEF DataRead
    <3> DEFINE chunk == [k \in 0 .. (n - 1) |-> img.byte[fpos + k]]
               c == [i \in 0 .. (want[t] - 1) |->
                       IF total[t] <= i /\ i < total[t] + n
                       THEN img.byte[fpos + (i - total[t])] ELSE buf[t][i]]
    <3>2. n \in Nat
      BY <1>3, <1>4 DEF Smaller
    <3>3. \A i \in 0 .. (want[t] - 1) :
            total[t] <= i /\ i < total[t] + n =>
              chunk[i - total[t]] = img.byte[fpos + (i - total[t])]
      BY <1>5, <3>2
    <3>4. Deliver(t, n, chunk)
      BY <3>1
    <3> HIDE DEF chunk
    <3>5. \A i \in 0 .. (want[t] - 1) :
            c[i] = IF total[t] <= i /\ i < total[t] + n
                   THEN chunk[i - total[t]] ELSE buf[t][i]
      BY <3>3
    <3>6. c = [i \in 0 .. (want[t] - 1) |-> c[i]]
      OBVIOUS
    <3> HIDE DEF c
    <3>7. /\ buf' = [buf EXCEPT ![t] = c]
          /\ total' = [total EXCEPT ![t] = total[t] + n]
          /\ pos' = pos + n
          /\ ref' = [ref EXCEPT ![t] = Unallocated]
          /\ pc' = [pc EXCEPT ![t] = "loop"]
          /\ UNCHANGED <<lock, res>>
      BY <1>5, <3>2, <3>4, <3>5, <3>6, DeliverWrites
    <3>8. QED
      BY <3>1, <3>7 DEF c
  <2> DEFINE b == [i \in 0 .. (want[t] - 1) |->
                     IF total[t] <= i /\ i < total[t] + n
                     THEN img.byte[fpos + (i - total[t])] ELSE buf[t][i]]
  <2>2. there = img.len - fpos
    BY <1>7
  <2>3. n \in Nat /\ n \in 1 .. ToRead(t) /\ n <= img.len - fpos
    BY <1>3, <1>4, <2>2 DEF Smaller
  <2>4. GuestRef(img, pos).off \in Nat /\ OffsetInCluster(img, pos) \in 0 .. (img.cluster - 1)
    BY <1>2, <1>3, GuestRefType, LookupTypes DEF Refs
  <2>5. ASSUME NEW i \in 0 .. (want[t] - 1), total[t] <= i, i < total[t] + n
        PROVE  /\ GuestByte(img, off[t] + i, img.byte[fpos + (i - total[t])])
               /\ img.byte[fpos + (i - total[t])] \in Byte
    <3>1. i - total[t] \in Nat /\ off[t] + i = pos + (i - total[t])
      BY <1>3, <1>5, <2>5
    <3>2. /\ OffsetInCluster(img, pos) + (i - total[t]) < img.cluster
          /\ fpos + (i - total[t]) < img.len
      BY <1>3, <1>4, <1>5, <2>3, <2>4, <2>5
    <3>3. /\ GuestByte(img, pos + (i - total[t]), img.byte[fpos + (i - total[t])])
          /\ img.byte[fpos + (i - total[t])] \in Byte
      BY <1>2, <1>3, <2>4, <3>1, <3>2, DataIsRight
    <3>4. QED
      BY <3>1, <3>3
  <2>6. b \in [0 .. (want[t] - 1) -> Byte \cup {Stale}]
    <3>1. buf[t] \in [0 .. (want[t] - 1) -> Byte \cup {Stale}]
      BY DEF Inv, TypeOK
    <3>2. QED
      BY <2>5, <3>1
  <2>7. \A i \in 0 .. (want[t] - 1) :
          IF total[t] <= i /\ i < total[t] + n
          THEN GuestByte(img, off[t] + i, b[i]) ELSE b[i] = buf[t][i]
    BY <2>5
  <2>8. buf' = [buf EXCEPT ![t] = b]
    BY <2>1
  <2>9. fpos' \in Nat
    BY <1>4, <2>1, <2>3
  <2> HIDE DEF b
  <2>10. QED
    BY <1>1, <1>2, <2>1, <2>3, <2>6, <2>7, <2>8, <2>9, DeliverKeepsInv
<1>8. QED
  BY <1>6, <1>7

(* The plaintext goes to the caller, or the stream is bad. *)
LEMMA InflateInv ==
  ASSUME Inv, NEW t \in Threads, Inflate(t)
  PROVE  Inv'
<1> DEFINE from == OffsetInCluster(img, pos)
           r == GuestRef(img, pos)
<1>1. /\ pc[t] = "inflate" /\ pc[t] \in Inside /\ pc[t] \in {"loop"} \cup BackingCalls
      /\ UNCHANGED <<img, poisoned, off, want>>
      /\ fpos' = fpos + Filled(img, ref[t])
  BY DEF Inflate, Inside, BackingCalls
<1>2. /\ total[t] < want[t] /\ L2TableOffset(img, pos) # 0
      /\ WordReadable(img, L2EntryPos(img, pos))
      /\ ref[t] = r /\ r.kind = "compressed"
  BY <1>1 DEF Inv, CursorsHeld, HoldsPlace, BackingCalls
<1>3. /\ IsImage(img) /\ pos \in Nat /\ pos = off[t] + total[t]
      /\ ToRead(t) \in Nat \ {0}
      /\ from + ToRead(t) <= img.cluster
  BY <1>1, <1>2, InsideFacts
<1>4. from \in 0 .. (img.cluster - 1) /\ img.cluster \in Nat /\ img.len \in Nat
  BY <1>3, LookupTypes DEF IsImage
<1>5. off[t] \in Nat /\ total[t] \in Nat /\ want[t] \in Nat
  BY DEF Inv, TypeOK
<1>6. r \in Refs
  BY <1>2, <1>3, GuestRefType
<1>7. fpos' \in Nat /\ poisoned' \in BOOLEAN
  <2>1. r.off \in Nat /\ r.bytes \in Nat
    BY <1>6 DEF Refs
  <2>2. Filled(img, r) \in Nat
    BY <2>1, <1>4 DEF Filled, Smaller
  <2>3. QED
    BY <1>1, <1>2, <2>2 DEF Inv, TypeOK
<1>8. ASSUME InflateMayFail(img, ref[t]), Leave(t, "err"), UNCHANGED <<pos, total, buf>>
      PROVE  Inv'
  BY <1>1, <1>2, <1>3, <1>7, <1>8, LeaveKeepsInv DEF Results
<1>9. ASSUME NEW got \in InflatedLengths(img, ref[t]),
             Deliver(t, ToRead(t),
               [k \in 0 .. (ToRead(t) - 1) |-> InflatedByte(img, ref[t], got, from + k)])
      PROVE  Inv'
  <2> DEFINE n == ToRead(t)
             b == [i \in 0 .. (want[t] - 1) |->
                     IF total[t] <= i /\ i < total[t] + n
                     THEN InflatedByte(img, r, got, from + (i - total[t]))
                     ELSE buf[t][i]]
  <2>1. /\ buf' = [buf EXCEPT ![t] = b]
        /\ total' = [total EXCEPT ![t] = total[t] + n]
        /\ pos' = pos + n
        /\ ref' = [ref EXCEPT ![t] = Unallocated]
        /\ pc' = [pc EXCEPT ![t] = "loop"]
        /\ UNCHANGED <<lock, res>>
    <3> DEFINE chunk == [k \in 0 .. (ToRead(t) - 1) |-> InflatedByte(img, ref[t], got, from + k)]
    <3>1. \A i \in 0 .. (want[t] - 1) :
            total[t] <= i /\ i < total[t] + n =>
              chunk[i - total[t]] = InflatedByte(img, r, got, from + (i - total[t]))
      <4>1. ASSUME NEW i \in 0 .. (want[t] - 1), total[t] <= i, i < total[t] + n
            PROVE  chunk[i - total[t]] = InflatedByte(img, r, got, from + (i - total[t]))
        <5>1. i - total[t] \in 0 .. (ToRead(t) - 1)
          BY <1>3, <1>5, <4>1
        <5>2. chunk[i - total[t]] = InflatedByte(img, ref[t], got, from + (i - total[t]))
          BY <5>1
        <5>3. QED
          BY <1>2, <5>2
      <4>2. QED
        BY <4>1
    <3>2. n \in Nat /\ Deliver(t, n, chunk)
      BY <1>3, <1>9
    <3> HIDE DEF n, chunk
    <3>3. \A i \in 0 .. (want[t] - 1) :
            b[i] = IF total[t] <= i /\ i < total[t] + n
                   THEN chunk[i - total[t]] ELSE buf[t][i]
      BY <3>1
    <3>4. b = [i \in 0 .. (want[t] - 1) |-> b[i]]
      OBVIOUS
    <3> HIDE DEF b
    <3>5. QED
      BY <1>5, <3>2, <3>3, <3>4, DeliverWrites
  <2>2. ASSUME NEW i \in 0 .. (want[t] - 1), total[t] <= i, i < total[t] + n
        PROVE  LET x == InflatedByte(img, r, got, from + (i - total[t]))
               IN  GuestByte(img, off[t] + i, x) /\ x \in Byte
    <3>1. i - total[t] \in Nat /\ off[t] + i = pos + (i - total[t])
      BY <1>3, <1>5, <2>2
    <3>2. from + (i - total[t]) < img.cluster
      BY <1>3, <1>4, <1>5, <2>2
    <3>3. got \in InflatedLengths(img, r)
      BY <1>2
    <3> DEFINE k == i - total[t]
               x == InflatedByte(img, r, got, from + k)
    <3> HIDE DEF k
    <3>4. k \in Nat /\ from + k < img.cluster
      BY <3>1, <3>2 DEF k
    <3>5. GuestByte(img, pos + k, x) /\ x \in Byte
      BY <1>2, <1>3, <1>6, <3>3, <3>4, InflatedIsRight
    <3>6. QED
      BY <3>1, <3>5 DEF k
  <2>3. b \in [0 .. (want[t] - 1) -> Byte \cup {Stale}]
    <3>1. buf[t] \in [0 .. (want[t] - 1) -> Byte \cup {Stale}]
      BY DEF Inv, TypeOK
    <3>2. QED
      BY <2>2, <3>1
  <2>4. \A i \in 0 .. (want[t] - 1) :
          IF total[t] <= i /\ i < total[t] + n
          THEN GuestByte(img, off[t] + i, b[i]) ELSE b[i] = buf[t][i]
    BY <2>2
  <2>5. n \in 1 .. ToRead(t)
    BY <1>3
  <2> HIDE DEF b, n
  <2>6. QED
    BY <1>1, <1>2, <1>7, <2>1, <2>3, <2>4, <2>5, DeliverKeepsInv
<1>10. QED
  BY <1>8, <1>9 DEF Inflate, InflatedChunk

-----------------------------------------------------------------------------
(* Every step keeps the invariant. *)
LEMMA NextInv == Inv /\ [Next]_vars => Inv'
<1> SUFFICES ASSUME Inv, [Next]_vars PROVE Inv'
  OBVIOUS
<1>1. CASE UNCHANGED vars
  BY <1>1
  DEF vars, Inv, TypeOK, CursorsHeld, HoldsPlace, CallsInv, ReadAtFaithful,
      ShortReadOnlyAtTruncation, ErrorTellsOfDefect
<1>2. CASE Next
  <2>1. PICK t \in Threads :
          \/ \E o \in Offsets, n \in Lengths : ReadAt(t, o, n)
          \/ Step(t) \/ IoError(t) \/ BackingPanic(t)
    BY <1>2 DEF Next
  <2>2. CASE \E o \in Offsets, n \in Lengths : ReadAt(t, o, n)
    BY <2>2, ReadAtInv
  <2>3. CASE Step(t)
    BY <2>3, LockInv, SeekStartInv, LoopExitInv, ReadEnterInv, L2MissingInv,
       L2ReadInv, DataReadInv, InflateInv DEF Step
  <2>4. CASE IoError(t) \/ BackingPanic(t)
    BY <2>4, FaultInv
  <2>5. QED
    BY <2>1, <2>2, <2>3, <2>4
<1>3. QED
  BY <1>1, <1>2

(* The invariant holds in every reachable state. *)
THEOREM Invariance == Spec => []Inv
  BY InitInv, NextInv, PTL DEF Spec

(* The variables of Qcow2Source keep their types; in particular a request  *)
(* past the end of the disk never makes a negative length.                 *)
THEOREM TypeCorrect == Spec => []TypeOK
<1>1. Inv => TypeOK
  BY DEF Inv
<1>2. QED
  BY <1>1, Invariance, PTL

(* Whatever the threads, the image and the backing do, the bytes read_at   *)
(* delivers are those of the disk at the caller's offset.                  *)
THEOREM ReadsAreFaithful == Spec => []ReadAtFaithful
<1>1. Inv => ReadAtFaithful
  BY DEF Inv
<1>2. QED
  BY <1>1, Invariance, PTL

(* The mutex keeps both cursors with its holder.                           *)
THEOREM CursorsStayHeld == Spec => []CursorsHeld
<1>1. Inv => CursorsHeld
  BY DEF Inv
<1>2. QED
  BY <1>1, Invariance, PTL

(* A short Ok means that the backing ends there. *)
THEOREM ShortReadsAreTruncations == Spec => []ShortReadOnlyAtTruncation
<1>1. Inv => ShortReadOnlyAtTruncation
  BY DEF Inv
<1>2. QED
  BY <1>1, Invariance, PTL

(* An error of the reader's own names a defect at the byte it stopped at. *)
THEOREM ErrorsAreDefects == Spec => []ErrorTellsOfDefect
<1>1. Inv => ErrorTellsOfDefect
  BY DEF Inv
<1>2. QED
  BY <1>1, Invariance, PTL

(* No call panics for the panic of another one. *)
THEOREM PanicsStayLocal == Spec => PanicNeverSpreads
<1>1. Inv /\ [Next]_vars =>
        [\A t \in Threads :
           res'[t] = "panic" /\ res[t] # "panic" => lock = t /\ poisoned']_vars
  <2> SUFFICES ASSUME Inv, Next, NEW u \in Threads,
                      res'[u] = "panic", res[u] # "panic"
               PROVE  lock = u /\ poisoned'
    OBVIOUS
  <2>1. PICK t \in Threads :
          \/ \E o \in Offsets, n \in Lengths : ReadAt(t, o, n)
          \/ Step(t) \/ IoError(t) \/ BackingPanic(t)
    BY DEF Next
  <2>2. CASE BackingPanic(t)
    BY <2>2 DEF BackingPanic, Leave, Inside, Inv, TypeOK, CursorsHeld
  <2>3. CASE ~BackingPanic(t)
    <3>1. \/ res' = res
          \/ \E how \in {"ok", "err", "io", "none"} : res' = [res EXCEPT ![t] = how]
      BY <2>1, <2>3
      DEF ReadAt, Avail, Request, Step, Lock, SeekStart, LoopExit, ReadEnter, L2Missing, L2Read,
          DataRead, Inflate, IoError, Leave, Deliver
    <3>2. QED
      BY <3>1 DEF Inv, TypeOK
  <2>4. QED
    BY <2>2, <2>3
<1>2. QED
  BY <1>1, Invariance, PTL DEF Spec, PanicNeverSpreads

-----------------------------------------------------------------------------
(* The refinement of ImageSource. *)

(* ImageSource reads the image with the same definitions.  The instance    *)
(* has its own copies of them, which expand to the same text.              *)
LEMMA SameFormat ==
  ASSUME NEW i, NEW v, NEW b
  PROVE  /\ Abstract!GuestByte(i, v, b) <=> GuestByte(i, v, b)
         /\ Abstract!Truncated(i, v) <=> Truncated(i, v)
<1>1. Abstract!L2TableOffset(i, v) = L2TableOffset(i, v)
  BY DEF L2TableOffset, Abstract!L2TableOffset, ClusterIdx, Abstract!ClusterIdx,
         L2Entries, Abstract!L2Entries, CopiedBit, Abstract!CopiedBit
<1>2. Abstract!L2EntryPos(i, v) = L2EntryPos(i, v)
  BY <1>1 DEF L2EntryPos, Abstract!L2EntryPos, ClusterIdx, Abstract!ClusterIdx,
              L2Entries, Abstract!L2Entries
<1>3. ASSUME NEW e PROVE Abstract!DecodeL2(i, e) = DecodeL2(i, e)
  BY DEF DecodeL2, Abstract!DecodeL2, CompressedRef, Abstract!CompressedRef,
         CopiedBit, Abstract!CopiedBit, Ref, Abstract!Ref, ZeroCluster,
         Abstract!ZeroCluster, Unallocated, Abstract!Unallocated
<1>4. Abstract!Unallocated = Unallocated
  BY DEF Unallocated, Abstract!Unallocated, Ref, Abstract!Ref
<1>5. Abstract!GuestRef(i, v) = GuestRef(i, v)
  BY <1>1, <1>2, <1>3, <1>4 DEF GuestRef, Abstract!GuestRef
<1>6. Abstract!Resolved(i, v) <=> Resolved(i, v)
  BY <1>1, <1>2 DEF Resolved, Abstract!Resolved, WordReadable, Abstract!WordReadable
<1>7. /\ Abstract!OffsetInCluster(i, v) = OffsetInCluster(i, v)
      /\ Abstract!FileOffset(i, v) = FileOffset(i, v)
  BY <1>5 DEF FileOffset, Abstract!FileOffset, OffsetInCluster, Abstract!OffsetInCluster
<1>8. \A r : Abstract!Filled(i, r) = Filled(i, r)
  BY DEF Filled, Abstract!Filled, Smaller, Abstract!Smaller
<1>9. \A r, got, j : Abstract!InflatedByte(i, r, got, j) = InflatedByte(i, r, got, j)
  BY DEF InflatedByte, Abstract!InflatedByte
<1>10. Abstract!CutStream(i, v) <=> CutStream(i, v)
  BY <1>5, <1>6, <1>8 DEF CutStream, Abstract!CutStream
<1>11. QED
  BY <1>5, <1>6, <1>7, <1>8, <1>9, <1>10
  DEF GuestByte, Abstract!GuestByte, Truncated, Abstract!Truncated

(* A function that differs from another at one argument only. *)
LEMMA ChangedAtOne ==
  ASSUME NEW S, NEW f, NEW g, NEW t \in S,
         f = [u \in S |-> f[u]], g = [u \in S |-> g[u]],
         \A u \in S : u # t => g[u] = f[u]
  PROVE  g = [f EXCEPT ![t] = g[t]]
  OBVIOUS

(* Answered is a function on Threads, before and after a step. *)
LEMMA AnsweredFunction ==
  /\ Answered = [u \in Threads |-> Answered[u]]
  /\ Answered' = [u \in Threads |-> Answered'[u]]
  BY DEF Answered

(* While a call runs its answer is pending and does not depend on the      *)
(* buffer.                                                                 *)
LEMMA PendingAnswer ==
  ASSUME NEW t \in Threads, pc[t] # "idle", res[t] = "none"
  PROVE  Answered[t] = Abstract!Pending
  BY DEF Answered, Abstract!Pending, Abstract!Answer, Abstract!Nothing

(* A step inside a call is invisible to the callers. *)
LEMMA InternalStep ==
  ASSUME Inv, Inv', NEW t \in Threads, pc[t] # "idle", pc'[t] # "idle",
         UNCHANGED <<img, off, want, res>>,
         \A u \in Threads \ {t} :
           pc'[u] = pc[u] /\ total'[u] = total[u] /\ buf'[u] = buf[u]
  PROVE  UNCHANGED <<img, Asked, Answered>>
<1>1. res[t] = "none" /\ res'[t] = "none"
  BY DEF Inv, CallsInv
<1>2. Asked' = Asked
  BY DEF Asked
<1>3. ASSUME NEW u \in Threads PROVE Answered'[u] = Answered[u]
  <2>1. CASE u = t
    <3>1. Answered[t] = Abstract!Pending
      BY <1>1, PendingAnswer
    <3>2. Answered'[t] = Abstract!Pending
      BY <1>1 DEF Answered, Abstract!Pending, Abstract!Answer, Abstract!Nothing
    <3>3. QED
      BY <2>1, <3>1, <3>2
  <2>2. CASE u # t
    BY <2>2 DEF Answered
  <2>3. QED
    BY <2>1, <2>2
<1>4. Answered' = Answered
  BY <1>3 DEF Answered
<1>5. QED
  BY <1>2, <1>4

(* The end of a call is the abstract Reply. *)
LEMMA LeaveReplies ==
  ASSUME Inv, Inv', NEW t \in Threads, pc[t] # "idle",
         NEW how \in Results \ {"none"}, Leave(t, how),
         UNCHANGED <<img, off, want, total, buf>>
  PROVE  Abstract!Reply(t)
<1>1. res[t] = "none"
  BY DEF Inv, CallsInv
<1>2. Answered[t] = Abstract!Pending
  BY <1>1, PendingAnswer
<1>3. pc'[t] = "idle" /\ res'[t] = how
  BY DEF Leave, Inv, TypeOK
<1>4. ASSUME NEW u \in Threads, u # t PROVE Answered'[u] = Answered[u]
  <2>1. pc'[u] = pc[u] /\ res'[u] = res[u]
    BY <1>4 DEF Leave, Inv, TypeOK
  <2>2. QED
    BY <2>1 DEF Answered
<1>5. Answered' = [Answered EXCEPT ![t] = Answered'[t]]
  BY <1>4, AnsweredFunction, ChangedAtOne
<1>6. Abstract!Right(Asked[t], Answered'[t])
  <2>1. Asked[t].off = off[t] /\ Asked[t].want = want[t]
    BY DEF Asked
  <2>2. CASE how = "ok"
    <3> DEFINE a == Answered'[t]
    <3>1. /\ a.kind = "ok" /\ a.n = total[t]
          /\ a.bytes = [i \in 0 .. (total[t] - 1) |-> buf[t][i]]
      BY <1>3, <2>2 DEF Answered
    <3>2. /\ total[t] \in Nat /\ want[t] \in Nat /\ total[t] <= want[t]
          /\ \A i \in 0 .. (total[t] - 1) : GuestByte(img, off[t] + i, buf[t][i])
      <4>1. total[t] \in Nat /\ want[t] \in Nat /\ total[t] <= want[t]
        BY DEF Inv, TypeOK, ReadAtFaithful
      <4>2. ASSUME NEW i \in 0 .. (total[t] - 1)
            PROVE  GuestByte(img, off[t] + i, buf[t][i])
        <5>1. i \in 0 .. (want[t] - 1) /\ i < total[t]
          BY <4>1
        <5>2. QED
          BY <5>1 DEF Inv, ReadAtFaithful
      <4>3. QED
        BY <4>1, <4>2
    <3>3. total[t] < want[t] => Truncated(img, off[t] + total[t])
      BY <1>3, <2>2 DEF Inv, ShortReadOnlyAtTruncation
    <3> HIDE DEF a
    <3>4. Abstract!Right(Asked[t], a)
      BY <2>1, <3>1, <3>2, <3>3, SameFormat DEF Abstract!Right
    <3>5. QED
      BY <3>4 DEF a
  <2>3. CASE how # "ok"
    <3>1. /\ Answered'[t].kind = how /\ Answered'[t].n = 0
          /\ Answered'[t].bytes = Abstract!Nothing
      BY <1>3, <2>3 DEF Answered, Abstract!Nothing
    <3>2. how \in {"err", "io", "panic"}
      BY <2>3 DEF Results
    <3>3. QED
      BY <3>1, <3>2 DEF Abstract!Right
  <2>4. QED
    BY <2>2, <2>3
<1>7. UNCHANGED <<img, Asked>>
  BY DEF Asked
<1>8. QED
  BY <1>2, <1>5, <1>6, <1>7 DEF Abstract!Reply

(* The start of a call is the abstract Ask. *)
LEMMA ReadAtAsks ==
  ASSUME Inv, NEW t \in Threads, NEW o \in Offsets, NEW n \in Lengths,
         ReadAt(t, o, n)
  PROVE  Abstract!Ask(t, o, n)
<1> DEFINE avail == IF o <= img.size THEN img.size - o ELSE 0
           w == Smaller(n, avail)
<1>1. pc[t] = "idle" /\ res[t] \in Results
  BY DEF ReadAt, Avail, Request, Inv, TypeOK
<1>2. Answered[t] # Abstract!Pending
  BY <1>1 DEF Answered, Abstract!Pending, Abstract!Answer, Results
<1>3. Asked' = [Asked EXCEPT ![t] = [off |-> o, want |-> w]]
  BY DEF ReadAt, Avail, Request, Asked, Inv, TypeOK
<1>4. ASSUME NEW u \in Threads, u # t PROVE Answered'[u] = Answered[u]
  <2>1. /\ pc'[u] = pc[u] /\ res'[u] = res[u] /\ total'[u] = total[u]
        /\ buf'[u] = buf[u]
    BY <1>4 DEF ReadAt, Avail, Request, Inv, TypeOK
  <2>2. QED
    BY <2>1 DEF Answered
<1>5. Answered' = [Answered EXCEPT ![t] = Answered'[t]]
  BY <1>4, AnsweredFunction, ChangedAtOne
<1>6. \/ Answered'[t] = Abstract!Pending
      \/ o >= img.size /\ Answered'[t] = Abstract!Answer("ok", 0, Abstract!Nothing)
  <2>1. total'[t] = 0
    BY DEF ReadAt, Avail, Request, Inv, TypeOK
  <2>2. CASE avail = 0
    <3>1. pc'[t] = "idle" /\ res'[t] = "ok"
      BY <2>2, <1>1 DEF ReadAt, Avail, Request, Inv, TypeOK
    <3>2. o >= img.size
      <4>1. img.size \in Nat /\ o \in Nat
        BY SourceAssumption, FormatAssumption
        DEF Inv, TypeOK, IsImage, Word, CopiedBit
      <4>2. QED
        BY <2>2, <4>1
    <3>3. QED
      BY <2>1, <3>1, <3>2 DEF Answered, Abstract!Answer, Abstract!Nothing
  <2>3. CASE avail # 0
    <3>1. pc'[t] = "lock" /\ res'[t] = "none"
      BY <2>3 DEF ReadAt, Avail, Request, Inv, TypeOK
    <3>2. QED
      BY <3>1 DEF Answered, Abstract!Pending, Abstract!Answer, Abstract!Nothing
  <2>4. QED
    BY <2>2, <2>3
<1>7. img' = img
  BY DEF ReadAt, Avail, Request
<1>8. QED
  BY <1>2, <1>3, <1>5, <1>6, <1>7 DEF Abstract!Ask, Smaller, Abstract!Smaller

(* Every step inside the source is invisible or ends a call. *)
LEMMA StepShape ==
  ASSUME Inv, NEW t \in Threads, Step(t) \/ IoError(t) \/ BackingPanic(t)
  PROVE  /\ pc[t] # "idle"
         /\ UNCHANGED <<img, off, want>>
         /\ \/ /\ \E how \in Results \ {"none"} : Leave(t, how)
               /\ UNCHANGED <<total, buf>>
            \/ /\ pc'[t] # "idle" /\ res' = res
               /\ \A u \in Threads \ {t} :
                    pc'[u] = pc[u] /\ total'[u] = total[u] /\ buf'[u] = buf[u]
<1>1. /\ DOMAIN pc = Threads /\ DOMAIN total = Threads /\ DOMAIN buf = Threads
      /\ "ok" \in Results \ {"none"} /\ "err" \in Results \ {"none"}
      /\ "io" \in Results \ {"none"} /\ "panic" \in Results \ {"none"}
  BY DEF Inv, TypeOK, Results
<1>2. CASE Lock(t)
  BY <1>1, <1>2 DEF Lock, MutexFree
<1>3. CASE SeekStart(t)
  BY <1>1, <1>3 DEF SeekStart
<1>4. CASE LoopExit(t)
  BY <1>1, <1>4 DEF LoopExit, LoopOver
<1>5. CASE ReadEnter(t)
  BY <1>1, <1>5 DEF ReadEnter, Deliver
<1>6. CASE L2Missing(t)
  BY <1>1, <1>6 DEF L2Missing
<1>7. CASE L2Read(t)
  BY <1>1, <1>7 DEF L2Read, Deliver
<1>8. CASE DataRead(t)
  BY <1>1, <1>8 DEF DataRead, Deliver
<1>9. CASE Inflate(t)
  BY <1>1, <1>9 DEF Inflate, Deliver
<1>10. CASE IoError(t) \/ BackingPanic(t)
  BY <1>1, <1>10 DEF IoError, BackingPanic, BackingCalls
<1>11. QED
  BY <1>2, <1>3, <1>4, <1>5, <1>6, <1>7, <1>8, <1>9, <1>10 DEF Step

(* Qcow2Source implements ImageSource: overlapping, failing and panicking  *)
(* calls of read_at through the shared reader behave as atomic reads of    *)
(* the disk.                                                               *)
THEOREM Refinement == Spec => ReadsAreAtomic
<1>1. Init => Abstract!Init
  BY DEF Init, Abstract!Init, Asked, Answered, Abstract!Answer, Abstract!Nothing
<1>2. Inv /\ Inv' /\ [Next]_vars => [Abstract!Next]_(Abstract!vars)
  <2> SUFFICES ASSUME Inv, Inv', [Next]_vars
               PROVE  Abstract!Next \/ UNCHANGED <<img, Asked, Answered>>
    BY DEF Abstract!vars
  <2>1. CASE UNCHANGED vars
    BY <2>1 DEF vars, Asked, Answered
  <2>2. CASE Next
    <3>1. PICK t \in Threads :
            \/ \E o \in Offsets, n \in Lengths : ReadAt(t, o, n)
            \/ Step(t) \/ IoError(t) \/ BackingPanic(t)
      BY <2>2 DEF Next
    <3>2. CASE \E o \in Offsets, n \in Lengths : ReadAt(t, o, n)
      BY <3>2, ReadAtAsks DEF Abstract!Next
    <3>3. CASE Step(t) \/ IoError(t) \/ BackingPanic(t)
      <4>1. CASE \E how \in Results \ {"none"} :
                   Leave(t, how) /\ UNCHANGED <<total, buf>>
        BY <3>3, <4>1, StepShape, LeaveReplies DEF Abstract!Next
      <4>2. CASE ~\E how \in Results \ {"none"} :
                    Leave(t, how) /\ UNCHANGED <<total, buf>>
        BY <3>3, <4>2, StepShape, InternalStep
      <4>3. QED
        BY <4>1, <4>2
    <3>4. QED
      BY <3>1, <3>2, <3>3
  <2>3. QED
    BY <2>1, <2>2
<1>3. QED
  BY <1>1, <1>2, Invariance, PTL DEF Spec, ReadsAreAtomic, Abstract!Spec
=============================================================================
