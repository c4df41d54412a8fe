---------------------------- MODULE Qcow2Source ----------------------------
(***************************************************************************)
(* core/src/vfs.rs over core/src/lib.rs: several threads call read_at on   *)
(* one Qcow2Source, which serves each call by locking the one Qcow2Reader, *)
(* seeking it and calling Read::read until the buffer is full.             *)
(*                                                                         *)
(* The reader has two cursors that every call moves and none restores:     *)
(* `pos', its place on the virtual disk, and `fpos', the place of the      *)
(* backing file.  A step of this specification is what a thread does       *)
(* between two calls on the backing, so other threads, a failing backing   *)
(* and a panicking one can all act where the code lets them.               *)
(***************************************************************************)
EXTENDS Qcow2Format

CONSTANTS
  Threads,    \* callers of read_at
  NoThread,   \* the mutex is free
  Images,     \* open images a source may be built from
  Offsets,    \* arguments of read_at: offset ...
  Lengths     \* ... and buf.len()

ASSUME SourceAssumption ==
  /\ NoThread \notin Threads
  /\ \A i \in Images : IsImage(i)
  /\ Offsets \subseteq Nat
  /\ Lengths \subseteq Nat

(* A byte of the caller's buffer that read_at has not written. *)
Stale == -1

VARIABLES
  img,        \* the image under the reader; fixed
  lock,       \* the holder of the mutex
  poisoned,   \* the mutex's poison flag
  pos,        \* Qcow2Reader.pos
  fpos,       \* the cursor of Qcow2Reader.backing
  pc,         \* where each thread is; "idle" outside a call
  off, want,  \* read_at's offset, and buf.len() cut to the disk
  total,      \* bytes delivered; the Ok value once the call is over
  buf,        \* the caller's buffer
  ref,        \* the ClusterRef a running read() has resolved
  res         \* how the last call ended

vars == <<img, lock, poisoned, pos, fpos, pc, off, want, total, buf, ref, res>>

BackingCalls == {"l2", "data", "inflate"}

Inside == {"seek", "loop"} \cup BackingCalls

Results == {"none", "ok", "err", "io", "panic"}

TypeOK ==
  /\ img \in Images
  /\ lock \in Threads \cup {NoThread}
  /\ poisoned \in BOOLEAN
  /\ pos \in Nat
  /\ fpos \in Nat
  /\ pc \in [Threads -> {"idle", "lock"} \cup Inside]
  /\ off \in [Threads -> Nat]
  /\ want \in [Threads -> Nat]
  /\ total \in [Threads -> Nat]
  /\ DOMAIN buf = Threads
  /\ \A t \in Threads : buf[t] \in [0 .. (want[t] - 1) -> Byte \cup {Stale}]
  /\ ref \in [Threads -> Refs]
  /\ res \in [Threads -> Results]

Init ==
  /\ img \in Images
  /\ lock = NoThread
  /\ poisoned = FALSE
  /\ pos = 0
  /\ fpos = img.l1off + img.l1size * EntrySize  \* where from_backing left it
  /\ pc = [t \in Threads |-> "idle"]
  /\ off = [t \in Threads |-> 0]
  /\ want = [t \in Threads |-> 0]
  /\ total = [t \in Threads |-> 0]
  /\ buf = [t \in Threads |-> [i \in 0 .. -1 |-> Stale]]
  /\ ref = [t \in Threads |-> Unallocated]
  /\ res = [t \in Threads |-> "none"]

-----------------------------------------------------------------------------
(* read() clips every transfer to the caller's buffer, the disk and the    *)
(* cluster under the cursor.                                               *)
ToRead(t) ==
  Smaller(want[t] - total[t],
          Smaller(img.size - pos, img.cluster - OffsetInCluster(img, pos)))

(* The call returns or unwinds: the guard is dropped. *)
Leave(t, how) ==
  /\ pc' = [pc EXCEPT ![t] = "idle"]
  /\ ref' = [ref EXCEPT ![t] = Unallocated]
  /\ res' = [res EXCEPT ![t] = how]
  /\ lock' = NoThread

(* read() returns Ok(n), n > 0, with the bytes of `chunk': the cursor moves *)
(* and the loop goes on.                                                    *)
Deliver(t, n, chunk) ==
  /\ buf' = [buf EXCEPT ![t] =
               [i \in 0 .. (want[t] - 1) |->
                  IF total[t] <= i /\ i < total[t] + n
                  THEN chunk[i - total[t]] ELSE buf[t][i]]]
  /\ total' = [total EXCEPT ![t] = total[t] + n]
  /\ pos' = pos + n
  /\ ref' = [ref EXCEPT ![t] = Unallocated]
  /\ pc' = [pc EXCEPT ![t] = "loop"]
  /\ UNCHANGED <<lock, res>>

Zeros(n) == [i \in 0 .. (n - 1) |-> 0]

-----------------------------------------------------------------------------
(* Bug: a plain subtraction, negative past the end of the disk. *)
AvailUnsaturated(o) == img.size - o

(* len.saturating_sub(offset) *)
Avail(o) == IF o <= img.size THEN img.size - o ELSE 0

(* The call's locals at its start, for w wanted bytes. *)
Request(t, o, w) ==
  /\ off' = [off EXCEPT ![t] = o]
  /\ want' = [want EXCEPT ![t] = w]
  /\ total' = [total EXCEPT ![t] = 0]
  /\ buf' = [buf EXCEPT ![t] = [i \in 0 .. (w - 1) |-> Stale]]

(* Bug: a read at the end of the disk is an error. *)
ReadAtFailsAtEnd(t, o, n) ==
  /\ pc[t] = "idle"
  /\ Request(t, o, Smaller(n, Avail(o)))
  /\ res' = [res EXCEPT ![t] = IF Avail(o) = 0 THEN "io" ELSE "none"]
  /\ pc' = [pc EXCEPT ![t] = IF Avail(o) = 0 THEN "idle" ELSE "lock"]
  /\ UNCHANGED <<img, lock, poisoned, pos, fpos, ref>>

(* read_at up to the lock.  At or past the end it returns Ok(0) at once.   *)
ReadAt(t, o, n) ==
  /\ pc[t] = "idle"
  /\ Request(t, o, Smaller(n, Avail(o)))
  /\ res' = [res EXCEPT ![t] = IF Avail(o) = 0 THEN "ok" ELSE "none"]
  /\ pc' = [pc EXCEPT ![t] = IF Avail(o) = 0 THEN "idle" ELSE "lock"]
  /\ UNCHANGED <<img, lock, poisoned, pos, fpos, ref>>

(* Bug: a shared (read) lock, which any number of threads enter. *)
MutexFreeShared == TRUE

MutexFree == lock = NoThread

(* Bug: lock().unwrap(), which panics on a poisoned mutex. *)
LockUnwrap(t) ==
  /\ pc[t] = "lock" /\ MutexFree
  /\ IF poisoned
     THEN Leave(t, "panic")
     ELSE /\ lock' = t
          /\ pc' = [pc EXCEPT ![t] = "seek"]
          /\ UNCHANGED <<ref, res>>
  /\ UNCHANGED <<img, poisoned, pos, fpos, off, want, total, buf>>

(* lock().unwrap_or_else(into_inner): a poisoned mutex is entered as well. *)
Lock(t) ==
  /\ pc[t] = "lock" /\ MutexFree
  /\ lock' = t
  /\ pc' = [pc EXCEPT ![t] = "seek"]
  /\ UNCHANGED <<img, poisoned, pos, fpos, off, want, total, buf, ref, res>>

(* seek(SeekFrom::Start(offset)) goes through i64: 1 << 63 and above are   *)
(* negative there, and refused.                                            *)
SeekStart(t) ==
  /\ pc[t] = "seek"
  /\ IF off[t] < CopiedBit
     THEN /\ pos' = off[t]
          /\ pc' = [pc EXCEPT ![t] = "loop"]
          /\ UNCHANGED <<lock, ref, res>>
     ELSE Leave(t, "err") /\ UNCHANGED pos
  /\ UNCHANGED <<img, poisoned, fpos, off, want, total, buf>>

(* Bug: one read() is taken to fill the buffer. *)
LoopOverAfterOneRead(t) == total[t] > 0 \/ want[t] = 0 \/ pos >= img.size

(* while total < want is over, or read() returns Ok(0) at the disk's end. *)
LoopOver(t) == total[t] >= want[t] \/ pos >= img.size

LoopExit(t) ==
  /\ pc[t] = "loop" /\ LoopOver(t)
  /\ Leave(t, "ok")
  /\ UNCHANGED <<img, poisoned, pos, fpos, off, want, total, buf>>

(* read() is entered: cluster_ref_for looks the L2 table up in memory and  *)
(* seeks to the entry; without a table the chunk is zeros.                 *)
ReadEnter(t) ==
  /\ pc[t] = "loop" /\ ~LoopOver(t)
  /\ IF L2TableOffset(img, pos) = 0
     THEN Deliver(t, ToRead(t), Zeros(ToRead(t))) /\ UNCHANGED fpos
     ELSE /\ fpos' = L2EntryPos(img, pos)
          /\ pc' = [pc EXCEPT ![t] = "l2"]
          /\ UNCHANGED <<lock, pos, total, buf, ref, res>>
  /\ UNCHANGED <<img, poisoned, off, want>>

(* Bug: an entry that ends where the backing ends is refused. *)
L2MissingEarly(t) ==
  /\ pc[t] = "l2"
  /\ fpos + EntrySize >= img.len
  /\ Leave(t, "err")
  /\ UNCHANGED <<img, poisoned, pos, fpos, off, want, total, buf>>

(* read_exact of the L2 entry fails at the end of the backing; where it    *)
(* leaves the cursor is up to the backing.                                 *)
L2Missing(t) ==
  /\ pc[t] = "l2"
  /\ ~WordReadable(img, fpos)
  /\ Leave(t, "err")
  /\ fpos' \in {fpos, img.len}
  /\ UNCHANGED <<img, poisoned, pos, off, want, total, buf>>

(* The L2 entry is read and decoded; the backing is put where the cluster  *)
(* it refers to is stored.                                                 *)
L2Read(t) ==
  LET e == DecodeL2(img, img.word[fpos]) IN
  /\ pc[t] = "l2"
  /\ WordReadable(img, fpos)
  /\ CASE e.kind = "normal" ->
            /\ fpos' = e.off + OffsetInCluster(img, pos)
            /\ ref' = [ref EXCEPT ![t] = e]
            /\ pc' = [pc EXCEPT ![t] = "data"]
            /\ UNCHANGED <<lock, pos, total, buf, res>>
       [] e.kind = "compressed" ->
            /\ fpos' = e.off
            /\ ref' = [ref EXCEPT ![t] = e]
            /\ pc' = [pc EXCEPT ![t] = "inflate"]
            /\ UNCHANGED <<lock, pos, total, buf, res>>
       [] OTHER ->
            /\ fpos' = fpos + EntrySize
            /\ Deliver(t, ToRead(t), Zeros(ToRead(t)))
  /\ UNCHANGED <<img, poisoned, off, want>>

(* Bug: Ok(0) is taken for a short read and tried again. *)
DataReadRetry(t) ==
  LET there == IF fpos < img.len THEN img.len - fpos ELSE 0
      stored(n) == [i \in 0 .. (n - 1) |-> img.byte[fpos + i]]
  IN  /\ pc[t] = "data"
      /\ \E n \in (IF there = 0 THEN {0} ELSE 1 .. Smaller(ToRead(t), there)) :
           Deliver(t, n, stored(n)) /\ fpos' = fpos + n
      /\ UNCHANGED <<img, poisoned, off, want>>

(* One read of the backing into the buffer; it may be short.  At the end   *)
(* of the backing it returns 0, read() returns Ok(0), and `0 => break'     *)
(* ends the loop.                                                          *)
DataRead(t) ==
  LET there == IF fpos < img.len THEN img.len - fpos ELSE 0
      stored(n) == [i \in 0 .. (n - 1) |-> img.byte[fpos + i]]
  IN  /\ pc[t] = "data"
      /\ IF there = 0
         THEN Leave(t, "ok") /\ UNCHANGED <<pos, fpos, total, buf>>
         ELSE \E n \in 1 .. Smaller(ToRead(t), there) :
                Deliver(t, n, stored(n)) /\ fpos' = fpos + n
      /\ UNCHANGED <<img, poisoned, off, want>>

(* Bug: the chunk is taken from the start of the decompressed cluster. *)
InflatedChunkFromStart(t, got) ==
  [i \in 0 .. (ToRead(t) - 1) |-> InflatedByte(img, ref[t], got, i)]

(* decompressed[offset_in_cluster .. offset_in_cluster + to_read] *)
InflatedChunk(t, got) ==
  [i \in 0 .. (ToRead(t) - 1) |->
     InflatedByte(img, ref[t], got, OffsetInCluster(img, pos) + i)]

(* decompress_cluster: the compressed bytes are read to the bound or the   *)
(* end of the backing, inflated, and padded with zeros to a cluster.       *)
Inflate(t) ==
  /\ pc[t] = "inflate"
  /\ fpos' = fpos + Filled(img, ref[t])
  /\ \/ \E got \in InflatedLengths(img, ref[t]) :
          Deliver(t, ToRead(t), InflatedChunk(t, got))
     \/ /\ InflateMayFail(img, ref[t])
        /\ Leave(t, "err")
        /\ UNCHANGED <<pos, total, buf>>
  /\ UNCHANGED <<img, poisoned, off, want>>

(* A call on the backing fails: `?' returns the error to the caller. *)
IoError(t) ==
  /\ pc[t] \in BackingCalls
  /\ Leave(t, "io")
  /\ UNCHANGED <<img, poisoned, pos, fpos, off, want, total, buf>>

(* A call on the backing, a trait object of the caller's, panics: the      *)
(* guard is dropped while unwinding and poisons the mutex.                 *)
BackingPanic(t) ==
  /\ pc[t] \in BackingCalls
  /\ Leave(t, "panic")
  /\ poisoned' = TRUE
  /\ UNCHANGED <<img, pos, fpos, off, want, total, buf>>

Step(t) ==
  \/ Lock(t) \/ SeekStart(t) \/ LoopExit(t) \/ ReadEnter(t)
  \/ L2Missing(t) \/ L2Read(t) \/ DataRead(t) \/ Inflate(t)

Next ==
  \E t \in Threads :
    \/ \E o \in Offsets, n \in Lengths : ReadAt(t, o, n)
    \/ Step(t)
    \/ IoError(t)
    \/ BackingPanic(t)

Spec == Init /\ [][Next]_vars

(* A thread that holds the lock keeps running.  The mutex promises nobody  *)
(* a turn: a thread at the lock has no fairness of its own.                *)
Fairness == \A t \in Threads : WF_vars(pc[t] \in Inside /\ Step(t))

FairSpec == Spec /\ Fairness

-----------------------------------------------------------------------------
(* The bytes read_at has delivered so far are those the image records at   *)
(* the caller's offset, whoever moved the shared cursors in between, and   *)
(* nothing past them has been written: when it returns Ok(n), exactly n    *)
(* right bytes are in the buffer (vfs.rs read_at, lib.rs Read::read).      *)
ReadAtFaithful ==
  \A t \in Threads :
    /\ total[t] <= want[t]
    /\ \A i \in 0 .. (want[t] - 1) :
         IF i < total[t] THEN GuestByte(img, off[t] + i, buf[t][i])
                         ELSE buf[t][i] = Stale

(* What a thread inside the mutex may rely on at each call of the backing. *)
HoldsPlace(t) ==
  /\ pc[t] \in {"loop"} \cup BackingCalls => pos = off[t] + total[t]
  /\ pc[t] \in BackingCalls => total[t] < want[t] /\ L2TableOffset(img, pos) # 0
  /\ pc[t] = "l2" => fpos = L2EntryPos(img, pos)
  /\ pc[t] \in {"data", "inflate"} =>
       WordReadable(img, L2EntryPos(img, pos)) /\ ref[t] = GuestRef(img, pos)
  /\ pc[t] = "data" => ref[t].kind = "normal" /\ fpos = FileOffset(img, pos)
  /\ pc[t] = "inflate" => ref[t].kind = "compressed" /\ fpos = ref[t].off

(* The thread inside the mutex, and only it, moves the two cursors of the  *)
(* reader: at every call of the backing they are where that thread put     *)
(* them, and the cluster it resolved is the one under its cursor (the      *)
(* &mut self that Qcow2Reader::read and cluster_ref_for count on).         *)
CursorsHeld ==
  /\ \A t \in Threads : pc[t] \in Inside <=> lock = t
  /\ \A t \in Threads : HoldsPlace(t)

(* read_at returns fewer bytes than the disk has for it only where the     *)
(* backing ends inside a data cluster; short reads of the backing, cluster *)
(* and table borders never cut it (the `while total < want' of vfs.rs).    *)
ShortReadOnlyAtTruncation ==
  \A t \in Threads :
    res[t] = "ok" /\ total[t] < want[t] => Truncated(img, off[t] + total[t])

(* An error that no failing backing caused tells of a defect of the image  *)
(* at the first byte not delivered: an L2 entry outside the backing or a   *)
(* bad stream; or of an offset that no i64 holds (vfs.rs map_err, lib.rs   *)
(* cluster_ref_for, decompress_cluster and seek).                          *)
ErrorTellsOfDefect ==
  \A t \in Threads :
    res[t] = "err" =>
      LET v == off[t] + total[t] IN
        \/ off[t] >= CopiedBit
        \/ ~Resolved(img, v)
        \/ /\ GuestRef(img, v).kind = "compressed"
           /\ InflateMayFail(img, GuestRef(img, v))

(* "one panicking reader does not wedge the source" (vfs.rs Qcow2Source):  *)
(* a call panics only in its own call on the backing, never because        *)
(* another one did and left the mutex poisoned.                            *)
PanicNeverSpreads ==
  [][\A t \in Threads :
       res'[t] = "panic" /\ res[t] # "panic" => lock = t /\ poisoned']_vars

(* A holder of the mutex lets it go: the read loop of read_at makes        *)
(* progress on every backing, truncated ones included, so no thread is     *)
(* kept out by one that spins.                                             *)
LockReleased == \A t \in Threads : (lock = t) ~> (lock # t)

(* "validate that the decompressed length equals cluster_size or return an *)
(* error - never let an empty/short inflate zero-pad into silent wrong     *)
(* data" (docs/decisions/0004): a byte delivered from a compressed cluster *)
(* comes of a stream that was read whole and fills the cluster.            *)
ShortInflateIsAnError ==
  \A t \in Threads : \A i \in 0 .. (total[t] - 1) :
    LET r == GuestRef(img, off[t] + i) IN
      r.kind = "compressed" =>
        /\ Filled(img, r) # 0
        /\ img.stream[r.off].outlen = img.cluster
        /\ img.stream[r.off].need <= Filled(img, r)

(***************************************************************************)
(* The abstract source: a caller sees the request and, once it is idle     *)
(* again, the answer.                                                      *)
(***************************************************************************)
Asked == [t \in Threads |-> [off |-> off[t], want |-> want[t]]]

Answered ==
  [t \in Threads |->
     LET n == IF res[t] = "ok" THEN total[t] ELSE 0
     IN  [kind |-> IF pc[t] = "idle" THEN res[t] ELSE "pending",
          n |-> n, bytes |-> [i \in 0 .. (n - 1) |-> buf[t][i]]]]

Abstract == INSTANCE ImageSource WITH asked <- Asked, answer <- Answered

(* Calls of read_at that overlap, fail, panic and get short reads from the *)
(* backing are linearizable: each behaves as one atomic read of the disk.  *)
ReadsAreAtomic == Abstract!Spec
=============================================================================
