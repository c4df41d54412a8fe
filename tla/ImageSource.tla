---------------------------- MODULE ImageSource ----------------------------
(***************************************************************************)
(* What a Qcow2Source promises the callers of forensic-vfs' ImageSource    *)
(* trait (external; implemented in core/src/vfs.rs): read_at has no        *)
(* cursor, no lock and no chunks.  A call is asked and later answered in   *)
(* one step, from the image alone, whatever other calls are under way.     *)
(***************************************************************************)
EXTENDS Qcow2Format

CONSTANTS Threads, Images, Offsets, Lengths

VARIABLES
  img,      \* the image
  asked,    \* asked[t]: the request of t's last call
  answer    \* answer[t]: how it was answered; Pending while it is not

vars == <<img, asked, answer>>

Answer(kind, n, bytes) == [kind |-> kind, n |-> n, bytes |-> bytes]

Nothing == [i \in 0 .. -1 |-> 0]

Pending == Answer("pending", 0, Nothing)

Init ==
  /\ img \in Images
  /\ asked = [t \in Threads |-> [off |-> 0, want |-> 0]]
  /\ answer = [t \in Threads |-> Answer("none", 0, Nothing)]

(* Ok(n): n bytes of the disk, and all there are unless the backing ends   *)
(* there.  An Err or a panic says nothing about the buffer.                *)
Right(rq, a) ==
  \/ /\ a.kind = "ok"
     /\ a.n \in 0 .. rq.want
     /\ DOMAIN a.bytes = 0 .. (a.n - 1)
     /\ \A i \in 0 .. (a.n - 1) : GuestByte(img, rq.off + i, a.bytes[i])
     /\ a.n < rq.want => Truncated(img, rq.off + a.n)
  \/ /\ a.kind \in {"err", "io", "panic"}
     /\ a.n = 0 /\ a.bytes = Nothing

(* t asks for n bytes at o, of which the disk has `want'; past the end     *)
(* that is none, and the answer may come at once.                          *)
Ask(t, o, n) ==
  LET want == Smaller(n, IF o <= img.size THEN img.size - o ELSE 0) IN
  /\ answer[t] # Pending
  /\ asked' = [asked EXCEPT ![t] = [off |-> o, want |-> want]]
  /\ answer' = [answer EXCEPT ![t] = answer'[t]]
  /\ \/ answer'[t] = Pending
     \/ o >= img.size /\ answer'[t] = Answer("ok", 0, Nothing)
  /\ UNCHANGED img

Reply(t) ==
  /\ answer[t] = Pending
  /\ answer' = [answer EXCEPT ![t] = answer'[t]]
  /\ Right(asked[t], answer'[t])
  /\ UNCHANGED <<img, asked>>

Next ==
  \E t \in Threads :
    \/ \E o \in Offsets, n \in Lengths : Ask(t, o, n)
    \/ Reply(t)

Spec == Init /\ [][Next]_vars
=============================================================================
