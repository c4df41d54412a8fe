----------------------------- MODULE Qcow2Open -----------------------------
(***************************************************************************)
(* Opening an image: Qcow2Reader::from_backing (core/src/lib.rs) with the  *)
(* strict Qcow2Header::parse, and inspect with the lenient                 *)
(* Qcow2Info::parse (core/src/header.rs), both over read_window, which     *)
(* collects the header from a backing that may return any part of what it  *)
(* was asked for.                                                          *)
(***************************************************************************)
EXTENDS Qcow2Header, FiniteSets

CONSTANTS
  Files,           \* the files that may be opened
  Inner,           \* headers that may stand further on in a file
  StrictWindow,    \* 104, what from_backing reads
  LenientWindow,   \* 8192, what inspect reads
  MaxL1,           \* 1 << 20, MAX_L1_ENTRIES
  EntrySize,       \* 8
  SeekLimit        \* 1 << 63, the first offset a File cannot be sought to; a
                   \* Cursor can be sought to any u64: 1 << 64

ASSUME OpenAssumption ==
  /\ \A f \in Files \cup Inner : IsHeader(f)
  /\ {StrictWindow, LenientWindow, MaxL1, EntrySize, SeekLimit}
       \subseteq Nat \ {0}
  /\ LengthEnd <= StrictWindow
  /\ StrictWindow <= LenientWindow

Ops == {"open", "inspect"}

VARIABLES
  file,     \* the file; fixed
  head,     \* the header at the place the backing was handed over at; fixed
  op,       \* the operation under way, "none" between two
  pc,       \* "window", "parse" or "l1" while it is
  filled,   \* read_window's count
  verdict,  \* verdict[o]: how operation o ended; "none" before
  info      \* the Qcow2Info that inspect returned

vars == <<file, head, op, pc, filled, verdict, info>>

Errors == {"fault", "io", "too small", "bad magic", "version", "backing", "cluster bits",
           "crypt", "features", "l1 too large"}

TypeOK ==
  /\ IsHeader(file) /\ IsHeader(head)
  /\ op \in Ops \cup {"none"}
  /\ pc \in {"idle", "window", "parse", "l1"}
  /\ filled \in 0 .. LenientWindow
  /\ verdict \in [Ops -> Errors \cup {"none", "ok"}]

(* A path is opened at its beginning; a reader that is handed over may     *)
(* have been read from, and from_backing does not rewind it.               *)
Init ==
  /\ file \in Files
  /\ head \in {file} \cup {h \in Inner : h.len < file.len}
  /\ op = "none"
  /\ pc = "idle"
  /\ filled = 0
  /\ verdict = [o \in Ops |-> "none"]
  /\ info = {}

Window == IF op = "open" THEN StrictWindow ELSE LenientWindow

(* What the operation under way reads from; `head' is shorter where the    *)
(* backing was handed over in the middle.                                  *)
Seen == IF op = "open" THEN head ELSE file

-----------------------------------------------------------------------------
End(v) ==
  /\ verdict' = [verdict EXCEPT ![op] = v]
  /\ op' = "none"
  /\ pc' = "idle"
  /\ info' = IF op = "inspect" /\ v = "ok" THEN Info(file, filled) ELSE info
  /\ filled' = 0
  /\ UNCHANGED <<file, head>>

(* open, open_reader, from_reader or inspect is called, each once. *)
Begin(o) ==
  /\ op = "none"
  /\ verdict[o] = "none"
  /\ op' = o
  /\ pc' = "window"
  /\ filled' = 0
  /\ UNCHANGED <<file, head, verdict, info>>

(* Bug: one read is taken to fill the window. *)
WindowReadOnce == filled > 0 \/ Seen.len = 0

(* Bug: only a full window ends the loop. *)
WindowReadFull == filled = Window

(* read_window's loop ends at a full window or at the end of the file. *)
WindowRead == filled = Window \/ filled = Seen.len

(* Bug: every read is given the whole buffer. *)
ReadWindowWhole ==
  /\ pc = "window"
  /\ IF filled >= Window \/ filled >= Seen.len
     THEN pc' = "parse" /\ UNCHANGED filled
     ELSE (\E n \in 1 .. Window : filled' = filled + n) /\ UNCHANGED pc
  /\ UNCHANGED <<file, head, op, verdict, info>>

(* read_window: one read of the backing, which returns any part of what is *)
(* there, and 0 only at the end.                                           *)
ReadWindow ==
  LET there == (IF Seen.len < Window THEN Seen.len ELSE Window) - filled IN
  /\ pc = "window"
  /\ IF WindowRead
     THEN pc' = "parse" /\ UNCHANGED filled
     ELSE /\ \E n \in (IF there = 0 THEN {0} ELSE 1 .. there) : filled' = filled + n
          /\ UNCHANGED pc
  /\ UNCHANGED <<file, head, op, verdict, info>>

(* from_backing after the window: the header, the cap on the L1 table, and *)
(* the seek to it.                                                         *)
ParseHeader ==
  /\ pc = "parse" /\ op = "open"
  /\ LET v == StrictParse(head, filled) IN
       IF v # "ok" THEN End(v)
       ELSE IF head.l1size > MaxL1 THEN End("l1 too large")
       ELSE IF head.l1off >= SeekLimit THEN End("io")
       ELSE pc' = "l1" /\ UNCHANGED <<file, head, op, filled, verdict, info>>

L1InFile == head.l1size = 0 \/ head.l1off + head.l1size * EntrySize <= file.len

(* read_exact of the L1 table, which is sought from the beginning of the   *)
(* file, and the reader is built.                                          *)
ReadL1 == pc = "l1" /\ End(IF L1InFile THEN "ok" ELSE "io")

(* Bug: inspect shares the strict parser. *)
ParseInfoStrictly ==
  /\ pc = "parse" /\ op = "inspect"
  /\ End(StrictParse(file, filled))

ParseInfo ==
  /\ pc = "parse" /\ op = "inspect"
  /\ End(LenientParse(file, filled))

(* A call on the backing fails, and `?' passes the error on. *)
Fault == pc \in {"window", "l1"} /\ End("fault")

Progress == ReadWindow \/ ParseHeader \/ ReadL1 \/ ParseInfo

Next == (\E o \in Ops : Begin(o)) \/ Progress \/ Fault

Spec == Init /\ [][Next]_vars

(* The calling thread runs on, and a read of the backing returns. *)
FairSpec == Spec /\ WF_vars(Progress)

-----------------------------------------------------------------------------
(* The images the reader takes, stated of the whole file f at once, for a *)
(* header h in it.                                                         *)
Readable(f, h) ==
  /\ h.len >= MinHeader /\ h.magic
  /\ h.version \in {2, 3}
  /\ h.boff = 0 /\ h.crypt = 0
  /\ h.cluster_bits \in 9 .. 20
  /\ h.version = 2 \/ h.len < FeatureEnd \/ h.incompat \cap Unsupported = {}
  /\ h.l1size <= MaxL1 /\ h.l1off < SeekLimit
  /\ h.l1size = 0 \/ h.l1off + h.l1size * EntrySize <= f.len

(* Whether an image opens depends on the file, and on where in it the      *)
(* backing stood: short reads, which read_window is there to hide, never   *)
(* change the outcome ("the caller never assumes a single read() fills the *)
(* window", lib.rs), and the position decides about the header alone: the  *)
(* L1 table is looked for from the beginning in any case.                  *)
OpenedIffReadable ==
  verdict["open"] \notin {"none", "fault"} =>
    (verdict["open"] = "ok" <=> Readable(file, head))

(* "works on images the reader rejects" (lib.rs inspect, ADR 0005): what   *)
(* open takes, inspect takes; and where open refuses an image for its      *)
(* backing file, encryption or features, inspect reports that fact, though *)
(* the two read different windows of the file in different pieces.         *)
InspectExplainsOpen ==
  head = file /\ (\A o \in Ops : verdict[o] \notin {"none", "fault"}) =>
    CASE verdict["open"] = "ok" ->
           /\ verdict["inspect"] = "ok"
           /\ ~info.backing /\ info.crypt = 0
           /\ info.incompat \cap Unsupported = {}
           /\ info.bits \in 9 .. 20 /\ info.l1size <= MaxL1
      [] verdict["open"] = "backing" -> verdict["inspect"] = "ok" /\ info.backing
      [] verdict["open"] = "crypt" -> verdict["inspect"] = "ok" /\ info.crypt # 0
      [] verdict["open"] = "features" ->
           verdict["inspect"] = "ok" /\ info.incompat \cap Unsupported # {}
      [] verdict["open"] = "version" ->
           verdict["inspect"] = "ok" => info.version = 1
      [] verdict["open"] \in {"too small", "bad magic"} ->
           verdict["inspect"] = verdict["open"]
      [] OTHER -> verdict["inspect"] = "ok"

(* The extensions of the whole file as the format chains them: S is the    *)
(* chain from the end of the header to the extension at p.  Each but the   *)
(* last is followed by the one at the first multiple of ExtAlign, counted  *)
(* from its own place, past its data.                                      *)
IsChain(S, p) ==
  /\ HeaderEnd(file, file.len) \in S /\ p \in S
  /\ \A q \in S : HeaderEnd(file, file.len) <= q /\ q <= p
  /\ \A q \in S \ {p} :
       LET data_end == q + ExtAlign + file.ext[q].len IN
       /\ file.ext[q].type = "other"
       /\ \E r \in S : r \in data_end .. (data_end + ExtAlign - 1) /\ (r - q) % ExtAlign = 0
       /\ \A r \in S : r <= q \/ r >= data_end
  /\ file.ext[p].type = "backing format"

(* "Backing-file format name from the header-extension area" (header.rs    *)
(* Qcow2Info): inspect names the format that the chain of extensions of    *)
(* the file leads to, and none beside it, as long as the name lies in the  *)
(* window and the chain is not longer than the scan; likewise the name of  *)
(* the backing file.                                                       *)
BackingIsNamed ==
  LET n == IF file.len < LenientWindow THEN file.len ELSE LenientWindow
      Named(at, len) == <<at, IF len < MaxName THEN len ELSE MaxName>>
      Ends(s) == s[1] + s[2]
      formats == {p \in DOMAIN file.ext :
                    \E S \in SUBSET DOMAIN file.ext :
                      IsChain(S, p) /\ Cardinality(S) <= MaxExtensions}
      format == {s \in {Named(p + ExtAlign, file.ext[p].len) : p \in formats} : Ends(s) <= n}
  IN  verdict["inspect"] = "ok" =>
        /\ IF file.version # 1 /\ format # {}
           THEN info.format \in format ELSE info.format = None
        /\ info.name # None <=>
             info.backing /\ file.bsize # 0 /\ Ends(Named(file.boff, file.bsize)) <= n

(* read_window ends: on a backing that delivers something whenever it has  *)
(* something, each operation comes to a verdict.                           *)
OperationsEnd == \A o \in Ops : (op = o) ~> (op # o)
=============================================================================
