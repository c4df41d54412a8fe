-------------------------- MODULE Qcow2OpenProofs ---------------------------
(***************************************************************************)
(* Proofs about Qcow2Open, for every file, every header further on in it   *)
(* and every size of the windows.                                          *)
(***************************************************************************)
EXTENDS Qcow2Open, NatFacts

-----------------------------------------------------------------------------
(***************************************************************************)
(* The inductive invariant.  What a loop of short reads leaves in the      *)
(* window is decided by the file alone once the loop has ended; so is each *)
(* verdict, and what inspect has reported.                                 *)
(***************************************************************************)

(* A window of w units of f. *)
Whole(f, w) == IF f.len < w THEN f.len ELSE w

(* The verdict of open as a function of the file. *)
OpenVerdict ==
  LET v == StrictParse(head, Whole(head, StrictWindow)) IN
  IF v # "ok" THEN v
  ELSE IF head.l1size > MaxL1 THEN "l1 too large"
  ELSE IF head.l1off >= SeekLimit THEN "io"
  ELSE IF L1InFile THEN "ok" ELSE "io"

InspectVerdict == LenientParse(file, Whole(file, LenientWindow))

(* The operation under way, and how far it is. *)
WindowInv ==
  /\ op = "none" <=> pc = "idle"
  /\ op \in Ops => verdict[op] = "none"
  /\ pc = "window" => filled <= Whole(Seen, Window)
  /\ pc \in {"parse", "l1"} => filled = Whole(Seen, Window)
  /\ pc = "l1" => /\ op = "open"
                  /\ StrictParse(head, filled) = "ok"
                  /\ head.l1size <= MaxL1 /\ head.l1off < SeekLimit

(* Verdicts do not depend on how the file was read. *)
VerdictInv ==
  /\ verdict["open"] \notin {"none", "fault"} => verdict["open"] = OpenVerdict
  /\ verdict["inspect"] \notin {"none", "fault"} => verdict["inspect"] = InspectVerdict
  /\ verdict["inspect"] = "ok" => info = Info(file, Whole(file, LenientWindow))

Inv == TypeOK /\ WindowInv /\ VerdictInv

-----------------------------------------------------------------------------
(* The two parsers. *)

(* The parsers return an error or "ok". *)
LEMMA ParseTypes ==
  ASSUME NEW f, NEW n
  PROVE  /\ StrictParse(f, n) \in Errors \cup {"ok"}
         /\ StrictParse(f, n) \notin {"none", "fault", "io", "l1 too large"}
         /\ LenientParse(f, n) \in {"too small", "bad magic", "version", "ok"}
  BY DEF StrictParse, LenientParse, Errors

(* The strict and the lenient parser of one header, when both see the same *)
(* of its borders: what the one says of the other.                         *)
LEMMA ParsersAgree ==
  ASSUME NEW f, NEW n, NEW m,
         n < MinHeader <=> m < MinHeader, n >= FeatureEnd <=> m >= FeatureEnd
  PROVE  LET v == StrictParse(f, n)
             w == LenientParse(f, m)
         IN  /\ v \notin {"too small", "bad magic", "version"} =>
                  w = "ok" /\ f.version \in 2 .. 3
             /\ v \in {"too small", "bad magic"} => w = v
             /\ v = "version" /\ w = "ok" => f.version = 1
             /\ v = "backing" => f.boff # 0
             /\ v = "crypt" => f.crypt # 0
             /\ v = "features" => IncompatSeen(f, m) \cap Unsupported # {}
             /\ v = "ok" => /\ f.boff = 0 /\ f.crypt = 0
                            /\ IncompatSeen(f, m) \cap Unsupported = {}
                            /\ f.cluster_bits \in 9 .. 20
<1>1. IncompatSeen(f, n) = IncompatSeen(f, m)
  BY DEF IncompatSeen
<1>2. f.version \in 2 .. 3 => f.version \in 1 .. 3
  OBVIOUS
<1>3. f.version \in 1 .. 3 /\ f.version \notin 2 .. 3 => f.version = 1
  OBVIOUS
<1>4. QED
  BY <1>1, <1>2, <1>3 DEF StrictParse, LenientParse

(* The constants are natural numbers in their order. *)
LEMMA Sizes ==
  /\ MinHeader \in Nat /\ FeatureEnd \in Nat /\ LengthEnd \in Nat
  /\ MinHeader < FeatureEnd /\ FeatureEnd < LengthEnd
  /\ ExtAlign \in Nat \ {0} /\ MaxExtensions \in Nat /\ MaxName \in Nat
  /\ StrictWindow \in Nat /\ LengthEnd <= StrictWindow
  /\ LenientWindow \in Nat /\ LengthEnd <= LenientWindow
  /\ StrictWindow <= LenientWindow
  /\ MaxL1 \in Nat /\ EntrySize \in Nat /\ SeekLimit \in Nat
<1>1. /\ \A x \in {MinHeader, FeatureEnd, LengthEnd, ExtAlign, MaxExtensions, MaxName} :
           x \in Nat \ {0}
      /\ MinHeader < FeatureEnd /\ FeatureEnd < LengthEnd
  BY HeaderAssumption
<1>2. /\ \A x \in {StrictWindow, LenientWindow, MaxL1, EntrySize, SeekLimit} : x \in Nat \ {0}
      /\ LengthEnd <= StrictWindow /\ StrictWindow <= LenientWindow
  BY OpenAssumption
<1>3. QED
  BY <1>1, <1>2

(* A window holds the whole header or the whole file, so that it tells the *)
(* parsers of each border what the file would.                             *)
LEMMA WindowTellsBorders ==
  ASSUME NEW f, IsHeader(f), NEW w \in Nat, LengthEnd <= w
  PROVE  /\ Whole(f, w) \in Nat /\ Whole(f, w) <= w /\ Whole(f, w) <= f.len
         /\ Whole(f, w) < MinHeader <=> f.len < MinHeader
         /\ Whole(f, w) >= FeatureEnd <=> f.len >= FeatureEnd
         /\ Whole(f, w) >= LengthEnd <=> f.len >= LengthEnd
<1>1. f.len \in Nat
  BY DEF IsHeader
<1>2. QED
  BY <1>1, Sizes DEF Whole

(* Both windows hold the whole header. *)
LEMMA WindowSizes == Window \in Nat /\ LengthEnd <= Window /\ Window <= LenientWindow
  BY Sizes DEF Window

-----------------------------------------------------------------------------
(* The steps. *)

(* Nothing has been opened or inspected. *)
LEMMA InitInv == Init => Inv
<1> SUFFICES ASSUME Init
             PROVE  Inv
  OBVIOUS
<1>1. IsHeader(file) /\ IsHeader(head)
  BY OpenAssumption DEF Init
<1>2. LenientWindow \in Nat
  BY Sizes, WindowSizes
<1>3. QED
  BY <1>1, <1>2 DEF Init, Inv, TypeOK, WindowInv, VerdictInv, Ops, Errors

(* An operation that ends with the verdict of its file. *)
LEMMA EndInv ==
  ASSUME Inv, pc # "idle", NEW v \in Errors \cup {"ok"}, End(v),
         v # "fault" /\ op = "open" => v = OpenVerdict,
         v # "fault" /\ op = "inspect" =>
           v = InspectVerdict /\ filled = Whole(file, LenientWindow)
  PROVE  Inv'
<1>1. op \in Ops /\ verdict \in [Ops -> Errors \cup {"none", "ok"}]
  BY DEF Inv, TypeOK, WindowInv
<1>2. /\ verdict' = [verdict EXCEPT ![op] = v]
      /\ op' = "none" /\ pc' = "idle" /\ filled' = 0
      /\ file' = file /\ head' = head
      /\ info' = IF op = "inspect" /\ v = "ok" THEN Info(file, filled) ELSE info
  BY DEF End
<1>3. \A o \in Ops : verdict'[o] = IF o = op THEN v ELSE verdict[o]
  BY <1>1, <1>2
<1>4. TypeOK'
  BY <1>1, <1>2, Sizes, WindowSizes DEF Inv, TypeOK
<1>5. WindowInv'
  BY <1>2 DEF WindowInv, Ops
<1>6. OpenVerdict' = OpenVerdict /\ InspectVerdict' = InspectVerdict
  BY <1>2 DEF OpenVerdict, InspectVerdict, L1InFile
<1>7. VerdictInv'
  <2>1. CASE op = "open"
    BY <1>2, <1>3, <1>6, <2>1 DEF Inv, VerdictInv, Ops
  <2>2. CASE op = "inspect"
    BY <1>2, <1>3, <1>6, <2>2 DEF Inv, VerdictInv, Ops
  <2>3. QED
    BY <1>1, <2>1, <2>2 DEF Ops
<1>8. QED
  BY <1>4, <1>5, <1>7 DEF Inv

(* A step within an operation changes no verdict. *)
LEMMA WithinInv ==
  ASSUME Inv, UNCHANGED <<file, head, verdict, info>>
  PROVE  VerdictInv'
  BY DEF Inv, VerdictInv, OpenVerdict, InspectVerdict, L1InFile

(* A call begins with an empty window. *)
LEMMA BeginInv ==
  ASSUME Inv, NEW o \in Ops, Begin(o)
  PROVE  Inv'
<1>1. VerdictInv'
  BY WithinInv DEF Begin
<1>2. IsHeader(file) /\ IsHeader(head)
  BY DEF Inv, TypeOK
<1>3. 0 <= Whole(Seen', Window')
  <2>1. Seen'.len \in Nat
    BY <1>2 DEF Begin, Seen, IsHeader
  <2>2. Window' \in Nat
    BY Sizes DEF Begin, Window
  <2>3. QED
    BY <2>1, <2>2 DEF Whole
<1>4. WindowInv'
  BY <1>3 DEF Begin, WindowInv, Ops
<1>5. TypeOK'
  BY Sizes, WindowSizes DEF Begin, Inv, TypeOK
<1>6. QED
  BY <1>1, <1>4, <1>5 DEF Inv

(* read_window: whatever a read returns, the window never gets past what   *)
(* there is, and is left only when it holds all of it.                     *)
LEMMA ReadWindowInv ==
  ASSUME Inv, ReadWindow
  PROVE  Inv'
<1>1. VerdictInv'
  BY WithinInv DEF ReadWindow
<1>2. /\ Seen' = Seen /\ Window' = Window
      /\ op \in Ops /\ op' = op /\ verdict' = verdict
      /\ file' = file /\ head' = head
  BY DEF ReadWindow, Seen, Window, Inv, TypeOK, WindowInv
<1>3. Seen.len \in Nat /\ Window \in Nat /\ Window <= LenientWindow
  BY Sizes, WindowSizes DEF Inv, TypeOK, IsHeader, Seen
<1>4. filled \in Nat /\ filled <= Whole(Seen, Window) /\ pc = "window"
  BY Sizes, WindowSizes DEF ReadWindow, Inv, TypeOK, WindowInv
<1>5. CASE WindowRead
  <2>1. pc' = "parse" /\ filled' = filled
    BY <1>5 DEF ReadWindow
  <2>2. filled = Whole(Seen, Window)
    BY <1>3, <1>4, <1>5 DEF WindowRead, Whole
  <2>3. Whole(Seen', Window') = Whole(Seen, Window)
    BY <1>2
  <2>4. QED
    BY <1>1, <1>2, <2>1, <2>2, <2>3 DEF Inv, TypeOK, WindowInv, Ops
<1>6. CASE ~WindowRead
  <2> DEFINE there == (IF Seen.len < Window THEN Seen.len ELSE Window) - filled
  <2>1. PICK n \in (IF there = 0 THEN {0} ELSE 1 .. there) : filled' = filled + n
    BY <1>6 DEF ReadWindow
  <2>2. pc' = "window"
    BY <1>6 DEF ReadWindow
  <2>3. there \in Nat /\ filled + there = Whole(Seen, Window)
    BY <1>3, <1>4 DEF Whole
  <2> HIDE DEF there
  <2>4. filled' \in Nat /\ filled' <= Whole(Seen, Window)
    BY <1>4, <2>1, <2>3
  <2>5. Whole(Seen, Window) <= LenientWindow /\ Whole(Seen, Window) \in Nat
    BY <1>3, Sizes, WindowSizes DEF Whole
  <2>6. filled' \in 0 .. LenientWindow
    BY <2>4, <2>5, Sizes
  <2>7. filled' <= Whole(Seen', Window')
    BY <1>2, <2>4
  <2>8. QED
    BY <1>1, <1>2, <2>2, <2>6, <2>7 DEF Inv, TypeOK, WindowInv, Ops
<1>7. QED
  BY <1>5, <1>6

(* The header is parsed from a window that the file alone decides. *)
LEMMA ParseHeaderInv ==
  ASSUME Inv, ParseHeader
  PROVE  Inv'
<1> DEFINE v == StrictParse(head, filled)
<1>1. pc = "parse" /\ op = "open" /\ filled = Whole(head, StrictWindow)
  BY DEF ParseHeader, Inv, WindowInv, Seen, Window
<1>2. v \in Errors \cup {"ok"} /\ v \notin {"none", "fault"}
  BY ParseTypes
<1>3. IsHeader(head)
  BY DEF Inv, TypeOK
<1>4. CASE v # "ok"
  <2>1. End(v) /\ v = OpenVerdict
    BY <1>1, <1>4 DEF ParseHeader, OpenVerdict
  <2>2. QED
    BY <1>1, <1>2, <2>1, EndInv
<1>5. CASE v = "ok" /\ head.l1size > MaxL1
  <2>1. End("l1 too large") /\ "l1 too large" = OpenVerdict
    BY <1>1, <1>5 DEF ParseHeader, OpenVerdict
  <2>2. QED
    BY <1>1, <2>1, EndInv DEF Errors
<1>6. CASE v = "ok" /\ ~(head.l1size > MaxL1) /\ head.l1off >= SeekLimit
  <2>1. End("io") /\ "io" = OpenVerdict
    BY <1>1, <1>6 DEF ParseHeader, OpenVerdict
  <2>2. QED
    BY <1>1, <2>1, EndInv DEF Errors
<1>7. CASE v = "ok" /\ ~(head.l1size > MaxL1) /\ ~(head.l1off >= SeekLimit)
  <2>1. pc' = "l1" /\ UNCHANGED <<file, head, op, filled, verdict, info>>
    BY <1>7 DEF ParseHeader
  <2>2. VerdictInv'
    BY <2>1, WithinInv
  <2>3. head.l1size <= MaxL1 /\ head.l1off < SeekLimit
    <3>1. head.l1size \in Nat /\ head.l1off \in Nat
      BY <1>3 DEF IsHeader
    <3>2. QED
      BY <1>7, <3>1, Sizes
  <2>4. WindowInv'
    BY <1>1, <1>7, <2>1, <2>3 DEF Inv, WindowInv, Seen, Window, Ops
  <2>5. TypeOK'
    BY <2>1 DEF Inv, TypeOK
  <2>6. QED
    BY <2>2, <2>4, <2>5 DEF Inv
<1>8. QED
  BY <1>4, <1>5, <1>6, <1>7

(* The L1 table is in the file or not, whatever the window was. *)
LEMMA ReadL1Inv ==
  ASSUME Inv, ReadL1
  PROVE  Inv'
<1> DEFINE v == IF L1InFile THEN "ok" ELSE "io"
<1>1. pc = "l1" /\ op = "open" /\ End(v)
  BY DEF ReadL1, Inv, WindowInv
<1>2. /\ StrictParse(head, Whole(head, StrictWindow)) = "ok"
      /\ ~(head.l1size > MaxL1) /\ ~(head.l1off >= SeekLimit)
  <2>1. filled = Whole(head, StrictWindow)
    BY <1>1 DEF Inv, WindowInv, Seen, Window
  <2>2. head.l1size \in Nat /\ head.l1off \in Nat
    BY DEF Inv, TypeOK, IsHeader
  <2>3. QED
    BY <1>1, <2>1, <2>2, Sizes DEF Inv, WindowInv
<1>3. v = OpenVerdict
  BY <1>2 DEF OpenVerdict
<1>4. v \in Errors \cup {"ok"}
  BY DEF Errors
<1> HIDE DEF v
<1>5. QED
  BY <1>1, <1>3, <1>4, EndInv

(* inspect parses the same window for every sequence of short reads. *)
LEMMA ParseInfoInv ==
  ASSUME Inv, ParseInfo
  PROVE  Inv'
<1> DEFINE v == LenientParse(file, filled)
<1>1. pc = "parse" /\ op = "inspect" /\ End(v)
  BY DEF ParseInfo
<1>2. filled = Whole(file, LenientWindow)
  BY <1>1 DEF Inv, WindowInv, Seen, Window
<1>3. v \in Errors \cup {"ok"} /\ v = InspectVerdict
  BY <1>2, ParseTypes DEF InspectVerdict, Errors
<1> HIDE DEF v
<1>4. QED
  BY <1>1, <1>2, <1>3, EndInv

(* A failing call gives the verdict of a fault, of which nothing is said. *)
LEMMA FaultInv ==
  ASSUME Inv, Fault
  PROVE  Inv'
  BY EndInv DEF Fault, Errors

(* Every step of open and inspect keeps Inv. *)
LEMMA NextInv == Inv /\ [Next]_vars => Inv'
<1> SUFFICES ASSUME Inv, [Next]_vars
             PROVE  Inv'
  OBVIOUS
<1>1. CASE UNCHANGED vars
  BY <1>1, WithinInv DEF vars, Inv, TypeOK, WindowInv, Seen, Window, Whole
<1>2. QED
  BY <1>1, BeginInv, ReadWindowInv, ParseHeaderInv, ReadL1Inv, ParseInfoInv, FaultInv
     DEF Next, Progress

-----------------------------------------------------------------------------
(***************************************************************************)
(* The theorems.                                                           *)
(***************************************************************************)

(* Both operations together keep the window and the verdicts to what the   *)
(* file says, whatever the reads return (lib.rs read_window, from_backing, *)
(* inspect).                                                               *)
THEOREM Invariance == Spec => []Inv
<1>1. QED
  BY InitInv, NextInv, PTL DEF Spec

(* The window never overflows and every operation ends with one of its     *)
(* errors or with success (lib.rs read_window).                            *)
THEOREM TypeCorrect == Spec => []TypeOK
<1>1. Inv => TypeOK
  BY DEF Inv
<1>2. QED
  BY <1>1, Invariance, PTL

(* For every file and every sequence of short reads, open takes exactly    *)
(* the images that can be read (lib.rs from_backing, header.rs             *)
(* Qcow2Header::parse).                                                    *)
THEOREM OpenTakesTheReadable == Spec => []OpenedIffReadable
<1>1. ASSUME Inv, verdict["open"] \notin {"none", "fault"}
      PROVE  verdict["open"] = "ok" <=> Readable(file, head)
  <2> DEFINE n == Whole(head, StrictWindow)
  <2>1. verdict["open"] = OpenVerdict
    BY <1>1 DEF Inv, VerdictInv
  <2>2. IsHeader(head)
    BY <1>1 DEF Inv, TypeOK
  <2>3. /\ n < MinHeader <=> head.len < MinHeader
        /\ n >= FeatureEnd <=> head.len >= FeatureEnd
    BY <2>2, WindowTellsBorders, Sizes
  <2>4. /\ head.len \in Nat /\ head.l1size \in Nat /\ head.l1off \in Nat
        /\ MinHeader \in Nat /\ FeatureEnd \in Nat /\ MaxL1 \in Nat /\ SeekLimit \in Nat
    BY <2>2, Sizes DEF IsHeader
  <2>5. StrictParse(head, n) = "ok" <=>
          /\ head.len >= MinHeader /\ head.magic
          /\ head.version \in {2, 3}
          /\ head.boff = 0 /\ head.crypt = 0
          /\ head.cluster_bits \in 9 .. 20
          /\ \/ head.version = 2 \/ head.len < FeatureEnd
             \/ head.incompat \cap Unsupported = {}
    <3> HIDE DEF n
    <3>1. head.version \in 2 .. 3 <=> head.version \in {2, 3}
      OBVIOUS
    <3>2. head.len >= MinHeader <=> ~(n < MinHeader)
      BY <2>3, <2>4
    <3>3. head.len < FeatureEnd <=> ~(n >= FeatureEnd)
      BY <2>3, <2>4
    <3>4. head.version \in {2, 3} =>
            (IncompatSeen(head, n) \cap Unsupported = {} <=>
               \/ head.version = 2 \/ ~(n >= FeatureEnd)
               \/ head.incompat \cap Unsupported = {})
      BY DEF IncompatSeen
    <3>5. QED
      BY <3>1, <3>2, <3>3, <3>4 DEF StrictParse
  <2>6. OpenVerdict = "ok" <=>
          /\ StrictParse(head, n) = "ok"
          /\ head.l1size <= MaxL1 /\ head.l1off < SeekLimit
          /\ L1InFile
    BY <2>4 DEF OpenVerdict
  <2>7. QED
    BY <2>1, <2>5, <2>6 DEF Readable, L1InFile
<1>2. Inv => OpenedIffReadable
  BY <1>1 DEF OpenedIffReadable
<1>3. QED
  BY <1>2, Invariance, PTL

(* Whatever window each of the two got to see, inspect takes what open     *)
(* takes, and reports the fact for which open refuses an image (lib.rs     *)
(* inspect, header.rs Qcow2Info::parse).                                   *)
THEOREM InspectExplains == Spec => []InspectExplainsOpen
<1>1. ASSUME Inv, head = file, \A o \in Ops : verdict[o] \notin {"none", "fault"}
      PROVE  InspectExplainsOpen
  <2> DEFINE n == Whole(file, StrictWindow)
             m == Whole(file, LenientWindow)
             v == StrictParse(file, n)
             w == LenientParse(file, m)
  <2>1. IsHeader(file)
    BY <1>1 DEF Inv, TypeOK
  <2>2. /\ verdict["open"] = OpenVerdict
        /\ verdict["inspect"] = w
        /\ verdict["inspect"] = "ok" => info = Info(file, m)
    BY <1>1 DEF Inv, VerdictInv, InspectVerdict, Ops
  <2>3. /\ n < MinHeader <=> m < MinHeader
        /\ n >= FeatureEnd <=> m >= FeatureEnd
        /\ n \in Nat /\ m \in Nat
    BY <2>1, WindowTellsBorders, Sizes
  <2>4. /\ v \notin {"too small", "bad magic", "version"} =>
             w = "ok" /\ file.version \in 2 .. 3
        /\ v \in {"too small", "bad magic"} => w = v
        /\ v = "version" /\ w = "ok" => file.version = 1
        /\ v = "backing" => file.boff # 0
        /\ v = "crypt" => file.crypt # 0
        /\ v = "features" => IncompatSeen(file, m) \cap Unsupported # {}
        /\ v = "ok" => /\ file.boff = 0 /\ file.crypt = 0
                       /\ IncompatSeen(file, m) \cap Unsupported = {}
                       /\ file.cluster_bits \in 9 .. 20
    <3> HIDE DEF n, m
    <3>1. QED
      BY <2>3, ParsersAgree
  <2>5. verdict["inspect"] = "ok" =>
          /\ info.backing = (file.boff # 0) /\ info.crypt = file.crypt
          /\ info.incompat = IncompatSeen(file, m) /\ info.version = file.version
          /\ file.version # 1 => info.bits = file.cluster_bits /\ info.l1size = file.l1size
    BY <2>2 DEF Info
  <2>6. /\ OpenVerdict = v \/ (v = "ok" /\ OpenVerdict \in {"l1 too large", "io"})
        /\ OpenVerdict = "ok" => v = "ok" /\ file.l1size <= MaxL1
    <3>1. file.l1size \in Nat
      BY <2>1 DEF IsHeader
    <3>2. StrictParse(head, Whole(head, StrictWindow)) = v /\ head.l1size = file.l1size
      BY <1>1
    <3> HIDE DEF v
    <3>3. CASE v = "ok"
      <4>1. CASE head.l1size > MaxL1
        BY <3>2, <3>3, <4>1 DEF OpenVerdict
      <4>2. CASE ~(head.l1size > MaxL1)
        <5>1. file.l1size <= MaxL1
          BY <3>1, <3>2, <4>2, Sizes
        <5>2. OpenVerdict \in {"ok", "io"}
          BY <3>2, <3>3, <4>2 DEF OpenVerdict
        <5>3. QED
          BY <3>3, <5>1, <5>2
      <4>3. QED
        BY <4>1, <4>2
    <3>4. CASE v # "ok"
      BY <3>2, <3>4 DEF OpenVerdict
    <3>5. QED
      BY <3>3, <3>4
  <2>7. v \in Errors \cup {"ok"} /\ v \notin {"none", "fault", "io", "l1 too large"}
    BY ParseTypes
  <2>8. file.version \in 2 .. 3 => file.version # 1
    OBVIOUS
  <2> HIDE DEF n, m, v, w
  <2>9. QED
    BY <1>1, <2>2, <2>4, <2>5, <2>6, <2>7, <2>8 DEF InspectExplainsOpen
<1>2. Inv => InspectExplainsOpen
  BY <1>1 DEF InspectExplainsOpen
<1>3. QED
  BY <1>2, Invariance, PTL

-----------------------------------------------------------------------------
(***************************************************************************)
(* The chain of header extensions: the loop of backing_format_name finds   *)
(* what the chain leads to, however long the chain is.                     *)
(***************************************************************************)
Names == {None} \cup (Nat \X Nat)

(* One turn of the loop at p; `later' is what the turns after it find. *)
Turn(f, n, p, later) ==
  LET e == Extension(f, n, p)
      next == NextExtension(p, e.len)
  IN  IF e.type = "end" THEN None
      ELSE IF e.type = "backing format"
           THEN Slice(n, p + ExtAlign, AtMostName(e.len))
      ELSE IF p + ExtAlign + e.len > n \/ next >= n THEN None
      ELSE later[next]

IsScan(f, n, scan) ==
  /\ scan \in [Nat -> [Nat -> Names]]
  /\ \A p \in Nat : scan[0][p] = None
  /\ \A left \in Nat : \A p \in Nat : scan[left + 1][p] = Turn(f, n, p, scan[left])

(* The extension at q is followed by another one of S. *)
Linked(f, S, q) ==
  LET data_end == q + ExtAlign + f.ext[q].len IN
  /\ f.ext[q].type = "other"
  /\ \E r \in S : r \in data_end .. (data_end + ExtAlign - 1) /\ (r - q) % ExtAlign = 0
  /\ \A r \in S : r <= q \/ r >= data_end

(* IsChain from any place a of any file f. *)
Chain(f, a, S, p) ==
  /\ S \subseteq DOMAIN f.ext
  /\ a \in S /\ p \in S
  /\ \A q \in S : a <= q /\ q <= p
  /\ \A q \in S \ {p} : Linked(f, S, q)
  /\ f.ext[p].type = "backing format"

(* The name of the extension at p. *)
NameOf(f, p) == <<p + ExtAlign, AtMostName(f.ext[p].len)>>

NameFits(f, n, p) == p + ExtAlign + AtMostName(f.ext[p].len) <= n

(* The extension head at p is one of the three kinds, with a length. *)
LEMMA ExtensionType ==
  ASSUME NEW f, IsHeader(f), NEW n, NEW p
  PROVE  /\ Extension(f, n, p).type \in {"end", "backing format", "other"}
         /\ Extension(f, n, p).len \in Nat
  BY DEF IsHeader, Extension

(* Where the next extension begins: at the first multiple of ExtAlign past *)
(* the data, and nothing else begins there.                                *)
LEMMA NextExtensionPlace ==
  ASSUME NEW q \in Nat, NEW len \in Nat
  PROVE  LET data_end == q + ExtAlign + len
             next == NextExtension(q, len)
         IN  /\ next \in Nat /\ next > q
             /\ next \in data_end .. (data_end + ExtAlign - 1)
             /\ (next - q) % ExtAlign = 0
             /\ \A r \in data_end .. (data_end + ExtAlign - 1) :
                  (r - q) % ExtAlign = 0 => r = next
<1> DEFINE c == ExtAlign
           s == len + c - 1
           k == s \div c
           next == NextExtension(q, len)
           data_end == q + c + len
<1>1. c \in Nat \ {0}
  BY Sizes
<1>2. s \in Nat
  BY <1>1
<1>3. k \in Nat /\ s = c * k + (s % c) /\ s % c \in 0 .. (c - 1)
  BY <1>1, <1>2, DivMod
<1>4. next = q + c + c * k
  BY <1>1, <1>3 DEF NextExtension
<1> HIDE DEF k, next
<1>5. c * k \in Nat /\ c * k >= len /\ c * k <= len + c - 1
  BY <1>1, <1>3
<1>6. next \in Nat /\ next > q /\ next \in data_end .. (data_end + c - 1)
  BY <1>1, <1>4, <1>5
<1>7. (next - q) % c = 0
  <2>1. next - q = c * (k + 1) + 0 /\ k + 1 \in Nat
    BY <1>1, <1>3, <1>4
  <2>2. (c * (k + 1) + 0) % c = 0
    BY <1>1, <1>3
  <2>3. QED
    BY <2>1, <2>2
<1>8. ASSUME NEW r \in data_end .. (data_end + c - 1), (r - q) % c = 0
      PROVE  r = next
  <2> DEFINE d == r - q
             j == d \div c
  <2>1. d \in Nat
    BY <1>1
  <2>2. j \in Nat /\ d = c * j
    BY <1>1, <1>8, <2>1, DivMod
  <2>3. c * (k + 1) = c + c * k
    BY <1>1, <1>3
  <2>4. d \in (c + len) .. (2 * c + len - 1)
    BY <1>1
  <2> HIDE DEF j, d
  <2>5. c * j < c * (k + 1) + c /\ c * (k + 1) < c * j + c
    BY <1>1, <1>5, <2>2, <2>3, <2>4
  <2>6. j = k + 1
    BY <1>1, <1>3, <2>2, <2>5, MultipleGap
  <2>7. QED
    BY <1>1, <1>3, <1>4, <2>2, <2>3, <2>6 DEF d
<1>9. QED
  BY <1>6, <1>7, <1>8 DEF next

(* One turn yields a name or none. *)
LEMMA TurnType ==
  ASSUME NEW f, IsHeader(f), NEW n \in Nat, NEW p \in Nat, NEW later \in [Nat -> Names]
  PROVE  Turn(f, n, p, later) \in Names
<1> DEFINE e == Extension(f, n, p)
<1>1. e.len \in Nat /\ ExtAlign \in Nat
  BY ExtensionType, Sizes
<1>2. NextExtension(p, e.len) \in Nat
  BY <1>1, NextExtensionPlace
<1>3. AtMostName(e.len) \in Nat
  BY <1>1, Sizes DEF AtMostName
<1> HIDE DEF e
<1>4. Slice(n, p + ExtAlign, AtMostName(e.len)) \in Names
  BY <1>1, <1>3 DEF Slice, Names
<1>5. QED
  BY <1>2, <1>4 DEF Turn, Names, e

(* The loop of backing_format_name has a value at every place and for      *)
(* every number of turns.                                                  *)
LEMMA ScanExists ==
  ASSUME NEW f, IsHeader(f), NEW n \in Nat
  PROVE  \E scan : /\ IsScan(f, n, scan)
                   /\ BackingFormat(f, n) = scan[MaxExtensions][HeaderEnd(f, n)]
<1> DEFINE V == [Nat -> Names]
           h == [later \in V |-> [p \in Nat |-> Turn(f, n, p, later)]]
           v0 == [p \in Nat |-> None]
<1>1. v0 \in V
  BY DEF Names
<1>2. h \in [V -> V]
  <2>1. ASSUME NEW later \in V
        PROVE  [p \in Nat |-> Turn(f, n, p, later)] \in V
    BY TurnType
  <2>2. QED
    BY <2>1
<1>3. PICK g \in [Nat -> V] : g[0] = v0 /\ \A k \in Nat : g[k + 1] = h[g[k]]
  <2> HIDE DEF V, v0, h
  <2>1. QED
    BY <1>1, <1>2, Iteration
<1>4. IsScan(f, n, g)
  <2>1. g \in [Nat -> [Nat -> Names]]
    BY <1>3
  <2>2. \A p \in Nat : g[0][p] = None
    BY <1>3
  <2>3. ASSUME NEW k \in Nat, NEW p \in Nat
        PROVE  g[k + 1][p] = Turn(f, n, p, g[k])
    <3>1. g[k] \in V /\ g[k + 1] = h[g[k]]
      BY <1>3
    <3>2. h[g[k]] = [q \in Nat |-> Turn(f, n, q, g[k])]
      BY <3>1
    <3>3. QED
      BY <3>1, <3>2
  <2>4. QED
    BY <2>1, <2>2, <2>3 DEF IsScan
<1> DEFINE body(s, left, p) ==
             LET e == Extension(f, n, p)
                 next == NextExtension(p, e.len)
             IN  IF left = 0 \/ e.type = "end" THEN None
                 ELSE IF e.type = "backing format"
                      THEN Slice(n, p + ExtAlign, AtMostName(e.len))
                 ELSE IF p + ExtAlign + e.len > n \/ next >= n THEN None
                 ELSE s[left - 1][next]
<1>5. ASSUME NEW s, IsScan(f, n, s), NEW left \in Nat, NEW p \in Nat
      PROVE  s[left][p] = body(s, left, p)
  <2>1. CASE left = 0
    BY <1>5, <2>1 DEF IsScan
  <2>2. CASE left # 0
    <3>1. left - 1 \in Nat /\ left = (left - 1) + 1
      BY <2>2
    <3>2. s[left][p] = Turn(f, n, p, s[left - 1])
      BY <1>5, <3>1 DEF IsScan
    <3>3. QED
      BY <2>2, <3>2 DEF Turn
  <2>3. QED
    BY <2>1, <2>2
<1>6. g = [left \in Nat |-> [p \in Nat |-> body(g, left, p)]]
  <2> HIDE DEF body
  <2>1. \A left \in Nat : g[left] = [p \in Nat |-> body(g, left, p)]
    BY <1>4, <1>5 DEF IsScan
  <2>2. QED
    BY <1>4, <2>1 DEF IsScan
<1> DEFINE scan == CHOOSE s : s = [left \in Nat |-> [p \in Nat |-> body(s, left, p)]]
<1>7. scan = [left \in Nat |-> [p \in Nat |-> body(scan, left, p)]]
  <2> HIDE DEF body
  <2>1. QED
    BY <1>6
<1>8. BackingFormat(f, n) = scan[MaxExtensions][HeaderEnd(f, n)]
  BY DEF BackingFormat
<1>9. IsScan(f, n, scan)
  <2> HIDE DEF scan
  <2>1. ASSUME NEW p \in Nat
        PROVE  body(scan, 0, p) = None
    OBVIOUS
  <2>2. ASSUME NEW k \in Nat, NEW p \in Nat
        PROVE  body(scan, k + 1, p) = Turn(f, n, p, scan[k])
    <3>1. k + 1 # 0 /\ (k + 1) - 1 = k
      OBVIOUS
    <3>2. QED
      BY <3>1, Zenon DEF Turn
  <2> HIDE DEF body
  <2>3. \A k \in Nat : scan[k] = [p \in Nat |-> body(scan, k, p)]
    BY <1>7
  <2> DEFINE T == {k \in Nat : scan[k] \in [Nat -> Names]}
  <2>4. 0 \in T
    <3>1. scan[0] = [p \in Nat |-> body(scan, 0, p)] /\ None \in Names
      BY <2>3 DEF Names
    <3>2. QED
      BY <2>1, <3>1
  <2>5. ASSUME NEW k \in Nat, k \in T
        PROVE  k + 1 \in T
    <3>1. \A p \in Nat : Turn(f, n, p, scan[k]) \in Names
      BY <2>5, TurnType
    <3>2. scan[k + 1] = [p \in Nat |-> body(scan, k + 1, p)]
      BY <2>3
    <3>3. QED
      BY <2>2, <3>1, <3>2
  <2>6. Nat \subseteq T
    <3> HIDE DEF T
    <3>1. QED
      BY <2>4, <2>5, NatSetInduction
  <2>7. scan \in [Nat -> [Nat -> Names]]
    <3>1. scan = [k \in Nat |-> [p \in Nat |-> body(scan, k, p)]]
      BY <1>7
    <3>2. DOMAIN scan = Nat
      BY <3>1
    <3>3. \A k \in Nat : scan[k] \in [Nat -> Names]
      BY <2>6
    <3>4. QED
      BY <3>1, <3>2, <3>3
  <2>8. QED
    BY <2>1, <2>2, <2>3, <2>7 DEF IsScan
<1>10. QED
  BY <1>8, <1>9

(* A chain lies between its ends, in the file, and goes on with the place  *)
(* that the loop goes on with.                                             *)
LEMMA ChainGoesOn ==
  ASSUME NEW f, IsHeader(f), NEW a, NEW S, NEW p, Chain(f, a, S, p)
  PROVE  /\ S \subseteq Nat /\ S \subseteq a .. p /\ IsFiniteSet(S)
         /\ \A q \in S : f.ext[q].len \in Nat
         /\ \A q \in S \ {p} : NextExtension(q, f.ext[q].len) \in S
<1>0. S \subseteq DOMAIN f.ext /\ a \in S /\ p \in S /\ \A q \in S : a <= q /\ q <= p
  BY DEF Chain
<1>1. S \subseteq Nat /\ \A q \in S : f.ext[q].len \in Nat
  BY <1>0 DEF IsHeader
<1>2. a \in Nat /\ p \in Nat /\ S \subseteq a .. p
  BY <1>0, <1>1
<1>3. IsFiniteSet(S)
  <2>1. IsFiniteSet(a .. p)
    BY <1>2, FS_Interval
  <2>2. QED
    BY <1>2, <2>1, FS_Subset
<1>4. ASSUME NEW q \in S \ {p}
      PROVE  NextExtension(q, f.ext[q].len) \in S
  <2> DEFINE data_end == q + ExtAlign + f.ext[q].len
  <2>1. PICK r \in S : r \in data_end .. (data_end + ExtAlign - 1) /\ (r - q) % ExtAlign = 0
    BY DEF Chain, Linked
  <2>2. r = NextExtension(q, f.ext[q].len)
    BY <1>1, <2>1, NextExtensionPlace
  <2>3. QED
    BY <2>1, <2>2
<1>5. QED
  BY <1>1, <1>2, <1>3, <1>4

(* From any place of a chain the loop gets to the chain's end, in as many  *)
(* turns as the chain still has extensions, and takes the name there.      *)
LEMMA ScanFollowsChain ==
  ASSUME NEW f, IsHeader(f), NEW n \in Nat, NEW scan, IsScan(f, n, scan),
         NEW a, NEW S, NEW p, Chain(f, a, S, p), NameFits(f, n, p)
  PROVE  \A l \in Nat : \A q \in S :
           Cardinality(S \cap (q .. p)) <= l => scan[l][q] = NameOf(f, p)
<1> DEFINE rest(q) == S \cap (q .. p)
           T == {l \in Nat : \A q \in S : Cardinality(rest(q)) <= l => scan[l][q] = NameOf(f, p)}
<1>0. /\ S \subseteq DOMAIN f.ext /\ p \in S /\ \A q \in S : q <= p
      /\ f.ext[p].type = "backing format"
      /\ \A q \in S \ {p} : f.ext[q].type = "other"
  BY DEF Chain, Linked
<1>1. /\ S \subseteq Nat /\ IsFiniteSet(S) /\ p \in S /\ S \subseteq DOMAIN f.ext
      /\ \A q \in S : q <= p /\ f.ext[q].len \in Nat
  BY <1>0, ChainGoesOn
<1>2. ExtAlign \in Nat \ {0} /\ p \in Nat /\ p + ExtAlign <= n
  <2>1. ExtAlign \in Nat \ {0} /\ MaxName \in Nat
    BY Sizes
  <2> DEFINE size == AtMostName(f.ext[p].len)
  <2>2. size \in Nat
    BY <1>1, <2>1 DEF AtMostName
  <2>3. p \in Nat /\ p + ExtAlign + size <= n
    BY <1>1 DEF NameFits
  <2> HIDE DEF size
  <2>4. QED
    BY <2>1, <2>2, <2>3
<1>3. ASSUME NEW q \in S
      PROVE  IsFiniteSet(rest(q)) /\ Cardinality(rest(q)) \in Nat \ {0}
  <2>1. q \in rest(q) /\ rest(q) \subseteq S
    BY <1>1
  <2> HIDE DEF rest
  <2>2. IsFiniteSet(rest(q))
    BY <1>1, <2>1, FS_Subset
  <2>3. QED
    BY <2>1, <2>2, FS_CardinalityType, FS_EmptySet
<1>4. 0 \in T
  <2> HIDE DEF rest
  <2>1. QED
    BY <1>3
<1>5. ASSUME NEW l \in Nat, l \in T
      PROVE  l + 1 \in T
  <2> SUFFICES ASSUME NEW q \in S, Cardinality(rest(q)) <= l + 1
               PROVE  scan[l + 1][q] = NameOf(f, p)
    OBVIOUS
  <2>1. scan[l + 1][q] = Turn(f, n, q, scan[l])
    BY <1>1 DEF IsScan
  <2>2. Extension(f, n, q) = f.ext[q]
    BY <1>1, <1>2 DEF Extension
  <2>3. CASE q = p
    <3>1. f.ext[q].type = "backing format"
      BY <2>3 DEF Chain
    <3>2. Turn(f, n, q, scan[l]) = Slice(n, p + ExtAlign, AtMostName(f.ext[p].len))
      BY <2>2, <2>3, <3>1 DEF Turn
    <3>3. QED
      BY <2>1, <3>2 DEF Slice, NameFits, NameOf
  <2>4. CASE q # p
    <3> DEFINE next == NextExtension(q, f.ext[q].len)
    <3>1. f.ext[q].type = "other" /\ next \in S
      <4>1. \A r \in S \ {p} : NextExtension(r, f.ext[r].len) \in S
        BY ChainGoesOn
      <4>2. QED
        BY <1>0, <2>4, <4>1
    <3>2. next > q /\ q + ExtAlign + f.ext[q].len <= next
      <4>1. q \in Nat /\ f.ext[q].len \in Nat
        BY <1>1
      <4> DEFINE data_end == q + ExtAlign + f.ext[q].len
      <4>2. next > q /\ next \in data_end .. (data_end + ExtAlign - 1)
        BY <4>1, NextExtensionPlace
      <4>3. data_end \in Nat
        BY <1>2, <4>1
      <4> HIDE DEF data_end, next
      <4>4. data_end <= next
        BY <1>2, <4>2, <4>3
      <4>5. QED
        BY <4>2, <4>4 DEF data_end
    <3> HIDE DEF next
    <3>3. next <= p /\ next \in Nat /\ q \in Nat /\ f.ext[q].len \in Nat
      BY <1>1, <3>1
    <3>4. next < n /\ q + ExtAlign + f.ext[q].len <= n
      BY <1>2, <3>2, <3>3
    <3>5. Turn(f, n, q, scan[l]) = scan[l][next]
      <4>1. ~(q + ExtAlign + f.ext[q].len > n \/ next >= n)
        BY <1>1, <1>2, <3>3, <3>4
      <4>2. QED
        BY <2>2, <3>1, <4>1 DEF Turn, next
    <3>6. Cardinality(rest(next)) <= l
      <4>1. q \in rest(q) /\ rest(next) \subseteq rest(q) \ {q}
        BY <1>1, <3>2, <3>3
      <4> HIDE DEF rest
      <4>2. IsFiniteSet(rest(q) \ {q}) /\ Cardinality(rest(q) \ {q}) = Cardinality(rest(q)) - 1
        BY <1>3, <4>1, FS_RemoveElement
      <4>3. Cardinality(rest(next)) <= Cardinality(rest(q) \ {q})
        BY <4>1, <4>2, FS_Subset
      <4>4. QED
        BY <1>3, <3>1, <4>2, <4>3
    <3>7. QED
      BY <1>5, <2>1, <3>1, <3>5, <3>6
  <2>5. QED
    BY <2>3, <2>4
<1>6. Nat \subseteq T
  <2> HIDE DEF T
  <2>1. QED
    BY <1>4, <1>5, NatSetInduction
<1>7. QED
  BY <1>6

(* The loop takes a name only where a chain leads, one that is no longer   *)
(* than the turns it had, and only when the name lies in the window.       *)
LEMMA ScanBuildsChain ==
  ASSUME NEW f, IsHeader(f), NEW n \in Nat, NEW scan, IsScan(f, n, scan)
  PROVE  \A l \in Nat : \A a \in Nat : scan[l][a] # None =>
           \E S, p : /\ Chain(f, a, S, p)
                     /\ Cardinality(S) <= l
                     /\ scan[l][a] = NameOf(f, p) /\ NameFits(f, n, p)
<1> DEFINE Found(l, a, S, p) == /\ Chain(f, a, S, p) /\ Cardinality(S) <= l
                                /\ scan[l][a] = NameOf(f, p) /\ NameFits(f, n, p)
           T == {l \in Nat : \A a \in Nat : scan[l][a] # None => \E S, p : Found(l, a, S, p)}
<1>1. 0 \in T
  BY DEF IsScan
<1>2. ASSUME NEW l \in Nat, l \in T
      PROVE  l + 1 \in T
  <2> SUFFICES ASSUME NEW a \in Nat, scan[l + 1][a] # None
               PROVE  \E S, p : Found(l + 1, a, S, p)
    OBVIOUS
  <2> DEFINE e == Extension(f, n, a)
             next == NextExtension(a, e.len)
  <2>1. scan[l + 1][a] = Turn(f, n, a, scan[l])
    BY DEF IsScan
  <2>2. e.type # "end" /\ e.type \in {"end", "backing format", "other"}
    BY <2>1, ExtensionType DEF Turn
  <2>3. a \in DOMAIN f.ext /\ e = f.ext[a]
    BY <2>2 DEF Extension
  <2>4. f.ext[a].len \in Nat /\ ExtAlign \in Nat \ {0}
    BY <2>3, Sizes DEF IsHeader
  <2>5. CASE e.type = "backing format"
    <3>1. scan[l + 1][a] = Slice(n, a + ExtAlign, AtMostName(f.ext[a].len))
      BY <2>1, <2>3, <2>5 DEF Turn
    <3>2. scan[l + 1][a] = NameOf(f, a) /\ NameFits(f, n, a)
      BY <3>1 DEF Slice, NameOf, NameFits
    <3>3. Chain(f, a, {a}, a)
      <4>0. \A q \in {a} : a <= q /\ q <= a
        OBVIOUS
      <4>1. f.ext[a].type = "backing format"
        BY <2>3, <2>5, Zenon
      <4>2. {a} \ {a} = {}
        OBVIOUS
      <4>3. QED
        BY <2>3, <4>0, <4>1, <4>2 DEF Chain
    <3>4. Cardinality({a}) <= l + 1
      <4>1. Cardinality({a}) = 1
        BY FS_Singleton
      <4>2. QED
        BY <4>1
    <3>5. QED
      BY <3>2, <3>3, <3>4
  <2>6. CASE e.type = "other"
    <3>1. /\ ~(a + ExtAlign + e.len > n \/ next >= n)
          /\ scan[l + 1][a] = scan[l][next]
      BY <2>1, <2>6 DEF Turn
    <3> DEFINE data_end == a + ExtAlign + f.ext[a].len
    <3>2. /\ next \in Nat /\ next > a
          /\ next \in data_end .. (data_end + ExtAlign - 1)
          /\ (next - a) % ExtAlign = 0
      BY <2>3, <2>4, NextExtensionPlace
    <3>3. PICK S, p : Found(l, next, S, p)
      <4> HIDE DEF next
      <4>1. QED
        BY <1>2, <3>1, <3>2
    <3> DEFINE R == {a} \cup S
    <3>4. /\ S \subseteq DOMAIN f.ext /\ next \in S /\ p \in S
          /\ \A q \in S : next <= q /\ q <= p
          /\ \A q \in S \ {p} : Linked(f, S, q)
          /\ f.ext[p].type = "backing format"
      BY <3>3 DEF Chain
    <3>5. S \subseteq Nat /\ IsFiniteSet(S) /\ \A q \in S : f.ext[q].len \in Nat
      BY <3>3, ChainGoesOn
    <3> HIDE DEF next
    <3>6. \A q \in R : a <= q /\ q <= p
      <4>1. ASSUME NEW q \in S
            PROVE  a <= q /\ a <= p /\ q <= p
        <5>1. q \in Nat /\ p \in Nat /\ next <= q /\ q <= p
          BY <3>4, <3>5
        <5>2. QED
          BY <3>2, <5>1
      <4>2. p \in S
        BY <3>4
      <4>3. a <= p
        BY <4>1, <4>2
      <4>4. a <= a
        OBVIOUS
      <4>5. QED
        BY <4>1, <4>3, <4>4, Zenon
    <3>7. data_end \in Nat /\ \A r \in S : r >= data_end
      <4>1. data_end \in Nat
        BY <2>4
      <4> HIDE DEF data_end
      <4>2. ASSUME NEW r \in S
            PROVE  r >= data_end
        <5>1. r \in Nat /\ next <= r
          BY <3>4, <3>5
        <5>2. data_end <= next
          BY <2>4, <3>2, <4>1
        <5>3. QED
          BY <3>2, <4>1, <5>1, <5>2
      <4>3. QED
        BY <4>1, <4>2
    <3>8. Linked(f, R, a)
      <4>1. f.ext[a].type = "other"
        BY <2>3, <2>6
      <4>2. \A r \in R : r <= a \/ r >= data_end
        BY <3>7
      <4>3. QED
        BY <3>2, <3>4, <4>1, <4>2 DEF Linked
    <3>9. ASSUME NEW q \in S \ {p}
          PROVE  Linked(f, R, q)
      <4>1. Linked(f, S, q) /\ a <= q
        BY <3>4, <3>6
      <4>2. QED
        BY <4>1 DEF Linked
    <3>10. Chain(f, a, R, p)
      BY <2>3, <3>4, <3>6, <3>8, <3>9 DEF Chain
    <3>11. Cardinality(R) <= l + 1
      <4>1. Cardinality(S) \in Nat /\ Cardinality(S) <= l
        BY <3>3, <3>5, FS_CardinalityType
      <4>2. R = S \cup {a}
        OBVIOUS
      <4> HIDE DEF R
      <4>3. Cardinality(R) = Cardinality(S) \/ Cardinality(R) = Cardinality(S) + 1
        BY <3>5, <4>2, FS_AddElement
      <4>4. QED
        BY <4>1, <4>3
    <3>12. scan[l + 1][a] = NameOf(f, p) /\ NameFits(f, n, p)
      BY <3>1, <3>3
    <3> HIDE DEF R
    <3>13. QED
      BY <3>10, <3>11, <3>12
  <2>7. QED
    BY <2>2, <2>5, <2>6
<1>3. Nat \subseteq T
  <2> HIDE DEF T
  <2>1. QED
    BY <1>1, <1>2, NatSetInduction
<1>4. QED
  BY <1>3

(* The format that the loop names: the one that a chain of extensions of   *)
(* no more than MaxExtensions leads to, and none beside it.                *)
LEMMA FormatFollowsChain ==
  ASSUME NEW f, IsHeader(f), NEW n \in Nat, HeaderEnd(f, n) \in Nat
  PROVE  /\ \A S, p : /\ Chain(f, HeaderEnd(f, n), S, p) /\ NameFits(f, n, p)
                      /\ Cardinality(S) <= MaxExtensions
                      => BackingFormat(f, n) = NameOf(f, p)
         /\ BackingFormat(f, n) # None =>
              \E S, p : /\ Chain(f, HeaderEnd(f, n), S, p) /\ NameFits(f, n, p)
                        /\ Cardinality(S) <= MaxExtensions
<1> DEFINE a == HeaderEnd(f, n)
<1>1. PICK scan : IsScan(f, n, scan) /\ BackingFormat(f, n) = scan[MaxExtensions][a]
  BY ScanExists
<1>2. MaxExtensions \in Nat
  BY Sizes
<1> HIDE DEF a
<1>3. ASSUME NEW S, NEW p, Chain(f, a, S, p), NameFits(f, n, p),
             Cardinality(S) <= MaxExtensions
      PROVE  BackingFormat(f, n) = NameOf(f, p)
  <2>1. a \in S
    BY <1>3 DEF Chain
  <2>2. S \cap (a .. p) = S
    BY <1>3, ChainGoesOn
  <2>3. scan[MaxExtensions][a] = NameOf(f, p)
    BY <1>1, <1>2, <1>3, <2>1, <2>2, ScanFollowsChain
  <2>4. QED
    BY <1>1, <2>3
<1>4. ASSUME BackingFormat(f, n) # None
      PROVE  \E S, p : /\ Chain(f, a, S, p) /\ NameFits(f, n, p)
                       /\ Cardinality(S) <= MaxExtensions
  <2>1. a \in Nat
    BY DEF a
  <2>2. scan[MaxExtensions][a] # None
    BY <1>1, <1>4
  <2>3. QED
    BY <1>1, <1>2, <2>1, <2>2, ScanBuildsChain
<1>5. QED
  BY <1>3, <1>4 DEF a

(* inspect names the format and the backing file that the file as a whole  *)
(* announces, for every file, every window and every chain of extensions   *)
(* (header.rs backing_file_name, backing_format_name).                     *)
THEOREM BackingNamed == Spec => []BackingIsNamed
<1>1. ASSUME Inv, verdict["inspect"] = "ok"
      PROVE  BackingIsNamed
  <2> DEFINE n == IF file.len < LenientWindow THEN file.len ELSE LenientWindow
             Named(at, len) == <<at, IF len < MaxName THEN len ELSE MaxName>>
             Ends(s) == s[1] + s[2]
             formats == {p \in DOMAIN file.ext :
                           \E S \in SUBSET DOMAIN file.ext :
                             IsChain(S, p) /\ Cardinality(S) <= MaxExtensions}
             format == {s \in {Named(p + ExtAlign, file.ext[p].len) : p \in formats} :
                          Ends(s) <= n}
             e == HeaderEnd(file, n)
  <2>1. IsHeader(file) /\ info = Info(file, n)
    BY <1>1 DEF Inv, TypeOK, VerdictInv, Whole
  <2>2. n \in Nat /\ HeaderEnd(file, file.len) = e /\ e \in Nat
    <3>1. n = Whole(file, LenientWindow)
      BY DEF Whole
    <3>2. Whole(file, LenientWindow) >= LengthEnd <=> file.len >= LengthEnd
      BY <2>1, Sizes, WindowTellsBorders
    <3>3. Whole(file, LenientWindow) \in Nat
      BY <2>1, Sizes, WindowTellsBorders
    <3>4. file.hlen \in Nat /\ MinHeader \in Nat
      BY <2>1, Sizes DEF IsHeader
    <3> HIDE DEF n
    <3>5. QED
      BY <3>1, <3>2, <3>3, <3>4 DEF HeaderEnd
  <2> HIDE DEF n, e
  <2>3. \A S \in SUBSET DOMAIN file.ext : \A p : IsChain(S, p) <=> Chain(file, e, S, p)
    BY <2>2 DEF IsChain, Chain, Linked
  <2>4. \A p : /\ Named(p + ExtAlign, file.ext[p].len) = NameOf(file, p)
               /\ Ends(NameOf(file, p)) <= n <=> NameFits(file, n, p)
    BY DEF NameOf, NameFits, AtMostName
  <2>5. /\ info.format = IF file.version = 1 THEN None ELSE BackingFormat(file, n)
        /\ info.name = BackingName(file, n)
        /\ info.backing = (file.boff # 0)
    BY <2>1 DEF Info
  <2>6. \A S, p : Chain(file, e, S, p) => S \in SUBSET DOMAIN file.ext /\ p \in DOMAIN file.ext
    BY DEF Chain
  <2> HIDE DEF Named, Ends
  <2>7. \A s : s \in format <=>
          \E S, p : /\ Chain(file, e, S, p) /\ NameFits(file, n, p)
                    /\ Cardinality(S) <= MaxExtensions /\ s = NameOf(file, p)
    BY <2>3, <2>4, <2>6
  <2> HIDE DEF formats, format
  <2>8. IF file.version # 1 /\ format # {}
        THEN info.format \in format ELSE info.format = None
    <3>1. /\ \A S, p : /\ Chain(file, e, S, p) /\ NameFits(file, n, p)
                       /\ Cardinality(S) <= MaxExtensions
                       => BackingFormat(file, n) = NameOf(file, p)
          /\ BackingFormat(file, n) # None =>
               \E S, p : /\ Chain(file, e, S, p) /\ NameFits(file, n, p)
                         /\ Cardinality(S) <= MaxExtensions
      BY <2>1, <2>2, FormatFollowsChain DEF e
    <3>2. \A s \in format : BackingFormat(file, n) = s
      BY <2>7, <3>1
    <3>3. format = {} => BackingFormat(file, n) = None
      BY <2>7, <3>1
    <3>4. QED
      BY <2>5, <3>2, <3>3
  <2>9. info.name # None <=>
          info.backing /\ file.bsize # 0 /\ Ends(Named(file.boff, file.bsize)) <= n
    <3> DEFINE size == AtMostName(file.bsize)
    <3>1. Named(file.boff, file.bsize) = <<file.boff, size>>
      BY DEF Named, AtMostName
    <3> HIDE DEF size
    <3>2. Ends(<<file.boff, size>>) = file.boff + size
      BY DEF Ends
    <3>3. <<file.boff, size>> # None
      BY DEF None
    <3>4. QED
      BY <2>5, <3>1, <3>2, <3>3 DEF BackingName, Slice, size
  <2>10. QED
    BY <2>8, <2>9 DEF BackingIsNamed, n, Named, Ends, format, formats
<1>2. Inv => BackingIsNamed
  BY <1>1 DEF BackingIsNamed
<1>3. QED
  BY <1>2, Invariance, PTL
=============================================================================
