---------------------------- MODULE Qcow2Header ----------------------------
(***************************************************************************)
(* core/src/header.rs: the strict Qcow2Header::parse of the reader and the *)
(* lenient Qcow2Info::parse of inspect, over the first n bytes of a file.  *)
(*                                                                         *)
(* A file is the header fields the two look at and its length.  A field    *)
(* that lies past the bytes read is 0, as be_u32 and be_u64 have it.       *)
(***************************************************************************)
EXTENDS Integers

CONSTANTS
  MinHeader,       \* 72, MIN_HEADER_SIZE
  FeatureEnd,      \* 80, the end of incompatible_features
  LengthEnd,       \* 104, the end of header_length
  ExtAlign,        \* 8, the size of an extension's head and the unit of padding
  MaxExtensions,   \* 64, how many extensions are looked at
  MaxName          \* 4096, MAX_BACKING_LEN

ASSUME HeaderAssumption ==
  /\ {MinHeader, FeatureEnd, LengthEnd, ExtAlign, MaxExtensions, MaxName}
       \subseteq Nat \ {0}
  /\ MinHeader < FeatureEnd /\ FeatureEnd < LengthEnd

Features == {"dirty", "corrupt", "external data", "compression type", "extended L2"}

(* INCOMPAT_UNSUPPORTED *)
Unsupported == {"external data", "compression type", "extended L2"}

IsHeader(f) ==
  /\ f.len \in Nat
  /\ f.magic \in BOOLEAN
  /\ f.version \in Nat
  /\ f.boff \in Nat                \* backing_file_offset
  /\ f.bsize \in Nat               \* backing_file_size
  /\ f.cluster_bits \in Nat
  /\ f.crypt \in Nat
  /\ f.l1size \in Nat
  /\ f.l1off \in Nat
  /\ f.nb \in Nat                  \* nb_snapshots
  /\ f.incompat \subseteq Features
  /\ f.hlen \in Nat                \* header_length
  /\ \A p \in DOMAIN f.ext :        \* extensions, by where their heads could be
       /\ p \in Nat
       /\ f.ext[p].type \in {"end", "backing format", "other"}
       /\ f.ext[p].len \in Nat

(* The v3 feature bits, as far as the header was read. *)
IncompatSeen(f, n) == IF f.version = 3 /\ n >= FeatureEnd THEN f.incompat ELSE {}

(* Qcow2Header::parse of n bytes: the first check that fails. *)
StrictParse(f, n) ==
  IF n < MinHeader THEN "too small"
  ELSE IF ~f.magic THEN "bad magic"
  ELSE IF f.version \notin 2 .. 3 THEN "version"
  ELSE IF f.boff # 0 THEN "backing"
  ELSE IF f.cluster_bits \notin 9 .. 20 THEN "cluster bits"
  ELSE IF f.crypt # 0 THEN "crypt"
  ELSE IF IncompatSeen(f, n) \cap Unsupported # {} THEN "features"
  ELSE "ok"

(* Qcow2Info::parse of n bytes rejects only what is no QCOW at all. *)
LenientParse(f, n) ==
  IF n < MinHeader THEN "too small"
  ELSE IF ~f.magic THEN "bad magic"
  ELSE IF f.version \notin 1 .. 3 THEN "version"
  ELSE "ok"

-----------------------------------------------------------------------------
(* A string is the place it is taken from, None when that is not within    *)
(* the n bytes read.                                                       *)
None == <<>>

Slice(n, at, size) == IF at + size <= n THEN <<at, size>> ELSE None

AtMostName(size) == IF size < MaxName THEN size ELSE MaxName

(* backing_file_name *)
BackingName(f, n) ==
  IF f.boff = 0 \/ f.bsize = 0 THEN None ELSE Slice(n, f.boff, AtMostName(f.bsize))

(* Where the header ends and its extensions begin. *)
HeaderEnd(f, n) ==
  IF f.version = 3 /\ n >= LengthEnd /\ f.hlen > MinHeader THEN f.hlen ELSE MinHeader

(* The head of the extension at p.  One that is cut by the end of what was *)
(* read leads nowhere, as an end marker does.                              *)
Extension(f, n, p) ==
  IF p \in DOMAIN f.ext /\ p + ExtAlign <= n
  THEN f.ext[p] ELSE [type |-> "end", len |-> 0]

(* Bug: the data of an extension is not padded. *)
NextExtensionUnpadded(p, len) == p + ExtAlign + len

(* The data of an extension is padded to a multiple of ExtAlign. *)
NextExtension(p, len) == p + ExtAlign + ((len + ExtAlign - 1) \div ExtAlign) * ExtAlign

(* backing_format_name: the loop over the extensions, `left' times at most. *)
BackingFormat(f, n) ==
  LET scan[left \in Nat] == [p \in Nat |->
        LET e == Extension(f, n, p)
            next == NextExtension(p, e.len)
        IN  IF left = 0 \/ e.type = "end" THEN None
            ELSE IF e.type = "backing format"
                 THEN Slice(n, p + ExtAlign, AtMostName(e.len))
            ELSE IF p + ExtAlign + e.len > n \/ next >= n THEN None
            ELSE scan[left - 1][next]]
  IN  scan[MaxExtensions][HeaderEnd(f, n)]

(* The facts Qcow2Info::parse reports.  A version 1 header ends before     *)
(* most of them.                                                           *)
Info(f, n) ==
  [version  |-> f.version,
   backing  |-> f.boff # 0,
   name     |-> BackingName(f, n),
   format   |-> IF f.version = 1 THEN None ELSE BackingFormat(f, n),
   crypt    |-> f.crypt,
   bits     |-> IF f.version = 1 THEN 0 ELSE f.cluster_bits,
   l1size   |-> IF f.version = 1 THEN 0 ELSE f.l1size,
   nb       |-> IF f.version = 1 THEN 0 ELSE f.nb,
   incompat |-> IncompatSeen(f, n)]
=============================================================================
