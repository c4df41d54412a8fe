# TLA+ models of qcow2-forensic

Specifications of the QCOW2 reader (`qcow2-core`, under `core/`) and of the
forensic auditor (`qcow2-forensic`, under `forensic/`), checked with TLC on
small instances; every safety property is also proved with TLAPS, for every
instance. `PROJECT.json` lists the runs, the mutants that show that each
property can fail, the source lines behind each definition, and the hazards the
properties are for.

## 1. The system

| Component | State it keeps | Operations | Talks to |
|---|---|---|---|
| Cluster mapping (`core/src/lib.rs`) | `l1_table`, `cluster_size`, `virtual_disk_size` | `cluster_ref_for`, `decompress_cluster` | the backing file, `flate2` |
| `Qcow2Reader` (`core/src/lib.rs`) | `pos`, the cursor of the backing | `Read::read`, `Seek::seek` | cluster mapping |
| `Qcow2Source` (`core/src/vfs.rs`) | a `Mutex<Qcow2Reader>`, its poison flag, `len` | `len`, `read_at` by any number of threads | one `Qcow2Reader` |
| Opening (`core/src/lib.rs`) | the header window being filled | `open`, `open_reader`, `from_reader`, `inspect` | header parsers, backing |
| Header parsers (`core/src/header.rs`) | none | `Qcow2Header::parse` (strict), `Qcow2Info::parse` (lenient) | – |
| Refcount scan (`core/src/refcount.rs`) | the tables loaded, two counters | `refcount_report` | its own `File` |
| Snapshot table (`core/src/snapshots.rs`) | the file cursor, the list | `snapshots` | its own `File` |
| Forensic audit (`forensic/src/lib.rs`) | the findings collected | `audit`, `audit_snapshots`, `audit_orphans`, `audit_path` | `inspect`, `snapshots`, `refcount_report`, each opening the path again |

What is hard here:

* **Threads.** `read_at` takes `&self`; all callers share the two cursors of
  one reader under one mutex. A backing is a trait object of the caller's and
  can fail or panic in the middle of a call.
* **Short reads.** Every `read` may return less than it was asked for: at a
  cluster border, from a chunking backing, at the end of a truncated file.
  Three loops (`read_at`, `read_window`, `decompress_cluster`) hide this, and
  each has to end.
* **Damaged images.** Evidence is truncated and corrupt. Each parser decides
  what is an error, what is a shorter answer and what is silence.
* **Boundaries.** `u64` offsets through `i64`, caps on counts and sizes,
  sub-byte refcounts, padding at the end of the file.
* **Order of steps.** `audit_path` runs three probes and returns all or nothing.

What makes each component correct: a read delivers the guest bytes of *its*
offset, and says so honestly when it cannot; a seek lands exactly or fails
without moving; whether an image opens depends on the file and not on how it is
read; `inspect` explains what `open` refuses; no orphan is reported that is
none, and a clean scan misses none; the snapshots listed are records of the
table; the audit describes what the reader refuses.

## 2. Modules

| Module | Models | Extends |
|---|---|---|
| `Qcow2Format` | the mapping, as operators, and `GuestByte`, the cursorless reference | – |
| `Qcow2Source` | `read_at` down to each call on the backing | `Qcow2Format` |
| `ImageSource` | the contract: a request, one right answer | `Qcow2Format` |
| `Qcow2Reader` | `read` and `seek` of one owner, with machine integers | `Qcow2Format` |
| `Qcow2Header` | the strict and the lenient parser | – |
| `Qcow2Open` | `read_window`, `from_backing`, `inspect` | `Qcow2Header` |
| `Qcow2Refcount` | `refcount_report`, side by side with the reader | `Qcow2Format` |
| `Qcow2Snapshots` | `snapshots` | – |
| `ForensicAudit` | `audit_path` and what it calls | `Qcow2Header` |
| `TestImage` | the image that `core/src/testutil.rs` builds | – |

| Proof module | Proves about |
|---|---|
| `NatFacts` | quotient and remainder, induction in the form of sets, counting what has been passed |
| `Qcow2FormatProofs` | the lookup and what one chunk of each kind of cluster holds |
| `Qcow2SourceProofs`, `Qcow2ReaderProofs`, `Qcow2OpenProofs`, `Qcow2RefcountProofs`, `Qcow2SnapshotsProofs`, `ForensicAuditProofs` | the module each is named for |

`MC*` modules give the constants their values. Definitions whose comment begins
with `Bug:` are the mutants; nothing else uses them. The values of
`core/src/error.rs` are the verdicts of the operations.

### Qcow2Format
Shifts and masks are `\div` and `%` by powers of two. `CompressedBit` (`1 << 62`)
scales the word, so that TLC can use a small one. An image is the fields of an
open reader and the contents of its file: at every offset the byte, the
big-endian word, and the DEFLATE stream that would start there (whether it is
one, how many bytes it takes, what it inflates to). `flate2` is external: a
whole stream yields its plaintext, an empty input nothing, a cut one a prefix or
an error, and no stream an error.

### Qcow2Source
Variables: the mutex (`lock`, `poisoned`), the cursors (`pos`, `fpos`), and for
each thread its place (`pc`), request (`off`, `want`), progress (`total`,
`buf`), resolved cluster (`ref`) and result (`res`). A step is what a thread
does between two calls on the backing:

| Action | Code |
|---|---|
| `ReadAt` | `read_at` up to the lock |
| `Lock` | `lock().unwrap_or_else(PoisonError::into_inner)` |
| `SeekStart` | `seek(SeekFrom::Start(offset))` through `i64` |
| `ReadEnter` | `read` up to the read of the L2 entry |
| `L2Missing`, `L2Read` | `read_exact` of the entry, and its decoding |
| `DataRead` | the one `backing.read` of a data cluster |
| `Inflate` | `decompress_cluster` |
| `LoopExit` | the end of `while total < want` |
| `IoError`, `BackingPanic` | a call on the backing fails or panics |

The loop of `decompress_cluster` is one step: it runs under the mutex and its
short reads have no effect but to be repeated. An I/O error or panic is taken
before the effect of a call; the cursors it leaves are those before the call or,
after a failed `read_exact`, the end of the file. A `usize` is taken to have 64
bits; what a narrower one does to a read is in `Qcow2Reader`.

### ImageSource
Each thread has asked for something and has an answer or is waiting for one.
`Right` is the contract: `Ok(n)` with `n` guest bytes, short only at a
truncation; or an error or a panic, which say nothing. `Qcow2Source!Abstract`
maps a running call to *pending* and a finished one to its result.

### Qcow2Reader
`seek` in a release build wraps and in a build with overflow checks panics
(`OverflowChecks`); what is left of the disk is cast to `usize` (`UsizeMod`),
which loses bits where a `usize` is narrower than a `u64`.
What is read is left to `Qcow2Source`; here only how far.

### Qcow2Header and Qcow2Open
A file is its header fields and its header extensions, by the place where the
head of one could be read. A name is the place and the length it is taken with.
`read_window` collects any number of bytes at each read; the parsers see the
fields that were read. Both operations run once each, in either order, so that
their verdicts can be compared. A backing that is handed to `from_reader` may
stand in the middle of the file: `head` is the header found there, and the L1
table is looked for from the beginning all the same.

| Action | Code |
|---|---|
| `Begin` | a call of `open`, `open_reader`, `from_reader` or `inspect` |
| `ReadWindow` | one read of `read_window` |
| `ParseHeader`, `ReadL1` | `from_backing` up to, and with, `read_exact` of the table |
| `ParseInfo` | `Qcow2Info::parse` with `backing_file_name` and `backing_format_name` |
| `Fault` | a call on the backing fails |

### Qcow2Refcount
Bytes and words are contents of the file. The report is compared with two
direct readings of it: `Mapped` asks the reader's own lookup (`GuestRef` of
`Qcow2Format`) at every guest cluster of the L1 table whether it goes to a data
cluster (`virtual_disk_size`, which keeps a read from some of them, is no part of
the lookup), and `Free` looks at the single bits of a refcount. So the two
decoders of the mapping in this code, with their different masks, stand side by
side. `Free` has two halves: `DefiniteZero`, a refcount that is there and 0, and
`WithoutBlock`, a range that has no refcount block. The code counts both as
orphans; its doc comment wants the first only, and run `refcount_no_block` shows
the difference. Any table read and any refcount read may fail for no fault of the
image (`faults`), and the one `File::read` of the header may return any part of
it.

| Action | Code |
|---|---|
| `Header`, `NoHeader` | the header read, the checks and `refcount_order` |
| `LoadRefcountTable`, `LoadL1` | the two bootstrap tables under their cap |
| `NextL1` | one turn of the outer loop with the L2 table |
| `SkipEntry`, `CheckEntry` | one turn of the inner loop, with `refcount_of` |
| `EndScan` | the end of both loops |

### Qcow2Snapshots
A file decodes to a record at every offset, also where none was written, so that
a wrong cursor finds something. A string is the place and the length it was read
with. The table is sought to before the first record, which fails for a place
from `1 << 63` on (`Seekable`); so does `snapshots` then. `Start` and `Record`
define the table by the format, without caps. One action stands for each read or
skip of the file; `StopEarly` is the `break` after any of them, `Push` the end of
a turn.

### ForensicAudit
A finding is its kind and the facts it carries, taken from the same `Info` that
`Qcow2Open` checks. Of the snapshot table and the refcounts an image has only
what the probes return, and whether the snapshot table can be sought to
(`st_ok`); the error paths of all three probes are complete.
That no more orphans are counted than clusters is assumed of an image here;
`Inv` of `Qcow2RefcountProofs` (`orphans <= examined <= allocated`) shows it of
every report.
`Fault` is a failing call or a short read of a header, and `Replace` lets another
program change the image between two opens.

### TestImage
The builder of the image most tests read. `MCQcow2Open` assumes that its header
is one the reader takes, `MCQcow2Source` that its first cluster reads back as the
sector it was given, and both runs have it among their images.

## 3. Runs

| Run | Shows |
|---|---|
| `source` | two threads on nine images: faithful reads, held cursors, honest short reads and errors, contained panics; `Qcow2Source` implements `ImageSource`; a holder of the mutex releases it |
| `reader` | seeks land exactly or fail, from the cursor and the end on disks whose size an `i64` holds; on any disk a read returns 0 only where it says, and a failed call moves nothing |
| `open` | short reads never change whether an image opens; `inspect` explains `open` and names the backing file and format the extension chain leads to; both end |
| `refcount` | no false orphans ever; of tables that are all there none is missed, or none up to the cap; the scan counts the clusters the reader's lookup maps |
| `snapshots` | the list is a prefix of the table and ends no earlier than the readable part |
| `audit` | what the reader refuses is described with its facts exactly when the refcount table can be read and the snapshot table sought to; the three probes tell one story of an unchanged image |

The remaining runs end in a violation: each states what a document, comment or
test says and finds that the code does otherwise.

| Run | Disagreement |
|---|---|
| `source_short_inflate` | ADR 0004 wants an error for a short inflate; the code pads with zeros, and a test asserts the padding |
| `reader_overflow_checks` | "panic-free"; a seek overflows in a build with overflow checks |
| `refcount_lost_l1` | malformed input "surfaces as an error"; an L1 table outside the file does not |
| `refcount_no_block` | the comment of `refcount_of` wants a range without a refcount block left unknown ("not provably orphaned"); the code, a comment inside it and a test count refcount 0 there |
| `snapshots_long_extra` | the walk "stops at the first record that cannot be read"; past the cap on extra data it goes on inside it |
| `audit_legacy` | `audit_path` is said to be validated on v1 images; it can only fail on them |

Seen while modelling and left without a run of their own:

* on a truncated image `read_at` returns a short `Ok` in the middle of the disk
  (`vfs.rs:64`), where its comment says it "fills the buffer" (`vfs.rs:20`);
  `ShortReadOnlyAtTruncation` says exactly when;
* `disk_size` is not bounded, and from `1 << 63` on `SeekFrom::End` lands
  `2^64` bytes too low (`lib.rs:295`); `SeekLandsExactly` is about the disks below
  that, and `reader` has one above;
* a report that meets the cap counts one cluster that was not examined
  (`refcount.rs:255`), which `TypeOK` of `Qcow2Refcount` allows;
* with a 32-bit `usize` a read returns 0 wherever a multiple of 4 GiB of the
  disk is left, at the start of an 8 GiB disk for one (`lib.rs:259`), and its
  caller takes the disk to be over. `ReadEndsOnlyAtEnd` admits this as an end of
  its own, `NoEarlyEndOn64Bits` excludes it where a `usize` has 64 bits; no
  document says which targets are meant;
* `snapshots` is to "degrade gracefully" on a truncated or corrupt table, rather
  "than panicking or erroring out" (`snapshots.rs:78`), but a `snapshots_offset`
  from `1 << 63` on is an error (`snapshots.rs:104`), also of `audit_path`, and
  such an image is not described (`docs/PRD.md:50`); `RefusedAreDescribed` says
  so, with the refcount table as the other reason;
* a header that one `File::read` returns in part is an error for `snapshots` and
  `refcount_report`, or hides `refcount_order`, and 16-bit refcounts are assumed
  (`refcount.rs:176`); `NoFalseOrphans` says that it needs the order;
* `snapshots` does not look at the version of the header (`snapshots.rs:98`);
* an L1 table over the cap is an error for `open` and cut without a word for
  `refcount_report` (`refcount.rs:227`);
* `docs/PRD.md:50` wants images with extended L2 entries or another compression
  type described by `audit_path`; `audit` has no finding for either;
* sub-byte refcounts are unpacked from the high end of the byte, as the comment
  at `refcount.rs:151` says. The format is not part of the repository, and the
  model follows the code; an image written the other way round would be misread.

### Bounds, and why they are enough

* `source`: two threads, because a call touches the shared state only under the
  mutex and a third thread adds no kind of interference; the proofs cover any
  number. The disk has 13 bytes in four-byte clusters (two L2 tables of two
  entries, the last cluster partial), and requests cross data, compressed, zero
  and unallocated clusters and the end of the disk. The images are whole, cut in
  a table, in data and in a stream, with a bad and a short stream, with missing
  and dangling L1 entries, and larger than `i64`. `Lengths` has 0 and a length
  that needs at least two reads. The offsets are two inside the disk, in and
  before its last chunks, and one beyond `i64`. There is no symmetry reduction,
  as one property of the run is a liveness property.
* `reader`: a six-bit word, small enough to try *every* `u64` and `i64`
  argument at every position, on disks of no bytes, of some, of the largest size
  an `i64` holds and of one beyond it. A `usize` has four bits in `reader`, so
  that three disks have more left than it holds and, at some positions, a
  multiple of 16; in `reader_overflow_checks` it has the six of the word. That
  the width matters no further is what the theorems say.
* `open`: windows of 6 and 14 units with the header at 4, the features at 5 and
  `header_length` at 6, so that every border lies inside, at and outside a
  window; every header field takes a good and a bad value. Extensions are chained
  up to three long under a cap of 2 (`MaxExtensions`), of every size from 0 to
  one that leads out of the window, with an alignment of 2 so that padding
  matters; names are longer and shorter than `MaxName` (3). The inner headers are
  one that is good and one that is none.
* `refcount`: one-byte entries, four-byte clusters, all seven orders, blocks with
  zeros in each place, tables present, absent and out of range, longer than
  `MaxL1` (4), with reserved bits, files cut in each structure, and a cap of 3
  clusters that some images pass and others do not; of those that pass it some
  have whole tables, for the second half of `CleanScanIsComplete`. `HeaderWindow` (4) leaves the
  order inside and outside a short read.
* `snapshots`: a fixed part of 3 bytes aligned to 2 keeps the relation of 40 to 8
  that matters (a remainder of padding holds no record); two written records of
  every shape, announced 1 to 4 times under a cap of 3, and the file cut at every
  byte. One table starts at `SeekLimit` (32), one just below it.
* `audit`: every fact a finding or a check depends on, good and bad; more
  snapshots announced than are there and than `MaxSnapshots` (3), orphans among
  the clusters counted.

Run on one machine the sizes are: `source` 164 079 distinct states, `open`
137 520, `audit` 103 572, `refcount` 92 214, `snapshots` 88 125, `reader` 26 769.

### Fairness

`source` assumes that a thread that holds the mutex keeps running (`WF` of its
steps): it is a running thread and the code waits for nothing there but the
backing, which is assumed to return. It assumes nothing for a thread that waits
for the mutex. `std::sync::Mutex` promises nobody a turn, so that every `read_at`
eventually returns is *not* claimed. `open` assumes the same of the one calling
thread: it runs on, and a read of the backing returns, with data, short or with
an error. `OperationsEnd` then says that no pattern of short reads keeps
`read_window` going. The walk over the extensions is a single step of that model
and bounded in the code by `for _ in 0..64`; the loops of `refcount_report` and
`snapshots` are `for` loops over a vector or a capped count, too. That they end is
Rust's doing, and no property of theirs.

`CHECK_DEADLOCK FALSE` is set where an operation ends and the model with it
(`open`, `refcount`, `snapshots`, `audit`). A source or a reader can be called
again at any time, and its runs check for deadlock.

## 4. Proofs

Every invariant and action property that a passing run checks is a theorem: it
holds for every value of the constants the assumptions allow, hence for the real
sizes, and for every image, request and interleaving.

| Module | Theorems, and the property each states |
|---|---|
| `Qcow2SourceProofs` | `TypeCorrect`, `ReadsAreFaithful` (`ReadAtFaithful`), `CursorsStayHeld` (`CursorsHeld`), `ShortReadsAreTruncations` (`ShortReadOnlyAtTruncation`), `ErrorsAreDefects` (`ErrorTellsOfDefect`), `PanicsStayLocal` (`PanicNeverSpreads`), `Refinement` (`ReadsAreAtomic`) |
| `Qcow2ReaderProofs` | `TypeCorrect`, `SeeksLandExactly` (`SeekLandsExactly`), `FailuresKeepPlace` (`FailureKeepsPlace`), `ReadsEndAtEnd` (`ReadEndsOnlyAtEnd`), `NoEarlyEndOn64Bits` |
| `Qcow2OpenProofs` | `TypeCorrect`, `OpenTakesTheReadable` (`OpenedIffReadable`), `InspectExplains` (`InspectExplainsOpen`), `BackingNamed` (`BackingIsNamed`) |
| `Qcow2RefcountProofs` | `TypeCorrect`, `Counts`, `ScanAgrees` (`ScanAgreesWithReader`), `NoFalseOrphan` (`NoFalseOrphans`), `CleanScanComplete` (`CleanScanIsComplete`) |
| `Qcow2SnapshotsProofs` | `TypeCorrect`, `WalkInvariance`, `SnapshotsAreTheRecords` (`SnapshotsAreRecords`), `StopsAtUnreadable` (`StopsAtFirstUnreadable`) |
| `ForensicAuditProofs` | `TypeCorrect`, `OneStory` (`FindingsTellOneStory`), `RefusedDescribed` (`RefusedAreDescribed`) |

`Invariance` is in each the theorem that the inductive invariant `Inv` holds.

### Assumptions

Each proof starts from the `ASSUME` of its component, which TLC evaluates on
every run of it: sizes are positive, windows and header fields are in their
order, images are well formed. Two of them carry a fact about the code:

* `RefcountAssumption`: the offset mask `0x00ff_ffff_ffff_fe00` is a run of bits
  below the flags (its lowest bit divides `ReservedBit`, that one divides
  `CompressedBit`). Without it the scan and the reader need not take the same
  offset from the same entry.
* `SnapshotsAssumption`: a `u16` is below the cap of `read_string`, and the
  alignment is not more than the fixed part.

Two hypotheses stand in the theorems themselves, where a reader meets them:

* `NoEarlyEndOn64Bits`, the corollary of `ReadsEndAtEnd`, needs
  `2 * CopiedBit <= UsizeMod`, a `usize` of 64 bits. With one of 32 bits it is
  false (section 3).
* `SnapshotsAreTheRecords`, `StopsAtUnreadable` and `WalkInvariance` need
  `ExtraInCap`, that no record announces more extra data than the cap. Run
  `snapshots` has such tables; run `snapshots_long_extra` shows that the code
  leaves the records of others.

### Why the invariants are what they are

**`Qcow2Source`.** That a chunk is right when it is delivered depends on where
the cursors were put two calls on the backing earlier. `Inv` adds `CursorsHeld`
(exactly the lock holder is inside, and at each call `pos` is `off + total`,
`fpos` and `ref` belong to the cluster under `pos`) and `CallsInv` (a running
call has no result yet, requests stay on the disk, an idle thread has nothing
resolved). Only the holder moves, so for every other thread its part of `Inv` is
unchanged (`AdvanceKeepsInv`, `LeaveKeepsInv`); a delivered chunk lies in one
cluster (`SameCluster`), so all its bytes have the reference resolved for the
first (`LookupSameCluster`), and they are right for each kind (`ZerosAreRight`,
`DataIsRight`, `InflatedIsRight`). For the refinement every step that ends a call
is a `Reply` (`LeaveReplies`), `ReadAt` is an `Ask` (`ReadAtAsks`), and every
other step changes neither what was asked nor what was answered
(`InternalStep`).

**`Qcow2Reader`.** The arithmetic is the matter: a sum that leaves `i64` wraps to
a negative one, which `seek` refuses (`WrapI64Overflow`), so that what is
accepted was not wrapped.

**`Qcow2Open`.** What a loop of short reads leaves is decided by the file once
the loop has ended: the window is full or holds the whole file. So each verdict
is a function of the file (`VerdictInv`), and what `open` and `inspect` say can be
compared though they run at different times with different windows
(`WindowTellsBorders`, `ParsersAgree`). `BackingNamed` is an induction along the
chain of extensions: the loop follows a chain as far as its end
(`ScanFollowsChain`), and where it takes a name there is a chain that leads
there, no longer than the turns it had (`ScanBuildsChain`).

**`Qcow2Refcount`.** The scan keeps no number of the cluster it is at; `Place`
tells it from what is left of the two tables. `Inv` says that the tables loaded
are those in the file, or empty. `CountInv` relates the counters to the mapped
and orphaned clusters below `Place`: as bounds whatever fails, as equalities in a
scan that nothing kept from a table. Where the cap ends the scan, `Place` is the
cluster up to which `CleanScanIsComplete` speaks. A turn of the inner loop moves `Place` by
one, and the entry it looks at is the one the reader's lookup finds there
(`LookupOfPlace`, `EntryCounted`); an L2 table that is skipped moves it by a table
of which no cluster is mapped, unless a read failed (`NoTableNothingMapped`).
`RefcountBits` and `ZeroIsFree` show for all seven widths, sub-byte ones
included, that the comparison in `refcount_of` is one of the bits that the image
records for the cluster, or finds that it has no block for them.

**`Qcow2Snapshots`.** `PartsInv` says where in the record the cursor stands at
each part, `PlaceInv` that the record is the one the format puts there. `Start`
describes the table as a recursive function; the invariant uses the same function
of an arbitrary file (`StartOf`).

**`ForensicAudit`.** `ReportInv` says what the list is at each step on an image
that stayed the same: the findings of the probes so far, as a function of the
image. The two properties are then read off the finished list. Since an image may
be replaced between probes, the bound on the length is kept apart from it
(`ListInv`): each probe adds no more than it can, of whatever image.

### Induction

The induction theorems of the library take an operator as a parameter, which the
installed provers cannot instantiate. `NatFacts` proves the form that can be used:
`NatSetMin` (a set of numbers that is not empty has a least one),
`NatSetInduction` from it (a set with 0 and every successor is all of them), and
`Iteration` (a function defined step by step exists), from which the equations
of the recursive functions in `Qcow2Header` and `Qcow2Snapshots` follow.

### Only model-checked

* Liveness, which is out of the prover's reach: `LockReleased`, `OperationsEnd`.
* The runs that end in a violation: there is nothing to prove.
* The two assumptions that tie `TestImage` to the reader: they are about one
  image, and TLC evaluates them.

## 5. Not modelled

* Severity, codes, notes and evidence of a finding: lookups and wording without
  state. The facts they are made of are modelled.
* Lossy UTF-8 decoding of names; times and sizes copied into a snapshot; the
  messages of `error.rs`.
* What a 16-byte L2 entry means: the code never reads one. The reader refuses
  such images and the refcount scan takes the entries for 8 bytes each.
* The fuzz drivers, the integration tests, CI, corpus and documentation: they
  call what is modelled and keep no state.

Every operation of the library that changes state is an action of a module, and
what remains has no behaviour a state machine would add to.

## 6. Plan

Done: the shared reader with its contract (`Qcow2Source`, `ImageSource`), seek
arithmetic (`Qcow2Reader`), the parsers with the extension walk (`Qcow2Header`,
`Qcow2Open`), the two walks (`Qcow2Refcount`, `Qcow2Snapshots`), reader and scan
side by side, the composition of the probes (`ForensicAudit`), and a proof of
every safety property.

Left, in the order of what it would say:

1. `Qcow2Snapshots`: what still holds of tables beyond `ExtraInCap`; up to the
   first record over the cap the list is right.
2. `Qcow2Refcount`: that a report that meets its cap counts exactly one cluster
   over it.
3. `ForensicAudit`: what an audit of a replaced image may still be relied on for;
   each probe's findings are those of one of the images that were at the path.
