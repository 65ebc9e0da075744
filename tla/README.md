# A verification of place

place is a tiered file store behind a FUSE mount.  This directory holds TLA+
models of its stateful parts, TLC configurations that check them on small
instances, and proofs that TLAPS checks.  Every definition is translated from
the Go source; `PROJECT.json` maps definitions to lines.

## The system and its parts (inventory)

| Part | Source | State, locking, persistence | Module |
|---|---|---|---|
| segment (L1) | `segment/segment.go` | append-only files of framed records, one active file per tier, rotation by size; fsync; torn-tail repair of the active file at open | `Index` |
| index (L2) | `index/index.go` | fragments (inode, stripe, seq) -> (tier, segment, offset) in pebble; `writeMu` (appends share it, Move, Truncate, DeleteInode and bulk commits exclude), per-inode commit locks, `seqGen`; GC takes no lock | `Index`, `Index_proof`, `StripeLog`, `StripeLog_proof` |
| fragment algebra | `index/fragment.go` | pure: planRead, canonicalView | `Fragments`, `Fragments_proof`, `ReadPath_proof`, `StripeLog` |
| mover (L3) | `mover/mover.go` | one goroutine: sleep, evict stripes, collect, back off on errors | `Mover`, run inside `Placefs` |
| store, coalescer (L4) | `store/coalescer.go` | per-inode write-back buffers (current, flushing), global byte semaphore, bounded flush queue, flusher goroutines, ticker; nothing persistent | `Coalescer`; abstract: `WriteBack` |
| store, handles (L4) | `store/handle.go` | ReadAt merges buffer and disk; WriteAt and Sync go to the coalescer; BulkWriter | `ReadPath`, `ReadPath_proof`, `Coalescer`, `Namespace` (BulkWriter.Commit) |
| store, namespace (L4) | `store/store.go` | nodes, dirents, inode counter in pebble; read, fill a batch, commit | `Namespace`, `Coalescer` (Setattr, Unlink's data side), `Migrate` (Open) |
| kv | `kv/db.go`, `kv/keys.go` | keys of tag, big-endian integers and name; range scans; atomic, synced batches, which do not see themselves | `Keys`, `StripeLog_proof`, `Namespace` |
| kv migration | `kv/migrate.go` | bbolt -> pebble, bucket by bucket, then a rename; then blob split and seeding at Open | `Migrate`, `Migrate_proof` |
| fuselayer (L5) | `fuselayer/*.go` | one store call per handler; counters per operation, in rows made on first use | `Placefs`, `Namespace` (inode numbers) |
| placefs | `cmd/placefs/main.go` | start of all parts with an exit for each failure; signal goroutine with a grace period; shutdown order: unmount, mover.Stop, Store.Close | `Placefs` |
| admin | `admin/admin.go` | readiness flag, /healthz by the age of the mover's tick, /metrics | `Placefs` |
| obs | `obs/tracing.go` | tracing | not modelled |

A write enters `Handle.WriteAt`, takes permits of the global semaphore, gets
seqs from the index and waits in its inode's buffer.  The ticker, a full buffer
or an fsync asks for a flush; a flusher copies the batch, appends it to
segments, fsyncs them and commits fragments and node in one pebble batch.
Reads merge both places by seq.  The mover rewrites stripes from hot to cold
under new seqs and GC unlinks segments without fragments.

## Modules

`Coalescer` - buffered bytes are cells `<<seq, pos>>`; a batch is a set of
cells; `inodeBuf` and `bufBatch` objects have identities, because goroutines
keep pointers across unlocks.  `buffers`, `buf`, `batch`, `sem`, `flushQ` are
the coalescer's fields; `proc` and `wk` the program counters and locals of
client calls and flushers; `disk` and `node` what AppendBatchCtx has made
durable.  A step is one critical section or one channel operation: Write is
WriteAcquire, WriteAppend, WriteEnqueue; Fsync is FsyncSnapshot, FsyncTrigger,
FsyncFired, FsyncDone; flushInode is FlushTake (the swap), FlushSnapshot (the
unlocked copy), FlushAppend, FlushHook, FlushCommit, FlushSettle; Setattr,
Unlink/Drop, Drain/Close, the ticker and a crash follow the same rule.  The
unlocked loop over `batch.extents` is a data race with InvalidatePastSize; it
is a choice over the copies the loop can make (`Snapshots`).  Three things the
code does in adjacent steps are one step here: Stat's database read with
LiveAttrs, Setattr's first Stat with InvalidatePastSize, and settle's unlock,
close(done) and semaphore release.

`WriteBack` - what a write-back buffer promises, in four actions: bytes are
accepted, settled (durable, or cut off by a truncate) and vouched for, in this
order, and a crash loses accepted bytes only.  `Coalescer` implements it under
the mapping accepted = written, settled = on disk or cut off, vouched = what a
successful fsync covered; a file is given up when it is unlinked or when a
truncate met the unlocked copy (finding 1).

`Keys` - the keyspace of kv/keys.go.  A key is a sequence of bytes, compared as
Pebble compares; a byte has `Radix` values and the integers have `InodeLen`,
`StripeLen` and `SeqLen` bytes instead of 8, 4 and 8.  PrefixUpperBound is the
carry loop, `Iter` a half-open range scan.

`Fragments` - planRead and canonicalView as folds over the seq order, with the
per-byte reference (newest fragment that covers the byte).  `StripeLog` is the
fragment table under the keys of `Keys`, in one database with the nodes,
dirents and the inode counter: AppendExtents (split at stripe boundaries),
Truncate, DeleteInode and Move find their keys by range scans, as do PlanRead
and IterStripes.  It compares the plans with the per-byte reference, and
implements `ByteArray`, an array of bytes per file, operation by operation: an
append fills exactly the range it was given, a Truncate clears exactly what lies
past its size, DeleteInode clears the file and a Move does nothing.  An operation
that finds no key is a step too, and must then have had nothing to do.

`ReadPath` - Handle.ReadAtCtx step by step (Stat, FragmentsInRange,
FragmentsFor, the plan, slice by slice) against Write, the flusher's swap,
commit and settle, and Move.

`Index` - segment files as sequences of half records, so that a torn or short
write leaves half a record; Append, BulkSession, Truncate, DeleteInode, Move,
PlanRead/ReadAt, GC (the scan, ActiveID of each tier, then per tier the list of
open segments, their removal one by one, any of which may fail and end the pass,
and the sweep of the directory), and a crash followed by Open (loss of any unsynced tail,
Scan, RepairTail, the restart of seqGen from a clock that may have gone back).

`Namespace` - each operation reads, fills a batch (`Begin`), commits it
(`Commit`), and, if it dropped the last link, clears the data (`Free`).
`VfsFree` is the kernel's inode locking (external); `OpenMuFree` is Rename's
openMu, which LookupPath shares.  Beside them are the writers of the same node
that hold no such lock: Setattr of a size (truncate, Stat, commit), the flush
(`FlushHook` reads the node, `FlushCommit` writes it with the fragments) and
BulkWriter.Commit (`BulkCommit` the fragments, `BulkNode` and `Commit` the
node, in a second batch).  `data` is where an inode's fragments end.  `lost`
records the inodes whose node was written back stale, or written to in the
middle of a Setattr; `torn` those whose operation ended between two commits.

`Mover` - the loop of mover.go over hot bytes per stripe and segment; it has no
specification of its own.  `Placefs` is the process around it: main's start,
step by step with the failure exits; FUSE handlers (`Call`, `ServeOp`, then
Metrics.row and Observe in their separate critical sections and atomic adds);
flushers that turn a dirty byte into a hot one, or fail; the signal goroutine,
Unmount and the grace period; the admin server's requests; the shutdown.  The
store is reduced to the number of its dirty bytes and to open or closed, the
index to its hot bytes: what they do in full is in the other modules.
Time is `age`, the whole seconds since the mover's last tick: `Second` lets one
go by, the loop wakes when its delay is over, and a pass takes at most `MaxPass`
seconds.  /healthz compares with what `time.Since` may be within the current
second.  How long the process has been up is the age before the first tick, and
afterwards either that or long enough for the grace period to be over, which
lets the model answer "stale" at most more often than the code.  `CancelAdmin` only
cancels the admin server's context; `ShutdownAdmin` is the goroutine that closes
the listener some time later, and requests are served until then.

`Migrate` - MigrateFromBolt, the blob split, seedSeq and Store.Open as a
sequence of durable steps with a crash between any two.

`MCCoalescer`, `MCIndex`, `MCNamespace` and `MCPlacefs` give the workloads of
the runs: a workload is a budget per kind of event, and a run explores a set of
them.  `MCStripeLog` gives the files, the ranges written and the names.

## Runs

| Run | Shows | Instance, distinct states |
|---|---|---|
| `coalescer` | `ImplementsWriteBack`, `FsyncDurable`, `AwaitedFlushes`, `SingleFlusher`, `StatCoversWritten`, `PermitsAccounted`, `SizeCovered`, `TruncateSticks`, `ChmodSticks`, `NoPanic`, `DrainDurable` | 1 inode, 2 clients, 2 flushers, 2 positions, queue of 1; four workloads of 2 writes with (fsync, truncate), (fsync, cancellation, failed flush, crash), (chmod, failed flush, shutdown), (fsync, unlink); 1.4 M |
| `coalescer_progress` | `CallsReturn` | 2 clients, 2 flushers, semaphore of 2, queue of 1, 3 writes, 2 fsyncs, 1 failed flush; 162 k |
| `stripe_log` | `ImplementsByteArray`, `PlanIsNewestWins`, `StripesReportedOnce` | 3 files, bytes of 5 values, positions 11 to 14 in the last two stripes of a file, 3 appends, 2 truncates, deletions or moves; 47 k |
| `read_path` | `ReadIntegrity`, `ReadsFresh` | 3 positions, 3 writes, 1 move, 1 read; 4.3 M |
| `index` | `FragmentsDurable`, `NewestWins`, `ReadsRightBytes` | 2 writers, 2 stripes, segments of 2 records, 3 segments; six workloads (recovery, short writes, bulk, reads, reads after a restart, a failed unlink); 3.3 M |
| `namespace` | `NoDangling`, `FileLinks`, `DirsFormTree`, `DirLinksSuffice`, `NoOrphanData`, `SizeCoversData`, `FreshInodes`, `WalkStaysInTree` | 2 clients, 2 names, 4 inodes, sizes to 2; five workloads (5 operations; 3 with a flush and a crash; 3 with a flush, a bulk write and a truncate; 2 with a flush, a bulk write and a crash; 4 with a path lookup); 454 k |
| `placefs` | `ClosedLast`, `ExitIsClean`, `HealthyOnceMounted`, `StaleMeansBackoff`, `ObservationsCounted`, `PressureRelieved`, `StopReturns`, `SignalledExits` | 2 handlers, 3 stripes, segments of 2, cap and target 2, backoff and health limit of 4 s, passes of 1 s; four workloads (3 writes, a failing pass and a signal; 3 failing passes and a health request; a failing start, 2 requests, a failing flush, a signal and an unmount; 2 requests and 2 scrapes); 414 k |
| `migrate` | `AllocAhead`, `SeqAhead`, `RenamedIsComplete` | 3 legacy inodes, batches of 2, 2 crashes; 2 k |
| `fsync_race` | `FsyncNeverLies` fails | finding 1 |
| `read_fails` | `ReadsSucceed` fails | finding 2 |
| `index_collect` | `NeverDangling` fails | finding 3 |
| `migrate_crash` | `NothingLost` fails | finding 4 |

Every module states the types of its variables (`TypeOK`, `SysTypeOK`); `coalescer`
checks them, where they hold the queue to its capacity, and they are proved for
Coalescer, Migrate, Index and StripeLog.  Elsewhere they are there to be read.  Deadlock is
checked in `placefs`, where only a process that has exited may stand still.
Elsewhere it is not: workloads are finite, and a store that has spent its budget stops; `CallsReturn` and
`AwaitedFlushes` take its place in the coalescer.

### Why the bounds are enough

Two writers, two flushers and a queue of one make every pair of critical
sections meet: a second request finds a flush in flight, a full queue and a
full semaphore.  Two positions tell a truncate that cuts part of a batch from
one that cuts all.  A segment of two records has a whole record before a torn
one and rotates within two appends.  Five namespace operations build a two
level tree and rename inside it; one flush, one bulk write and one truncate of
a file meet in every order.  Three appends to a file with ranges that cross a
stripe boundary, nest and straddle, and truncates that leave fragments apart or
touching, give every relation of intervals.  In `stripe_log`
inode 4 ends in the last byte, so that its bound carries and touches inode 5;
inode 24 consists of last bytes, so that its bound carries into the tag; the
positions lie in the last stripe a file can have and the one before it; and
one dirent's key is as long as a fragment's.  In `placefs` three bytes overflow
a hot tier of two, spread over two segments that each hold a stripe's bytes, so
that one pass does not always free one; with the target at the cap the excess is
one byte, so that the list of candidates, which ends at twice the excess, leaves
a hot stripe out; a segment is no larger than the cap, without which the active
segment alone could exceed it for good; three failing passes reach the cap of
the backoff, which equals the limit of /healthz as in the shipped defaults; two
handlers find the metrics row missing at once.

### Fairness

`Coalescer!Fairness` is weak fairness of each flusher, of each client call that
has begun, and of the ticker: the Go scheduler runs runnable goroutines and a
time.Ticker keeps firing.  Nothing is assumed of new calls, cancellations,
errors and crashes.  `Placefs!SysFairness` is weak fairness of main, of the
mover's goroutine, of the clock, of the flushers, of each handler that has a
request, of the admin handlers and the admin server's shutdown, and of the grace timer: all are goroutines that
wait for nothing but one another.  Nothing is assumed of the kernel: Unmount may
hang or fail, and nobody has to send a request, a signal or an umount.

## What the checks found

Most properties hold as the comments of the code state them.  Four statements
are refuted by a run:

1. `fsync_race`: `store/coalescer.go:16-19` promises that fsync returns only
   after every preceding write is durable.  flushInode copies `batch.extents`
   unlocked while a truncate compacts the array; the copy can skip an extent
   below the new size, and the fsync succeeds.
2. `read_fails`: `store/handle.go:37-38` guarantees that reads see freshly
   written bytes.  planRead adds the clip distance to the locator's offset,
   which for buffered extents is a seq; a read that starts inside one fails.
3. `index_collect`: `index/index.go:382-383` says that no fragment points at
   non-durable bytes.  GC takes no lock: a segment that an append opens after GC
   has read ActiveID is listed, is not referenced yet, and is unlinked although
   the append commits its fragment.  Filling and rotating the active segment
   after the scan is a sibling.
4. `migrate_crash`: `kv/migrate.go:130-131` takes a non-empty destination for a
   finished migration.  A crash during the copy leaves one.

### Deviations the passing properties exempt

The properties below are stated with an exemption, by a history variable that
records that the case occurred.  TLC refutes each of them when the exemption is
taken out.

| Property | Exempt | Why the code does not keep it |
|---|---|---|
| `FsyncDurable` | `raced` | finding 1 |
| `TruncateSticks` | `met` | a flush that copied its batch before the truncate commits after `idx.Truncate` (`store.go:913-920`) |
| `SizeCovered` | `met`, a shrink in progress, `chmodded` | the hook writes back a size it read earlier (`coalescer.go:718`); Setattr makes the live size durable before its bytes (`store.go:925`) |
| `ChmodSticks` | `met` | Setattr does not take the commit lock (`store.go:949`) |
| `PermitsAccounted` | `met`, `unlinked` | one `freed` counter for two batches (`coalescer.go:508`); a write into a dropped buffer |
| `SingleFlusher`, `SizeCovered` | `unlinked` | Drop forgets a buffer a writer still holds, and a flush that read the node before the unlink commits it again (`store.go:609`) |
| `NoPanic` | the ticker | its send races Close's close of the queue (`coalescer.go:592`, `649`); Write, Fsync, flushes and Drop are not exempt, before or after Close |
| `CallsReturn` | no truncates in the workload | a batch emptied by a truncate is not flushed, its waiter not woken (`coalescer.go:678`) |
| `ReadsFresh` | `split`, `overtaken` | a flush settles between the two snapshots (`handle.go:67-74`); Move re-stamps old bytes above buffered ones (`index.go:1095`) |
| `FragmentsDurable` | `collected`, `short` | finding 3; after a short write `Segment.size` lags (`segment.go:182`) |
| `NewestWins` | `overtaken` | Move runs between an append's seqs and its lock |
| `ReadsRightBytes` | `short`, `reseeded`; a missing segment is allowed | Move and GC between plan and read (`index.go:714`); a restart after a collection beside a writer numbers segments from the highest file (`segment.go:361`) |
| `DirLinksSuffice` | states a lower bound only | Rename onto an empty directory overwrites its own decrement (`store.go:808-815`) |
| `AwaitedFlushes` | truncated files | the same batch, emptied by a truncate (`coalescer.go:678`) |
| `ImplementsWriteBack` | gives up `raced`, `unlinked` | finding 1; Drop |
| `FileLinks`, `NoDangling`, `NoOrphanData` | `lost` | the flush hook and BulkWriter.Commit write back a node they read before a link was made or removed (`coalescer.go:721`, `handle.go:243`) |
| `SizeCoversData` | between BulkWriter.Commit's two batches, `torn`, `lost` | "in one tx" (`handle.go:236-237`) are two batches; a flush or bulk write in the middle of a Setattr has its data cut or its size overwritten |
| `StaleMeansBackoff` | a delay, with the pass after it, that reaches HealthMaxTickGap | the default limit is five minutes (`main.go:46`), as is MaxBackoff (`mover.go:82`): a mover at its full backoff is alive and is answered 503, against `admin.go:3-4` |
| `SignalledExits` | `busy` | Unmount's error is dropped (`main.go:214`): the process goes on serving, deaf to further signals |
| all of `Namespace` | `clashed` | allocInode reads the counter before the batch that bumps it (`store.go:199`) |
| `NoOrphanData` | `torn` | a crash between Unlink's commit and DeleteInode (`store.go:602-611`) |

The mover moves all the candidates of a pass, not only until the target is
reached: HotUsedBytes falls at the collection (`mover.go:237`).  Its properties
do not depend on that.  `StatCoversWritten` is about the two sizes Stat merges as
they are in one state; a Stat that reads one before and one after a flush settles
is not followed.  Three comments describe an older code and nothing is
claimed of them: Setattr's order of fragments and size (`store.go:900-905`
draws the opposite conclusion from a crash in between), Flush's "per-write
fsyncs already happened" (`fuselayer.go:331-332`), and a shutdown grace that
covers more than the unmount (`main.go:219`).  A scrape loads the counters of a
row one by one and can show more errors than calls; only their monotonicity is
claimed.  Offsets beyond 2^32 stripes, where stripeOf wraps, are outside
`StripeLog`'s positions.

## Proofs

The provers are handed all that a module has stated so far with every step, so
the proof modules keep that small.  What they need of finite sets and of least
elements is written down once, in `FiniteLaws`, as the formula `SetLaws`.  A
lemma that needs it assumes it; `SetLawsHold`, after the last lemma of a module
that states theorems, derives it from the library, so that no theorem assumes it.
Lemmas that serve one result only are named steps of its proof (`<1>CutRows` in
`CutsKeepIInv`, say) and are gone from the context once it is proved.
Most steps are Zenon's; the ones that need arithmetic or records name the SMT
solver.

`Migrate_proof` proves, for every number of legacy inodes, every batch size,
every clock and any number of crashes:

- `TypeCorrect`: Spec => []TypeOK
- `AllocAlwaysAhead`: Spec => []AllocAhead
- `SeqAlwaysAhead`: Spec => []SeqAhead
- `RenamedAlwaysComplete`: Spec => []RenamedIsComplete

None of these is inductive.  The inductive invariant `IInv` adds: `Shape`, what
each program counter says about the tables and the queue of keys still to be
copied; `NextAhead`, the durable inode counter is above every durable node once
the legacy counter or the first serving start has set it; `SeqSeeded`, after
seeding the generator is above every durable fragment; and `Kept`, every legacy
inode has its node, dirent and data either copied, or still queued, or the
start was cut off by a crash before the rename.  `Kept` is what the rename step
needs: with an empty queue everything has been copied.  Lemma `CopyKeepsKeys`
is the copying step; `MaxIsUpperBound` says that the seed is above every seq
(by well-founded induction over the naturals, since Max is a CHOOSE).  The
assumptions are those of `Migrate`: the constants are naturals and the batch
size is not zero.

The coalescer's proofs are for any set of inodes, callers and flushers, any
caps, queue and stripe size, and any bound on objects and events
(`CoalescerAssumption`: inodes are positive, the caps and sizes are not zero).
`Coalescer_proof` proves:

- `Invariance`: Spec => []IInv
- `TypeCorrect`, `FsyncIsDurable`, `OneFlusher`, `StatCovers`,
  `NoGoroutinePanics`: Spec => [] of TypeOK, FsyncDurable, SingleFlusher,
  StatCoversWritten, NoPanic
- `Refinement`: Spec => ImplementsWriteBack

FsyncDurable is far from inductive: that a byte is durable when the fsync
returns depends on who holds which pointer across an unlock.  `IInv`
says: objects a goroutine points to are allocated and
belong to its inode (`Refs`, `Callers`, `Flushers`); no batch is in two places,
and none that is in a buffer has been settled (`Owned`); a batch that charges
no bytes is empty, so that flushInode's test of `bytes` skips nothing
(`Counted`); an accepted byte is durable, cut off, or in one of the two batches
of its inode's buffer, unless that is poisoned (`Stored`); a flush carries every
byte of its batch, and nothing that was not accepted (`FlushCovers`,
`FlushWithin`); what a waiting Fsync will vouch for is durable or in an
unsettled batch it waits for (`WaitCovers`); the live size covers what was
accepted (`LiveCovers`); from Drain on there is one call in progress, and none
but Close once the queue is closed (`Closing`, which is why no caller sends on
it: Store.Close is called after the last handler has returned, `main.go:224-227`).  `WaitCovers` is the heart: the settle step makes it
true of the disk what it takes away from the batch, and a batch moves from
current to flushing under the eyes of an Fsync that waits for both.

The proof that every action preserves IInv goes in layers: types, references and
counts; what a step may do to the objects goroutines point at, and that buffers
and batches keep their owners and callers and flushers keep pointing at them;
then a byte on its way from Write to the disk.  The refinement is shown action by
action: a Write accepts, a commit and a truncate settle, a successful Fsync
vouches, an unlink or a race gives up.

`Placefs_proof` proves `ClosedLast`, `ExitIsClean`, `HealthyOnceMounted`,
`ObservationsCounted` and `ScrapesMonotone` for any number of request handlers,
stripes and scrapes.  The first three need `Control`, which says what is open,
mounted and running at each point of main: that main reaches the drain of the
coalescer only with the mover's loop ended, say, and that no handler is busy
once the server's Wait has returned.  The last two need `CountInv`: a handler
that counts has found the row in the map, and a scrape has reported no more than
was counted.  These five need no assumption on the constants.  `ScrapesMonotone` is in
no run.  `AliveUnlessBackedOff` proves `StaleMeansBackoff`: /healthz calls a
mover that nobody stopped stale only when its delay, with the pass after it,
reaches the limit.  Its invariant `TickInv` bounds the time
since the last pass by the delay and a pass; that the delay itself, doubled
with every error, stays below its cap for every number of errors
(`BackoffCapped`) is an induction over the recursive function of the model, done
by taking the least count at which it would fail (`LeastNatural`), and needs
`MoverAssumption` and `PlacefsAssumption`: naturals, a tick of at least a second
and no longer than the cap.

`Index_proof` proves, for any number of goroutines, inodes, stripes, segments
and events, and every segment size (`IndexAssumption`):

- `IndexInvariant`: Spec => [](PlaceInv /\ OrderInv)
- `IndexTypes`: Spec => []TypeOK
- `CommittedBytesDurable`: Spec => []FragmentsDurable
- `LaterWritesWin`: Spec => []NewestWins
- `ReadsMatchPlans`: Spec => []ReadsRightBytes

The invariant has two halves.  `PlaceInv` is about where records are.  `Struct`
says what the open segments, the locks and the calls in flight look like: a
call that is past a point of its code has what that point gave it, writeMu
excludes a move from appends, and a move's snapshot stays the stripe's fragments
while it holds the lock.  `Framing`: a segment file is whole records, and the
in-memory size of an open one is its length.  `Located`: every fragment anybody
knows of - in the index, in a call's hands, in a read's plan - points at a record
of its own write or at no file at all, and below the next id; this is what makes
a read of a collected segment miss rather than return another write's bytes.
`Durable`: behind a committed fragment, and behind those of a call about to
commit, the bytes are synced.  The argument is that an id is given once, a record
is written once, at the end of a file, and a crash takes only unsynced bytes, of
which no committed fragment speaks.  `OrderInv` is about seqs: the index holds only
committed writes (`Committed`); a write in flight has an id of its own, which
nobody has seen committed (`Uncommitted`); a write that a later one superseded
is not the newest of its stripe (`Superseded`); and an append in flight holds
seqs above those of the writes it has seen committed, also when a move is about
to stamp them anew (`Ahead`).
A GC pass keeps `Durable` because the scan has found every segment the index
needs, what a Remove closes is none of them, whether or not its unlink succeeds,
and the sweep takes only files that are not open (`Shrinks`).
The proofs that every step keeps the two halves are `PlaceKept` and `OrderKept`.

`Namespace_proof` proves, for any number of clients, names, inodes and events,
every size, and a path of any two names (`NamespaceAssumption`):

- `NamespaceInvariant`: Spec => []NamespaceInv
- `NothingDangles`: Spec => []NoDangling
- `LinksAreNames`: Spec => []FileLinks
- `DirectoriesFormTree`: Spec => []DirsFormTree
- `DirLinksNeverShort`: Spec => []DirLinksSuffice
- `DataHasOwner`: Spec => []NoOrphanData
- `SizesCoverData`: Spec => []SizeCoversData
- `InodesAreFresh`: Spec => []FreshInodes
- `PathsResolveAsOne`: Spec => []WalkStaysInTree

An operation commits, without looking again, a batch it filled from what it read
earlier.  `StoreInv` is what holds of the store between commits: names and nodes
agree (`Names`), no set of directories is closed under parents without the root
(`Acyclic`), and links, sizes and fragments agree with them (`Links`, `Sizes`,
`Owned`).  It is not inductive: that a commit keeps it depends on the batch.
`BatchOK` says when a batch may be committed at any time: the kernel's locks of
its operation cover the directories it writes and the names it touches; what it
read of those directories is still so; it changes a link count by the names it
gives and takes (`BatchLinks`); a directory it moves is apart from where it goes
(`Apart`, a set of directories that holds the target, is closed under taking a
parent and lacks the directory moved).  `BatchOK` does not speak of the kind of
the operation, so there is one lemma for the commit, one per operation that its
batch is right when it begins, and one frame condition, `Keeps`, for what the
others' steps leave alone.  `OpsInv` adds that locks are disjoint, that at most
one operation allocates an inode, and that at most one renames.  The writers
outside the locks, the flush and BulkWriter.Commit, may write back stale nodes,
of files only (`NeverDir`, `FlushInv`): they cannot touch the tree, and the files
they touch are in `lost`.  `WalkInv` says of a LookupPath that there is a trail
of directories from the root such that each still has its name if it exists.
That isDescendant's bounded climb decides ancestry, and that the walk along the
names arrives where the trail does, are inductions over recursive functions, done
by taking a least counterexample.  Two operations that were given the same inode
(`clashed`) void all of this, as they do in the runs.

The fragment algebra of `Fragments` is proved for every finite set of fragments
with distinct seqs and every range.  `Fragments_proof` holds the lemmas, for the
proofs about the read path and about the table to build on; the two results are
stated in `ReadPath_proof`:

- `PlanReadMatches`: planRead's plan meets `PlanMatches`
- `ViewKeepsBytes`: canonicalView leaves every byte, and every hole, as it was

Both carve the fragments, newest first, out of what is still uncovered.  That the
sort lists every fragment once and none before a newer one (`SortLists`,
`NewestFirstOrder`) is an induction on the number of fragments; the invariant of
the carving, by induction along the list, is that the uncovered intervals are
disjoint and hold exactly the positions no fragment so far covers
(`UncoversStep`), and that the pieces cut out are disjoint, each from the newest
fragment over it (`CutsOutStep`).

`StripeLog_proof` proves, for every radix above 4 and all widths of the integers
in a key, every stripe size, set of files and names, and any number of appends,
truncates, deletions and moves (`KeysAssumption`, `StripeLogAssumption`: the
positions end where the stripe ids do, and there are seqs for all operations):

- `PrefixScanIsExact`: a scan up to PrefixUpperBound visits just the keys with
  the prefix
- `TableInvariant`: Spec => []IInv
- `TypeCorrect`: Spec => []TypeOK
- `PlansAreNewest`: Spec => []PlanIsNewestWins
- `TableIsByteArray`: Spec => ImplementsByteArray

The first part is about keys.  Big-endian numbers of a width compare as the
numbers do and decode to what was encoded (`PutUintOrder`, `UintOfPut`); a key
with a larger number in it is above every key with a smaller one whatever follows
(`OrderOfNumbers`).  Hence a scan by a file's or a stripe's prefix finds that
file's or stripe's fragments and no others (`ScansAreExact`), and so does the
scan over a range of stripes, with the file's upper bound in the place of a
successor that the last stripe does not have (`RangeScan`).  The second part is
about the table.  `IInv` says that every row is another layer's or a sound
fragment, inside one stripe, under the key of its inode, that stripe and its seq,
which is one already given out; that each file has finitely many; and that no
operation has taken more seqs than a file has positions, which is why they do not
outgrow their field.  `Value(F, pos)` is what the fragments of a file make of a
position.  Each operation is one lemma about it: new fragments above all old
seqs win where they lie (`AppendRows`), clipping and dropping rows cuts the file
(`CutRows`, `DropRows`), and the pieces of a stripe's canonical view, which are
disjoint and no more than its positions, stamped anew, leave every value as it
was (`MoveRows`, from the lemmas of `Fragments_proof`).  The refinement maps the table
to these values.

`ReadPath_proof` proves the read path, for any file length, chunk size and number
of writes, moves and reads (`ReadPathAssumption`):

- `ReadsMakeNothingUp`: Spec => []ReadIntegrity
- `ReadsSeeNewest`: Spec => []ReadsFresh

The invariant `ReadPathInv` of the read path has four parts.  `DataInv`: a
fragment, buffered or stored, points at bytes that some write put at its
positions; this survives a move, whose pieces point into the same records.
`OrderInv`, as long as no move has overtaken buffered writes: where two fragments
meet, the one with the higher seq has the later write; every write is in some
fragment, or a later one is; and a committed batch is in the index, so that
settling it loses nothing.  `ReadInv` says the same of what the read holds: its
first snapshot, its plan and the bytes it has resolved.  `FreshInv`, for a read
between whose snapshots no flush settled: the snapshot together with the
buffered extents has every write that preceded the read or a later one, hence so
has the plan, and so have the bytes.

## Model-checked only

The liveness properties (`CallsReturn`, `PressureRelieved`, `StopReturns`,
`SignalledExits`) are out of the prover's reach.  `StripesReportedOnce`
sums the bytes of a stripe over a scan, which is induction over data.
`PermitsAccounted` sums over a set of buffers, which is again induction.  The
other invariants of Coalescer (`SizeCovered`, `TruncateSticks`, `ChmodSticks`,
`DrainDurable`, `AwaitedFlushes`) need a second invariant, on who has read which
node, beside IInv.  `ChmodSticks` is no invariant of the model for every
workload: two Setattrs of one inode may overlap there, and a truncate that has
read the node then writes the old mode back.  On a mount the kernel's inode lock
keeps them apart, and no workload of the runs has both.  `NeverDangling` of Index
does not hold.

## Not modelled

- obs: tracing, no effect on any state.
- fuselayer's translation of arguments, attributes and errnos; each handler is
  one store call, and the store's modules have what it does.
- The gauges of /metrics other than the FUSE counters, its text format, pprof;
  the parsing of byte sizes (`cmd/placefs/bytes.go`) and mount options.
- Readdir, Readlink and Statfs, which change nothing; uid, gid and times.
- The byte layout of records, fragments and nodes: fixed encodings.
- writeAtTierSync, which only a store without a coalescer would use; Open
  always makes one.
- Pebble, go-fuse and the kernel, of which only this is assumed: batches are
  atomic and synced, keys are ordered bytewise, Wait returns when the file
  system is unmounted and every handler has returned, and the kernel holds its
  inode locks during an operation.
