------------------------------- MODULE Migrate -------------------------------
(***************************************************************************)
(* Bringing a store up: kv.MigrateFromBolt, the blob split and seq seeding *)
(* of index.Open, and the inode counter and root node of store.Open, with  *)
(* a crash possible between any two durable steps.                         *)
(*                                                                         *)
(* A key is <<tag, id>>: "node", "dirent" or "blob" (a legacy stripe), all *)
(* present for the legacy inodes 1 .. Legacy; <<"frag", seq>> is a         *)
(* per-fragment key.  The blob of stripe i holds fragments 2i-1 and 2i.    *)
(***************************************************************************)
EXTENDS Integers, Sequences, FiniteSets, FiniteSetsExt

CONSTANTS Legacy,     \* legacy inodes are 1 .. Legacy
          BatchSize,  \* copyBucket's batch
          MaxClock,   \* bound: wall clock readings are 0 .. MaxClock
          MaxServe,   \* bound: creates and appends
          MaxCrash    \* bound: crashes

ASSUME MigrateAssumption ==
    /\ Legacy \in Nat \ {0} /\ BatchSize \in Nat \ {0}
    /\ MaxClock \in Nat /\ MaxServe \in Nat /\ MaxCrash \in Nat

VARIABLES
    bolt,     \* the legacy file: "present" or "migrated"
    current,  \* the pebble directory has its CURRENT file
    kv,       \* keys in pebble
    next,     \* StoreNextInodeKey in pebble; 0 when absent
    pc,       \* "down", "meta", "copy", "split", "store", "serving"
    todo,     \* buckets left: sequences of keys
    seq,      \* Index.seqGen
    serves, crashes

vars == <<bolt, current, kv, next, pc, todo, seq, serves, crashes>>

RootInode == 1

Bucket(tag) == [i \in 1 .. Legacy |-> <<tag, i>>]

Blobs    == {k \in kv : k[1] = "blob"}
BlobFrags(i) == {<<"frag", 2 * i - 1>>, <<"frag", 2 * i>>}
NodeIds  == {k[2] : k \in {x \in kv : x[1] = "node"}}
Seqs     == {k[2] : k \in {x \in kv : x[1] = "frag"}}

Init ==
    /\ bolt = "present" /\ current = FALSE /\ kv = {} /\ next = 0
    /\ pc = "down" /\ todo = <<>> /\ seq = 0 /\ serves = 0 /\ crashes = 0

-----------------------------------------------------------------------------
\* MigrateFromBolt's early returns; index.Open swallows ErrAlreadyMigrated.
NothingToMigrate ==
    /\ pc = "down"
    /\ bolt = "migrated" \/ current
    /\ pc' = "split"
    /\ UNCHANGED <<bolt, current, kv, next, todo, seq, serves, crashes>>

\* Opening the destination creates CURRENT.
MigrateBegin ==
    /\ pc = "down" /\ bolt = "present" /\ ~current
    /\ current' = TRUE
    /\ pc' = "meta"
    /\ todo' = <<Bucket("node"), Bucket("dirent"), Bucket("blob")>>
    /\ UNCHANGED <<bolt, kv, next, seq, serves, crashes>>

\* The legacy counter is above every legacy inode.
MigrateMeta ==
    /\ pc = "meta" /\ pc' = "copy"
    /\ next' = Legacy + 1
    /\ UNCHANGED <<bolt, current, kv, todo, seq, serves, crashes>>

\* copyBucket: one committed batch of the bucket being walked.
copyBucket ==
    LET b == Head(todo)
        n == IF Len(b) < BatchSize THEN Len(b) ELSE BatchSize
        rest == SubSeq(b, n + 1, Len(b))
    IN  /\ pc = "copy" /\ todo # <<>>
        /\ kv' = kv \cup {b[k] : k \in 1 .. n}
        /\ todo' = IF rest = <<>> THEN Tail(todo) ELSE <<rest>> \o Tail(todo)
        /\ UNCHANGED <<bolt, current, next, pc, seq, serves, crashes>>

\* MUTANT: the legacy file is renamed before everything is copied.
MigrateRenameEarly ==
    /\ pc = "copy"
    /\ bolt' = "migrated" /\ pc' = "split"
    /\ UNCHANGED <<current, kv, next, todo, seq, serves, crashes>>

MigrateRename ==
    /\ pc = "copy" /\ todo = <<>>
    /\ bolt' = "migrated" /\ pc' = "split"
    /\ UNCHANGED <<current, kv, next, todo, seq, serves, crashes>>

\* MUTANT: the clock is trusted.
SeedFromClock(clock, top) == clock

\* seqGen above the clock and every seq on disk.
SeedSeq(clock, top) == IF clock > top \/ top = 0 THEN clock ELSE top + 1

\* migrateBlobsToFragments: seed, then one batch that splits every blob.
migrateBlobs(clock) ==
    LET frags == UNION {BlobFrags(k[2]) : k \in Blobs}
    IN  /\ pc = "split" /\ pc' = "store"
        /\ current' = TRUE
        /\ kv' = (kv \ Blobs) \cup frags
        /\ seq' = SeedSeq(clock, Max({0} \cup Seqs \cup {k[2] : k \in frags}))
        /\ UNCHANGED <<bolt, next, todo, serves, crashes>>

\* MUTANT: the stored counter is ignored.
StoreOpenResets ==
    /\ pc = "store" /\ pc' = "serving"
    /\ next' = RootInode + 1
    /\ kv' = kv \cup {<<"node", RootInode>>}
    /\ UNCHANGED <<bolt, current, todo, seq, serves, crashes>>

\* store.Open: the counter and the root node, in one batch.
StoreOpen ==
    /\ pc = "store" /\ pc' = "serving"
    /\ next' = IF next < RootInode + 1 THEN RootInode + 1 ELSE next
    /\ kv' = kv \cup {<<"node", RootInode>>}
    /\ UNCHANGED <<bolt, current, todo, seq, serves, crashes>>

ServeCreate ==
    /\ pc = "serving" /\ serves < MaxServe
    /\ serves' = serves + 1
    /\ kv' = kv \cup {<<"node", next>>}
    /\ next' = next + 1
    /\ UNCHANGED <<bolt, current, pc, todo, seq, crashes>>

ServeAppend ==
    /\ pc = "serving" /\ serves < MaxServe
    /\ serves' = serves + 1
    /\ seq' = seq + 1
    /\ kv' = kv \cup {<<"frag", seq + 1>>}
    /\ UNCHANGED <<bolt, current, next, pc, todo, crashes>>

Crash ==
    /\ pc # "down" /\ crashes < MaxCrash
    /\ crashes' = crashes + 1
    /\ pc' = "down" /\ todo' = <<>> /\ seq' = 0
    /\ UNCHANGED <<bolt, current, kv, next, serves>>

Next ==
    \/ NothingToMigrate \/ MigrateBegin \/ MigrateMeta \/ copyBucket
    \/ MigrateRename
    \/ \E clock \in 0 .. MaxClock : migrateBlobs(clock)
    \/ StoreOpen \/ ServeCreate \/ ServeAppend \/ Crash

Spec == Init /\ [][Next]_vars

-----------------------------------------------------------------------------
(* Properties *)

TypeOK ==
    /\ bolt \in {"present", "migrated"} /\ current \in BOOLEAN
    /\ pc \in {"down", "meta", "copy", "split", "store", "serving"}
    /\ pc \notin {"meta", "copy"} => todo = <<>>
    /\ next \in Nat /\ seq \in Nat
    /\ kv \subseteq {"node", "dirent", "blob", "frag"} \X Nat

\* Whatever crashes and clock jumps came before, a serving store hands out
\* inodes above every node it has...
AllocAhead == pc = "serving" => \A i \in NodeIds : i < next

\* ...and seqs above every fragment it has, legacy ones included, so that a
\* new write is never shadowed by an old one.
SeqAhead == pc = "serving" => \A s \in Seqs : s <= seq

Complete ==
    \A i \in 1 .. Legacy :
        {<<"node", i>>, <<"dirent", i>>} \cup BlobFrags(i) \subseteq kv

\* Once the legacy file has been renamed out of the way, a serving store has
\* every legacy key, fragment by fragment, however often it crashed.
RenamedIsComplete == pc = "serving" /\ bolt = "migrated" => Complete

\* ErrAlreadyMigrated: "Treat as nothing to do" (migrate.go): a store that
\* serves has every legacy key.
NothingLost == pc = "serving" => Complete

=============================================================================
