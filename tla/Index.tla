-------------------------------- MODULE Index --------------------------------
(***************************************************************************)
(* The index (index/index.go) over the segment files (segment/segment.go): *)
(* appends, bulk sessions, Truncate, DeleteInode, Move, GC, reads, a crash *)
(* and the recovery that Open does.                                        *)
(*                                                                         *)
(* A segment file is a sequence of half-records: a record framing content  *)
(* c is <<"hdr", c>> followed by <<"data", c>>, so that a torn or short    *)
(* write leaves half a record.  Offsets count half-records.  The content   *)
(* of a record is the number of the write whose bytes it holds; a fragment *)
(* covers a whole stripe (partial overlap is module StripeLog's subject).  *)
(***************************************************************************)
EXTENDS Integers, Sequences, FiniteSets, FiniteSetsExt

CONSTANTS Proc,          \* goroutines inside Append, BulkSession or Move
          Inode,
          NumStripes,    \* stripes of a file are 0 .. NumStripes-1
          SegmentMaxSize, \* rotation threshold, in half-records
          MaxSeg,        \* bound: segment ids are 0 .. MaxSeg
          Workload       \* bound: budgets, how often each event happens

Event == {"append", "bulk", "move", "gc", "drop", "read", "short", "fail",
          "crash"}

ASSUME IndexAssumption ==
    /\ NumStripes \in Nat \ {0} /\ SegmentMaxSize \in Nat
    /\ MaxSeg \in Nat
    /\ Workload \subseteq [Event -> Nat]

VARIABLES
    files,    \* on disk: [Tier -> [ids present -> [units, durable]]]
    size,     \* Segment.size of every open segment: Set.segments
    active,   \* Set.active per tier
    nextID,   \* Set.nextID per tier
    db,       \* the fragments committed to pebble
    seq,      \* Index.seqGen
    proc,     \* writers in flight
    gc,       \* the GC pass
    rd,       \* a reader between planning and reading
    budget,   \* the events that may still happen
    done,     \* history: writes committed to each stripe and not dropped
    before,   \* history: of each write, those committed when it began
    met       \* history: the hazards this behaviour has met

disk == <<files, size, active, nextID>>
hist == <<done, before, met>>
vars == <<files, size, active, nextID, db, seq, proc, gc, rd, budget, done,
          before, met>>

Tier   == {"hot", "cold"}
SegId  == 0 .. MaxSeg
Stripe == 0 .. NumStripes - 1
None   == -1

Idle == [pc |-> "idle", kind |-> "append", inode |-> None, wid |-> 0,
         tier |-> "hot", todo |-> {}, seg |-> None, content |-> 0,
         old |-> {}, frags |-> {}]

NoGC   == [pc |-> "idle", tier |-> "hot", refs |-> {}, drop |-> {}]
NoRead == [pc |-> "idle", frag |-> {}, result |-> "none"]

Init ==
    /\ files = [t \in Tier |-> <<>>]
    /\ size = [t \in Tier |-> <<>>]
    /\ active = [t \in Tier |-> None]
    /\ nextID = [t \in Tier |-> 0]
    /\ db = {} /\ seq = 0
    /\ proc = [p \in Proc |-> Idle]
    /\ gc = NoGC /\ rd = NoRead
    /\ budget \in Workload
    /\ done = [k \in Inode \X Stripe |-> {}]
    /\ before = <<>> /\ met = {}

Spend(e) == /\ budget[e] > 0
            /\ budget' = [budget EXCEPT ![e] = @ - 1]

Goto(p, pc) == proc' = [proc EXCEPT ![p].pc = pc]
Return(p)   == proc' = [proc EXCEPT ![p] = Idle]

-----------------------------------------------------------------------------
(* writeMu *)

RLocked(p) == /\ proc[p].kind = "append"
              /\ proc[p].pc \in {"active", "write", "sync", "commit"}

Locked(p) == \/ /\ proc[p].kind = "move" /\ proc[p].pc # "idle"
             \/ /\ proc[p].kind = "bulk" /\ proc[p].pc \in {"sync", "commit"}

RLockFree == \A p \in Proc : ~Locked(p)
LockFree  == \A p \in Proc : ~Locked(p) /\ ~RLocked(p)

\* History: the hazards a step meets, besides the ones met before.
Meets(hazards) == met' = met \cup hazards

\* GC takes no lock at all: a writer may be in flight during a pass.
BesideGC == IF gc.pc = "idle" THEN {} ELSE {"collected"}

-----------------------------------------------------------------------------
(* Segments *)

With(f, x, v) == [y \in DOMAIN f \cup {x} |-> IF y = x THEN v ELSE f[y]]
Without(f, X) == [y \in DOMAIN f \ X |-> f[y]]

\* MUTANT: the fsync is dropped.
SyncedNothing(t, ids) == files[t]

\* Segment.SyncCtx: what the file holds is durable.  A segment that Remove
\* has closed syncs to nothing, without an error.
Synced(t, ids) ==
    [id \in DOMAIN files[t] |->
        IF id \in ids \cap DOMAIN size[t]
        THEN [files[t][id] EXCEPT !.durable = Len(files[t][id].units)]
        ELSE files[t][id]]

Fits(t) == active[t] # None /\ size[t][active[t]] + 2 <= SegmentMaxSize

\* Set.ActiveCtx: the active segment, or the next one after syncing it.
ActiveSegment(p) ==
    LET t == proc[p].tier
        new == nextID[t]
    IN  /\ proc[p].pc = "active"
        /\ \/ /\ Fits(t)
              /\ proc' = [proc EXCEPT ![p].pc = "write", ![p].seg = active[t]]
              /\ UNCHANGED disk
           \/ /\ ~Fits(t) /\ new \in SegId
              /\ proc' = [proc EXCEPT ![p].pc = "write", ![p].seg = new]
              /\ files' = [files EXCEPT ![t] =
                     With(Synced(t, {active[t]}), new,
                          [units |-> <<>>, durable |-> 0])]
              /\ size' = [size EXCEPT ![t] = With(@, new, 0)]
              /\ active' = [active EXCEPT ![t] = new]
              /\ nextID' = [nextID EXCEPT ![t] = @ + 1]
        /\ UNCHANGED <<db, seq, gc, rd, budget, hist>>

Framed(c) == <<<<"hdr", c>>, <<"data", c>>>>

\* Where the payload of a record written now is said to be: Segment.size
\* plus the header.
PayloadOff(t, id) == size[t][id] + 2

\* The extents of a write are appended in the order of their stripes.
First(todo) == CHOOSE e \in todo : \A d \in todo : e.stripe <= d.stripe

\* Segment.AppendCtx of the next record, and the fragment that will point
\* at it.  A closed segment fails the call.
AppendRecord(p) ==
    LET q == proc[p]
        t == q.tier
        e == First(q.todo)
        c == IF q.kind = "move" THEN q.content ELSE q.wid
        frag == [inode |-> q.inode, stripe |-> e.stripe, seq |-> e.seq,
                 tier |-> t, seg |-> q.seg, off |-> PayloadOff(t, q.seg),
                 wid |-> q.wid]
        next == IF q.todo # {e} THEN "active"
                ELSE IF q.kind = "bulk" THEN "lock" ELSE "sync"
    IN  /\ q.pc = "write"
        /\ IF q.seg \in DOMAIN size[t]
           THEN /\ files' = [files EXCEPT ![t][q.seg].units = @ \o Framed(c)]
                /\ size' = [size EXCEPT ![t][q.seg] = @ + 2]
                /\ proc' = [proc EXCEPT ![p] =
                       [q EXCEPT !.pc = next, !.todo = @ \ {e},
                                 !.frags = @ \cup {frag}]]
           ELSE Return(p) /\ UNCHANGED <<files, size>>
        /\ UNCHANGED <<active, nextID, db, seq, gc, rd, budget, hist>>

\* f.Write stops half way (a full disk): the file has grown, Segment.size
\* has not, and the call fails.
ShortWrite(p) ==
    LET q == proc[p]
        c == IF q.kind = "move" THEN q.content ELSE q.wid
    IN  /\ q.pc = "write" /\ q.seg \in DOMAIN size[q.tier]
        /\ Spend("short")
        /\ files' = [files EXCEPT ![q.tier][q.seg].units =
                         Append(@, <<"hdr", c>>)]
        /\ Return(p)
        /\ Meets({"short"})
        /\ UNCHANGED <<size, active, nextID, db, seq, gc, rd, done, before>>

-----------------------------------------------------------------------------
(* AppendToWithTxCtx, AppendBatchCtx and BulkSession *)

\* One extent per stripe, numbered in stripe order.
Extents(S, first) ==
    {[stripe |-> s, seq |-> first + Cardinality({r \in S : r <= s})] : s \in S}

BeginWrite(p, i, S, t, kind, pc, first) ==
    LET wid == Len(before) + 1
    IN  /\ proc[p].pc = "idle"
        /\ Spend(kind)
        /\ before' = Append(before, UNION {done[k] : k \in DOMAIN done})
        /\ Meets(BesideGC)
        /\ proc' = [proc EXCEPT ![p] =
               [Idle EXCEPT !.pc = pc, !.kind = kind, !.inode = i,
                            !.wid = wid, !.tier = t,
                            !.todo = Extents(S, first)]]
        /\ UNCHANGED <<disk, db, gc, rd, done>>

\* AppendToWithTxCtx takes the seqs before it asks for the lock.
AppendCall(p, i, S, t) ==
    /\ BeginWrite(p, i, S, t, "append", "rlock", seq)
    /\ seq' = seq + Cardinality(S)

AppendLock(p) ==
    /\ proc[p].pc = "rlock" /\ RLockFree
    /\ Goto(p, "active")
    /\ UNCHANGED <<disk, db, seq, gc, rd, budget, hist>>

\* BulkSession.Write stages records under no lock and with no seq.
BulkBegin(p, i, S, t) ==
    /\ BeginWrite(p, i, S, t, "bulk", "active", 0)
    /\ UNCHANGED seq

\* BulkSession.Commit takes the lock, or the caller Aborts.
BulkLock(p) ==
    /\ proc[p].pc = "lock" /\ LockFree
    /\ Goto(p, "sync")
    /\ UNCHANGED <<disk, db, seq, gc, rd, budget, hist>>

BulkAbort(p) ==
    /\ proc[p].pc = "lock"
    /\ Return(p)
    /\ UNCHANGED <<disk, db, seq, gc, rd, budget, hist>>

Touched(p) == {f.seg : f \in proc[p].frags}

\* One fsync per touched segment, before the commit.
SyncTouched(p) ==
    /\ proc[p].pc = "sync"
    /\ files' = [files EXCEPT ![proc[p].tier] =
                     Synced(proc[p].tier, Touched(p))]
    /\ Goto(p, "commit")
    /\ UNCHANGED <<size, active, nextID, db, seq, gc, rd, budget, hist>>

\* A bulk session's fragments get their seqs at Commit.
Stamped(p) ==
    IF proc[p].kind = "bulk"
    THEN {[f EXCEPT !.seq = seq + f.stripe + 1] : f \in proc[p].frags}
    ELSE proc[p].frags

\* The pebble batch: every new fragment, and for Move the deletion of every
\* old one.
Commit(p) ==
    LET q == proc[p]
        keys == {<<q.inode, f.stripe>> : f \in q.frags}
    IN  /\ q.pc = "commit"
        /\ db' = (db \ q.old) \cup Stamped(p)
        /\ seq' = IF q.kind = "bulk" THEN seq + NumStripes ELSE seq
        /\ done' = [k \in DOMAIN done |->
                       IF k \in keys /\ q.kind # "move"
                       THEN done[k] \cup {q.wid} ELSE done[k]]
        /\ Return(p)
        /\ UNCHANGED <<disk, gc, rd, budget, before, met>>

\* A failed fsync or commit: the records stay behind as orphans.
WriteFails(p) ==
    /\ proc[p].pc \in {"sync", "commit"}
    /\ Spend("fail")
    /\ Return(p)
    /\ UNCHANGED <<disk, db, seq, gc, rd, hist>>

-----------------------------------------------------------------------------
(* Truncate, DeleteInode and Move *)

StripeFrags(i, s) == {f \in db : f.inode = i /\ f.stripe = s}

Newest(F) == CHOOSE f \in F : \A g \in F : g.seq <= f.seq

Drop(gone) ==
    /\ LockFree
    /\ Spend("drop")
    /\ db' = {f \in db : <<f.inode, f.stripe>> \notin gone}
    /\ done' = [k \in DOMAIN done |-> IF k \in gone THEN {} ELSE done[k]]
    /\ UNCHANGED <<disk, seq, proc, gc, rd, before, met>>

\* Truncate to n stripes, one batch under the lock.
Truncate(i, n) == Drop({<<i, s>> : s \in n .. NumStripes - 1})

DeleteInode(i) == Drop({<<i, s>> : s \in Stripe})

\* Move: snapshot the stripe under the lock; its canonical view is the
\* newest fragment.  One already in the target tier is re-emitted as it is.
MoveBegin(p, i, s, t) ==
    LET F == StripeFrags(i, s)
        f == Newest(F)
        q == [Idle EXCEPT !.kind = "move", !.inode = i, !.wid = f.wid,
                          !.tier = t, !.old = F]
        overtakes == \E r \in Proc : proc[r].pc = "rlock"
    IN  /\ proc[p].pc = "idle" /\ LockFree /\ F # {}
        /\ Spend("move")
        /\ Meets(BesideGC \cup IF overtakes THEN {"overtaken"} ELSE {})
        /\ seq' = seq + 1
        /\ proc' = [proc EXCEPT ![p] =
               IF f.tier = t
               THEN [q EXCEPT !.pc = "commit",
                              !.frags = {[f EXCEPT !.seq = seq + 1]}]
               ELSE [q EXCEPT !.pc = "read",
                              !.todo = {[stripe |-> s, seq |-> seq + 1]}]]
        /\ UNCHANGED <<disk, db, gc, rd, done, before>>

\* What ReadAt of one record finds at f's locator.
ContentAt(f) ==
    LET u == files[f.tier][f.seg].units
    IN  IF f.off \in DOMAIN u /\ u[f.off][1] = "data" THEN u[f.off][2] ELSE 0

\* Set.Get and Segment.ReadAt of the source; a missing one fails the move.
MoveRead(p) ==
    LET f == Newest(proc[p].old)
    IN  /\ proc[p].pc = "read"
        /\ IF f.seg \in DOMAIN size[f.tier]
           THEN proc' = [proc EXCEPT ![p].pc = "active",
                                     ![p].content = ContentAt(f)]
           ELSE Return(p)
        /\ UNCHANGED <<disk, db, seq, gc, rd, budget, hist>>

-----------------------------------------------------------------------------
(* GC: no lock, one scan, then tier by tier and segment by segment *)

GcScan ==
    /\ gc.pc = "idle"
    /\ Spend("gc")
    /\ Meets(IF \E p \in Proc : proc[p].pc # "idle"
             THEN {"collected"} ELSE {})
    /\ gc' = [NoGC EXCEPT !.pc = "active",
                          !.refs = {<<f.tier, f.seg>> : f \in db}]
    /\ UNCHANGED <<disk, db, seq, proc, rd, done, before>>

\* ActiveID of the hot tier, then of the cold one.
GcActive ==
    /\ gc.pc = "active"
    /\ gc' = [gc EXCEPT !.pc = IF gc.tier = "hot" THEN "active" ELSE "list",
                        !.tier = IF gc.tier = "hot" THEN "cold" ELSE "hot",
                        !.refs = @ \cup {<<gc.tier, active[gc.tier]>>}]
    /\ UNCHANGED <<disk, db, seq, proc, rd, budget, hist>>

\* Set.All of the tier whose turn it is.
GcList ==
    /\ gc.pc = "list"
    /\ gc' = [gc EXCEPT !.pc = "remove",
                        !.drop = ({gc.tier} \X DOMAIN size[gc.tier]) \ gc.refs]
    /\ UNCHANGED <<disk, db, seq, proc, rd, budget, hist>>

\* MUTANT: the segment is emptied in place.
GcRemoveInPlace(x) ==
    /\ gc.pc = "remove" /\ x \in gc.drop
    /\ gc' = [gc EXCEPT !.drop = @ \ {x}]
    /\ files' = [files EXCEPT ![x[1]][x[2]] = [units |-> <<>>, durable |-> 0]]
    /\ size' = [size EXCEPT ![x[1]][x[2]] = 0]
    /\ UNCHANGED <<active, nextID, db, seq, proc, rd, budget, hist>>

\* Set.Remove: out of the map, closed, unlinked.
GcRemove(x) ==
    /\ gc.pc = "remove" /\ x \in gc.drop
    /\ gc' = [gc EXCEPT !.drop = @ \ {x}]
    /\ files' = [files EXCEPT ![x[1]] = Without(@, {x[2]})]
    /\ size' = [size EXCEPT ![x[1]] = Without(@, {x[2]})]
    /\ active' = [active EXCEPT ![x[1]] = IF @ = x[2] THEN None ELSE @]
    /\ UNCHANGED <<nextID, db, seq, proc, rd, budget, hist>>

\* The unlink fails: GC returns, and leaves a file the set has forgotten.
GcRemoveFails(x) ==
    /\ gc.pc = "remove" /\ x \in gc.drop
    /\ Spend("fail")
    /\ gc' = NoGC
    /\ size' = [size EXCEPT ![x[1]] = Without(@, {x[2]})]
    /\ active' = [active EXCEPT ![x[1]] = IF @ = x[2] THEN None ELSE @]
    /\ UNCHANGED <<files, nextID, db, seq, proc, rd, hist>>

\* The directory as it is after the removals: what neither a fragment nor the
\* set knows goes.  Then the cold tier's turn.
GcSweep ==
    LET t == gc.tier
        stray == {id \in DOMAIN files[t] \ DOMAIN size[t] : <<t, id>> \notin gc.refs}
    IN  /\ gc.pc = "remove" /\ gc.drop = {}
        /\ gc' = IF t = "hot" THEN [gc EXCEPT !.pc = "list", !.tier = "cold"]
                 ELSE NoGC
        /\ files' = [files EXCEPT ![t] = Without(@, stray)]
        /\ UNCHANGED <<size, active, nextID, db, seq, proc, rd, budget, hist>>

-----------------------------------------------------------------------------
(* PlanRead, then ReadAt of the locator *)

PlanRead(i, s) ==
    /\ rd.pc = "idle" /\ StripeFrags(i, s) # {}
    /\ Spend("read")
    /\ rd' = [NoRead EXCEPT !.pc = "planned",
                            !.frag = {Newest(StripeFrags(i, s))}]
    /\ UNCHANGED <<disk, db, seq, proc, gc, hist>>

ReadAt ==
    /\ rd.pc = "planned"
    /\ \E f \in rd.frag :
          rd' = [NoRead EXCEPT !.result =
                    IF f.seg \notin DOMAIN size[f.tier] THEN "missing"
                    ELSE IF ContentAt(f) = f.wid THEN "ok" ELSE "wrong"]
    /\ UNCHANGED <<disk, db, seq, proc, gc, budget, hist>>

-----------------------------------------------------------------------------
(* A crash, and Open *)

\* Segment.Scan: the length of the longest prefix of whole records.
ScanEnd(u) ==
    CHOOSE n \in 0 .. Len(u) :
        /\ n % 2 = 0
        /\ \A k \in 1 .. n \div 2 :
              u[2 * k - 1] = <<"hdr", u[2 * k][2]>> /\ u[2 * k][1] = "data"
        /\ \/ n + 2 > Len(u)
           \/ u[n + 1][1] # "hdr" \/ u[n + 2] # <<"data", u[n + 1][2]>>

\* The files with an unsynced tail, of which any part may survive.
Unsynced(x) == Len(files[x[1]][x[2]].units) - files[x[1]][x[2]].durable

Dirty == {x \in UNION {{t} \X DOMAIN files[t] : t \in Tier} : Unsynced(x) > 0}

Losses == {l \in [Dirty -> UNION {0 .. Unsynced(x) : x \in Dirty}] :
               \A x \in Dirty : l[x] <= Unsynced(x)}

HighestID(t) == IF DOMAIN files[t] = {} THEN None ELSE Max(DOMAIN files[t])

\* RepairTail truncates the active segment, and only that one.
Recovered(t, id, lost) ==
    LET u == files[t][id].units
        left == SubSeq(u, 1, Len(u) - lost)
    IN  IF id = HighestID(t) THEN SubSeq(left, 1, ScanEnd(left)) ELSE left

\* MUTANT: the clock is trusted.
RestartFromClock(clock) == clock

\* seqGen restarts from the wall clock, which may have gone back, and
\* migrateBlobsToFragments lifts it above every committed seq.
RestartSeq(clock) ==
    LET top == Max({0} \cup {f.seq : f \in db})
    IN  IF clock > top \/ top = 0 THEN clock ELSE top + 1

\* Open gives the ids above the highest file anew, also those of segments
\* that a pass beside a writer has taken away from it.
Reseeds == IF "collected" \in met THEN {"reseeded"} ELSE {}

Crash ==
    /\ Spend("crash")
    /\ Meets(Reseeds)
    /\ \E lost \in Losses :
          files' = [t \in Tier |-> [id \in DOMAIN files[t] |->
             LET u == Recovered(t, id, IF <<t, id>> \in Dirty
                                       THEN lost[<<t, id>>] ELSE 0)
             IN  [units |-> u, durable |-> Len(u)]]]
    /\ \E clock \in {0, seq} : seq' = RestartSeq(clock)
    /\ size' = [t \in Tier |-> [id \in DOMAIN files[t] |->
                                   Len(files'[t][id].units)]]
    /\ active' = [t \in Tier |-> HighestID(t)]
    /\ nextID' = [t \in Tier |-> HighestID(t) + 1]
    /\ proc' = [p \in Proc |-> Idle] /\ gc' = NoGC /\ rd' = NoRead
    /\ UNCHANGED <<db, done, before>>

-----------------------------------------------------------------------------
WriteStep(p) ==
    \/ \E i \in Inode, S \in (SUBSET Stripe) \ {{}} : AppendCall(p, i, S, "hot")
    \/ \E i \in Inode, S \in (SUBSET Stripe) \ {{}} : BulkBegin(p, i, S, "cold")
    \/ AppendLock(p) \/ ActiveSegment(p) \/ AppendRecord(p) \/ ShortWrite(p)
    \/ BulkLock(p) \/ BulkAbort(p)
    \/ SyncTouched(p) \/ Commit(p) \/ WriteFails(p)
    \/ \E i \in Inode, s \in Stripe, t \in Tier : MoveBegin(p, i, s, t)
    \/ MoveRead(p)

GcStep == \/ GcScan \/ GcActive \/ GcList \/ GcSweep
          \/ \E x \in gc.drop : GcRemove(x) \/ GcRemoveFails(x)

Next ==
    \/ \E p \in Proc : WriteStep(p)
    \/ \E i \in Inode, n \in Stripe : Truncate(i, n)
    \/ \E i \in Inode : DeleteInode(i)
    \/ GcStep
    \/ \E i \in Inode, s \in Stripe : PlanRead(i, s)
    \/ ReadAt
    \/ Crash

Spec == Init /\ [][Next]_vars

-----------------------------------------------------------------------------
(* Properties *)

\* The open segments are files, the active one is open, ids are below nextID,
\* and no file is durable beyond its end.
TypeOK ==
    /\ \A t \in Tier :
          /\ DOMAIN size[t] \subseteq DOMAIN files[t]
          /\ DOMAIN files[t] \subseteq 0 .. nextID[t] - 1
          /\ active[t] # None => active[t] \in DOMAIN size[t]
          /\ \A id \in DOMAIN files[t] :
                files[t][id].durable \in 0 .. Len(files[t][id].units)
    /\ \A p \in Proc :
          proc[p].pc \in {"idle", "rlock", "read", "active", "write", "lock",
                          "sync", "commit"}
    /\ gc.pc \in {"idle", "active", "list", "remove"}
    /\ rd.result \in {"none", "ok", "missing", "wrong"}

\* "the index never holds a fragment pointing at non-durable bytes"
\* (index.go:382-383): a committed fragment's segment exists, and the durable
\* part of it holds the fragment's bytes - across rotation, moves, bulk
\* sessions, collection and crashes.
NeverDangling ==
    \A f \in db :
        /\ f.seg \in DOMAIN files[f.tier]
        /\ f.off <= files[f.tier][f.seg].durable
        /\ ContentAt(f) = f.wid

\* The same, as far as the code keeps it: exempt are behaviours in which GC
\* ran beside a writer, or a short write left Segment.size behind the file.
FragmentsDurable == met \cap {"collected", "short"} = {} => NeverDangling

\* Newer wins, for writes that are ordered in time: what a stripe reads as
\* is never a write that had been committed before another committed write
\* of the stripe began.  Moves and restarts re-stamp or re-seed seqs; exempt
\* are behaviours in which a move ran while an append held its seqs and
\* waited for writeMu (index.go:1095).
NewestWins ==
    "overtaken" \notin met =>
    \A k \in DOMAIN done :
        done[k] # {} =>
            LET live == Newest(StripeFrags(k[1], k[2])).wid
            IN  /\ StripeFrags(k[1], k[2]) # {}
                /\ live \in done[k]
                /\ \A w \in done[k] : live \notin before[w]

\* A read that finds its segment gets the bytes it planned for, even when
\* moves and collections ran in between and beside the writers: an id is not
\* given to another file while a plan or a fragment still names it.  Exempt
\* are short writes, and a restart after a collection beside a writer: Open
\* numbers new segments from the highest file (segment.go:361), which may be
\* below the segment a dangling fragment points at.
ReadsRightBytes ==
    met \cap {"short", "reseeded"} = {} => rd.result # "wrong"

=============================================================================
