------------------------------ MODULE Coalescer ------------------------------
(***************************************************************************)
(* The write-back buffer of the store (store/coalescer.go) together with   *)
(* the store operations that meet it: Handle.WriteAt, Handle.Sync,         *)
(* Store.Setattr, Store.Unlink and Store.Close.                            *)
(*                                                                         *)
(* A buffered byte is a cell <<seq, pos>>: the sequence number its extent  *)
(* was given by NextSeq and its logical position in the file.  A batch is  *)
(* the set of its cells; extents are recovered by grouping cells by seq.   *)
(* The index below is abstracted to what AppendBatchCtx promises: `disk'   *)
(* is the set of durable cells of an inode and `node' its durable node.    *)
(* Module Index models how that promise is kept.                           *)
(*                                                                         *)
(* inodeBuf and bufBatch objects have identities (BufId, BatchId), because *)
(* goroutines keep pointers to them across unlocks.                        *)
(***************************************************************************)
EXTENDS Integers, Sequences, FiniteSets, FiniteSetsExt

CONSTANTS
    Inode,        \* the inodes of the regular files (non-zero numbers)
    Client,       \* goroutines that call the store's API
    Worker,       \* flusher goroutines (coalescerOptions.workers)
    MaxPos,       \* file positions are 0 .. MaxPos-1
    StripeSize,   \* Index.StripeSize()
    perInodeCap,
    globalCap,
    queueSize,
    MaxBuf,       \* bound: inodeBuf objects ever allocated
    MaxBatch,     \* bound: bufBatch objects ever allocated
    Workload      \* bound: budgets, how often each kind of event happens

Event == {"write", "fsync", "truncate", "chmod", "unlink", "close",
          "cancel", "fail", "crash"}

ASSUME CoalescerAssumption ==
    /\ Inode \subseteq Nat \ {0}
    /\ MaxPos \in Nat \ {0}
    /\ StripeSize \in Nat \ {0}
    /\ perInodeCap \in Nat \ {0}
    /\ globalCap \in Nat \ {0}
    /\ queueSize \in Nat \ {0}
    /\ MaxBuf \in Nat
    /\ MaxBatch \in Nat
    /\ Workload \subseteq [Event -> Nat]

VARIABLES
    buffers,      \* c.buffers: inode -> inodeBuf, nil when absent
    buf,          \* the inodeBuf objects, nbuf of them allocated
    nbuf,
    batch,        \* the bufBatch objects, nbatch of them allocated
    nbatch,
    sem,          \* permits taken from globalSem
    flushQ,       \* the flushQ channel
    life,         \* "open", "draining", "stopped" (flushQ closed), "closed"
    tick,         \* tickLoop's victims that are still to be enqueued
    panic,        \* who panicked: "call", "tick", or the closer of a "done"
    proc,         \* the state of each client call
    wk,           \* the state of each flusher goroutine
    seq,          \* Index.seqGen
    disk,         \* durable cells of each inode
    node,         \* durable node of each inode
    budget,       \* the events that may still happen
    h             \* history: what callers asked for and were told

mem  == <<buffers, buf, nbuf, batch, nbatch, sem>>
ctl  == <<life, tick, panic>>
vars == <<mem, flushQ, ctl, proc, wk, seq, disk, node, budget, h>>

nil      == 0
KeepSize == -1      \* SetAttr.Size = nil
BufId    == 1 .. MaxBuf
BatchId  == 1 .. MaxBatch
Pos      == 0 .. MaxPos - 1
Cell     == Nat \X Pos
Interval == {a .. b : a, b \in Pos} \ {{}}      \* what a WriteAt covers

Larger(a, b) == IF a > b THEN a ELSE b

\* bufBatch.maxEnd: one past the last buffered position.
MaxEnd(cells) == Cardinality({pos \in Pos : \E c \in cells : pos <= c[2]})

PastSize(cells, size) == {c \in cells : c[2] >= size}

\* MUTANT: the clip keeps the first byte past the size.
UpToPast(cells, size) == {c \in cells : c[2] <= size}

UpTo(cells, size) == {c \in cells : c[2] < size}

-----------------------------------------------------------------------------
(* Object layouts *)

Node   == [ok : BOOLEAN, size : Nat, mode : Nat]
NoNode == [ok |-> FALSE, size |-> 0, mode |-> 0]

inodeBuf == [inode : Inode \cup {nil}, current : BatchId \cup {nil},
             flushing : BatchId \cup {nil}, liveSize : Nat,
             poisoned : BOOLEAN]
NewBuf(i) == [inode |-> i, current |-> nil, flushing |-> nil,
              liveSize |-> 0, poisoned |-> FALSE]

bufBatch == [cells : SUBSET Cell, bytes : Int, done : BOOLEAN]
newBufBatch == [cells |-> {}, bytes |-> 0, done |-> FALSE]

flushReq == [inode : Inode, who : Client \cup {nil}]    \* who holds `fired'

SetattrPc == {"truncate", "stat", "commit"}
ProcPc == {"idle", "acquire", "append", "enqueue",             \* Write
           "fsync", "trigger", "fired", "wait",                \* Fsync
           "drop", "clear", "forget", "delete",                \* Unlink
           "close", "join"} \cup SetattrPc
Proc   == [pc : ProcPc, inode : Inode \cup {nil}, buf : BufId \cup {nil},
           data : SUBSET Pos, size : Nat \cup {KeepSize}, nn : Node,
           waits : SUBSET BatchId, must : SUBSET Cell, fired : BOOLEAN,
           todo : SUBSET Inode]
IdleProc == [pc |-> "idle", inode |-> nil, buf |-> nil, data |-> {},
             size |-> 0, nn |-> NoNode, waits |-> {}, must |-> {},
             fired |-> FALSE, todo |-> {}]

WkPc   == {"idle", "swapped", "snapped", "appended", "hooked", "settle"}
Wk     == [pc : WkPc, inode : Inode \cup {nil}, buf : BufId \cup {nil},
           batch : BatchId \cup {nil}, cells : SUBSET Cell, end : Nat,
           nn : Node, err : BOOLEAN]
IdleWk == [pc |-> "idle", inode |-> nil, buf |-> nil, batch |-> nil,
           cells |-> {}, end |-> 0, nn |-> NoNode, err |-> FALSE]

History == [written  : SUBSET Cell,   \* accepted since the process started
            synced   : SUBSET Cell,   \* vouched for by a successful Fsync
            gone     : SUBSET Cell,   \* cut off by a truncate
            asked    : Nat,           \* the last size Setattr set
            chmodded : Nat,           \* the mode the last chmod set
            raced    : BOOLEAN,       \* a truncate met a flush copying its batch
            met      : BOOLEAN,       \* a Setattr met a flush in flight
            unlinked : BOOLEAN]

\* newCoalescerWithOptions, over a store whose files are all empty.
Init ==
    /\ buffers = [i \in Inode |-> nil]
    /\ buf = [b \in BufId |-> NewBuf(nil)] /\ nbuf = 0
    /\ batch = [x \in BatchId |-> newBufBatch] /\ nbatch = 0
    /\ sem = 0
    /\ flushQ = <<>>
    /\ life = "open" /\ tick = {} /\ panic = {}
    /\ proc = [p \in Client |-> IdleProc]
    /\ wk = [w \in Worker |-> IdleWk]
    /\ seq = 0
    /\ disk = [i \in Inode |-> {}]
    /\ node = [i \in Inode |-> [ok |-> TRUE, size |-> 0, mode |-> 0]]
    /\ budget \in Workload
    /\ h = [i \in Inode |->
              [written |-> {}, synced |-> {}, gone |-> {}, asked |-> 0,
               chmodded |-> 0, raced |-> FALSE, met |-> FALSE,
               unlinked |-> FALSE]]

-----------------------------------------------------------------------------
(* Shared steps *)

Spend(e) == budget[e] > 0 /\ budget' = [budget EXCEPT ![e] = @ - 1]

\* A client starts a call; none does once the store is being closed.
Begin(p, e, call) ==
    /\ proc[p].pc = "idle"
    /\ life = "open"
    /\ Spend(e)
    /\ proc' = [proc EXCEPT ![p] = call]

Goto(p, pc) == proc' = [proc EXCEPT ![p].pc = pc]
Return(p)   == proc' = [proc EXCEPT ![p] = IdleProc]

Closed == life \in {"stopped", "closed"}

\* One who sends on, or closes, a channel that is closed panics.
Panic(who, closed) == panic' = IF closed THEN panic \cup {who} ELSE panic

\* MUTANT: the send ignores the queue's capacity.
TrySendUnbounded(who, i) ==
    /\ Panic(who, Closed)
    /\ flushQ' = IF Closed THEN flushQ
                 ELSE Append(flushQ, [inode |-> i, who |-> nil])

\* A send on flushQ that gives up when the queue is full.  Sending on a
\* closed channel panics even inside a select with a default.
TrySend(who, i) ==
    /\ Panic(who, Closed)
    /\ flushQ' = IF ~Closed /\ Len(flushQ) < queueSize
                 THEN Append(flushQ, [inode |-> i, who |-> nil]) ELSE flushQ

\* MUTANT: Stat forgets LiveAttrs.
StatDurable(i) == node[i].size

\* Store.Stat: the durable size clamped up by LiveAttrs.
StatSize(i) ==
    IF buffers[i] = nil THEN node[i].size
    ELSE Larger(node[i].size, buf[buffers[i]].liveSize)

\* MUTANT: off by one.
NeedTriggerAboveOne(b) == buf[b].current # nil /\ batch[buf[b].current].bytes > 1

\* The current batch of a buffer has bytes to flush.
NeedTrigger(b) == buf[b].current # nil /\ batch[buf[b].current].bytes > 0

\* A flusher inside AppendBatchCtx holds writeMu.RLock; the call with no
\* extents commits its hook without it.
WriteLockFree == \A w \in Worker :
    ~(wk[w].pc \in {"appended", "hooked"} /\ wk[w].cells # {})

\* A flusher holds the inode's commit lock from the hook to the commit.
CommitLockFree(i) == \A w \in Worker : ~(wk[w].pc = "hooked" /\ wk[w].inode = i)

-----------------------------------------------------------------------------
(* coalescer.Write *)

WriteCall(p, i, P) ==
    /\ Begin(p, "write", [IdleProc EXCEPT
                              !.pc = "acquire", !.inode = i, !.data = P])
    /\ UNCHANGED <<mem, flushQ, ctl, wk, seq, disk, node, h>>

\* globalSem.Acquire, then getOrCreateBuf.
WriteAcquire(p) ==
    LET i == proc[p].inode
        b == IF buffers[i] = nil THEN nbuf + 1 ELSE buffers[i]
    IN  /\ proc[p].pc = "acquire"
        /\ sem + Cardinality(proc[p].data) <= globalCap
        /\ b \in BufId
        /\ sem' = sem + Cardinality(proc[p].data)
        /\ buffers' = [buffers EXCEPT ![i] = b]
        /\ nbuf' = Larger(nbuf, b)
        /\ buf' = IF buffers[i] = nil THEN [buf EXCEPT ![b] = NewBuf(i)]
                  ELSE buf
        /\ proc' = [proc EXCEPT ![p].pc = "append", ![p].buf = b]
        /\ UNCHANGED <<batch, nbatch, flushQ, ctl, wk, seq, disk, node,
                       budget, h>>

\* ctx is done while Write waits for permits.
WriteCancel(p) ==
    /\ proc[p].pc = "acquire"
    /\ Spend("cancel")
    /\ Return(p)
    /\ UNCHANGED <<mem, flushQ, ctl, wk, seq, disk, node, h>>

\* Every stripe-bounded chunk of a write gets a seq of its own.
StripeOf(pos) == pos \div StripeSize
Stripes(P) == {StripeOf(pos) : pos \in P}
NewCells(P) ==
    {<<seq + Cardinality({s \in Stripes(P) : s <= StripeOf(pos)}), pos>> :
        pos \in P}

\* The section of Write under buf.mu.
WriteAppend(p) ==
    LET i == proc[p].inode
        b == proc[p].buf
        P == proc[p].data
        x == IF buf[b].current = nil THEN nbatch + 1 ELSE buf[b].current
        bytes == batch[x].bytes + Cardinality(P)
    IN  /\ proc[p].pc = "append"
        /\ ~buf[b].poisoned
        /\ x \in BatchId
        /\ nbatch' = Larger(nbatch, x)
        /\ batch' = [batch EXCEPT ![x].cells = @ \cup NewCells(P),
                                  ![x].bytes = bytes]
        /\ buf' = [buf EXCEPT ![b].current = x,
                      ![b].liveSize = Larger(@, MaxEnd(NewCells(P)))]
        /\ seq' = seq + Cardinality(Stripes(P))
        /\ h' = [h EXCEPT ![i].written = @ \cup NewCells(P)]
        /\ IF bytes >= perInodeCap THEN Goto(p, "enqueue") ELSE Return(p)
        /\ UNCHANGED <<buffers, nbuf, sem, flushQ, ctl, wk, disk, node,
                       budget>>

\* MUTANT: the error path keeps its permits.
WritePoisonedLeaks(p) ==
    /\ proc[p].pc = "append"
    /\ buf[proc[p].buf].poisoned
    /\ Return(p)
    /\ UNCHANGED <<mem, flushQ, ctl, wk, seq, disk, node, budget, h>>

WritePoisoned(p) ==
    /\ proc[p].pc = "append"
    /\ buf[proc[p].buf].poisoned
    /\ sem' = sem - Cardinality(proc[p].data)
    /\ Return(p)
    /\ UNCHANGED <<buffers, buf, nbuf, batch, nbatch, flushQ, ctl, wk, seq,
                   disk, node, budget, h>>

\* The over-cap enqueue, after buf.mu is released.
WriteEnqueue(p) ==
    /\ proc[p].pc = "enqueue"
    /\ TrySend("call", proc[p].inode)
    /\ Return(p)
    /\ UNCHANGED <<mem, life, tick, wk, seq, disk, node, budget, h>>

-----------------------------------------------------------------------------
(* coalescer.Fsync, called by Handle.Sync for one inode and by Drain for   *)
(* every inode that has a buffer                                           *)

FsyncCall(p, i) ==
    /\ Begin(p, "fsync", [IdleProc EXCEPT !.pc = "fsync", !.todo = {i}])
    /\ UNCHANGED <<mem, flushQ, ctl, wk, seq, disk, node, h>>

\* Fsync of inode i returns to its caller; Drain goes on to the next one.
AfterFsync(p, i) ==
    LET rest == proc[p].todo \ {i}
    IN  proc' = [proc EXCEPT ![p] =
            IF rest # {} THEN [IdleProc EXCEPT !.pc = "fsync", !.todo = rest]
            ELSE IF life = "draining" THEN [IdleProc EXCEPT !.pc = "close"]
            ELSE IdleProc]

\* MUTANT: Fsync does not wait for the batch in flight.
WaitsForCurrent(b) == IF NeedTrigger(b) THEN {buf[b].current} ELSE {}

\* The batch in flight and the one filling up.
Waits(b) == ({buf[b].flushing} \ {nil})
                \cup (IF NeedTrigger(b) THEN {buf[b].current} ELSE {})

\* The snapshot under buf.mu of the batches to wait for.
FsyncSnapshot(p, i) ==
    LET b == buffers[i]
    IN  /\ proc[p].pc = "fsync"
        /\ i \in proc[p].todo
        /\ b # nil
        /\ ~buf[b].poisoned
        /\ proc' = [proc EXCEPT
              ![p].pc = IF NeedTrigger(b) THEN "trigger" ELSE "wait",
              ![p].inode = i, ![p].buf = b, ![p].waits = Waits(b),
              ![p].must = h[i].written]
        /\ UNCHANGED <<mem, flushQ, ctl, wk, seq, disk, node, budget, h>>

\* The early returns: no buffer is success, a poisoned buffer an error.
FsyncEarly(p, i) ==
    /\ proc[p].pc = "fsync"
    /\ i \in proc[p].todo
    /\ buffers[i] # nil => buf[buffers[i]].poisoned
    /\ AfterFsync(p, i)
    /\ h' = IF buffers[i] = nil
            THEN [h EXCEPT ![i].synced = @ \cup h[i].written] ELSE h
    /\ UNCHANGED <<mem, flushQ, ctl, wk, seq, disk, node, budget>>

\* The blocking send of the flush request.
FsyncTrigger(p) ==
    /\ proc[p].pc = "trigger"
    /\ Closed \/ Len(flushQ) < queueSize
    /\ Panic("call", Closed)
    /\ flushQ' = IF Closed THEN flushQ
                 ELSE Append(flushQ, [inode |-> proc[p].inode, who |-> p])
    /\ Goto(p, "fired")
    /\ UNCHANGED <<mem, life, tick, wk, seq, disk, node, budget, h>>

FsyncFired(p) ==
    /\ proc[p].pc = "fired"
    /\ proc[p].fired
    /\ Goto(p, "wait")
    /\ UNCHANGED <<mem, flushQ, ctl, wk, seq, disk, node, budget, h>>

\* Every awaited batch is done; the verdict is the buffer's poison.
FsyncDone(p) ==
    LET i == proc[p].inode
    IN  /\ proc[p].pc = "wait"
        /\ \A x \in proc[p].waits : batch[x].done
        /\ AfterFsync(p, i)
        /\ h' = IF buf[proc[p].buf].poisoned THEN h
                ELSE [h EXCEPT ![i].synced = @ \cup proc[p].must]
        /\ UNCHANGED <<mem, flushQ, ctl, wk, seq, disk, node, budget>>

\* ctx is done while Fsync waits.  Nobody listens to the request's fired
\* channel afterwards.  Drain passes a context that is never done.
FsyncCancel(p) ==
    /\ proc[p].pc \in {"trigger", "fired", "wait"}
    /\ life = "open"
    /\ Spend("cancel")
    /\ Return(p)
    /\ flushQ' = [k \in DOMAIN flushQ |->
                     IF flushQ[k].who = p THEN [flushQ[k] EXCEPT !.who = nil]
                     ELSE flushQ[k]]
    /\ UNCHANGED <<mem, ctl, wk, seq, disk, node, h>>

-----------------------------------------------------------------------------
(* flusherLoop / flushInode *)

\* MUTANT: a flush in flight does not stop another one.
BailIfEmpty(b) == IF b = nil THEN TRUE ELSE ~NeedTrigger(b)

\* flushInode has nothing to do: no buffer, a flush in flight, no bytes.
Bail(b) == IF b = nil THEN TRUE ELSE buf[b].flushing # nil \/ ~NeedTrigger(b)

\* A worker takes a request and closes its `fired' channel.  It bails out,
\* or moves current to flushing.
FlushTake(w) ==
    LET req == Head(flushQ)
        b == buffers[req.inode]
        x == buf[b].current
    IN  /\ wk[w].pc = "idle"
        /\ flushQ # <<>>
        /\ flushQ' = Tail(flushQ)
        /\ proc' = IF req.who = nil THEN proc
                   ELSE [proc EXCEPT ![req.who].fired = TRUE]
        /\ IF Bail(b)
           THEN UNCHANGED <<buf, nbatch, wk>>
           ELSE /\ nbatch + 1 \in BatchId
                /\ nbatch' = nbatch + 1
                /\ buf' = [buf EXCEPT ![b].flushing = x,
                                      ![b].current = nbatch + 1]
                /\ wk' = [wk EXCEPT ![w] = [IdleWk EXCEPT
                               !.pc = "swapped", !.inode = req.inode,
                               !.buf = b, !.batch = x,
                               !.cells = batch[x].cells]]
        /\ UNCHANGED <<buffers, nbuf, batch, sem, ctl, seq, disk, node,
                       budget, h>>

\* What the unlocked loop over batch.extents may copy.  InvalidatePastSize
\* compacts the same array in place, so a copy that overlaps it takes its
\* first k elements from the old array and the others from the new one,
\* whose tail past the kept extents is still the old one.  `old' are the
\* cells at the swap, `now' the ones left by the truncate; extents are
\* in seq order.
Snapshots(old, now) ==
    LET Seqs(C) == {c[1] : c \in C}
        Rank(C, c) == Cardinality({s \in Seqs(C) : s <= c[1]})
        Copy(k) == {c \in old : Rank(old, c) <= k}
              \cup {c \in now : Rank(now, c) > k}
              \cup {c \in old : Rank(old, c) >
                                Larger(k, Cardinality(Seqs(now)))}
    IN  {now} \cup {Copy(k) : k \in 0 .. Cardinality(Seqs(old))}

\* The AppendExtents and `end' are built without buf.mu.
FlushSnapshot(w) ==
    LET old == wk[w].cells
        now == batch[wk[w].batch].cells
    IN  /\ wk[w].pc = "swapped"
        /\ \E ae \in Snapshots(old, now), end \in {MaxEnd(old), MaxEnd(now)} :
               wk' = [wk EXCEPT ![w].pc = "snapped", ![w].cells = ae,
                                ![w].end = end]
        /\ h' = [h EXCEPT ![wk[w].inode].raced = @ \/ old # now]
        /\ UNCHANGED <<mem, flushQ, ctl, proc, seq, disk, node, budget>>

\* AppendBatchCtx: writeMu.RLock, segment appends and segment fsyncs.
FlushAppend(w) ==
    /\ wk[w].pc = "snapped"
    /\ wk' = [wk EXCEPT ![w].pc = "appended"]
    /\ UNCHANGED <<mem, flushQ, ctl, proc, seq, disk, node, budget, h>>

\* A segment append, a segment fsync or the pebble commit fails.
FlushFail(w) ==
    /\ wk[w].pc \in {"appended", "hooked"}
    /\ Spend("fail")
    /\ wk' = [wk EXCEPT ![w].pc = "settle", ![w].err = TRUE]
    /\ UNCHANGED <<mem, flushQ, ctl, proc, seq, disk, node, h>>

\* txHook reads the node; a missing node fails the flush.
FlushHook(w) ==
    LET n == node[wk[w].inode]
    IN  /\ wk[w].pc = "appended"
        /\ CommitLockFree(wk[w].inode)
        /\ wk' = [wk EXCEPT ![w].pc = IF n.ok THEN "hooked" ELSE "settle",
                            ![w].nn = n, ![w].err = ~n.ok]
        /\ UNCHANGED <<mem, flushQ, ctl, proc, seq, disk, node, budget, h>>

\* MUTANT: the hook persists the live size.
LiveEnd(w) == buf[wk[w].buf].liveSize

\* The size the hook clamps the node up to: the end of the batch.
HookEnd(w) == wk[w].end

\* MUTANT: the hook builds a new node.
HookNodeFresh(w) ==
    [ok |-> TRUE, size |-> Larger(wk[w].nn.size, HookEnd(w)), mode |-> 0]

HookNode(w) == [wk[w].nn EXCEPT !.size = Larger(@, HookEnd(w))]

\* The pebble commit: fragments and node in one batch.
FlushCommit(w) ==
    LET i == wk[w].inode
    IN  /\ wk[w].pc = "hooked"
        /\ disk' = [disk EXCEPT ![i] = @ \cup wk[w].cells]
        /\ node' = [node EXCEPT ![i] = HookNode(w)]
        /\ wk' = [wk EXCEPT ![w].pc = "settle"]
        /\ UNCHANGED <<mem, flushQ, ctl, proc, seq, budget, h>>

\* Settle the batch: poison on error, wake the waiters, release permits.
FlushSettle(w) ==
    LET b == wk[w].buf
        x == wk[w].batch
    IN  /\ wk[w].pc = "settle"
        /\ buf' = [buf EXCEPT ![b].flushing = nil,
                              ![b].poisoned = @ \/ wk[w].err]
        /\ batch' = [batch EXCEPT ![x].done = TRUE]
        /\ Panic("done", batch[x].done)
        /\ sem' = sem - batch[x].bytes
        /\ wk' = [wk EXCEPT ![w] = IdleWk]
        /\ UNCHANGED <<buffers, nbuf, nbatch, flushQ, life, tick, proc, seq,
                       disk, node, budget, h>>

(* tickLoop *)

\* MUTANT: only full buffers are victims.
TickVictimFull(i) ==
    /\ buffers[i] # nil
    /\ NeedTrigger(buffers[i])
    /\ batch[buf[buffers[i]].current].bytes >= perInodeCap
    /\ buf[buffers[i]].flushing = nil

\* Dirty and not being flushed.
TickVictim(i) ==
    /\ buffers[i] # nil
    /\ NeedTrigger(buffers[i])
    /\ buf[buffers[i]].flushing = nil

\* The scan of the buffers under c.mu ...
TickScan ==
    LET victims == {i \in Inode : TickVictim(i)}
    IN  /\ tick = {}
        /\ life # "closed"
        /\ victims # {}
        /\ tick' = victims
        /\ UNCHANGED <<mem, flushQ, life, panic, proc, wk, seq, disk, node,
                       budget, h>>

\* ... and, after it, the sends.
TickSend(i) ==
    /\ i \in tick
    /\ tick' = tick \ {i}
    /\ TrySend("tick", i)
    /\ UNCHANGED <<mem, life, proc, wk, seq, disk, node, budget, h>>

-----------------------------------------------------------------------------
(* Store.Setattr *)

\* InvalidatePastSize on buffer b.  One `freed' counter is shared by the
\* clips of current and flushing, so flushing loses current's share too.
Freed(x, size) ==
    IF x = nil THEN 0 ELSE Cardinality(PastSize(batch[x].cells, size))
Clip(x, size, freed) ==
    [batch[x] EXCEPT !.cells = UpTo(@, size), !.bytes = @ - freed]
InvalidatePastSize(b, size) ==
    LET cur == buf[b].current
        fls == buf[b].flushing
        freed == Freed(cur, size) + Freed(fls, size)
    IN  /\ batch' = [x \in BatchId |->
                        IF x = cur THEN Clip(x, size, Freed(cur, size))
                        ELSE IF x = fls THEN Clip(x, size, freed)
                        ELSE batch[x]]
        /\ buf' = [buf EXCEPT ![b].liveSize = IF @ > size THEN size ELSE @]
        /\ sem' = sem - freed

Flushing(i) == \E w \in Worker : wk[w].pc # "idle" /\ wk[w].inode = i

\* The first half of a size change: Stat, then the buffered bytes go first.
SetattrSize(p, i, size) ==
    LET shrink == size < StatSize(i)
    IN  /\ Begin(p, "truncate", [IdleProc EXCEPT
                    !.pc = IF shrink THEN "truncate" ELSE "stat",
                    !.inode = i, !.size = size])
        /\ node[i].ok
        /\ IF shrink /\ buffers[i] # nil
           THEN InvalidatePastSize(buffers[i], size)
           ELSE UNCHANGED <<buf, batch, sem>>
        /\ h' = IF shrink
                THEN [h EXCEPT ![i].met = @ \/ Flushing(i), ![i].gone = @ \cup
                         PastSize(h[i].written \cup h[i].synced \cup disk[i],
                                  size)]
                ELSE h
        /\ UNCHANGED <<buffers, nbuf, nbatch, flushQ, ctl, wk, seq, disk,
                       node>>

\* A Setattr that changes the mode and leaves the size alone.
SetattrMode(p, i) ==
    /\ Begin(p, "chmod", [IdleProc EXCEPT
                 !.pc = "stat", !.inode = i, !.size = KeepSize])
    /\ node[i].ok
    /\ UNCHANGED <<mem, flushQ, ctl, wk, seq, disk, node, h>>

\* idx.Truncate, under writeMu.Lock.
SetattrTruncate(p) ==
    LET i == proc[p].inode
        size == proc[p].size
    IN  /\ proc[p].pc = "truncate"
        /\ WriteLockFree
        /\ disk' = [disk EXCEPT ![i] = UpTo(@, size)]
        /\ h' = [h EXCEPT ![i].gone = @ \cup PastSize(disk[i], size),
                          ![i].met = @ \/ Flushing(i)]
        /\ Goto(p, "stat")
        /\ UNCHANGED <<mem, flushQ, ctl, wk, seq, node, budget>>

\* Stat again and compute the new node, or fail when the node is gone.
SetattrStat(p) ==
    LET i == proc[p].inode
        keep == proc[p].size = KeepSize
        nn == [ok |-> TRUE,
               size |-> IF keep THEN StatSize(i) ELSE proc[p].size,
               mode |-> IF keep THEN node[i].mode + 1 ELSE node[i].mode]
    IN  /\ proc[p].pc = "stat"
        /\ IF node[i].ok
           THEN proc' = [proc EXCEPT ![p].pc = "commit", ![p].nn = nn]
           ELSE Return(p)
        /\ UNCHANGED <<mem, flushQ, ctl, wk, seq, disk, node, budget, h>>

SetattrCommit(p) ==
    LET i == proc[p].inode
    IN  /\ proc[p].pc = "commit"
        /\ node' = [node EXCEPT ![i] = proc[p].nn]
        /\ Return(p)
        /\ h' = IF proc[p].size = KeepSize
                THEN [h EXCEPT ![i].chmodded = proc[p].nn.mode,
                               ![i].met = @ \/ Flushing(i)]
                ELSE [h EXCEPT ![i].asked = proc[p].size,
                               ![i].met = @ \/ Flushing(i)]
        /\ UNCHANGED <<mem, flushQ, ctl, wk, seq, disk, budget>>

-----------------------------------------------------------------------------
(* Store.Unlink of the last link: commit, Drop, DeleteInode *)

UnlinkCommit(p, i) ==
    /\ Begin(p, "unlink", [IdleProc EXCEPT !.pc = "drop", !.inode = i])
    /\ node[i].ok
    /\ ~h[i].unlinked
    /\ node' = [node EXCEPT ![i] = NoNode]
    /\ h' = [h EXCEPT ![i].unlinked = TRUE]
    /\ UNCHANGED <<mem, flushQ, ctl, wk, seq, disk>>

\* Drop waits until no flush is in flight.
DropWait(p) ==
    LET b == buffers[proc[p].inode]
    IN  /\ proc[p].pc = "drop"
        /\ b # nil => buf[b].flushing = nil
        /\ proc' = [proc EXCEPT
                      ![p].pc = IF b = nil THEN "delete" ELSE "clear",
                      ![p].buf = b]
        /\ UNCHANGED <<mem, flushQ, ctl, wk, seq, disk, node, budget, h>>

\* MUTANT: a flush that began meanwhile is abandoned too.
AbandonedInFlight(b) ==
    IF buf[b].flushing # nil THEN buf[b].flushing ELSE buf[b].current

\* Drop takes buf.mu a second time and abandons the current batch.
Abandoned(b) == buf[b].current

DropClear(p) ==
    LET b == proc[p].buf
        x == Abandoned(b)
    IN  /\ proc[p].pc = "clear"
        /\ buf' = [buf EXCEPT ![b].current = nil, ![b].liveSize = 0]
        /\ IF x = nil
           THEN UNCHANGED <<batch, sem, panic>>
           ELSE /\ batch' = [batch EXCEPT ![x].done = TRUE]
                /\ Panic("done", batch[x].done)
                /\ sem' = sem - batch[x].bytes
        /\ Goto(p, "forget")
        /\ UNCHANGED <<buffers, nbuf, nbatch, flushQ, life, tick, wk, seq,
                       disk, node, budget, h>>

\* Drop deletes the map entry under c.mu.
DropForget(p) ==
    /\ proc[p].pc = "forget"
    /\ buffers' = [buffers EXCEPT ![proc[p].inode] = nil]
    /\ Goto(p, "delete")
    /\ UNCHANGED <<buf, nbuf, batch, nbatch, sem, flushQ, ctl, wk, seq, disk,
                   node, budget, h>>

\* idx.DeleteInode, under writeMu.Lock.
DeleteInode(p) ==
    /\ proc[p].pc = "delete"
    /\ WriteLockFree
    /\ disk' = [disk EXCEPT ![proc[p].inode] = {}]
    /\ Return(p)
    /\ UNCHANGED <<mem, flushQ, ctl, wk, seq, node, budget, h>>

-----------------------------------------------------------------------------
(* Store.Close.  placefs calls it after the FUSE server has stopped, so no *)
(* other call is in progress.                                              *)

Drain(p) ==
    LET todo == {i \in Inode : buffers[i] # nil}
    IN  /\ Begin(p, "close", [IdleProc EXCEPT
                     !.pc = IF todo = {} THEN "close" ELSE "fsync",
                     !.todo = todo])
        /\ \A q \in Client : proc[q].pc = "idle"
        /\ life' = "draining"
        /\ UNCHANGED <<mem, flushQ, tick, panic, wk, seq, disk, node, h>>

\* coalescer.Close closes tickStop and flushQ ...
Close(p) ==
    /\ proc[p].pc = "close"
    /\ life' = "stopped"
    /\ Goto(p, "join")
    /\ UNCHANGED <<mem, flushQ, tick, panic, wk, seq, disk, node, budget, h>>

\* ... and waits for the workers, which drain the queue and exit.
CloseJoin(p) ==
    /\ proc[p].pc = "join"
    /\ flushQ = <<>>
    /\ \A w \in Worker : wk[w].pc = "idle"
    /\ life' = "closed"
    /\ Return(p)
    /\ UNCHANGED <<mem, flushQ, tick, panic, wk, seq, disk, node, budget, h>>

\* The process dies and starts again: only what is durable survives.
Crash ==
    /\ Spend("crash")
    /\ buffers' = [i \in Inode |-> nil]
    /\ buf' = [b \in BufId |-> NewBuf(nil)] /\ nbuf' = 0
    /\ batch' = [x \in BatchId |-> newBufBatch] /\ nbatch' = 0
    /\ sem' = 0
    /\ flushQ' = <<>>
    /\ life' = "open" /\ tick' = {} /\ panic' = {}
    /\ proc' = [p \in Client |-> IdleProc]
    /\ wk' = [w \in Worker |-> IdleWk]
    /\ h' = [i \in Inode |-> [h[i] EXCEPT !.written = {}]]
    /\ UNCHANGED <<seq, disk, node>>

-----------------------------------------------------------------------------
WriteStep(p) ==
    \/ \E i \in Inode, P \in Interval : WriteCall(p, i, P)
    \/ WriteAcquire(p) \/ WriteCancel(p) \/ WriteAppend(p)
    \/ WritePoisoned(p) \/ WriteEnqueue(p)

FsyncStep(p) ==
    \/ \E i \in Inode : FsyncCall(p, i) \/ FsyncSnapshot(p, i)
                            \/ FsyncEarly(p, i)
    \/ FsyncTrigger(p) \/ FsyncFired(p) \/ FsyncDone(p) \/ FsyncCancel(p)

SetattrStep(p) ==
    \/ \E i \in Inode, size \in 0 .. MaxPos : SetattrSize(p, i, size)
    \/ \E i \in Inode : SetattrMode(p, i)
    \/ SetattrTruncate(p) \/ SetattrStat(p) \/ SetattrCommit(p)

UnlinkStep(p) ==
    \/ \E i \in Inode : UnlinkCommit(p, i)
    \/ DropWait(p) \/ DropClear(p) \/ DropForget(p) \/ DeleteInode(p)

CloseStep(p) == Drain(p) \/ Close(p) \/ CloseJoin(p)

FlushStep(w) ==
    \/ FlushTake(w) \/ FlushSnapshot(w) \/ FlushAppend(w) \/ FlushFail(w)
    \/ FlushHook(w) \/ FlushCommit(w) \/ FlushSettle(w)

TickStep == TickScan \/ \E i \in Inode : TickSend(i)

\* `panic' only records who panicked: the steps the model takes afterwards
\* are ones the dead process does not take.
Next ==
    \/ \E p \in Client : WriteStep(p) \/ FsyncStep(p) \/ SetattrStep(p)
                             \/ UnlinkStep(p) \/ CloseStep(p)
    \/ \E w \in Worker : FlushStep(w)
    \/ TickStep
    \/ Crash

Spec == Init /\ [][Next]_vars

\* Every goroutine that can take a step of its own eventually does: Go
\* schedules runnable goroutines and the ticker keeps firing.  Nothing is
\* assumed about new calls, cancellations, I/O errors and crashes.
FlushProgress(w) ==
    \/ FlushTake(w) \/ FlushSnapshot(w) \/ FlushAppend(w)
    \/ FlushHook(w) \/ FlushCommit(w) \/ FlushSettle(w)
ClientProgress(p) ==
    \/ WriteAcquire(p) \/ WriteAppend(p) \/ WritePoisoned(p)
    \/ WriteEnqueue(p)
    \/ \E i \in Inode : FsyncSnapshot(p, i) \/ FsyncEarly(p, i)
    \/ FsyncTrigger(p) \/ FsyncFired(p) \/ FsyncDone(p)
    \/ SetattrTruncate(p) \/ SetattrStat(p) \/ SetattrCommit(p)
    \/ DropWait(p) \/ DropClear(p) \/ DropForget(p) \/ DeleteInode(p)
    \/ Close(p) \/ CloseJoin(p)

Fairness ==
    /\ \A w \in Worker : WF_vars(FlushProgress(w))
    /\ \A p \in Client : WF_vars(ClientProgress(p))
    /\ WF_vars(TickStep)

FairSpec == Spec /\ Fairness

-----------------------------------------------------------------------------
(* Properties *)

\* Every variable has its type, and flushQ stays within its capacity.
TypeOK ==
    /\ buffers \in [Inode -> BufId \cup {nil}]
    /\ buf \in [BufId -> inodeBuf] /\ nbuf \in 0 .. MaxBuf
    /\ batch \in [BatchId -> bufBatch] /\ nbatch \in 0 .. MaxBatch
    /\ sem \in Int
    /\ flushQ \in Seq(flushReq) /\ Len(flushQ) <= queueSize
    /\ life \in {"open", "draining", "stopped", "closed"}
    /\ tick \in SUBSET Inode
    /\ panic \in SUBSET {"call", "tick", "done"}
    /\ proc \in [Client -> Proc]
    /\ wk \in [Worker -> Wk]
    /\ seq \in Nat
    /\ disk \in [Inode -> SUBSET Cell]
    /\ node \in [Inode -> Node]
    /\ budget \in [Event -> Nat]
    /\ h \in [Inode -> History]

\* "fsync(2) returns only after every preceding write for that inode has hit
\* segment fsync + pebble WAL fsync" (coalescer.go:17-18): the bytes a
\* successful Fsync vouched for are durable, crashes, failed flushes,
\* concurrent writes, truncates and flushes notwithstanding.  Exempt are
\* bytes cut off by a truncate, files that were unlinked, and files on which
\* a truncate met a flush that was copying the batch (see the next one).
FsyncDurable ==
    \A i \in Inode : ~h[i].unlinked /\ ~h[i].raced
                        => h[i].synced \subseteq disk[i] \cup h[i].gone

\* The same without the last exemption, as the durability contract has it.
FsyncNeverLies ==
    \A i \in Inode : ~h[i].unlinked => h[i].synced \subseteq disk[i] \cup h[i].gone

\* "each inode is single-threaded" (coalescer.go:615): no two workers flush
\* the same inode at once, until an unlink gives the inode a second buffer.
SingleFlusher ==
    \A v, w \in Worker :
        v # w /\ wk[v].pc # "idle" /\ wk[w].pc # "idle"
            => wk[v].inode # wk[w].inode \/ h[wk[v].inode].unlinked

\* Permits a batch object accounts for while a buffer or a flush holds it.
Held ==
    LET Charge(x) == IF x = nil THEN 0 ELSE batch[x].bytes
        OfBufs == MapThenSumSet(LAMBDA b : Charge(buf[b].current)
                                           + Charge(buf[b].flushing),
                                {buffers[i] : i \in Inode} \ {nil})
        OfWrites == MapThenSumSet(LAMBDA p : Cardinality(proc[p].data),
                                  {p \in Client : proc[p].pc = "append"})
    IN  OfBufs + OfWrites

\* Every permit of globalSem belongs to a buffered byte or to a write in
\* progress: "Release the bytes back to the global semaphore - unblocks
\* writers waiting on backpressure" (coalescer.go:760-761).  Exempt are a
\* truncate that meets a flush in flight (InvalidatePastSize takes the bytes
\* of current off flushing as well) and unlinked files (a write may fill a
\* buffer that Drop has taken out of the map).
PermitsAccounted ==
    (\A i \in Inode : ~h[i].met /\ ~h[i].unlinked) => sem = Held

\* "Stat never advertises a smaller size than the user has actually written"
\* (store.go:240-241), through flushes, failed flushes and truncates.
StatCoversWritten ==
    \A i \in Inode : ~h[i].unlinked =>
        \A c \in h[i].written \ h[i].gone : c[2] < StatSize(i)

\* "there is no window where the index advertises more bytes than fragments
\* cover" (crash_test.go:19-20), unless Setattr extended the file.  Exempt are
\* a shrink in progress (fragments first, size last), a Setattr that met a
\* flush in flight (the hook writes the size it read before), a chmod (which
\* makes the live size durable) and an unlinked file.
SizeCovered ==
    \A i \in Inode :
        \/ h[i].met \/ h[i].chmodded # 0 \/ h[i].unlinked
        \/ \E p \in Client : proc[p].pc \in SetattrPc /\ proc[p].inode = i
        \/ node[i].size <= Larger(MaxEnd(disk[i]), h[i].asked)

\* A finished shrink stays done: no byte it cut off lands on disk afterwards
\* ("Otherwise a concurrent flush could land bytes past the new size right
\* after idx.Truncate returns", store.go:913-916).  Exempt is a shrink that
\* meets a flush in flight, which has copied the bytes before.
TruncateSticks ==
    \A i \in Inode :
        \/ h[i].met
        \/ \E p \in Client : proc[p].pc \in SetattrPc /\ proc[p].inode = i
        \/ disk[i] \cap h[i].gone = {}

\* A finished chmod stays done: a flush, which rewrites the same node, does
\* not undo it.  Exempt is a chmod that commits while a flush is in flight
\* (Setattr does not take the commit lock the hook holds).
ChmodSticks ==
    \A i \in Inode :
        \/ h[i].met \/ h[i].unlinked
        \/ \E p \in Client : proc[p].pc \in SetattrPc /\ proc[p].inode = i
        \/ node[i].mode = h[i].chmodded

\* Neither before nor after Close does a flusher or a Drop close a done channel
\* that is closed (coalescer.go:550, 759), or a Write, an Fsync or Drain send on
\* the closed flushQ (coalescer.go:275, 434).  The ticker may (coalescer.go:649):
\* Close does not wait for it.
NoPanic == panic \subseteq {"tick"}

\* Store.Close: "The coalescer is drained first so anything in memory makes
\* it to disk before we tear down" (store.go:133-135), unless a flush failed.
DrainDurable ==
    life = "closed" =>
        \A i \in Inode :
            \/ h[i].unlinked \/ h[i].raced
            \/ buffers[i] # nil /\ buf[buffers[i]].poisoned
            \/ h[i].written \subseteq disk[i] \cup h[i].gone

\* What a waiting Fsync waits for is on its way: every batch it snapshotted is
\* settled, being flushed, or has bytes and is where the next tick finds it,
\* although flushInode ignores a request that meets a flush in flight
\* (coalescer.go:669-680).  Exempt are a truncated file (a batch the truncate
\* emptied is never flushed, so that its done channel stays open until the
\* next write) and an unlinked one.
AwaitedFlushes ==
    \A p \in Client : proc[p].pc \in {"trigger", "fired", "wait"} =>
        LET i == proc[p].inode
            b == proc[p].buf
        IN  \A x \in proc[p].waits :
                \/ batch[x].done \/ buf[b].flushing = x
                \/ /\ buf[b].current = x
                   /\ \/ buffers[i] = b /\ NeedTrigger(b)
                      \/ h[i].gone # {} \/ h[i].unlinked

\* The coalescer is a write-back buffer: it vouches for settled bytes only, it
\* settles only bytes a Write of this process put in, and neither a flush, a
\* truncate nor a crash takes a settled byte back.  Given up are unlinked files
\* and files on which a truncate met a flush copying its batch.
WB == INSTANCE WriteBack WITH
          File <- Inode,
          accepted <- [i \in Inode |-> h[i].written],
          settled <- [i \in Inode |-> disk[i] \cup h[i].gone],
          vouched <- [i \in Inode |-> h[i].synced],
          forfeit <- {i \in Inode : h[i].unlinked \/ h[i].raced}

ImplementsWriteBack == WB!Spec

\* Every call returns: Fsync's batches are flushed even when its request
\* found a flush in flight, and writers blocked on the semaphore get permits.
CallsReturn ==
    \A p \in Client : proc[p].pc # "idle" ~> proc[p].pc = "idle"

=============================================================================
