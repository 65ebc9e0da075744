------------------------------ MODULE ReadPath -------------------------------
(***************************************************************************)
(* Handle.ReadAtCtx (store/handle.go) against everything that changes the  *)
(* bytes it looks for: buffered writes, the coalescer's flusher, which     *)
(* moves extents from memory to disk fragments, and the mover, which       *)
(* rewrites a stripe under new sequence numbers.  One inode, one stripe.   *)
(*                                                                         *)
(* The value of a byte is the seq its write was given; 0 is a byte that    *)
(* was never written.  A record on disk holds the byte of position pos of  *)
(* write w at offset Home(w, pos), wherever Move copied it.                *)
(***************************************************************************)
EXTENDS Fragments

CONSTANTS MaxPos,        \* positions are 0 .. MaxPos-1
          MaxWrites,     \* bound: writes
          MaxMoves,      \* bound: moves
          MaxReads       \* bound: reads

ASSUME ReadPathAssumption ==
    /\ MaxPos \in Nat \ {0} /\ MaxWrites \in Nat /\ MaxMoves \in Nat
    /\ MaxReads \in Nat

VARIABLES
    seq,        \* Index.seqGen
    current,    \* extents of buf.current, as in-memory fragments
    flushing,   \* extents of buf.flushing
    flusher,    \* "idle", "swapped", "committed"
    disk,       \* the stripe's fragments in the index
    log,        \* history: <<write, pos>> of every write accepted
    rd,         \* the read in progress
    overtaken,  \* history: a move ran while writes were buffered
    writes, moves, reads

vars == <<seq, current, flushing, flusher, disk, log, rd, overtaken, writes,
          moves, reads>>

Pos  == 0 .. MaxPos - 1
Mem  == 0
Hot  == 1
Cold == 2

Home(w, pos) == 100 * w + pos

IdleRead == [pc |-> "idle", off |-> 0, len |-> 0, floor |-> <<>>,
             frags |-> {}, plan |-> {}, got |-> {}, err |-> FALSE,
             split |-> FALSE]    \* history: a flush settled between its snapshots

Init == /\ seq = 0 /\ current = {} /\ flushing = {} /\ flusher = "idle"
        /\ disk = {} /\ log = {} /\ rd = IdleRead /\ overtaken = FALSE
        /\ writes = 0 /\ moves = 0 /\ reads = 0

-----------------------------------------------------------------------------
(* Writers and background work *)

\* The buffered extents.
Extents == current \cup flushing

\* coalescer.Write of one extent.
Write(off, len) ==
    /\ writes < MaxWrites
    /\ off + len <= MaxPos
    /\ writes' = writes + 1
    /\ seq' = seq + 1
    /\ current' = current \cup
           {Fragment(seq + 1, off, len, Mem, 0, seq + 1)}
    /\ log' = log \cup ({seq + 1} \X (off .. off + len - 1))
    /\ UNCHANGED <<flushing, flusher, disk, rd, moves, overtaken, reads>>

\* flushInode: swap, commit the fragments, settle.
FlushSwap ==
    /\ flusher = "idle" /\ current # {}
    /\ flusher' = "swapped" /\ flushing' = current /\ current' = {}
    /\ UNCHANGED <<seq, disk, log, rd, writes, moves, overtaken, reads>>

FlushCommit ==
    /\ flusher = "swapped"
    /\ flusher' = "committed"
    /\ disk' = disk \cup
           {Fragment(e.Seq, e.LogicalOff, e.Length, Hot, 1,
                     Home(e.Seq, e.LogicalOff)) : e \in flushing}
    /\ UNCHANGED <<seq, current, flushing, log, rd, writes, moves, overtaken,
                   reads>>

FlushSettle ==
    /\ flusher = "committed"
    /\ flusher' = "idle" /\ flushing' = {}
    /\ rd' = [rd EXCEPT !.split = @ \/ rd.pc = "mem"]
    /\ UNCHANGED <<seq, current, disk, log, overtaken, writes, moves, reads>>

\* Index.Move to the cold tier: the canonical view under new seqs.
Move ==
    LET view == Sorted(canonicalView(disk),
                    LAMBDA f, g : f.LogicalOff < g.LogicalOff)
    IN  /\ moves < MaxMoves /\ disk # {}
        /\ moves' = moves + 1
        /\ overtaken' = (overtaken \/ Extents # {})
        /\ seq' = seq + Len(view)
        /\ disk' = {[view[k] EXCEPT !.Seq = seq + k, !.Tier = Cold] :
                        k \in DOMAIN view}
        /\ UNCHANGED <<current, flushing, flusher, log, rd, writes, reads>>

-----------------------------------------------------------------------------
(* Handle.ReadAtCtx *)

\* Stat's size: the highest byte written (nothing is truncated here).
Size == IF log = {} THEN 0
        ELSE 1 + CHOOSE m \in {e[2] : e \in log} : \A e \in log : e[2] <= m

\* The newest write to pos a read that starts now has to see.
LatestWrite(pos) ==
    LET ws == {e[1] : e \in {d \in log : d[2] = pos}}
    IN  IF ws = {} THEN 0 ELSE CHOOSE w \in ws : \A v \in ws : v <= w

ReadCall(off, len) ==
    /\ rd.pc = "idle" /\ reads < MaxReads
    /\ off < Size
    /\ reads' = reads + 1
    /\ rd' = [IdleRead EXCEPT
                 !.pc = "disk", !.off = off,
                 !.len = Lower(len, Size - off),
                 !.floor = [pos \in Pos |-> LatestWrite(pos)]]
    /\ UNCHANGED <<seq, current, flushing, flusher, disk, log, writes,
                   overtaken, moves>>

\* idx.FragmentsInRange: every fragment of the stripe.
ReadDisk ==
    /\ rd.pc = "disk"
    /\ rd' = [rd EXCEPT !.pc = "mem", !.frags = disk]
    /\ UNCHANGED <<seq, current, flushing, flusher, disk, log, writes, moves,
                   overtaken, reads>>

\* MUTANT: the batch in flight is forgotten.
FragmentsForCurrent(off, len) ==
    {e \in current : ~(FEnd(e) <= off \/ e.LogicalOff >= off + len)}

\* coalescer.FragmentsFor, then PlanRead over the union.
FragmentsFor(off, len) ==
    {e \in Extents : ~(FEnd(e) <= off \/ e.LogicalOff >= off + len)}

ReadMem ==
    /\ rd.pc = "mem"
    /\ rd' = [rd EXCEPT !.pc = "copy", !.frags = {},
                 !.plan = planRead(rd.frags \cup FragmentsFor(rd.off, rd.len),
                                   rd.off, rd.len)]
    /\ UNCHANGED <<seq, current, flushing, flusher, disk, log, writes, moves,
                   overtaken, reads>>

\* MUTANT: no check that the extent contains the slice.
CopyOutBySeq(s) == {e \in Extents : e.Seq = s.Offset}

\* coalescer.CopyOut: the extents whose seq is the locator's offset and that
\* contain the slice.  No such extent is an error.
CopyOut(s) ==
    {e \in Extents : /\ e.Seq = s.Offset
                     /\ s.LogicalOff >= e.LogicalOff
                     /\ s.LogicalOff + s.Length <= FEnd(e)}

\* The writes a slice's bytes come from; {} when the lookup fails.
Resolve(s) ==
    IF s.Sparse THEN {0}
    ELSE IF s.Tier = Mem THEN {e.Seq : e \in CopyOut(s)}
    ELSE {(s.Offset - s.LogicalOff) \div 100}

ReadSlice ==
    LET s == CHOOSE s \in rd.plan :
                 \A t \in rd.plan : s.LogicalOff <= t.LogicalOff
        where == s.LogicalOff .. s.LogicalOff + s.Length - 1
    IN  /\ rd.pc = "copy" /\ rd.plan # {}
        /\ rd' = [rd EXCEPT !.plan = @ \ {s},
                            !.got = @ \cup (Resolve(s) \X where),
                            !.err = Resolve(s) = {},
                            !.pc = IF Resolve(s) = {} \/ rd.plan = {s}
                                   THEN "done" ELSE "copy"]
        /\ UNCHANGED <<seq, current, flushing, flusher, disk, log, writes,
                       moves, overtaken, reads>>

ReadReturn ==
    /\ rd.pc = "done"
    /\ rd' = IdleRead
    /\ UNCHANGED <<seq, current, flushing, flusher, disk, log, writes, moves,
                   overtaken, reads>>

Next ==
    \/ \E off \in Pos, len \in 1 .. MaxPos : Write(off, len)
    \/ FlushSwap \/ FlushCommit \/ FlushSettle
    \/ Move
    \/ \E off \in Pos, len \in 1 .. MaxPos : ReadCall(off, len)
    \/ ReadDisk \/ ReadMem \/ ReadSlice \/ ReadReturn

Spec == Init /\ [][Next]_vars

-----------------------------------------------------------------------------
\* The reader's program counter and the flusher's agree with their data.
TypeOK ==
    /\ seq \in Nat
    /\ flusher \in {"idle", "swapped", "committed"}
    /\ flusher = "idle" <=> flushing = {}
    /\ rd.pc \in {"idle", "disk", "mem", "copy", "done"}
    /\ rd.pc = "copy" => rd.plan # {}

\* A read never makes bytes up: what it returns for a position is a byte
\* some write put at that position, or zero - even when CopyOut looks a
\* clipped locator up under the wrong seq (coalescer.go:365), and with
\* flushes, moves and writes between any two of its steps.
ReadIntegrity ==
    \A g \in rd.got : g[1] = 0 \/ g \in log

\* A successful read returns, for every position, the newest write that
\* preceded it or a later one.  Exempt are a read between whose two snapshots
\* a flush settles (handle.go:67-74), and a move that runs while writes are
\* buffered, whose new seqs are above theirs (index.go:1095).
ReadsFresh ==
    rd.pc = "done" /\ ~rd.err /\ ~rd.split /\ ~overtaken
        => \A g \in rd.got : g[1] >= rd.floor[g[2]]

\* "Reads from a freshly written byte are guaranteed to see those bytes"
\* (handle.go:37-38): a read does not fail because of where its range starts.
ReadsSucceed == ~rd.err

=============================================================================
