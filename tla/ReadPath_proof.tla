--------------------------- MODULE ReadPath_proof ----------------------------
(***************************************************************************)
(* Proofs about reads: Handle.ReadAtCtx against writes, flushes and moves, *)
(* for any number of them, and what planRead and canonicalView compute for *)
(* any fragments (the lemmas of Fragments_proof).                          *)
(***************************************************************************)
EXTENDS ReadPath, Fragments_proof

\* A leaf that names no prover is Zenon's.
USE ZenonT(60)

-----------------------------------------------------------------------------
(* The inductive invariant *)

\* The write a fragment's bytes are from.
Wr(f) == IF f.Tier = Mem THEN f.Seq ELSE (f.SegmentOffset - f.LogicalOff) \div 100

\* The write a slice's bytes are from, as its locator has it.
Source(s) == IF s.Sparse THEN 0
             ELSE IF s.Tier = Mem THEN s.Offset ELSE (s.Offset - s.LogicalOff) \div 100

\* A buffered extent has its seq for a locator, and a stored fragment its
\* write's home; both hold bytes of writes that were accepted.
BufferedOK(e) ==
    /\ e \in Frag /\ e.Tier = Mem /\ e.SegmentOffset = e.Seq /\ e.Seq <= seq
    /\ FEnd(e) <= MaxPos
    /\ \A pos \in Pos : Covers(e, pos) => <<e.Seq, pos>> \in log

StoredOK(f) ==
    /\ f \in Frag /\ f.Tier # Mem /\ f.Seq <= seq /\ FEnd(f) <= MaxPos
    /\ Wr(f) \in Nat /\ f.SegmentOffset - f.LogicalOff = 100 * Wr(f)
    /\ \A pos \in Pos : Covers(f, pos) => <<Wr(f), pos>> \in log

SliceOK(s) ==
    /\ s \in Slice /\ s.LogicalOff + s.Length <= MaxPos
    /\ ~s.Sparse /\ s.Tier # Mem =>
          /\ Source(s) \in Nat
          /\ \A pos \in Pos : Covers(s, pos) => <<Source(s), pos>> \in log

DataInv ==
    /\ seq \in Nat /\ log \subseteq (1 .. seq) \X Pos
    /\ IsFiniteSet(current) /\ IsFiniteSet(flushing) /\ IsFiniteSet(disk)
    /\ \A e \in Extents : BufferedOK(e)
    /\ \A f \in disk : StoredOK(f)
    /\ flusher \in {"idle", "swapped", "committed"}
    /\ flusher = "idle" <=> flushing = {}

\* Where two fragments meet, the one with the higher seq has the later write.
Ordered(S) ==
    \A f, g \in S : \A pos \in Pos :
        Covers(f, pos) /\ Covers(g, pos) /\ f.Seq >= g.Seq => Wr(f) >= Wr(g)

\* Some fragment has write w, or a later one, at pos.
Holds(S, w, pos) == \E f \in S : Covers(f, pos) /\ Wr(f) >= w

\* While no move has overtaken buffered writes: seq order is write order,
\* nothing written is missing, and a committed batch is in the index.
OrderInv ==
    ~overtaken =>
        /\ Ordered(disk \cup Extents)
        /\ \A d \in log : Holds(disk \cup Extents, d[1], d[2])
        /\ flusher = "committed" =>
              \A e \in flushing : \E f \in disk :
                  f.LogicalOff = e.LogicalOff /\ f.Length = e.Length /\ Wr(f) = e.Seq

ReadType ==
    [pc : {"idle", "disk", "mem", "copy", "done"}, off : Nat, len : Nat,
     floor : [Pos -> Nat] \cup {<<>>}, frags : SUBSET Frag, plan : SUBSET Slice,
     got : SUBSET (Nat \X Pos), err : BOOLEAN, split : BOOLEAN]

ReadInv ==
    /\ rd \in ReadType
    /\ rd.pc # "idle" =>
          /\ rd.len > 0 /\ rd.off + rd.len <= MaxPos /\ rd.floor \in [Pos -> Nat]
          /\ \A pos \in Pos : rd.floor[pos] = 0 \/ <<rd.floor[pos], pos>> \in log
    /\ rd.pc = "idle" => rd.got = {} /\ rd.plan = {}
    /\ IsFiniteSet(rd.frags) /\ \A f \in rd.frags : StoredOK(f)
    /\ IsFiniteSet(rd.plan) /\ \A s \in rd.plan : SliceOK(s)
    /\ rd.pc = "copy" => rd.plan # {}
    /\ \A g \in rd.got : g[1] = 0 \/ g \in log

\* A read that nothing got in the way of has found, at every stage, the
\* writes that preceded it or later ones.
FreshInv ==
    ~rd.split /\ ~overtaken =>
        /\ rd.pc = "mem" =>
              /\ Ordered(rd.frags \cup Extents)
              /\ \A pos \in Pos : \/ rd.floor[pos] = 0
                                  \/ Holds(rd.frags \cup Extents, rd.floor[pos], pos)
        /\ \A s \in rd.plan : \A pos \in Pos : Covers(s, pos) => Source(s) >= rd.floor[pos]
        /\ \A g \in rd.got : g[1] >= rd.floor[g[2]]

ReadPathInv == DataInv /\ OrderInv /\ ReadInv /\ FreshInv

-----------------------------------------------------------------------------
(* Writes *)

\* A seq that grows and a log that grows leave what is true of fragments true.
LEMMA GrowOK ==
    ASSUME seq \in Nat, seq' \in Nat, seq <= seq', log \subseteq log', NEW f
    PROVE  /\ BufferedOK(f) => BufferedOK(f)'
           /\ StoredOK(f) => StoredOK(f)'
           /\ SliceOK(f) => SliceOK(f)'
<1>1. f \in Frag /\ f.Seq <= seq => f.Seq <= seq'
    BY SMTT(30) DEF Frag
<1>2. BufferedOK(f) => BufferedOK(f)'
    BY <1>1 DEF BufferedOK, Mem, Pos, Covers, FEnd
<1>3. StoredOK(f) => StoredOK(f)'
    BY <1>1 DEF StoredOK, Mem, Pos, Covers, FEnd, Wr
<1>4. SliceOK(f) => SliceOK(f)'
    BY DEF SliceOK, Mem, Pos, Covers, Source
<1> QED
    BY <1>2, <1>3, <1>4

\* The writes of fragments are writes of the log.
LEMMA WrBound ==
    ASSUME seq \in Nat, log \subseteq (1 .. seq) \X Pos, NEW f, BufferedOK(f) \/ StoredOK(f),
           NEW pos \in Pos, Covers(f, pos)
    PROVE  Wr(f) \in 1 .. seq /\ <<Wr(f), pos>> \in log
<1>1. <<Wr(f), pos>> \in log
    BY DEF BufferedOK, StoredOK, Wr
<1> QED
    BY <1>1

\* A fragment with the highest seq and the latest write keeps the order.
LEMMA OrderedAdd ==
    ASSUME seq \in Nat, log \subseteq (1 .. seq) \X Pos, NEW S, Ordered(S),
           \A f \in S : BufferedOK(f) \/ StoredOK(f), NEW e, e.Seq = seq + 1, Wr(e) = seq + 1
    PROVE  Ordered(S \cup {e})
<1>1. SUFFICES ASSUME NEW f \in S \cup {e}, NEW g \in S \cup {e}, NEW pos \in Pos,
                      Covers(f, pos), Covers(g, pos), f.Seq >= g.Seq
               PROVE  Wr(f) >= Wr(g)
    BY DEF Ordered
<1>2. \A h \in S : h.Seq \in Nat /\ h.Seq <= seq
    BY DEF BufferedOK, StoredOK, Frag
<1>3. CASE f \in S /\ g \in S
    BY <1>1, <1>3 DEF Ordered
<1>4. CASE f = e /\ g \in S
    <2>1. Wr(g) \in 1 .. seq
        BY <1>1, <1>4, WrBound
    <2> QED
        BY SMTT(30), <1>4, <2>1
<1>5. CASE f \in S /\ g = e
    BY SMTT(30), <1>1, <1>2, <1>5
<1>6. CASE f = e /\ g = e
    BY SMTT(30), <1>6
<1> QED
    BY <1>3, <1>4, <1>5, <1>6

\* More fragments hold more.
LEMMA HoldsMore ==
    ASSUME NEW S, NEW T, S \subseteq T, NEW w, NEW pos, Holds(S, w, pos)
    PROVE  Holds(T, w, pos)
    BY DEF Holds

\* The extent a write adds.
LEMMA WriteFacts ==
    ASSUME ReadPathAssumption, DataInv, NEW off \in Pos, NEW len \in 1 .. MaxPos, Write(off, len)
    PROVE  \E e : /\ current' = current \cup {e} /\ flushing' = flushing
                  /\ e.Seq = seq + 1 /\ Wr(e) = seq + 1 /\ BufferedOK(e)'
                  /\ \A d \in log' : d \in log \/ (d[1] = seq + 1 /\ d[2] \in Pos /\ Covers(e, d[2]))
<1>0. PICK e : e = Fragment(seq + 1, off, len, Mem, 0, seq + 1)
    OBVIOUS
<1>1. /\ e.Seq = seq + 1 /\ e.LogicalOff = off /\ e.Length = len /\ e.Tier = Mem
      /\ e.SegmentID = 0 /\ e.SegmentOffset = seq + 1
    BY <1>0 DEF Fragment
<1>2. e \in Frag
    BY SMTT(30), <1>0 DEF Fragment, Frag, Mem, Pos, DataInv, ReadPathAssumption
<1>3. current' = current \cup {e} /\ flushing' = flushing /\ seq' = seq + 1
    BY <1>0 DEF Write
<1>4. log' = log \cup ({seq + 1} \X (off .. off + len - 1))
    BY DEF Write
<1>5. off + len <= MaxPos /\ off \in Nat /\ len \in Nat /\ MaxPos \in Nat /\ seq \in Nat
    BY SMTT(30) DEF Write, Pos, ReadPathAssumption, DataInv
<1>6. \A pos \in Pos : Covers(e, pos) <=> pos \in off .. off + len - 1
    BY SMTT(30), <1>1, <1>5 DEF Covers, Pos
<1>7. Wr(e) = seq + 1
    BY <1>1 DEF Wr
<1>8. e.Seq <= seq' /\ FEnd(e) <= MaxPos
    BY SMTT(30), <1>1, <1>3, <1>5 DEF FEnd
<1>9. \A pos \in Pos : Covers(e, pos) => <<e.Seq, pos>> \in log'
    BY <1>1, <1>4, <1>6
<1>10. BufferedOK(e)'
    BY <1>1, <1>2, <1>8, <1>9 DEF BufferedOK, Pos, Covers, FEnd, Mem
<1>11. ASSUME NEW d \in log', d \notin log
       PROVE  d[1] = seq + 1 /\ d[2] \in Pos /\ Covers(e, d[2])
    <2>1. d[1] = seq + 1 /\ d[2] \in off .. off + len - 1
        BY <1>4, <1>11
    <2>2. d[2] \in Pos
        BY SMTT(30), <1>5, <2>1 DEF Pos
    <2> QED
        BY <1>6, <2>1, <2>2
<1> QED
    BY <1>1, <1>3, <1>7, <1>10, <1>11

\* What a writer's step leaves of a read in progress.
LEMMA ReadGrows ==
    ASSUME ReadInv, seq \in Nat, seq' \in Nat, seq <= seq', log \subseteq log', rd' = rd
    PROVE  ReadInv'
<1>1. /\ \A f \in rd.frags : StoredOK(f)'
      /\ \A s \in rd.plan : SliceOK(s)'
    BY GrowOK DEF ReadInv
<1>2. /\ rd.pc # "idle" => \A pos \in Pos : rd.floor[pos] = 0 \/ <<rd.floor[pos], pos>> \in log'
      /\ \A g \in rd.got : g[1] = 0 \/ g \in log'
    BY DEF ReadInv
<1> QED
    BY <1>1, <1>2 DEF ReadInv, ReadType, Pos

\* A write preserves the invariant: its seq is above all others.
LEMMA WriteStep ==
    ASSUME SetLaws, ReadPathAssumption, ReadPathInv, NEW off \in Pos, NEW len \in 1 .. MaxPos,
           Write(off, len)
    PROVE  ReadPathInv'
<1>1. PICK e : /\ current' = current \cup {e} /\ flushing' = flushing
               /\ e.Seq = seq + 1 /\ Wr(e) = seq + 1 /\ BufferedOK(e)'
               /\ \A d \in log' : d \in log \/ (d[1] = seq + 1 /\ d[2] \in Pos /\ Covers(e, d[2]))
    BY WriteFacts DEF ReadPathInv
<1>2. /\ DataInv /\ OrderInv /\ ReadInv /\ FreshInv
      /\ seq \in Nat /\ log \subseteq (1 .. seq) \X Pos
      /\ \A f \in Extents : BufferedOK(f)
      /\ \A f \in disk : StoredOK(f)
    BY DEF ReadPathInv, DataInv
<1>3. /\ seq' = seq + 1 /\ flusher' = flusher /\ disk' = disk /\ rd' = rd
      /\ overtaken' = overtaken /\ log' = log \cup ({seq + 1} \X (off .. off + len - 1))
      /\ off + len <= MaxPos
    BY DEF Write
<1>4. seq' \in Nat /\ seq <= seq' /\ log \subseteq log'
    BY SMTT(30), <1>2, <1>3
<1>5. Extents' = Extents \cup {e}
    BY <1>1 DEF Extents
<1>6. DataInv'
    <2>1. log' \subseteq (1 .. seq') \X Pos
        <3>1. off .. off + len - 1 \subseteq Pos
            BY SMTT(30), <1>3 DEF Pos, ReadPathAssumption
        <3>2. 1 .. seq \subseteq 1 .. seq' /\ seq + 1 \in 1 .. seq'
            BY SMTT(30), <1>2, <1>3
        <3> QED
            BY <1>2, <1>3, <3>1, <3>2
    <2>2. IsFiniteSet(current') /\ IsFiniteSet(flushing') /\ IsFiniteSet(disk')
        <3>1. IsFiniteSet(current)
            BY <1>2 DEF DataInv
        <3>2. IsFiniteSet(current \cup {e})
            BY <3>1 DEF SetLaws, AddLaw
        <3> QED
            BY <1>1, <1>2, <1>3, <3>2 DEF DataInv
    <2>3. \A f \in Extents' : BufferedOK(f)'
        BY <1>1, <1>2, <1>4, <1>5, GrowOK
    <2>4. \A f \in disk' : StoredOK(f)'
        BY <1>2, <1>3, <1>4, GrowOK
    <2>5. flusher' \in {"idle", "swapped", "committed"} /\ (flusher' = "idle" <=> flushing' = {})
        BY <1>1, <1>2, <1>3 DEF DataInv
    <2>6. Pos' = Pos
        BY DEF Pos
    <2> QED
        BY <1>4, <2>1, <2>2, <2>3, <2>4, <2>5, <2>6 DEF DataInv
<1>7. OrderInv'
    <2>1. SUFFICES ASSUME ~overtaken
                   PROVE  /\ Ordered((disk \cup Extents) \cup {e})
                          /\ \A d \in log' : Holds((disk \cup Extents) \cup {e}, d[1], d[2])
                          /\ flusher = "committed" =>
                                \A x \in flushing : \E f \in disk :
                                    f.LogicalOff = x.LogicalOff /\ f.Length = x.Length /\ Wr(f) = x.Seq
        <3>1. disk' \cup Extents' = (disk \cup Extents) \cup {e}
            BY <1>3, <1>5
        <3> QED
            BY <1>1, <1>3, <3>1 DEF OrderInv, Ordered, Holds, Pos, Covers, Wr, Mem
    <2>2. /\ Ordered(disk \cup Extents)
          /\ \A d \in log : Holds(disk \cup Extents, d[1], d[2])
        BY <1>2, <2>1 DEF OrderInv
    <2>3. Ordered((disk \cup Extents) \cup {e})
        <3>1. \A f \in disk \cup Extents : BufferedOK(f) \/ StoredOK(f)
            BY <1>2
        <3> QED
            BY <1>1, <1>2, <2>2, <3>1, OrderedAdd
    <2>4. ASSUME NEW d \in log'
          PROVE  Holds((disk \cup Extents) \cup {e}, d[1], d[2])
        <3>1. CASE d \in log
            BY <2>2, <3>1 DEF Holds
        <3>2. CASE d[1] = seq + 1 /\ Covers(e, d[2])
            <4>1. seq + 1 >= seq + 1
                BY SMTT(30), <1>2
            <4> QED
                BY <1>1, <3>2, <4>1 DEF Holds
        <3> QED
            BY <1>1, <3>1, <3>2
    <2> QED
        BY <1>2, <2>1, <2>3, <2>4 DEF OrderInv
<1>8. ReadInv'
    BY <1>2, <1>3, <1>4, ReadGrows
<1>9. FreshInv'
    <2>1. SUFFICES ASSUME ~rd.split, ~overtaken, rd.pc = "mem"
                   PROVE  /\ Ordered((rd.frags \cup Extents) \cup {e})
                          /\ \A pos \in Pos : \/ rd.floor[pos] = 0
                                              \/ Holds((rd.frags \cup Extents) \cup {e}, rd.floor[pos], pos)
        <3>1. rd.frags \cup Extents' = (rd.frags \cup Extents) \cup {e}
            BY <1>5
        <3> QED
            BY <1>2, <1>3, <3>1 DEF FreshInv, Ordered, Holds, Pos, Covers, Wr, Mem, Source
    <2>2. /\ Ordered(rd.frags \cup Extents)
          /\ \A pos \in Pos : rd.floor[pos] = 0 \/ Holds(rd.frags \cup Extents, rd.floor[pos], pos)
        BY <1>2, <2>1 DEF FreshInv
    <2>3. \A f \in rd.frags \cup Extents : BufferedOK(f) \/ StoredOK(f)
        BY <1>2 DEF ReadInv
    <2>4. Ordered((rd.frags \cup Extents) \cup {e})
        BY <1>1, <1>2, <2>2, <2>3, OrderedAdd
    <2>5. \A pos \in Pos : \/ rd.floor[pos] = 0
                           \/ Holds((rd.frags \cup Extents) \cup {e}, rd.floor[pos], pos)
        BY <2>2 DEF Holds
    <2> QED
        BY <2>4, <2>5
<1> QED
    BY <1>6, <1>7, <1>8, <1>9 DEF ReadPathInv

-----------------------------------------------------------------------------
(* Flushes *)

\* A step that leaves the buffer and the read alone leaves the read fresh.
LEMMA FreshSame ==
    ASSUME FreshInv, rd' = rd, overtaken' = overtaken, Extents' = Extents
    PROVE  FreshInv'
BY DEF FreshInv, Ordered, Holds, Pos, Covers, Wr, Mem, Source

\* A swap moves extents within the buffer.
LEMMA FlushSwapStep ==
    ASSUME SetLaws, ReadPathInv, FlushSwap
    PROVE  ReadPathInv'
<1>1. DataInv /\ OrderInv /\ ReadInv /\ FreshInv
    BY DEF ReadPathInv
<1>2. /\ flusher = "idle" /\ current # {} /\ flusher' = "swapped" /\ flushing' = current
      /\ current' = {} /\ seq' = seq /\ disk' = disk /\ log' = log /\ rd' = rd
      /\ overtaken' = overtaken /\ flushing = {}
    BY <1>1 DEF FlushSwap, DataInv
<1>3. Extents' = Extents
    BY <1>2 DEF Extents
<1>4. seq \in Nat /\ seq' \in Nat /\ seq <= seq' /\ log \subseteq log'
    BY SMTT(30), <1>1, <1>2 DEF DataInv
<1>5. DataInv'
    <2>1. (\A f \in Extents' : BufferedOK(f)') /\ \A f \in disk' : StoredOK(f)'
        BY <1>1, <1>2, <1>3, <1>4, GrowOK DEF DataInv
    <2>2. IsFiniteSet(current') /\ IsFiniteSet(flushing') /\ IsFiniteSet(disk')
        BY <1>1, <1>2 DEF DataInv, SetLaws, EmptyLaw
    <2>3. flusher' \in {"idle", "swapped", "committed"} /\ (flusher' = "idle" <=> flushing' = {})
        BY <1>2
    <2> QED
        BY <1>1, <1>2, <1>4, <2>1, <2>2, <2>3 DEF DataInv, Pos
<1>6. OrderInv'
    <2>1. flusher' # "committed"
        BY <1>2
    <2> QED
        BY <1>1, <1>2, <1>3, <2>1 DEF OrderInv, Ordered, Holds, Pos, Covers, Wr, Mem
<1>7. ReadInv' /\ FreshInv'
    BY <1>1, <1>2, <1>3, <1>4, ReadGrows, FreshSame
<1> QED
    BY <1>5, <1>6, <1>7 DEF ReadPathInv

\* The fragment a buffered extent is committed as.
Stored(e) == Fragment(e.Seq, e.LogicalOff, e.Length, Hot, 1, Home(e.Seq, e.LogicalOff))

\* It has the seq, the range and the write of the extent.
LEMMA StoredFacts ==
    ASSUME NEW e, BufferedOK(e)
    PROVE  /\ StoredOK(Stored(e)) /\ Stored(e).Seq = e.Seq /\ Wr(Stored(e)) = e.Seq
           /\ Stored(e).LogicalOff = e.LogicalOff /\ Stored(e).Length = e.Length
           /\ Wr(e) = e.Seq
           /\ \A pos : Covers(Stored(e), pos) <=> Covers(e, pos)
<1>1. PICK f : f = Stored(e)
    OBVIOUS
<1>2. /\ f.Seq = e.Seq /\ f.LogicalOff = e.LogicalOff /\ f.Length = e.Length /\ f.Tier = 1
      /\ f.SegmentOffset = 100 * e.Seq + e.LogicalOff
    BY <1>1 DEF Stored, Fragment, Hot, Home
<1>3. /\ e.Seq \in Nat /\ e.LogicalOff \in Nat /\ e.Length \in Nat /\ e.Seq <= seq
      /\ FEnd(e) <= MaxPos /\ e.Tier = Mem
      /\ \A pos \in Pos : Covers(e, pos) => <<e.Seq, pos>> \in log
    BY DEF BufferedOK, Frag
<1>4. f \in Frag
    BY SMTT(30), <1>1, <1>3 DEF Stored, Fragment, Hot, Home, Frag
<1>5. f.Tier # Mem
    BY SMTT(30), <1>2 DEF Mem
<1>6. Wr(f) = e.Seq
    <2>1. f.SegmentOffset - f.LogicalOff = 100 * e.Seq
        BY SMTT(30), <1>2, <1>3
    <2>2. (100 * e.Seq) \div 100 = e.Seq
        BY SMTT(30), <1>3
    <2> QED
        BY <1>5, <2>1, <2>2 DEF Wr
<1>7. f.SegmentOffset - f.LogicalOff = 100 * Wr(f)
    BY SMTT(30), <1>2, <1>3, <1>6
<1>8. Wr(e) = e.Seq
    BY <1>3 DEF Wr
<1>9. \A pos : Covers(f, pos) <=> Covers(e, pos)
    BY <1>2 DEF Covers
<1>10. StoredOK(f)
    <2>1. f.Seq <= seq /\ FEnd(f) <= MaxPos
        BY <1>2, <1>3 DEF FEnd
    <2>2. \A pos \in Pos : Covers(f, pos) => <<Wr(f), pos>> \in log
        BY <1>3, <1>6, <1>9
    <2> QED
        BY <1>3, <1>4, <1>5, <1>6, <1>7, <2>1, <2>2 DEF StoredOK
<1> QED
    BY <1>1, <1>2, <1>6, <1>8, <1>9, <1>10

\* A commit adds fragments that say what their extents say.
LEMMA FlushCommitStep ==
    ASSUME SetLaws, ReadPathInv, FlushCommit
    PROVE  ReadPathInv'
<1>1. DataInv /\ OrderInv /\ ReadInv /\ FreshInv
    BY DEF ReadPathInv
<1>2. /\ flusher = "swapped" /\ flusher' = "committed" /\ flushing' = flushing
      /\ current' = current /\ seq' = seq /\ log' = log /\ rd' = rd /\ overtaken' = overtaken
      /\ disk' = disk \cup {Stored(e) : e \in flushing}
    BY DEF FlushCommit, Stored
<1>3. Extents' = Extents
    BY <1>2 DEF Extents
<1>4. seq \in Nat /\ seq' \in Nat /\ seq <= seq' /\ log \subseteq log'
    BY SMTT(30), <1>1, <1>2 DEF DataInv
<1>5. ASSUME NEW e \in flushing
      PROVE  /\ e \in Extents /\ BufferedOK(e)
             /\ StoredOK(Stored(e)) /\ Stored(e).Seq = e.Seq /\ Wr(Stored(e)) = e.Seq
             /\ Stored(e).LogicalOff = e.LogicalOff /\ Stored(e).Length = e.Length
             /\ Wr(e) = e.Seq
             /\ \A pos : Covers(Stored(e), pos) <=> Covers(e, pos)
             /\ Stored(e) \in disk'
    <2>1. e \in Extents
        BY DEF Extents
    <2>2. BufferedOK(e)
        BY <1>1, <2>1 DEF DataInv
    <2> QED
        BY <1>2, <2>1, <2>2, StoredFacts
<1>6. \A f \in disk' : f \in disk \/ \E e \in flushing : f = Stored(e)
    BY <1>2
<1>7. DataInv'
    <2>1. \A f \in disk' : StoredOK(f)
        BY <1>1, <1>5, <1>6 DEF DataInv
    <2>2. (\A f \in Extents' : BufferedOK(f)') /\ \A f \in disk' : StoredOK(f)'
        BY <1>1, <1>3, <1>4, <2>1, GrowOK DEF DataInv
    <2>3. IsFiniteSet(disk')
        <3> DEFINE g == [e \in flushing |-> Stored(e)]
        <3>1. IsFiniteSet({g[e] : e \in flushing})
            <4>1. IsFiniteSet(flushing)
                BY <1>1 DEF DataInv
            <4> HIDE DEF g
            <4> QED
                BY <4>1, FiniteValues
        <3>2. {g[e] : e \in flushing} = {Stored(e) : e \in flushing}
            OBVIOUS
        <3>3. IsFiniteSet(disk \cup {g[e] : e \in flushing})
            <4>1. IsFiniteSet(disk)
                BY <1>1 DEF DataInv
            <4> HIDE DEF g
            <4> QED
                BY <3>1, <4>1 DEF SetLaws, UnionLaw
        <3> HIDE DEF g
        <3> QED
            BY <1>2, <3>2, <3>3
    <2>4. flusher' \in {"idle", "swapped", "committed"} /\ (flusher' = "idle" <=> flushing' = {})
        BY <1>1, <1>2 DEF DataInv
    <2> QED
        BY <1>1, <1>2, <1>4, <2>2, <2>3, <2>4 DEF DataInv, Pos
<1>8. OrderInv'
    <2>1. SUFFICES ASSUME ~overtaken
                   PROVE  /\ Ordered(disk' \cup Extents)
                          /\ \A d \in log : Holds(disk' \cup Extents, d[1], d[2])
        <3>1. \A e \in flushing : \E f \in disk' :
                  f.LogicalOff = e.LogicalOff /\ f.Length = e.Length /\ Wr(f) = e.Seq
            BY <1>5
        <3> QED
            BY <1>2, <1>3, <3>1 DEF OrderInv, Ordered, Holds, Pos, Covers, Wr, Mem
    <2>2. Ordered(disk \cup Extents) /\ \A d \in log : Holds(disk \cup Extents, d[1], d[2])
        BY <1>1, <2>1 DEF OrderInv
    <2>3. \A f \in disk' \cup Extents : \E h \in disk \cup Extents :
              /\ h.Seq = f.Seq /\ Wr(h) = Wr(f) /\ \A pos : Covers(f, pos) <=> Covers(h, pos)
        <3>1. ASSUME NEW e \in flushing
              PROVE  \E h \in disk \cup Extents :
                        /\ h.Seq = Stored(e).Seq /\ Wr(h) = Wr(Stored(e))
                        /\ \A pos : Covers(Stored(e), pos) <=> Covers(h, pos)
            <4>1. /\ e \in disk \cup Extents /\ e.Seq = Stored(e).Seq /\ Wr(e) = Wr(Stored(e))
                  /\ \A pos : Covers(Stored(e), pos) <=> Covers(e, pos)
                BY <1>5
            <4> QED
                BY <4>1
        <3>2. ASSUME NEW f \in disk \cup Extents
              PROVE  \E h \in disk \cup Extents :
                        /\ h.Seq = f.Seq /\ Wr(h) = Wr(f)
                        /\ \A pos : Covers(f, pos) <=> Covers(h, pos)
            OBVIOUS
        <3>3. ASSUME NEW f \in disk', f \notin disk
              PROVE  \E h \in disk \cup Extents :
                        /\ h.Seq = f.Seq /\ Wr(h) = Wr(f)
                        /\ \A pos : Covers(f, pos) <=> Covers(h, pos)
            <4>1. PICK e \in flushing : f = Stored(e)
                BY <1>6, <3>3
            <4> QED
                BY <3>1, <4>1
        <3> QED
            BY <3>2, <3>3
    <2>4. ASSUME NEW f \in disk' \cup Extents, NEW g \in disk' \cup Extents, NEW pos \in Pos,
                 Covers(f, pos), Covers(g, pos), f.Seq >= g.Seq
          PROVE  Wr(f) >= Wr(g)
        <3>1. PICK h \in disk \cup Extents :
                  h.Seq = f.Seq /\ Wr(h) = Wr(f) /\ (Covers(f, pos) <=> Covers(h, pos))
            BY <2>3
        <3>2. PICK k \in disk \cup Extents :
                  k.Seq = g.Seq /\ Wr(k) = Wr(g) /\ (Covers(g, pos) <=> Covers(k, pos))
            BY <2>3
        <3>3. Wr(h) >= Wr(k)
            BY <2>2, <2>4, <3>1, <3>2 DEF Ordered
        <3> QED
            BY <3>1, <3>2, <3>3
    <2>5. \A d \in log : Holds(disk' \cup Extents, d[1], d[2])
        <3>1. disk \subseteq disk'
            BY <1>2
        <3> QED
            BY <2>2, <3>1 DEF Holds
    <2> QED
        BY <2>4, <2>5 DEF Ordered
<1>9. ReadInv' /\ FreshInv'
    BY <1>1, <1>2, <1>3, <1>4, ReadGrows, FreshSame
<1> QED
    BY <1>7, <1>8, <1>9 DEF ReadPathInv

\* A settle takes away extents whose fragments are in the index.
LEMMA FlushSettleStep ==
    ASSUME SetLaws, ReadPathInv, FlushSettle
    PROVE  ReadPathInv'
<1>1. DataInv /\ OrderInv /\ ReadInv /\ FreshInv
    BY DEF ReadPathInv
<1>2. /\ flusher = "committed" /\ flusher' = "idle" /\ flushing' = {}
      /\ current' = current /\ seq' = seq /\ log' = log /\ disk' = disk
      /\ overtaken' = overtaken /\ rd' = [rd EXCEPT !.split = @ \/ rd.pc = "mem"]
    BY DEF FlushSettle
<1>3. Extents' = current /\ Extents = current \cup flushing
    BY <1>2 DEF Extents
<1>4. seq \in Nat /\ seq' \in Nat /\ seq <= seq' /\ log \subseteq log'
    BY SMTT(30), <1>1, <1>2 DEF DataInv
<1>5. DataInv'
    <2>1. (\A f \in Extents' : BufferedOK(f)') /\ \A f \in disk' : StoredOK(f)'
        BY <1>1, <1>2, <1>3, <1>4, GrowOK DEF DataInv
    <2>2. IsFiniteSet(current') /\ IsFiniteSet(flushing') /\ IsFiniteSet(disk')
        BY <1>1, <1>2 DEF DataInv, SetLaws, EmptyLaw
    <2>3. flusher' \in {"idle", "swapped", "committed"} /\ (flusher' = "idle" <=> flushing' = {})
        BY <1>2
    <2> QED
        BY <1>1, <1>2, <1>4, <2>1, <2>2, <2>3 DEF DataInv, Pos
<1>6. OrderInv'
    <2>1. SUFFICES ASSUME ~overtaken
                   PROVE  /\ Ordered(disk \cup current)
                          /\ \A d \in log : Holds(disk \cup current, d[1], d[2])
        <3>1. flusher' # "committed"
            BY <1>2
        <3> QED
            BY <1>2, <1>3, <3>1 DEF OrderInv, Ordered, Holds, Pos, Covers, Wr, Mem
    <2>2. /\ Ordered(disk \cup Extents)
          /\ \A d \in log : Holds(disk \cup Extents, d[1], d[2])
          /\ \A e \in flushing : \E f \in disk :
                f.LogicalOff = e.LogicalOff /\ f.Length = e.Length /\ Wr(f) = e.Seq
        BY <1>1, <1>2, <2>1 DEF OrderInv
    <2>3. Ordered(disk \cup current)
        BY <1>3, <2>2 DEF Ordered
    <2>4. ASSUME NEW d \in log
          PROVE  Holds(disk \cup current, d[1], d[2])
        <3>1. PICK f \in disk \cup Extents : Covers(f, d[2]) /\ Wr(f) >= d[1]
            BY <2>2 DEF Holds
        <3>2. CASE f \in disk \cup current
            BY <3>1, <3>2 DEF Holds
        <3>3. CASE f \in flushing
            <4>1. PICK h \in disk :
                      h.LogicalOff = f.LogicalOff /\ h.Length = f.Length /\ Wr(h) = f.Seq
                BY <2>2, <3>3
            <4>2. BufferedOK(f)
                BY <1>1, <1>3, <3>3 DEF DataInv
            <4>3. Wr(f) = f.Seq
                BY <4>2 DEF BufferedOK, Wr
            <4>4. Covers(h, d[2])
                BY <3>1, <4>1 DEF Covers
            <4> QED
                BY <3>1, <4>1, <4>3, <4>4 DEF Holds
        <3> QED
            BY <1>3, <3>1, <3>2, <3>3
    <2> QED
        BY <2>3, <2>4
<1>7. /\ rd'.pc = rd.pc /\ rd'.off = rd.off /\ rd'.len = rd.len /\ rd'.floor = rd.floor
      /\ rd'.frags = rd.frags /\ rd'.plan = rd.plan /\ rd'.got = rd.got /\ rd'.err = rd.err
      /\ rd'.split = (rd.split \/ rd.pc = "mem") /\ rd' \in ReadType
    BY <1>1, <1>2 DEF ReadInv, ReadType
<1>8. ReadInv'
    <2>1. (\A f \in rd.frags : StoredOK(f)') /\ \A s \in rd.plan : SliceOK(s)'
        BY <1>1, <1>4, GrowOK DEF ReadInv
    <2>2. rd' \in ReadType'
        BY <1>7 DEF ReadType, Pos
    <2>3. log' = log
        BY <1>2
    <2>4. /\ rd'.pc # "idle" =>
                /\ rd'.len > 0 /\ rd'.off + rd'.len <= MaxPos /\ rd'.floor \in [Pos -> Nat]
                /\ \A pos \in Pos : rd'.floor[pos] = 0 \/ <<rd'.floor[pos], pos>> \in log'
          /\ rd'.pc = "idle" => rd'.got = {} /\ rd'.plan = {}
          /\ IsFiniteSet(rd'.frags) /\ IsFiniteSet(rd'.plan)
          /\ rd'.pc = "copy" => rd'.plan # {}
          /\ \A g \in rd'.got : g[1] = 0 \/ g \in log'
        BY <1>1, <1>7, <2>3 DEF ReadInv
    <2> QED
        BY <1>7, <2>1, <2>2, <2>4 DEF ReadInv, Pos
<1>9. FreshInv'
    <2>1. /\ ~rd'.split => ~rd.split /\ rd.pc # "mem"
        BY <1>7
    <2> QED
        BY <1>1, <1>2, <1>7, <2>1 DEF FreshInv, Pos, Covers, Source, Mem
<1> QED
    BY <1>5, <1>6, <1>8, <1>9 DEF ReadPathInv

-----------------------------------------------------------------------------
(* Moves *)

\* The fragment m is what a move makes of the piece o of the fragment f.
MovedFrom(m, o, f) ==
    /\ Piece(o, f)
    /\ m.LogicalOff = o.LogicalOff /\ m.Length = o.Length /\ Wr(m) = Wr(f)

\* What a move writes.
LEMMA MoveFacts ==
    ASSUME SetLaws, DataInv, Move
    PROVE  /\ seq' \in Nat /\ seq <= seq' /\ IsFiniteSet(disk')
           /\ \A m \in disk' :
                 /\ m \in Frag /\ m.Tier # Mem /\ m.Seq <= seq'
                 /\ \E o \in canonicalView(disk) :
                       /\ o \in Frag /\ m.LogicalOff = o.LogicalOff /\ m.Length = o.Length
                       /\ m.SegmentOffset = o.SegmentOffset
           /\ \A o \in canonicalView(disk) : \E m \in disk' :
                 /\ m.Tier # Mem /\ m.LogicalOff = o.LogicalOff /\ m.Length = o.Length
                 /\ m.SegmentOffset = o.SegmentOffset
<1>1. PICK V : V = canonicalView(disk)
    OBVIOUS
<1>2. IsFiniteSet(disk) /\ disk \subseteq Frag /\ disk # {} /\ seq \in Nat
    BY DEF DataInv, StoredOK, Move
<1>3. IsFiniteSet(V) /\ V \subseteq Frag
    BY <1>1, <1>2, ViewFacts DEF Piece
<1>4. PICK list : list = ByOffset(V)
    OBVIOUS
<1>5. list \in Seq(V) /\ \A x : x \in V <=> \E i \in 1 .. Len(list) : list[i] = x
    <2>1. \A f \in V : f.LogicalOff \in Int
        BY SMTT(30), <1>3 DEF Frag
    <2>2. /\ ByOffset(V) \in Seq(V)
          /\ \A x : x \in V <=> \E i \in 1 .. Len(ByOffset(V)) : ByOffset(V)[i] = x
        BY <1>3, <2>1, SortFacts
    <2> QED
        BY <1>4, <2>2
<1>6. DOMAIN list = 1 .. Len(list) /\ Len(list) \in Nat
    BY SMTT(30), <1>5
<1> DEFINE new == [k \in 1 .. Len(list) |-> [list[k] EXCEPT !.Seq = seq + k, !.Tier = Cold]]
<1>7. seq' = seq + Len(list) /\ disk' = {new[k] : k \in 1 .. Len(list)}
    <2>1. /\ seq' = seq + Len(list)
          /\ disk' = {[list[k] EXCEPT !.Seq = seq + k, !.Tier = Cold] : k \in DOMAIN list}
        BY <1>1, <1>4 DEF Move, ByOffset
    <2>2. {new[k] : k \in 1 .. Len(list)}
              = {[list[k] EXCEPT !.Seq = seq + k, !.Tier = Cold] : k \in 1 .. Len(list)}
        OBVIOUS
    <2> HIDE DEF new
    <2> QED
        BY <1>6, <2>1, <2>2
<1>n. seq' = seq + Len(list)
    BY <1>7
<1>8. ASSUME NEW k \in 1 .. Len(list)
      PROVE  /\ list[k] \in V /\ list[k] \in Frag /\ new[k] \in Frag /\ new[k].Tier # Mem
             /\ new[k].Seq <= seq' /\ new[k].LogicalOff = list[k].LogicalOff
             /\ new[k].Length = list[k].Length /\ new[k].SegmentOffset = list[k].SegmentOffset
             /\ new[k] \in disk'
    <2>1. list[k] \in V /\ list[k] \in Frag
        BY <1>3, <1>5
    <2>2. new[k] \in disk'
        <3> HIDE DEF new
        <3> QED
            BY <1>7
    <2>3. PICK o : o = list[k]
        OBVIOUS
    <2>4. new[k] = [o EXCEPT !.Seq = seq + k, !.Tier = Cold]
        BY <2>3
    <2>5. seq + k \in Nat /\ seq + k <= seq'
        BY SMTT(30), <1>2, <1>6, <1>n
    <2> HIDE DEF new
    <2>6. /\ new[k] \in Frag /\ new[k].Seq = seq + k /\ new[k].Tier = Cold
          /\ new[k].LogicalOff = o.LogicalOff /\ new[k].Length = o.Length
          /\ new[k].SegmentOffset = o.SegmentOffset
        <3>1. PICK q \in Nat : q = seq + k
            BY <2>5
        <3>m. PICK m : m = new[k]
            OBVIOUS
        <3>2. m = [o EXCEPT !.Seq = q, !.Tier = 2] /\ o \in Frag
            BY <2>1, <2>3, <2>4, <3>1, <3>m DEF Cold
        <3>3. /\ m \in Frag /\ m.Seq = q /\ m.Tier = 2 /\ m.LogicalOff = o.LogicalOff
              /\ m.Length = o.Length /\ m.SegmentOffset = o.SegmentOffset
            BY <3>2 DEF Frag
        <3> QED
            BY <3>1, <3>m, <3>3 DEF Cold
    <2> QED
        BY SMTT(30), <2>1, <2>2, <2>3, <2>5, <2>6 DEF Cold, Mem
<1>9. IsFiniteSet(disk')
    <2>1. IsFiniteSet(1 .. Len(list))
        BY SMTT(30), <1>6 DEF SetLaws, IntervalLaw
    <2> HIDE DEF new
    <2>2. IsFiniteSet({new[k] : k \in 1 .. Len(list)})
        BY <2>1, FiniteValues
    <2> QED
        BY <1>7, <2>2
<1>10. seq' \in Nat /\ seq <= seq'
    BY SMTT(30), <1>2, <1>6, <1>n
<1> HIDE DEF new
<1>11. ASSUME NEW m \in disk'
       PROVE  /\ m \in Frag /\ m.Tier # Mem /\ m.Seq <= seq'
              /\ \E o \in V : /\ o \in Frag /\ m.LogicalOff = o.LogicalOff /\ m.Length = o.Length
                              /\ m.SegmentOffset = o.SegmentOffset
    <2>1. PICK k \in 1 .. Len(list) : m = new[k]
        BY <1>7
    <2> QED
        BY <1>8, <2>1
<1>12. ASSUME NEW o \in V
       PROVE  \E m \in disk' : /\ m.Tier # Mem /\ m.LogicalOff = o.LogicalOff
                               /\ m.Length = o.Length /\ m.SegmentOffset = o.SegmentOffset
    <2>1. PICK k \in 1 .. Len(list) : list[k] = o
        BY <1>5
    <2> QED
        BY <1>8, <2>1
<1> QED
    BY <1>1, <1>9, <1>10, <1>11, <1>12

\* A fragment with the range and the locator of a piece has its write.
LEMMA SameWrite ==
    ASSUME NEW f, StoredOK(f), NEW o, Piece(o, f), NEW m, m.Tier # Mem,
           m.LogicalOff = o.LogicalOff, m.Length = o.Length, m.SegmentOffset = o.SegmentOffset
    PROVE  MovedFrom(m, o, f)
<1>1. m.SegmentOffset - m.LogicalOff = f.SegmentOffset - f.LogicalOff
    BY DEF Piece
<1> QED
    BY <1>1 DEF MovedFrom, Wr, StoredOK

\* A piece covers only what its fragment covers.
LEMMA PieceCovers ==
    ASSUME NEW f \in Frag, NEW o, Piece(o, f), NEW m, m.LogicalOff = o.LogicalOff,
           m.Length = o.Length
    PROVE  /\ FEnd(m) <= FEnd(f)
           /\ \A pos \in Int : Covers(m, pos) <=> Covers(o, pos)
           /\ \A pos \in Int : Covers(o, pos) => Covers(f, pos)
<1>1. \A pos \in Int : Covers(m, pos) <=> Covers(o, pos)
    BY DEF Covers
<1>2. \A pos \in Int : Covers(o, pos) => Covers(f, pos)
    BY SMTT(30) DEF Covers, Piece, Frag, FEnd
<1>3. FEnd(m) <= FEnd(f)
    BY DEF Piece, FEnd
<1> QED
    BY <1>1, <1>2, <1>3

\* A move keeps the newest write of every position, and whatever order there
\* was while nothing was buffered.
LEMMA MoveStep ==
    ASSUME SetLaws, ReadPathInv, Move
    PROVE  ReadPathInv'
<1>1. DataInv /\ OrderInv /\ ReadInv /\ FreshInv
    BY DEF ReadPathInv
<1>2. /\ disk # {} /\ overtaken' = (overtaken \/ Extents # {}) /\ current' = current
      /\ flushing' = flushing /\ flusher' = flusher /\ log' = log /\ rd' = rd
    BY DEF Move
<1>3. Extents' = Extents
    BY <1>2 DEF Extents
<1>4. seq \in Nat /\ seq' \in Nat /\ seq <= seq' /\ log \subseteq log' /\ IsFiniteSet(disk')
    BY <1>1, <1>2, MoveFacts DEF DataInv
<1>5. /\ IsFiniteSet(disk) /\ disk \subseteq Frag
      /\ \A f \in disk : StoredOK(f)
    BY <1>1 DEF DataInv, StoredOK
<1>6. Pos \subseteq Int
    BY SMTT(30) DEF Pos
<1>7. ASSUME NEW m \in disk'
      PROVE  /\ m \in Frag /\ m.Tier # Mem /\ m.Seq <= seq'
             /\ \E o \in canonicalView(disk), f \in disk : MovedFrom(m, o, f) /\ FEnd(m) <= FEnd(f)
                   /\ m.SegmentOffset = o.SegmentOffset
                   /\ \A pos \in Pos : Covers(m, pos) => Covers(o, pos) /\ Covers(f, pos)
    <2>1. /\ m \in Frag /\ m.Tier # Mem /\ m.Seq <= seq'
          /\ \E o \in canonicalView(disk) :
                /\ o \in Frag /\ m.LogicalOff = o.LogicalOff /\ m.Length = o.Length
                /\ m.SegmentOffset = o.SegmentOffset
        BY <1>1, MoveFacts
    <2>2. PICK o \in canonicalView(disk) :
              /\ m.LogicalOff = o.LogicalOff /\ m.Length = o.Length
              /\ m.SegmentOffset = o.SegmentOffset
        BY <2>1
    <2>3. PICK f \in disk : Piece(o, f)
        BY <1>2, <1>5, ViewFacts
    <2>4. MovedFrom(m, o, f)
        BY <1>5, <2>1, <2>2, <2>3, SameWrite
    <2>5. /\ FEnd(m) <= FEnd(f)
          /\ \A pos \in Pos : Covers(m, pos) => Covers(o, pos) /\ Covers(f, pos)
        BY <1>5, <1>6, <2>2, <2>3, PieceCovers
    <2> QED
        BY <2>1, <2>2, <2>4, <2>5
<1>8. ASSUME NEW m \in disk'
      PROVE  StoredOK(m)'
    <2>1. m \in Frag /\ m.Tier # Mem /\ m.Seq <= seq'
        BY <1>7
    <2>2. PICK o \in canonicalView(disk), f \in disk :
              /\ MovedFrom(m, o, f) /\ FEnd(m) <= FEnd(f) /\ m.SegmentOffset = o.SegmentOffset
              /\ \A pos \in Pos : Covers(m, pos) => Covers(f, pos)
        BY <1>7
    <2>3. /\ f \in Frag /\ FEnd(f) <= MaxPos /\ Wr(f) \in Nat
          /\ f.SegmentOffset - f.LogicalOff = 100 * Wr(f)
          /\ \A pos \in Pos : Covers(f, pos) => <<Wr(f), pos>> \in log
        BY <1>5 DEF StoredOK
    <2>4. FEnd(m) <= MaxPos
        <3>1. FEnd(m) \in Nat /\ FEnd(f) \in Nat
            BY SMTT(30), <2>1, <2>3 DEF Frag, FEnd
        <3>2. MaxPos \in Nat
            BY ReadPathAssumption DEF ReadPathAssumption
        <3> QED
            BY SMTT(30), <2>2, <2>3, <3>1, <3>2
    <2>5. Wr(m) = Wr(f) /\ m.SegmentOffset - m.LogicalOff = 100 * Wr(m)
        BY <2>2, <2>3 DEF MovedFrom, Piece
    <2>6. \A pos \in Pos : Covers(m, pos) => <<Wr(m), pos>> \in log'
        BY <1>2, <2>2, <2>3, <2>5
    <2>7. Wr(m) \in Nat
        BY <2>3, <2>5
    <2> QED
        BY <2>1, <2>4, <2>5, <2>6, <2>7 DEF StoredOK, Pos, Covers, FEnd, Wr, Mem
<1>9. DataInv'
    <2>1. \A f \in Extents' : BufferedOK(f)'
        BY <1>1, <1>3, <1>4, GrowOK DEF DataInv
    <2>2. log' \subseteq (1 .. seq') \X Pos
        <3>1. log \subseteq (1 .. seq) \X Pos
            BY <1>1 DEF DataInv
        <3>2. 1 .. seq \subseteq 1 .. seq'
            BY SMTT(30), <1>4
        <3> QED
            BY <1>2, <3>1, <3>2
    <2> QED
        BY <1>1, <1>2, <1>4, <1>8, <2>1, <2>2 DEF DataInv, Pos
<1>10. OrderInv'
    <2>1. CASE overtaken \/ Extents # {}
        BY <1>2, <2>1 DEF OrderInv
    <2>2. CASE ~overtaken /\ Extents = {}
        <3>1. disk \cup Extents = disk /\ disk' \cup Extents' = disk' /\ flushing' = {}
            BY <1>2, <1>3, <2>2 DEF Extents
        <3>2. Ordered(disk) /\ \A d \in log : Holds(disk, d[1], d[2])
            BY <1>1, <2>2, <3>1 DEF OrderInv
        <3>3. ASSUME NEW m \in disk', NEW n \in disk', NEW pos \in Pos, Covers(m, pos),
                     Covers(n, pos)
              PROVE  Wr(m) >= Wr(n)
            <4>1. PICK o \in canonicalView(disk), f \in disk :
                      MovedFrom(m, o, f) /\ m.SegmentOffset = o.SegmentOffset /\ Covers(o, pos)
                BY <1>7, <3>3
            <4>2. PICK p \in canonicalView(disk), g \in disk :
                      MovedFrom(n, p, g) /\ n.SegmentOffset = p.SegmentOffset /\ Covers(p, pos)
                BY <1>7, <3>3
            <4>3. o = p
                BY <1>2, <1>5, <1>6, <4>1, <4>2, ViewFacts
            <4>4. m.LogicalOff = n.LogicalOff /\ m.SegmentOffset = n.SegmentOffset
                BY <4>1, <4>2, <4>3 DEF MovedFrom
            <4>5. Wr(m) = Wr(n)
                BY <1>7, <4>4 DEF Wr
            <4>6. Wr(m) \in Nat
                BY <1>5, <4>1 DEF MovedFrom, StoredOK
            <4> QED
                BY SMTT(30), <4>5, <4>6
        <3>4. ASSUME NEW d \in log
              PROVE  Holds(disk', d[1], d[2])
            <4>1. d[1] \in Nat /\ d[2] \in Pos
                BY SMTT(30), <1>1 DEF DataInv
            <4>2. PICK f \in disk : Covers(f, d[2]) /\ Wr(f) >= d[1]
                BY <3>2 DEF Holds
            <4>3. PICK o \in canonicalView(disk) : Covers(o, d[2])
                BY <1>2, <1>5, <1>6, <4>1, <4>2, ViewFacts
            <4>4. PICK g \in disk : Piece(o, g) /\ g.Seq >= f.Seq
                <5>1. PICK g \in disk : /\ Piece(o, g)
                                        /\ \A pos \in Int : Covers(o, pos) =>
                                              \A h \in disk : Covers(h, pos) => g.Seq >= h.Seq
                    BY <1>2, <1>5, ViewFacts
                <5> QED
                    BY <1>6, <4>1, <4>2, <4>3, <5>1
            <4>5. PICK m \in disk' :
                      /\ m.Tier # Mem /\ m.LogicalOff = o.LogicalOff /\ m.Length = o.Length
                      /\ m.SegmentOffset = o.SegmentOffset
                BY <1>1, MoveFacts
            <4>6. Covers(m, d[2]) /\ Covers(g, d[2])
                <5>1. /\ \A pos \in Int : Covers(m, pos) <=> Covers(o, pos)
                      /\ \A pos \in Int : Covers(o, pos) => Covers(g, pos)
                    BY <1>5, <4>4, <4>5, PieceCovers
                <5>2. d[2] \in Int
                    BY <1>6, <4>1
                <5> QED
                    BY <4>3, <5>1, <5>2
            <4>7. Wr(m) = Wr(g)
                BY <1>5, <4>4, <4>5, SameWrite DEF MovedFrom
            <4>8. Wr(g) >= Wr(f)
                BY <3>2, <4>1, <4>2, <4>4, <4>6 DEF Ordered
            <4>9. Wr(m) >= d[1]
                <5>1. Wr(f) \in Nat /\ Wr(g) \in Nat
                    BY <1>5 DEF StoredOK
                <5> QED
                    BY SMTT(30), <4>1, <4>2, <4>7, <4>8, <5>1
            <4> QED
                BY <4>6, <4>9 DEF Holds
        <3>5. Ordered(disk')
            BY <3>3 DEF Ordered
        <3> QED
            BY <1>2, <3>1, <3>4, <3>5 DEF OrderInv, Ordered, Holds, Pos, Covers, Wr, Mem
    <2> QED
        BY <2>1, <2>2
<1>11. ReadInv'
    BY <1>1, <1>2, <1>4, ReadGrows
<1>12. FreshInv'
    <2>1. ~overtaken' => ~overtaken
        BY <1>2
    <2> QED
        BY <1>1, <1>2, <1>3, <2>1 DEF FreshInv, Ordered, Holds, Pos, Covers, Wr, Mem, Source
<1> QED
    BY <1>9, <1>10, <1>11, <1>12 DEF ReadPathInv

-----------------------------------------------------------------------------
(* Reads *)

\* A reader's step changes nothing but the read.
LEMMA StoreSame ==
    ASSUME DataInv, OrderInv, seq' = seq, current' = current, flushing' = flushing,
           flusher' = flusher, disk' = disk, log' = log, overtaken' = overtaken
    PROVE  DataInv' /\ OrderInv' /\ Extents' = Extents
<1>1. Extents' = Extents
    BY DEF Extents
<1>2. seq \in Nat /\ seq <= seq' /\ seq' \in Nat /\ log \subseteq log'
    BY SMTT(30) DEF DataInv
<1>3. (\A f \in Extents' : BufferedOK(f)') /\ \A f \in disk' : StoredOK(f)'
    BY <1>1, <1>2, GrowOK DEF DataInv
<1>4. DataInv'
    BY <1>3 DEF DataInv, Pos
<1>5. OrderInv'
    BY <1>1 DEF OrderInv, Ordered, Holds, Pos, Covers, Wr, Mem
<1> QED
    BY <1>1, <1>4, <1>5

\* What is true of fragments and slices stays true.
LEMMA SameOK ==
    ASSUME seq \in Nat, seq' = seq, log' = log, NEW f
    PROVE  (StoredOK(f) => StoredOK(f)') /\ (SliceOK(f) => SliceOK(f)')
<1>1. seq' \in Nat /\ seq <= seq' /\ log \subseteq log'
    BY SMTT(30)
<1> QED
    BY <1>1, GrowOK

\* A nonempty set of positions or of seqs that is bounded has a greatest.
LEMMA Greatest ==
    ASSUME SetLaws, NEW n \in Nat, NEW T, T \subseteq 0 .. n, T # {}
    PROVE  \E x \in T : \A y \in T : y <= x
<1> DEFINE w == [x \in 0 .. n |-> x]
<1>1. w \in [0 .. n -> Int] /\ IsFiniteSet(0 .. n)
    BY SMTT(30) DEF SetLaws, IntervalLaw
<1> HIDE DEF w
<1>2. PICK x \in T : \A y \in T : w[y] <= w[x]
    BY <1>1, Heaviest
<1>3. \A y \in T : w[y] = y
    BY DEF w
<1> QED
    BY <1>2, <1>3

\* The newest write to a position is one of the log.
LEMMA LatestFacts ==
    ASSUME SetLaws, DataInv, NEW pos \in Pos
    PROVE  /\ LatestWrite(pos) \in Nat
           /\ LatestWrite(pos) = 0 \/ <<LatestWrite(pos), pos>> \in log
<1> DEFINE ws == {e[1] : e \in {d \in log : d[2] = pos}}
<1>1. log \subseteq (1 .. seq) \X Pos /\ seq \in Nat
    BY DEF DataInv
<1>2. CASE ws = {}
    <2>1. LatestWrite(pos) = 0
        BY <1>2 DEF LatestWrite
    <2> QED
        BY SMTT(30), <2>1
<1>3. CASE ws # {}
    <2>1. ws \subseteq 0 .. seq
        BY SMTT(30), <1>1
    <2>2. PICK w : w = CHOOSE x \in ws : \A v \in ws : v <= x
        OBVIOUS
    <2>3. LatestWrite(pos) = w
        BY <1>3, <2>2 DEF LatestWrite
    <2>4. w \in ws
        <3>1. \E x \in ws : \A y \in ws : y <= x
            <4> HIDE DEF ws
            <4> QED
                BY <1>1, <1>3, <2>1, Greatest
        <3> QED
            BY <2>2, <3>1
    <2>5. PICK e \in log : e[1] = w /\ e[2] = pos
        BY <2>4
    <2>6. e = <<w, pos>>
        BY SMTT(30), <1>1, <2>5
    <2>7. w \in Nat
        BY SMTT(30), <2>1, <2>4
    <2> QED
        BY <2>3, <2>6, <2>7
<1> QED
    BY <1>2, <1>3

\* The size is at most the highest position and one.
LEMMA SizeFacts ==
    ASSUME SetLaws, DataInv, ReadPathAssumption
    PROVE  Size \in 0 .. MaxPos
<1> DEFINE T == {e[2] : e \in log}
<1>1. log \subseteq (1 .. seq) \X Pos /\ MaxPos \in Nat
    BY DEF DataInv, ReadPathAssumption
<1>2. CASE log = {}
    <2>1. Size = 0
        BY <1>2 DEF Size
    <2> QED
        BY SMTT(30), <1>1, <2>1
<1>3. CASE log # {}
    <2>1. T \subseteq Pos /\ T \subseteq 0 .. MaxPos /\ T # {}
        BY SMTT(30), <1>1, <1>3 DEF Pos
    <2>2. PICK m : m = CHOOSE x \in T : \A e \in log : e[2] <= x
        OBVIOUS
    <2>3. Size = 1 + m
        BY <1>3, <2>2 DEF Size
    <2>4. m \in T
        <3>1. PICK x \in T : \A y \in T : y <= x
            <4> HIDE DEF T
            <4> QED
                BY <1>1, <2>1, Greatest
        <3>2. \A e \in log : e[2] <= x
            BY <3>1
        <3> QED
            BY <2>2, <3>2
    <2>5. m \in Pos
        BY <2>1, <2>4
    <2> QED
        BY SMTT(30), <1>1, <2>3, <2>5 DEF Pos
<1> QED
    BY <1>2, <1>3

\* A call notes the writes it has to see; they are in the log.
LEMMA ReadCallStep ==
    ASSUME SetLaws, ReadPathAssumption, ReadPathInv, NEW off \in Pos, NEW len \in 1 .. MaxPos,
           ReadCall(off, len)
    PROVE  ReadPathInv'
<1>1. DataInv /\ OrderInv /\ ReadInv /\ FreshInv /\ seq \in Nat
    BY DEF ReadPathInv, DataInv
<1>2. /\ off < Size /\ seq' = seq /\ current' = current /\ flushing' = flushing
      /\ flusher' = flusher /\ disk' = disk /\ log' = log /\ overtaken' = overtaken
    BY DEF ReadCall
<1>3. DataInv' /\ OrderInv' /\ Extents' = Extents
    BY <1>1, <1>2, StoreSame
<1>4. PICK n, fl : n = Lower(len, Size - off) /\ fl = [pos \in Pos |-> LatestWrite(pos)]
    OBVIOUS
<1>5. n \in Nat /\ n > 0 /\ off + n <= MaxPos /\ off \in Nat /\ MaxPos \in Nat
    <2>1. Size \in 0 .. MaxPos
        BY <1>1, SizeFacts
    <2>2. MaxPos \in Nat /\ off \in Nat
        BY SMTT(30) DEF ReadPathAssumption, Pos
    <2> QED
        BY SMTT(30), <1>2, <1>4, <2>1, <2>2 DEF Lower
<1>6. fl \in [Pos -> Nat] /\ \A pos \in Pos : fl[pos] = 0 \/ <<fl[pos], pos>> \in log
    BY <1>1, <1>4, LatestFacts
<1>7. /\ rd'.pc = "disk" /\ rd'.off = off /\ rd'.len = n /\ rd'.floor = fl
      /\ rd'.frags = {} /\ rd'.plan = {} /\ rd'.got = {} /\ rd' \in ReadType
    <2>1. rd' = [IdleRead EXCEPT !.pc = "disk", !.off = off, !.len = n, !.floor = fl]
        BY <1>4 DEF ReadCall
    <2>2. rd' = [pc |-> "disk", off |-> off, len |-> n, floor |-> fl, frags |-> {},
                 plan |-> {}, got |-> {}, err |-> FALSE, split |-> FALSE]
        BY <2>1 DEF IdleRead
    <2> QED
        BY <1>5, <1>6, <2>2 DEF ReadType
<1>8. ReadInv'
    <2>1. rd' \in ReadType' /\ IsFiniteSet({})
        BY <1>7 DEF ReadType, Pos, SetLaws, EmptyLaw
    <2>2. rd'.pc # "idle" /\ rd'.pc # "copy"
        BY <1>7
    <2> QED
        BY <1>2, <1>5, <1>6, <1>7, <2>1, <2>2 DEF ReadInv, Pos
<1>9. FreshInv'
    <2>1. rd'.pc # "mem"
        BY <1>7
    <2> QED
        BY <1>7, <2>1 DEF FreshInv
<1> QED
    BY <1>3, <1>8, <1>9 DEF ReadPathInv

\* The index snapshot and the buffer have all that was written.
LEMMA ReadDiskStep ==
    ASSUME ReadPathInv, ReadDisk
    PROVE  ReadPathInv'
<1>1. DataInv /\ OrderInv /\ ReadInv /\ FreshInv /\ seq \in Nat
    BY DEF ReadPathInv, DataInv
<1>2. /\ rd.pc = "disk" /\ seq' = seq /\ current' = current /\ flushing' = flushing
      /\ flusher' = flusher /\ disk' = disk /\ log' = log /\ overtaken' = overtaken
    BY DEF ReadDisk
<1>3. DataInv' /\ OrderInv' /\ Extents' = Extents
    BY <1>1, <1>2, StoreSame
<1>4. disk \subseteq Frag /\ IsFiniteSet(disk) /\ \A f \in disk : StoredOK(f)
    BY <1>1 DEF DataInv, StoredOK
<1>5. /\ rd'.pc = "mem" /\ rd'.off = rd.off /\ rd'.len = rd.len /\ rd'.floor = rd.floor
      /\ rd'.frags = disk /\ rd'.plan = rd.plan /\ rd'.got = rd.got /\ rd'.split = rd.split
      /\ rd' \in ReadType
    <2>1. rd' = [rd EXCEPT !.pc = "mem", !.frags = disk] /\ rd \in ReadType
        BY <1>1 DEF ReadDisk, ReadInv
    <2> QED
        BY <1>4, <2>1 DEF ReadType
<1>6. /\ rd.len > 0 /\ rd.off + rd.len <= MaxPos /\ rd.floor \in [Pos -> Nat]
      /\ \A pos \in Pos : rd.floor[pos] = 0 \/ <<rd.floor[pos], pos>> \in log
    <2>1. rd.pc # "idle"
        BY <1>2
    <2> QED
        BY <1>1, <2>1 DEF ReadInv
<1>7. ReadInv'
    <2>1. rd' \in ReadType'
        BY <1>5 DEF ReadType, Pos
    <2>2. rd'.pc # "idle" /\ rd'.pc # "copy"
        BY <1>5
    <2>3. (\A f \in disk : StoredOK(f)') /\ \A s \in rd.plan : SliceOK(s)'
        BY <1>1, <1>2, <1>4, SameOK DEF ReadInv
    <2>4. IsFiniteSet(rd.plan) /\ \A g \in rd.got : g[1] = 0 \/ g \in log
        BY <1>1 DEF ReadInv
    <2> QED
        BY <1>2, <1>4, <1>5, <1>6, <2>1, <2>2, <2>3, <2>4 DEF ReadInv, Pos
<1>8. FreshInv'
    <2>1. ASSUME ~rd.split, ~overtaken
          PROVE  /\ Ordered(disk \cup Extents)
                 /\ \A pos \in Pos : \/ rd.floor[pos] = 0
                                     \/ Holds(disk \cup Extents, rd.floor[pos], pos)
        <3>1. Ordered(disk \cup Extents) /\ \A d \in log : Holds(disk \cup Extents, d[1], d[2])
            BY <1>1, <2>1 DEF OrderInv
        <3>2. ASSUME NEW pos \in Pos, <<rd.floor[pos], pos>> \in log
              PROVE  Holds(disk \cup Extents, rd.floor[pos], pos)
            <4>1. PICK d : d = <<rd.floor[pos], pos>>
                OBVIOUS
            <4>2. d[1] = rd.floor[pos] /\ d[2] = pos
                BY <4>1
            <4>3. Holds(disk \cup Extents, d[1], d[2])
                BY <3>1, <3>2, <4>1
            <4> QED
                BY <4>2, <4>3
        <3> QED
            BY <1>6, <3>1, <3>2
    <2>2. ~rd.split /\ ~overtaken =>
              /\ \A s \in rd.plan : \A pos \in Pos : Covers(s, pos) => Source(s) >= rd.floor[pos]
              /\ \A g \in rd.got : g[1] >= rd.floor[g[2]]
        BY <1>1 DEF FreshInv
    <2>3. rd'.frags \cup Extents' = disk \cup Extents /\ overtaken' = overtaken
        BY <1>2, <1>3, <1>5
    <2>4. ~rd'.split /\ ~overtaken' =>
              /\ Ordered(rd'.frags \cup Extents')
              /\ \A pos \in Pos : \/ rd'.floor[pos] = 0
                                  \/ Holds(rd'.frags \cup Extents', rd'.floor[pos], pos)
        BY <1>5, <2>1, <2>3
    <2>5. ~rd'.split /\ ~overtaken' =>
              /\ \A s \in rd'.plan : \A pos \in Pos : Covers(s, pos) => Source(s) >= rd'.floor[pos]
              /\ \A g \in rd'.got : g[1] >= rd'.floor[g[2]]
        BY <1>5, <2>2, <2>3
    <2> QED
        BY <2>4, <2>5 DEF FreshInv, Ordered, Holds, Pos, Covers, Wr, Mem, Source
<1> QED
    BY <1>3, <1>7, <1>8 DEF ReadPathInv

\* A read that returns leaves nothing behind.
LEMMA ReadReturnStep ==
    ASSUME SetLaws, ReadPathInv, ReadReturn
    PROVE  ReadPathInv'
<1>1. DataInv /\ OrderInv /\ ReadInv /\ FreshInv /\ seq \in Nat
    BY DEF ReadPathInv, DataInv
<1>2. /\ seq' = seq /\ current' = current /\ flushing' = flushing
      /\ flusher' = flusher /\ disk' = disk /\ log' = log /\ overtaken' = overtaken
    BY DEF ReadReturn
<1>3. DataInv' /\ OrderInv' /\ Extents' = Extents
    BY <1>1, <1>2, StoreSame
<1>4. /\ rd'.pc = "idle" /\ rd'.frags = {} /\ rd'.plan = {} /\ rd'.got = {}
      /\ rd' \in ReadType
    <2>1. rd' = IdleRead
        BY DEF ReadReturn
    <2> QED
        BY <2>1 DEF ReadType, IdleRead
<1>5. ReadInv'
    <2>1. rd' \in ReadType' /\ IsFiniteSet({})
        BY <1>4 DEF ReadType, Pos, SetLaws, EmptyLaw
    <2>2. rd'.pc # "copy"
        BY <1>4
    <2> QED
        BY <1>4, <2>1, <2>2 DEF ReadInv
<1>6. FreshInv'
    <2>1. rd'.pc # "mem"
        BY <1>4
    <2> QED
        BY <1>4, <2>1 DEF FreshInv
<1> QED
    BY <1>3, <1>5, <1>6 DEF ReadPathInv

\* A plan is finite, and not empty when the range is not.
LEMMA PlanSet ==
    ASSUME SetLaws, NEW S, IsFiniteSet(S), S \subseteq Frag, NEW off \in Nat, NEW len \in Nat, len > 0
    PROVE  IsFiniteSet(planRead(S, off, len)) /\ planRead(S, off, len) # {}
<1>1. PICK hi \in Nat : hi = off + len /\ off <= hi /\ off < hi
    BY SMTT(30)
<1>2. PICK acc : acc = CarveAll(S, <<off, hi>>)
    OBVIOUS
<1>3. Carving(acc, S, off, hi)
    BY <1>1, <1>2, CarveFacts
<1> DEFINE lo == [o \in acc.out |-> Located(o)]
           ga == [u \in acc.uncovered |-> Gap(u)]
<1>4. planRead(S, off, len) = {Located(o) : o \in acc.out} \cup {Gap(u) : u \in acc.uncovered}
    <2>1. ~(len <= 0)
        BY SMTT(30)
    <2> QED
        BY <1>1, <1>2, <2>1 DEF planRead
<1>5. /\ {Located(o) : o \in acc.out} = {lo[o] : o \in acc.out}
      /\ {Gap(u) : u \in acc.uncovered} = {ga[u] : u \in acc.uncovered}
    OBVIOUS
<1>6. IsFiniteSet({lo[o] : o \in acc.out}) /\ IsFiniteSet({ga[u] : u \in acc.uncovered})
    <2>1. IsFiniteSet(acc.out) /\ IsFiniteSet(acc.uncovered)
        BY <1>3 DEF Carving
    <2> HIDE DEF lo, ga
    <2> QED
        BY <2>1, FiniteValues
<1> HIDE DEF lo, ga
<1>7. IsFiniteSet({lo[o] : o \in acc.out} \cup {ga[u] : u \in acc.uncovered})
    BY <1>6 DEF SetLaws, UnionLaw
<1>8. off \in Int /\ In(<<off, hi>>, off)
    BY SMTT(30), <1>1 DEF In
<1>9. acc.out # {} \/ acc.uncovered # {}
    <2>1. CASE \E f \in S : Covers(f, off)
        BY <1>3, <1>8, <2>1 DEF Carving
    <2>2. CASE \A f \in S : ~Covers(f, off)
        BY <1>3, <1>8, <2>2 DEF Carving
    <2> QED
        BY <2>1, <2>2
<1>10. planRead(S, off, len) # {}
    BY <1>4, <1>9
<1> QED
    BY <1>4, <1>5, <1>7, <1>10

\* A slice locates bytes of the write its fragment has, or, in memory, goes by
\* the name of a later one.
LEMMA SliceSource ==
    ASSUME NEW s \in Slice, NEW f, BufferedOK(f) \/ StoredOK(f), SliceOf(s, f)
    PROVE  /\ Source(s) \in Nat /\ Wr(f) \in Nat /\ Source(s) >= Wr(f)
           /\ s.Tier # Mem => Source(s) = Wr(f) /\ StoredOK(f)
           /\ \A pos \in Int : Covers(s, pos) => Covers(f, pos)
<1>1. f \in Frag
    BY DEF BufferedOK, StoredOK
<1>2. \A pos \in Int : Covers(s, pos) => Covers(f, pos)
    BY SMTT(30), <1>1 DEF Covers, SliceOf, Slice, Frag, FEnd
<1>3. CASE s.Tier = Mem
    <2>1. f.Tier = Mem
        BY <1>3 DEF SliceOf
    <2>2. BufferedOK(f)
        BY <2>1 DEF StoredOK
    <2>3. Wr(f) = f.Seq /\ f.SegmentOffset = f.Seq
        BY <2>1, <2>2 DEF Wr, BufferedOK
    <2>4. Source(s) = s.Offset
        BY <1>3 DEF Source, SliceOf
    <2>5. s.Offset \in Nat /\ f.Seq \in Nat /\ s.Offset >= f.SegmentOffset
        BY SMTT(30), <1>1 DEF SliceOf, Slice, Frag
    <2> QED
        BY <1>2, <1>3, <2>3, <2>4, <2>5
<1>4. CASE s.Tier # Mem
    <2>1. f.Tier # Mem
        BY <1>4 DEF SliceOf
    <2>2. StoredOK(f)
        BY <2>1 DEF BufferedOK
    <2>3. Source(s) = Wr(f)
        BY <1>4, <2>1 DEF Source, Wr, SliceOf
    <2>4. Wr(f) \in Nat /\ Wr(f) >= Wr(f)
        <3>1. Wr(f) \in Nat
            BY <2>2 DEF StoredOK
        <3> QED
            BY SMTT(30), <3>1
    <2> QED
        BY <1>2, <2>2, <2>3, <2>4
<1> QED
    BY <1>3, <1>4

\* The snapshots a read puts together, and the plan it makes of them.
LEMMA ReadMemFacts ==
    ASSUME SetLaws, ReadPathAssumption, DataInv, ReadInv, rd.pc = "mem",
           NEW S, S = rd.frags \cup FragmentsFor(rd.off, rd.len)
    PROVE  /\ IsFiniteSet(S) /\ S \subseteq Frag /\ rd.off \in Nat /\ rd.len \in Nat /\ rd.len > 0
           /\ rd.off + rd.len <= MaxPos
           /\ \A f \in S : f \in rd.frags \cup Extents /\ (BufferedOK(f) \/ StoredOK(f))
           /\ \A f \in rd.frags \cup Extents : \A pos \in Int :
                 Covers(f, pos) /\ rd.off <= pos /\ pos < rd.off + rd.len => f \in S
<1>1. /\ rd.off \in Nat /\ rd.len \in Nat /\ rd.len > 0 /\ rd.off + rd.len <= MaxPos
    <2>1. rd.pc # "idle"
        OBVIOUS
    <2> QED
        BY <2>1 DEF ReadInv, ReadType
<1>2. FragmentsFor(rd.off, rd.len) \subseteq Extents
    BY DEF FragmentsFor
<1>3. \A f \in S : f \in rd.frags \cup Extents /\ (BufferedOK(f) \/ StoredOK(f))
    BY <1>2 DEF DataInv, ReadInv
<1>4. S \subseteq Frag
    BY <1>3 DEF BufferedOK, StoredOK
<1>5. IsFiniteSet(S)
    <2>1. IsFiniteSet(current) /\ IsFiniteSet(flushing) /\ IsFiniteSet(rd.frags)
        BY DEF DataInv, ReadInv
    <2>2. IsFiniteSet(Extents)
        BY <2>1 DEF Extents, SetLaws, UnionLaw
    <2>3. IsFiniteSet(FragmentsFor(rd.off, rd.len))
        BY <1>2, <2>2 DEF SetLaws, SubsetLaw
    <2> QED
        BY <2>1, <2>3 DEF SetLaws, UnionLaw
<1>6. ASSUME NEW f \in Extents, NEW pos \in Int, Covers(f, pos), rd.off <= pos,
             pos < rd.off + rd.len
      PROVE  f \in FragmentsFor(rd.off, rd.len)
    <2>1. f \in Frag
        BY DEF DataInv, BufferedOK
    <2>2. ~(FEnd(f) <= rd.off \/ f.LogicalOff >= rd.off + rd.len)
        BY SMTT(30), <1>1, <1>6, <2>1 DEF Covers, FEnd, Frag
    <2> QED
        BY <2>2 DEF FragmentsFor
<1> QED
    BY <1>1, <1>3, <1>4, <1>5, <1>6

\* The plan made of the two snapshots is as new as they are.
LEMMA ReadMemStep ==
    ASSUME SetLaws, ReadPathAssumption, ReadPathInv, ReadMem
    PROVE  ReadPathInv'
<1>1. DataInv /\ OrderInv /\ ReadInv /\ FreshInv /\ seq \in Nat
    BY DEF ReadPathInv, DataInv
<1>2. /\ rd.pc = "mem" /\ seq' = seq /\ current' = current /\ flushing' = flushing
      /\ flusher' = flusher /\ disk' = disk /\ log' = log /\ overtaken' = overtaken
    BY DEF ReadMem
<1>3. DataInv' /\ OrderInv' /\ Extents' = Extents
    BY <1>1, <1>2, StoreSame
<1>4. PICK S : S = rd.frags \cup FragmentsFor(rd.off, rd.len)
    OBVIOUS
<1>5. /\ IsFiniteSet(S) /\ S \subseteq Frag /\ rd.off \in Nat /\ rd.len \in Nat /\ rd.len > 0
      /\ rd.off + rd.len <= MaxPos
      /\ \A f \in S : f \in rd.frags \cup Extents /\ (BufferedOK(f) \/ StoredOK(f))
      /\ \A f \in rd.frags \cup Extents : \A pos \in Int :
            Covers(f, pos) /\ rd.off <= pos /\ pos < rd.off + rd.len => f \in S
    BY <1>1, <1>2, <1>4, ReadMemFacts
<1>6. PICK plan : plan = planRead(S, rd.off, rd.len)
    OBVIOUS
<1>7. IsFiniteSet(plan) /\ plan # {}
    BY <1>5, <1>6, PlanSet
<1>8. \A s \in plan : /\ s \in Slice /\ rd.off <= s.LogicalOff
                      /\ s.LogicalOff + s.Length <= rd.off + rd.len /\ Right(s, S)
    BY <1>5, <1>6, PlanFacts
<1>9. plan \subseteq Slice
    BY <1>8
<1>10. /\ rd'.pc = "copy" /\ rd'.off = rd.off /\ rd'.len = rd.len /\ rd'.floor = rd.floor
       /\ rd'.frags = {} /\ rd'.plan = plan /\ rd'.got = rd.got /\ rd'.split = rd.split
       /\ rd' \in ReadType
    <2>1. rd' = [rd EXCEPT !.pc = "copy", !.frags = {}, !.plan = plan] /\ rd \in ReadType
        BY <1>1, <1>4, <1>6 DEF ReadMem, ReadInv
    <2> QED
        BY <1>9, <2>1 DEF ReadType
<1>11. /\ rd.floor \in [Pos -> Nat]
       /\ \A pos \in Pos : rd.floor[pos] = 0 \/ <<rd.floor[pos], pos>> \in log
    <2>1. rd.pc # "idle"
        BY <1>2
    <2> QED
        BY <1>1, <2>1 DEF ReadInv
<1>12. Pos \subseteq Int
    BY SMTT(30) DEF Pos
<1>13. ASSUME NEW s \in plan
       PROVE  SliceOK(s)
    <2>1. s.LogicalOff + s.Length <= MaxPos
        <3>1. s.LogicalOff \in Nat /\ s.Length \in Nat /\ MaxPos \in Nat
            BY <1>8 DEF Slice, ReadPathAssumption
        <3> QED
            BY SMTT(30), <1>5, <1>8, <3>1
    <2>2. ASSUME ~s.Sparse, s.Tier # Mem
          PROVE  /\ Source(s) \in Nat
                 /\ \A pos \in Pos : Covers(s, pos) => <<Source(s), pos>> \in log
        <3>1. PICK f \in S : SliceOf(s, f)
            BY <1>8, <2>2 DEF Right
        <3>2. /\ Source(s) \in Nat /\ Source(s) = Wr(f) /\ StoredOK(f)
              /\ \A pos \in Int : Covers(s, pos) => Covers(f, pos)
            BY <1>5, <1>8, <2>2, <3>1, SliceSource
        <3> QED
            BY <1>12, <3>2 DEF StoredOK
    <2> QED
        BY <1>8, <2>1, <2>2 DEF SliceOK
<1>14. ReadInv'
    <2>1. rd' \in ReadType' /\ IsFiniteSet({})
        BY <1>10 DEF ReadType, Pos, SetLaws, EmptyLaw
    <2>2. rd'.pc # "idle" /\ rd'.pc = "copy"
        BY <1>10
    <2>3. \A s \in plan : SliceOK(s)'
        BY <1>1, <1>2, <1>13, SameOK
    <2>4. \A g \in rd.got : g[1] = 0 \/ g \in log
        BY <1>1 DEF ReadInv
    <2> QED
        BY <1>2, <1>5, <1>7, <1>10, <1>11, <2>1, <2>2, <2>3, <2>4 DEF ReadInv, Pos
<1>15. ASSUME ~rd.split, ~overtaken, NEW s \in plan, NEW pos \in Pos, Covers(s, pos)
       PROVE  Source(s) >= rd.floor[pos]
    <2>1. /\ Ordered(rd.frags \cup Extents)
          /\ \A p \in Pos : rd.floor[p] = 0 \/ Holds(rd.frags \cup Extents, rd.floor[p], p)
        BY <1>1, <1>2, <1>15 DEF FreshInv
    <2>2. pos \in Int /\ rd.floor[pos] \in Nat
        BY <1>11, <1>12
    <2>3. rd.off <= pos /\ pos < rd.off + rd.len
        <3>1. s.LogicalOff \in Nat /\ s.Length \in Nat
            BY <1>8 DEF Slice
        <3> QED
            BY SMTT(30), <1>5, <1>8, <1>15, <2>2, <3>1 DEF Covers
    <2>4. rd.floor[pos] = 0 \/ \E g \in S : Covers(g, pos) /\ Wr(g) >= rd.floor[pos]
                                          /\ g \in rd.frags \cup Extents
        BY <1>5, <2>1, <2>2, <2>3 DEF Holds
    <2>5. CASE s.Sparse /\ \A p \in Int : Covers(s, p) => \A f \in S : ~Covers(f, p)
        <3>1. rd.floor[pos] = 0
            BY <1>15, <2>2, <2>4, <2>5
        <3>2. Source(s) = 0
            BY <2>5 DEF Source
        <3> QED
            BY SMTT(30), <3>1, <3>2
    <2>6. ASSUME NEW f \in S, SliceOf(s, f),
                 \A p \in Int : Covers(s, p) => \A g \in S : Covers(g, p) => f.Seq >= g.Seq
          PROVE  Source(s) >= rd.floor[pos]
        <3>1. /\ Source(s) \in Nat /\ Wr(f) \in Nat /\ Source(s) >= Wr(f)
              /\ \A p \in Int : Covers(s, p) => Covers(f, p)
            BY <1>5, <1>8, <2>6, SliceSource
        <3>2. CASE rd.floor[pos] = 0
            BY SMTT(30), <3>1, <3>2
        <3>3. CASE rd.floor[pos] # 0
            <4>1. PICK g \in S : /\ Covers(g, pos) /\ Wr(g) >= rd.floor[pos]
                                 /\ g \in rd.frags \cup Extents
                BY <2>4, <3>3
            <4>2. Wr(f) >= Wr(g)
                BY <1>5, <1>15, <2>1, <2>2, <2>6, <3>1, <4>1 DEF Ordered
            <4>3. Wr(g) \in Nat
                <5>1. BufferedOK(g) \/ StoredOK(g)
                    BY <1>5
                <5>2. seq \in Nat /\ log \subseteq (1 .. seq) \X Pos
                    BY <1>1 DEF DataInv
                <5>3. Wr(g) \in 1 .. seq
                    BY <4>1, <5>1, <5>2, WrBound
                <5> QED
                    BY SMTT(30), <5>2, <5>3
            <4> QED
                BY SMTT(30), <2>2, <3>1, <4>1, <4>2, <4>3
        <3> QED
            BY <3>2, <3>3
    <2> QED
        BY <1>8, <2>5, <2>6 DEF Right
<1>16. FreshInv'
    <2>1. ~rd.split /\ ~overtaken => \A g \in rd.got : g[1] >= rd.floor[g[2]]
        BY <1>1 DEF FreshInv
    <2>2. rd'.pc # "mem"
        BY <1>10
    <2>3. overtaken' = overtaken
        BY <1>2
    <2> QED
        BY <1>10, <1>15, <2>1, <2>2, <2>3 DEF FreshInv, Pos, Covers, Source, Mem
<1> QED
    BY <1>3, <1>14, <1>16 DEF ReadPathInv

\* The bytes a slice resolves to are of the write its locator names, and that
\* write put them there.
LEMMA ResolveFacts ==
    ASSUME ReadPathAssumption, DataInv, NEW s, SliceOK(s), NEW v \in Resolve(s),
           NEW pos \in s.LogicalOff .. s.LogicalOff + s.Length - 1
    PROVE  /\ v \in Nat /\ pos \in Pos /\ Covers(s, pos) /\ v = Source(s)
           /\ v = 0 \/ <<v, pos>> \in log
<1>1. /\ s.LogicalOff \in Nat /\ s.Length \in Nat /\ s.LogicalOff + s.Length <= MaxPos
      /\ MaxPos \in Nat
    BY DEF SliceOK, Slice, ReadPathAssumption
<1>2. pos \in Pos /\ Covers(s, pos) /\ pos \in Int
    BY SMTT(30), <1>1 DEF Pos, Covers
<1>3. CASE s.Sparse
    <2>1. v = 0 /\ Source(s) = 0
        BY <1>3 DEF Resolve, Source
    <2> QED
        BY <1>2, <2>1
<1>4. CASE ~s.Sparse /\ s.Tier = Mem
    <2>1. PICK e \in CopyOut(s) : v = e.Seq
        BY <1>4 DEF Resolve
    <2>2. /\ e \in Extents /\ e.Seq = s.Offset /\ s.LogicalOff >= e.LogicalOff
          /\ s.LogicalOff + s.Length <= FEnd(e)
        BY DEF CopyOut
    <2>3. BufferedOK(e)
        BY <2>2 DEF DataInv
    <2>4. Covers(e, pos) /\ e.Seq \in Nat
        BY SMTT(30), <1>1, <1>2, <2>2, <2>3 DEF Covers, FEnd, BufferedOK, Frag
    <2>5. <<e.Seq, pos>> \in log
        BY <1>2, <2>3, <2>4 DEF BufferedOK
    <2>6. Source(s) = s.Offset
        BY <1>4 DEF Source
    <2> QED
        BY <1>2, <2>1, <2>2, <2>4, <2>5, <2>6
<1>5. CASE ~s.Sparse /\ s.Tier # Mem
    <2>1. v = Source(s)
        BY <1>5 DEF Resolve, Source
    <2>2. Source(s) \in Nat /\ <<Source(s), pos>> \in log
        BY <1>2, <1>5 DEF SliceOK
    <2> QED
        BY <1>2, <2>1, <2>2
<1> QED
    BY <1>3, <1>4, <1>5

\* A slice resolves to bytes of the write it names.
LEMMA ReadSliceStep ==
    ASSUME SetLaws, ReadPathAssumption, ReadPathInv, ReadSlice
    PROVE  ReadPathInv'
<1>1. DataInv /\ OrderInv /\ ReadInv /\ FreshInv /\ seq \in Nat
    BY DEF ReadPathInv, DataInv
<1>2. /\ rd.pc = "copy" /\ rd.plan # {} /\ seq' = seq /\ current' = current
      /\ flushing' = flushing /\ flusher' = flusher /\ disk' = disk /\ log' = log
      /\ overtaken' = overtaken
    BY DEF ReadSlice
<1>3. DataInv' /\ OrderInv' /\ Extents' = Extents
    BY <1>1, <1>2, StoreSame
<1>4. PICK s : s = CHOOSE x \in rd.plan : \A t \in rd.plan : x.LogicalOff <= t.LogicalOff
    OBVIOUS
<1>5. s \in rd.plan /\ SliceOK(s)
    <2>1. IsFiniteSet(rd.plan) /\ \A t \in rd.plan : SliceOK(t)
        BY <1>1 DEF ReadInv
    <2> DEFINE w == [t \in rd.plan |-> -t.LogicalOff]
    <2>2. \A t \in rd.plan : t.LogicalOff \in Nat
        BY <2>1 DEF SliceOK, Slice
    <2>3. w \in [rd.plan -> Int] /\ rd.plan \in SUBSET rd.plan
        BY SMTT(30), <2>2
    <2>4. PICK x \in rd.plan : \A t \in rd.plan : w[t] <= w[x]
        <3> HIDE DEF w
        <3> QED
            BY <1>2, <2>1, <2>3, Heaviest
    <2>5. \A t \in rd.plan : -t.LogicalOff <= -x.LogicalOff
        BY <2>4
    <2> HIDE DEF w
    <2>6. \A t \in rd.plan : x.LogicalOff <= t.LogicalOff
        BY SMTT(30), <2>2, <2>5
    <2> QED
        BY <1>4, <2>1, <2>6
<1>6. PICK where, got : /\ where = s.LogicalOff .. s.LogicalOff + s.Length - 1
                        /\ got = rd.got \cup (Resolve(s) \X where)
    OBVIOUS
<1>7. PICK pc, err : /\ err = (Resolve(s) = {})
                     /\ pc = IF Resolve(s) = {} \/ rd.plan = {s} THEN "done" ELSE "copy"
    OBVIOUS
<1>8. rd' = [rd EXCEPT !.plan = @ \ {s}, !.got = got, !.err = err, !.pc = pc]
    BY <1>4, <1>6, <1>7 DEF ReadSlice
<1>9. ASSUME NEW v \in Resolve(s), NEW pos \in where
      PROVE  /\ v \in Nat /\ pos \in Pos /\ Covers(s, pos) /\ v = Source(s)
             /\ v = 0 \/ <<v, pos>> \in log
    BY <1>1, <1>5, <1>6, ResolveFacts
<1>10. \A g \in got : g \in rd.got \/ \E v \in Resolve(s), pos \in where : g = <<v, pos>>
    BY SMTT(30), <1>6
<1>11. got \subseteq Nat \X Pos
    <2>1. rd.got \subseteq Nat \X Pos
        BY <1>1 DEF ReadInv, ReadType
    <2> QED
        BY SMTT(30), <1>9, <1>10, <2>1
<1>12. pc \in {"copy", "done"} /\ (pc = "copy" => rd.plan # {s}) /\ err \in BOOLEAN
    BY <1>7
<1>13. /\ rd'.pc = pc /\ rd'.off = rd.off /\ rd'.len = rd.len /\ rd'.floor = rd.floor
       /\ rd'.frags = rd.frags /\ rd'.plan = rd.plan \ {s} /\ rd'.got = got
       /\ rd'.split = rd.split /\ rd' \in ReadType
    <2>1. rd \in ReadType
        BY <1>1 DEF ReadInv
    <2> QED
        BY <1>8, <1>11, <1>12, <2>1 DEF ReadType
<1>14. /\ rd.len > 0 /\ rd.off + rd.len <= MaxPos /\ rd.floor \in [Pos -> Nat]
       /\ \A pos \in Pos : rd.floor[pos] = 0 \/ <<rd.floor[pos], pos>> \in log
    <2>1. rd.pc # "idle"
        BY <1>2
    <2> QED
        BY <1>1, <2>1 DEF ReadInv
<1>15. ReadInv'
    <2>1. rd' \in ReadType'
        BY <1>13 DEF ReadType, Pos
    <2>2. rd'.pc # "idle"
        BY <1>12, <1>13
    <2>3. rd'.pc = "copy" => rd'.plan # {}
        BY <1>2, <1>5, <1>12, <1>13
    <2>4. IsFiniteSet(rd'.plan)
        <3>1. rd.plan \ {s} \subseteq rd.plan
            OBVIOUS
        <3> QED
            BY <1>1, <1>13, <3>1 DEF ReadInv, SetLaws, SubsetLaw
    <2>5. (\A f \in rd.frags : StoredOK(f)') /\ \A t \in rd.plan \ {s} : SliceOK(t)'
        BY <1>1, <1>2, SameOK DEF ReadInv
    <2>6. ASSUME NEW g \in got
          PROVE  g[1] = 0 \/ g \in log
        <3>1. CASE g \in rd.got
            BY <1>1, <3>1 DEF ReadInv
        <3>2. CASE g \notin rd.got
            <4>1. PICK v \in Resolve(s), pos \in where : g = <<v, pos>>
                BY <1>10, <3>2
            <4>2. g[1] = v
                BY <4>1
            <4> QED
                BY <1>9, <4>1, <4>2
        <3> QED
            BY <3>1, <3>2
    <2>7. IsFiniteSet(rd.frags)
        BY <1>1 DEF ReadInv
    <2> QED
        BY <1>2, <1>13, <1>14, <2>1, <2>2, <2>3, <2>4, <2>5, <2>6, <2>7 DEF ReadInv, Pos
<1>16. FreshInv'
    <2>1. ASSUME ~rd.split, ~overtaken
          PROVE  /\ \A t \in rd.plan : \A pos \in Pos : Covers(t, pos) => Source(t) >= rd.floor[pos]
                 /\ \A g \in got : g[1] >= rd.floor[g[2]]
        <3>1. /\ \A t \in rd.plan : \A pos \in Pos : Covers(t, pos) => Source(t) >= rd.floor[pos]
              /\ \A g \in rd.got : g[1] >= rd.floor[g[2]]
            BY <1>1, <2>1 DEF FreshInv
        <3>2. ASSUME NEW g \in got, g \notin rd.got
              PROVE  g[1] >= rd.floor[g[2]]
            <4>1. PICK v \in Resolve(s), pos \in where : g = <<v, pos>>
                BY <1>10, <3>2
            <4>2. g[1] = v /\ g[2] = pos
                BY <4>1
            <4>3. v >= rd.floor[pos]
                BY <1>5, <1>9, <3>1
            <4> QED
                BY <4>2, <4>3
        <3> QED
            BY <3>1, <3>2
    <2>2. rd'.pc # "mem"
        BY <1>12, <1>13
    <2>3. overtaken' = overtaken
        BY <1>2
    <2>4. \A t \in rd'.plan : t \in rd.plan
        BY <1>13
    <2> QED
        BY <1>13, <2>1, <2>2, <2>3, <2>4 DEF FreshInv, Pos, Covers, Source, Mem
<1> QED
    BY <1>3, <1>15, <1>16 DEF ReadPathInv

-----------------------------------------------------------------------------
(* The theorems *)

\* The invariant holds initially.
LEMMA InitInv ==
    ASSUME SetLaws, Init
    PROVE  ReadPathInv
<1>1. /\ seq = 0 /\ current = {} /\ flushing = {} /\ flusher = "idle" /\ disk = {}
      /\ log = {} /\ rd = IdleRead /\ overtaken = FALSE
    BY DEF Init
<1>2. Extents = {} /\ IsFiniteSet({})
    BY <1>1 DEF Extents, SetLaws, EmptyLaw
<1>3. /\ rd \in ReadType /\ rd.pc = "idle" /\ rd.frags = {} /\ rd.plan = {} /\ rd.got = {}
    BY <1>1 DEF ReadType, IdleRead
<1>4. DataInv
    BY <1>1, <1>2 DEF DataInv
<1>5. OrderInv
    <2>1. disk \cup Extents = {} /\ flusher # "committed"
        BY <1>1, <1>2
    <2> QED
        BY <1>1, <2>1 DEF OrderInv, Ordered
<1>6. rd.pc # "copy" /\ rd.pc # "mem"
    BY <1>3
<1>7. ReadInv
    BY <1>2, <1>3, <1>6 DEF ReadInv
<1>8. FreshInv
    BY <1>3, <1>6 DEF FreshInv
<1> QED
    BY <1>4, <1>5, <1>7, <1>8 DEF ReadPathInv

\* Every step preserves it.
LEMMA NextInv ==
    ASSUME SetLaws, ReadPathInv, [Next]_vars
    PROVE  ReadPathInv'
<1>1. CASE UNCHANGED vars
    <2>1. /\ seq' = seq /\ current' = current /\ flushing' = flushing /\ flusher' = flusher
          /\ disk' = disk /\ log' = log /\ overtaken' = overtaken /\ rd' = rd
        BY <1>1 DEF vars
    <2>2. DataInv /\ OrderInv /\ ReadInv /\ FreshInv
        BY DEF ReadPathInv
    <2>3. seq \in Nat /\ seq' \in Nat /\ seq <= seq' /\ log \subseteq log'
        BY SMTT(30), <2>1, <2>2 DEF DataInv
    <2>4. DataInv' /\ OrderInv' /\ Extents' = Extents
        BY <2>1, <2>2, StoreSame
    <2> QED
        BY <2>1, <2>2, <2>3, <2>4, ReadGrows, FreshSame DEF ReadPathInv
<1>2. CASE \E off \in Pos, len \in 1 .. MaxPos : Write(off, len)
    BY <1>2, WriteStep, ReadPathAssumption
<1>3. CASE FlushSwap
    BY <1>3, FlushSwapStep
<1>4. CASE FlushCommit
    BY <1>4, FlushCommitStep
<1>5. CASE FlushSettle
    BY <1>5, FlushSettleStep
<1>6. CASE Move
    BY <1>6, MoveStep
<1>7. CASE \E off \in Pos, len \in 1 .. MaxPos : ReadCall(off, len)
    BY <1>7, ReadCallStep, ReadPathAssumption
<1>8. CASE ReadDisk
    BY <1>8, ReadDiskStep
<1>9. CASE ReadMem
    BY <1>9, ReadMemStep, ReadPathAssumption
<1>10. CASE ReadSlice
    BY <1>10, ReadSliceStep, ReadPathAssumption
<1>11. CASE ReadReturn
    BY <1>11, ReadReturnStep
<1> QED
    BY <1>1, <1>2, <1>3, <1>4, <1>5, <1>6, <1>7, <1>8, <1>9, <1>10, <1>11 DEF Next

-----------------------------------------------------------------------------
(* The laws, from the library *)

INSTANCE FiniteSetTheorems

\* The laws of finite sets that the lemmas assume hold.
LEMMA SetLawsHold == SetLaws
<1>1. SizeLaw /\ EmptyLaw /\ SingletonLaw
    BY FS_CardinalityType, FS_EmptySet, FS_Singleton DEF SizeLaw, EmptyLaw, SingletonLaw
<1>2. AddLaw
    BY FS_AddElement DEF AddLaw
<1>3. RemoveLaw
    BY FS_RemoveElement DEF RemoveLaw
<1>4. SubsetLaw
    BY FS_Subset DEF SubsetLaw
<1>5. IntervalLaw
    BY FS_Interval DEF IntervalLaw
<1>6. UnionLaw
    BY FS_Union DEF UnionLaw
<1>7. MeetLaw
    BY FS_Intersection DEF MeetLaw
<1>8. DifferenceLaw
    BY FS_Difference DEF DifferenceLaw
<1>9. FamilyLaw
    BY FS_UNION DEF FamilyLaw
<1>10. SurjectionLaw
    <2>1. ASSUME NEW S, NEW T, NEW f \in [S -> T], IsFiniteSet(S),
                 \A t \in T : \E s \in S : f[s] = t
          PROVE  IsFiniteSet(T) /\ Cardinality(T) <= Cardinality(S)
        <3>1. f \in Surjection(S, T)
            BY <2>1 DEF Surjection
        <3> QED
            BY <2>1, <3>1, FS_Surjection
    <2> QED
        BY <2>1 DEF SurjectionLaw
<1>11. InjectionLaw
    BY FS_Injection DEF InjectionLaw, Injection, IsInjective
<1>12. PigeonLaw
    BY FS_PigeonHole DEF PigeonLaw
<1>13. LeastLaw
    <2>1. SUFFICES ASSUME NEW S \in SUBSET Nat, S # {}
                   PROVE  \E x \in S : \A y \in S : x <= y
        BY DEF LeastLaw
    <2>2. PICK x \in S : \A y \in S : ~(<<y, x>> \in OpToRel(<, Nat))
        <3>1. S \subseteq Nat
            OBVIOUS
        <3> QED
            BY <2>1, <3>1, NatLessThanWellFounded, WFMin
    <2>3. ASSUME NEW y \in S PROVE x <= y
        <3>1. x \in Nat /\ y \in Nat
            OBVIOUS
        <3>2. ~(y < x)
            BY <2>2, <3>1 DEF OpToRel
        <3> QED
            BY SMTT(30), <3>1, <3>2
    <2> QED
        BY <2>3
<1> QED
    BY <1>1, <1>2, <1>3, <1>4, <1>5, <1>6, <1>7, <1>8, <1>9, <1>10, <1>11, <1>12, <1>13
    DEF SetLaws

-----------------------------------------------------------------------------
(* Theorems *)

\* planRead (fragment.go) gives the read plan that PlanMatches asks for, for
\* any fragments whose seqs differ and any range: every position is in exactly
\* one slice, and that slice delivers the byte of the newest fragment over it,
\* or a hole where there is none.
THEOREM PlanReadMatches ==
    ASSUME NEW S, IsFiniteSet(S), S \subseteq Frag, \A f, g \in S : f.Seq = g.Seq => f = g,
           NEW off \in Nat, NEW len \in Nat
    PROVE  PlanMatches(planRead(S, off, len), S, off, len)
BY PlanFacts, SetLawsHold

\* Rewriting a stripe to its canonical view (Move, through fragment.go's
\* canonicalView) changes no byte of it: at every position the newest fragment
\* of the view points at the byte the newest fragment of the stripe did, and
\* holes stay holes, for any fragments whose seqs differ.
THEOREM ViewKeepsBytes ==
    ASSUME NEW S, IsFiniteSet(S), S \subseteq Frag, \A f, g \in S : f.Seq = g.Seq => f = g,
           NEW pos \in Nat
    PROVE  Byte(canonicalView(S), pos) = Byte(S, pos)
BY ViewKeeps, SetLawsHold

\* Handle.ReadAtCtx never makes bytes up: whatever writes, flushes and moves
\* run between its two snapshots and its copies, what it returns for a position
\* is a byte some write put there, or zero.
THEOREM ReadsMakeNothingUp == Spec => []ReadIntegrity
<1>1. Init => ReadPathInv
    BY InitInv, SetLawsHold
<1>2. ReadPathInv /\ [Next]_vars => ReadPathInv'
    BY NextInv, SetLawsHold
<1>3. ReadPathInv => ReadIntegrity
    BY DEF ReadPathInv, ReadInv, ReadIntegrity
<1> QED
    BY <1>1, <1>2, <1>3, PTL DEF Spec

\* Handle.ReadAtCtx sees, at every position, the newest write accepted before
\* it was called or a later one, unless a flush settled between its snapshots
\* or a move overtook buffered writes.
THEOREM ReadsSeeNewest == Spec => []ReadsFresh
<1>1. Init => ReadPathInv
    BY InitInv, SetLawsHold
<1>2. ReadPathInv /\ [Next]_vars => ReadPathInv'
    BY NextInv, SetLawsHold
<1>3. ReadPathInv => ReadsFresh
    BY DEF ReadPathInv, FreshInv, ReadsFresh
<1> QED
    BY <1>1, <1>2, <1>3, PTL DEF Spec

=============================================================================
