-------------------------- MODULE Coalescer_proof ---------------------------
(***************************************************************************)
(* What the write-back buffer guarantees for any set of inodes, callers    *)
(* and flushers, any caps, queue size and stripe size, and any bound on    *)
(* objects and events: an Fsync that succeeded is never taken back, one    *)
(* inode has one flusher, Stat covers what was written, no done channel is *)
(* closed twice, and the whole implements module WriteBack.                *)
(*                                                                         *)
(* None of these is inductive.  The invariant IInv adds who may point at   *)
(* which inodeBuf and bufBatch object across an unlock (Owned, Callers,    *)
(* Flushers), that a batch without bytes is empty (Counted), and where a   *)
(* byte is on its way from Write to the disk (Stored, FlushCovers,         *)
(* FlushWithin, WaitCovers, LiveCovers).                                   *)
(***************************************************************************)
EXTENDS Coalescer, FiniteLaws, TLAPS

\* A leaf that names no prover is Zenon's.
USE ZenonT(60)

Batches(b)  == {buf[b].current, buf[b].flushing} \ {nil}
Exempt(i)   == h[i].unlinked \/ h[i].raced
Durable(i)  == disk[i] \cup h[i].gone
Syncing     == {"trigger", "fired", "wait"}
Unlinking   == {"drop", "clear", "forget", "delete"}
HoldsBuf    == {"append", "clear"} \cup Syncing
NoInode     == {"idle", "fsync", "close", "join"}

\* A call and a flush know their inode; one that has taken a buffer points to
\* a buffer, and a flush to a batch.
Refs ==
    /\ \A p \in Client : /\ proc[p].pc \notin NoInode => proc[p].inode \in Inode
                         /\ proc[p].pc \in HoldsBuf => proc[p].buf \in BufId
    /\ \A w \in Worker : wk[w].pc # "idle" =>
           wk[w].inode \in Inode /\ wk[w].buf \in BufId /\ wk[w].batch \in BatchId

\* Batches are finite sets of bytes, and a batch that is filling up has
\* charged at least as many bytes as it holds.
Counted ==
    /\ \A x \in BatchId : IsFiniteSet(batch[x].cells)
    /\ \A b \in BufId : buf[b].current # nil =>
           batch[buf[b].current].bytes >= Cardinality(batch[buf[b].current].cells)

\* The map points to buffers of its own inodes; no batch is in two places,
\* and none that is still in a buffer has been settled.
Owned ==
    /\ \A i \in Inode : buffers[i] # nil =>
           buffers[i] <= nbuf /\ buf[buffers[i]].inode = i
    /\ \A b \in BufId :
           /\ \A x \in Batches(b) : x <= nbatch /\ ~batch[x].done
           /\ buf[b].current = buf[b].flushing => buf[b].current = nil
           /\ \A a \in BufId : a # b => Batches(a) \cap Batches(b) = {}
    /\ \A x \in BatchId : x > nbatch => batch[x] = newBufBatch

\* Until its inode is unlinked, a buffer a call points to is the one in the
\* map; the batches Fsync waits for are its own buffer's or nobody's.
Callers ==
    \A p \in Client :
        /\ proc[p].pc \in Unlinking => h[proc[p].inode].unlinked
        /\ proc[p].pc \in HoldsBuf =>
               /\ proc[p].buf <= nbuf
               /\ buf[proc[p].buf].inode = proc[p].inode
               /\ ~h[proc[p].inode].unlinked => buffers[proc[p].inode] = proc[p].buf
        /\ proc[p].pc \in Syncing => \A x \in proc[p].waits :
               x <= nbatch /\ \A b \in BufId \ {proc[p].buf} : x \notin Batches(b)

\* A flush works on the batch its buffer calls `flushing', alone.
Flushers ==
    \A w \in Worker : wk[w].pc # "idle" =>
        /\ wk[w].buf <= nbuf
        /\ buf[wk[w].buf].inode = wk[w].inode
        /\ buf[wk[w].buf].flushing = wk[w].batch
        /\ ~h[wk[w].inode].unlinked => buffers[wk[w].inode] = wk[w].buf
        /\ wk[w].pc = "swapped" => IsFiniteSet(wk[w].cells)
        /\ \A v \in Worker \ {w} : wk[v].pc # "idle" => wk[v].buf # wk[w].buf

\* Accepted bytes are durable, cut off, or in a batch of the inode's buffer,
\* unless a flush of that buffer failed; and its batches hold nothing else.
Stored ==
    \A i \in Inode : ~h[i].unlinked =>
        /\ buffers[i] = nil => h[i].written = {}
        /\ buffers[i] # nil => \A x \in Batches(buffers[i]) :
               batch[x].cells \subseteq h[i].written
        /\ buffers[i] # nil /\ ~h[i].raced /\ ~buf[buffers[i]].poisoned =>
               \A c \in h[i].written : c \in Durable(i)
                   \/ \E x \in Batches(buffers[i]) : c \in batch[x].cells

\* A flush carries every byte of its batch to the disk, or ends in an error.
FlushCovers ==
    \A w \in Worker : wk[w].pc # "idle" /\ ~Exempt(wk[w].inode) =>
        IF wk[w].pc = "settle"
        THEN wk[w].err \/ batch[wk[w].batch].cells \subseteq Durable(wk[w].inode)
        ELSE batch[wk[w].batch].cells \subseteq wk[w].cells

\* A flush carries nothing but accepted bytes, whatever a truncate does to the
\* array it copies.
FlushWithin ==
    \A w \in Worker :
        wk[w].pc \notin {"idle", "settle"} /\ ~h[wk[w].inode].unlinked =>
            wk[w].cells \subseteq h[wk[w].inode].written

\* What a waiting Fsync will vouch for is durable, cut off, or in a batch it
\* waits for and that has not been settled, unless the buffer is poisoned.
WaitCovers ==
    \A p \in Client :
        proc[p].pc \in Syncing /\ ~Exempt(proc[p].inode)
            /\ ~buf[proc[p].buf].poisoned =>
        \A c \in proc[p].must : c \in Durable(proc[p].inode)
            \/ \E x \in proc[p].waits : ~batch[x].done /\ c \in batch[x].cells

\* The live size of a buffer covers the bytes accepted and not cut off.
LiveCovers ==
    \A i \in Inode : ~h[i].unlinked /\ buffers[i] # nil =>
        \A c \in h[i].written \ h[i].gone : c[2] < buf[buffers[i]].liveSize

\* From Drain on there is one call, and no caller sends on the closed flushQ.
Closing ==
    /\ \A p \in Client : proc[p].pc \in {"close", "join"} => life # "open"
    /\ \A p, q \in Client : proc[p].pc # "idle" /\ proc[q].pc # "idle" =>
           p = q \/ life = "open"
    /\ \A p \in Client : Closed => proc[p].pc \in {"idle", "join"}

IInv ==
    /\ TypeOK /\ Refs /\ Counted /\ Owned /\ Callers /\ Flushers
    /\ Stored /\ FlushCovers /\ FlushWithin /\ WaitCovers /\ FsyncDurable
    /\ LiveCovers /\ Closing /\ NoPanic

-----------------------------------------------------------------------------
(* The coalescer implements a write-back buffer *)

\* The fields of two buffers, or of two batches, agree.
SameBuf(b)   == buf'[b] = buf[b]

SameBatch(x) == batch'[x] = batch[x]

\* Write adds its cells to the current batch, or to a new one.
LEMMA AppendEffect ==
    ASSUME TypeOK, Refs, NEW p \in Client, WriteAppend(p)
    PROVE  \E i \in Inode, b \in BufId, x \in BatchId, P \in SUBSET Pos :
             /\ proc[p].pc = "append" /\ proc[p].inode = i /\ proc[p].buf = b
             /\ x = IF buf[b].current = nil THEN nbatch + 1 ELSE buf[b].current
             /\ ~buf[b].poisoned
             /\ nbatch' = Larger(nbatch, x)
             /\ batch'[x].cells = batch[x].cells \cup NewCells(P)
             /\ batch'[x].bytes = batch[x].bytes + Cardinality(P)
             /\ batch'[x].done = batch[x].done
             /\ \A y \in BatchId \ {x} : SameBatch(y)
             /\ buf'[b].inode = buf[b].inode /\ buf'[b].current = x
             /\ buf'[b].flushing = buf[b].flushing
             /\ buf'[b].poisoned = buf[b].poisoned
             /\ buf'[b].liveSize = Larger(buf[b].liveSize, MaxEnd(NewCells(P)))
             /\ \A a \in BufId \ {b} : SameBuf(a)
             /\ h' = [h EXCEPT ![i] = [h[i] EXCEPT !.written = @ \cup NewCells(P)]]
             /\ UNCHANGED <<buffers, nbuf, wk, disk>>
<1> DEFINE i == proc[p].inode
           b == proc[p].buf
           P == proc[p].data
           x == IF buf[b].current = nil THEN nbatch + 1 ELSE buf[b].current
           bytes == batch[x].bytes + Cardinality(P)
<1>1. proc[p] \in Proc
    BY DEF TypeOK
<1>2. i \in Inode /\ b \in BufId /\ x \in BatchId /\ P \in SUBSET Pos
    BY <1>1 DEF WriteAppend, Refs, NoInode, HoldsBuf, Proc
<1>3. buf[b] \in inodeBuf /\ batch[x] \in bufBatch
    BY <1>2 DEF TypeOK
<1>4. /\ proc[p].pc = "append" /\ ~buf[b].poisoned
      /\ nbatch' = Larger(nbatch, x)
      /\ UNCHANGED <<buffers, nbuf, wk, disk>>
    BY DEF WriteAppend
<1>5. /\ batch' = [batch EXCEPT ![x] =
             [batch[x] EXCEPT !.cells = @ \cup NewCells(P), !.bytes = bytes]]
      /\ buf' = [buf EXCEPT ![b] = [buf[b] EXCEPT !.current = x,
                     !.liveSize = Larger(@, MaxEnd(NewCells(P)))]]
      /\ h' = [h EXCEPT ![i] = [h[i] EXCEPT !.written = @ \cup NewCells(P)]]
    BY <1>2 DEF WriteAppend, TypeOK
<1>6. /\ x = IF buf[b].current = nil THEN nbatch + 1 ELSE buf[b].current
      /\ bytes = batch[x].bytes + Cardinality(P)
    OBVIOUS
<1> HIDE DEF x, bytes
<1>7. /\ batch'[x].cells = batch[x].cells \cup NewCells(P)
      /\ batch'[x].bytes = batch[x].bytes + Cardinality(P)
      /\ batch'[x].done = batch[x].done
      /\ \A y \in BatchId \ {x} : SameBatch(y)
    BY <1>2, <1>3, <1>5, <1>6 DEF bufBatch, TypeOK, SameBatch
<1>8. /\ buf'[b].inode = buf[b].inode /\ buf'[b].current = x
      /\ buf'[b].flushing = buf[b].flushing
      /\ buf'[b].poisoned = buf[b].poisoned
      /\ buf'[b].liveSize = Larger(buf[b].liveSize, MaxEnd(NewCells(P)))
      /\ \A a \in BufId \ {b} : SameBuf(a)
    BY <1>2, <1>3, <1>5 DEF inodeBuf, TypeOK, SameBuf
<1> HIDE DEF i, b, P
<1> QED
    <2>1. proc[p].inode = i /\ proc[p].buf = b
        BY DEF i, b
    <2> QED
        BY <1>2, <1>4, <1>5, <1>6, <1>7, <1>8, <2>1

\* What a shrink cuts off, and the history after it.
Cut(i, size) == PastSize(h[i].written \cup h[i].synced \cup disk[i], size)

Shrunk(i, size) ==
    [h EXCEPT ![i] = [h[i] EXCEPT !.met = @ \/ Flushing(i),
                                  !.gone = @ \cup Cut(i, size)]]

\* nil is no object.
LEMMA NotNil == (\A b \in BufId : b # nil) /\ (\A x \in BatchId : x # nil)
BY SMTT(30) DEF BufId, BatchId, nil

\* A shrink clips the batches of the inode's buffer, if it has one, and no
\* other; what it may cut off is in `gone' first.
LEMMA ShrinkEffect ==
    ASSUME TypeOK, NEW p \in Client, NEW i \in Inode, NEW size \in 0 .. MaxPos,
           SetattrSize(p, i, size)
    PROVE  /\ UNCHANGED <<buffers, nbuf, nbatch, wk, disk, life, panic>>
           /\ h' = h \/ h' = Shrunk(i, size)
           /\ \/ UNCHANGED <<buf, batch>>
              \/ /\ h' = Shrunk(i, size)
                 /\ \E b \in BufId :
                      /\ buffers[i] = b
                      /\ \A x \in BatchId :
                           /\ batch'[x].done = batch[x].done
                           /\ x \in Batches(b) =>
                                 batch'[x].cells = UpTo(batch[x].cells, size)
                           /\ x \notin Batches(b) => SameBatch(x)
                           /\ x = buf[b].current => batch'[x].bytes =
                                 batch[x].bytes
                                   - Cardinality(PastSize(batch[x].cells, size))
                      /\ \A a \in BufId :
                           /\ buf'[a].inode = buf[a].inode
                           /\ buf'[a].current = buf[a].current
                           /\ buf'[a].flushing = buf[a].flushing
                           /\ buf'[a].poisoned = buf[a].poisoned
                           /\ a # b => SameBuf(a)
                      /\ buf'[b].liveSize = IF buf[b].liveSize > size THEN size
                                            ELSE buf[b].liveSize
<1> DEFINE shrink == size < StatSize(i)
<1>1. UNCHANGED <<buffers, nbuf, nbatch, wk, disk, life, panic>>
    BY DEF SetattrSize, ctl
<1>2. h' = IF shrink THEN Shrunk(i, size) ELSE h
    BY DEF SetattrSize, TypeOK, Shrunk, Cut
<1>3. CASE ~(shrink /\ buffers[i] # nil)
    BY <1>1, <1>2, <1>3 DEF SetattrSize
<1>4. CASE shrink /\ buffers[i] # nil
    <2> DEFINE b == buffers[i]
               cur == buf[b].current
               fls == buf[b].flushing
    <2>1. b \in BufId
        BY <1>4 DEF TypeOK
    <2>2. InvalidatePastSize(b, size)
        BY <1>4 DEF SetattrSize
    <2> HIDE DEF b
    <2>3. buf[b] \in inodeBuf
        BY <2>1 DEF TypeOK
    <2>4. PICK n : batch' = [x \in BatchId |->
                       IF x = cur THEN Clip(x, size, Freed(cur, size))
                       ELSE IF x = fls THEN Clip(x, size, n) ELSE batch[x]]
        BY <2>2 DEF InvalidatePastSize
    <2>5. ASSUME NEW x \in BatchId, NEW m
          PROVE  LET c == Clip(x, size, m)
                 IN  /\ c.cells = UpTo(batch[x].cells, size)
                     /\ c.bytes = batch[x].bytes - m
                     /\ c.done = batch[x].done
        <3>1. batch[x] \in bufBatch
            BY DEF TypeOK
        <3> QED
            BY <3>1 DEF Clip, bufBatch
    <2>6. ASSUME NEW x \in BatchId
          PROVE  /\ batch'[x].done = batch[x].done
                 /\ x \in Batches(b) => batch'[x].cells = UpTo(batch[x].cells, size)
                 /\ x \notin Batches(b) => SameBatch(x)
                 /\ x = cur => batch'[x].bytes = batch[x].bytes
                                   - Cardinality(PastSize(batch[x].cells, size))
        <3>1. x # nil
            BY NotNil
        <3>2. CASE x = cur
            <4>1. batch'[x] = Clip(x, size, Freed(cur, size))
                BY <2>4, <3>2
            <4>2. x \in Batches(b)
                BY <3>1, <3>2 DEF Batches
            <4>3. Freed(cur, size) = Cardinality(PastSize(batch[x].cells, size))
                BY <3>1, <3>2 DEF Freed
            <4>4. PICK m : m = Freed(cur, size)
                OBVIOUS
            <4>5. /\ Clip(x, size, m).cells = UpTo(batch[x].cells, size)
                  /\ Clip(x, size, m).bytes = batch[x].bytes - m
                  /\ Clip(x, size, m).done = batch[x].done
                BY <2>5
            <4>6. batch'[x] = Clip(x, size, m) /\ m = Cardinality(PastSize(batch[x].cells, size))
                BY <4>1, <4>3, <4>4
            <4> QED
                BY <4>2, <4>5, <4>6
        <3>3. CASE x # cur /\ x = fls
            <4>1. batch'[x] = Clip(x, size, n)
                BY <2>4, <3>3
            <4>2. x \in Batches(b)
                BY <3>1, <3>3 DEF Batches
            <4> QED
                BY SMTT(30), <2>5, <3>3, <4>1, <4>2
        <3>4. CASE x # cur /\ x # fls
            <4>1. batch'[x] = batch[x] /\ x \notin Batches(b)
                BY <2>4, <3>4 DEF Batches
            <4> QED
                BY <3>4, <4>1 DEF SameBatch
        <3> QED
            BY <3>2, <3>3, <3>4
    <2>7. /\ \A a \in BufId :
               /\ buf'[a].inode = buf[a].inode
               /\ buf'[a].current = buf[a].current
               /\ buf'[a].flushing = buf[a].flushing
               /\ buf'[a].poisoned = buf[a].poisoned
               /\ a # b => SameBuf(a)
          /\ buf'[b].liveSize = IF buf[b].liveSize > size THEN size
                                ELSE buf[b].liveSize
        BY <2>1, <2>2, <2>3 DEF InvalidatePastSize, TypeOK, inodeBuf, SameBuf
    <2>8. buffers[i] = b /\ h' = Shrunk(i, size)
        BY <1>2, <1>4 DEF b
    <2>9. \E a \in BufId :
            /\ buffers[i] = a
            /\ \A x \in BatchId :
                 /\ batch'[x].done = batch[x].done
                 /\ x \in Batches(a) => batch'[x].cells = UpTo(batch[x].cells, size)
                 /\ x \notin Batches(a) => SameBatch(x)
                 /\ x = buf[a].current => batch'[x].bytes = batch[x].bytes
                                   - Cardinality(PastSize(batch[x].cells, size))
            /\ \A c \in BufId :
                 /\ buf'[c].inode = buf[c].inode
                 /\ buf'[c].current = buf[c].current
                 /\ buf'[c].flushing = buf[c].flushing
                 /\ buf'[c].poisoned = buf[c].poisoned
                 /\ c # a => SameBuf(c)
            /\ buf'[a].liveSize = IF buf[a].liveSize > size THEN size
                                  ELSE buf[a].liveSize
        BY <2>1, <2>6, <2>7, <2>8
    <2> QED
        BY <1>1, <2>8, <2>9
<1> QED
    BY <1>3, <1>4

\* Nothing the abstract buffer has of file i changes.
SameFile(i) ==
    /\ h'[i].written = h[i].written
    /\ Durable(i)' = Durable(i)
    /\ h'[i].synced = h[i].synced
    /\ Exempt(i)' = Exempt(i)

\* A step that changes no file is a stutter of the abstract buffer.
LEMMA StutterMaps ==
    ASSUME \A i \in Inode : SameFile(i)
    PROVE  UNCHANGED WB!vars
<1>1. UNCHANGED <<[i \in Inode |-> h[i].written], [i \in Inode |-> disk[i] \cup h[i].gone],
                  [i \in Inode |-> h[i].synced]>>
    BY DEF SameFile, Durable
<1>2. UNCHANGED {i \in Inode : h[i].unlinked \/ h[i].raced}
    BY DEF SameFile, Exempt
<1> QED
    BY <1>1, <1>2 DEF WB!vars, WB!bytes

\* Every step of the coalescer maps to a step of WriteBack or changes nothing
\* there.
LEMMA StepsMap ==
    IInv /\ IInv' /\ Next => [WB!Next]_(WB!vars)

\* A step that only adds accepted bytes to one file is Accept.
<1>AcceptMaps.
    ASSUME NEW i \in Inode, \A j \in Inode \ {i} : SameFile(j),
           h[i].written \subseteq h'[i].written, Durable(i)' = Durable(i),
           h'[i].synced = h[i].synced, Exempt(i)' = Exempt(i)
    PROVE  WB!Next
    <2> USE <1>AcceptMaps
    <2>1. UNCHANGED <<[j \in Inode |-> disk[j] \cup h[j].gone], [j \in Inode |-> h[j].synced]>>
        BY DEF SameFile, Durable
    <2>2. UNCHANGED {j \in Inode : h[j].unlinked \/ h[j].raced}
        BY DEF SameFile, Exempt
    <2>3. WB!Grows([j \in Inode |-> h[j].written], [j \in Inode |-> h'[j].written], i)
        BY DEF SameFile, WB!Grows
    <2>4. WB!Accept(i)
        BY <2>1, <2>2, <2>3 DEF WB!Accept
    <2> QED
        BY <2>4 DEF WB!Next

\* A step that only makes accepted bytes of one file durable, or cuts them
\* off, is Settle.
<1>SettleMaps.
    ASSUME NEW i \in Inode, \A j \in Inode \ {i} : SameFile(j),
           h'[i].written = h[i].written, Durable(i) \subseteq Durable(i)',
           Durable(i)' \subseteq Durable(i) \cup h[i].written,
           h'[i].synced = h[i].synced, Exempt(i)' = Exempt(i)
    PROVE  WB!Next
    <2> USE <1>SettleMaps
    <2>1. UNCHANGED <<[j \in Inode |-> h[j].written], [j \in Inode |-> h[j].synced]>>
        BY DEF SameFile
    <2>2. UNCHANGED {j \in Inode : h[j].unlinked \/ h[j].raced}
        BY DEF SameFile, Exempt
    <2>3. WB!Grows([j \in Inode |-> disk[j] \cup h[j].gone],
                   [j \in Inode |-> disk'[j] \cup h'[j].gone], i)
        BY DEF SameFile, WB!Grows, Durable
    <2>4. WB!Settle(i)
        BY <2>1, <2>2, <2>3 DEF WB!Settle, Durable
    <2> QED
        BY <2>4 DEF WB!Next

\* A step that only vouches for settled bytes of one file is Vouch.
<1>VouchMaps.
    ASSUME NEW i \in Inode, \A j \in Inode \ {i} : SameFile(j),
           h'[i].written = h[i].written, Durable(i)' = Durable(i),
           h[i].synced \subseteq h'[i].synced,
           h'[i].synced \subseteq h[i].synced \cup Durable(i),
           Exempt(i)' = Exempt(i)
    PROVE  WB!Next
    <2> USE <1>VouchMaps
    <2>1. UNCHANGED <<[j \in Inode |-> h[j].written], [j \in Inode |-> disk[j] \cup h[j].gone]>>
        BY DEF SameFile, Durable
    <2>2. UNCHANGED {j \in Inode : h[j].unlinked \/ h[j].raced}
        BY DEF SameFile, Exempt
    <2>3. WB!Grows([j \in Inode |-> h[j].synced], [j \in Inode |-> h'[j].synced], i)
        BY DEF SameFile, WB!Grows
    <2>4. WB!Vouch(i)
        BY <2>1, <2>2, <2>3 DEF WB!Vouch, Durable
    <2> QED
        BY <2>4 DEF WB!Next

\* A step that changes one file, of which nothing is promised afterwards, is
\* GiveUp.
<1>GiveUpMaps.
    ASSUME NEW i \in Inode, \A j \in Inode \ {i} : SameFile(j), Exempt(i)'
    PROVE  WB!Next
    <2> USE <1>GiveUpMaps
    <2>1. {j \in Inode : h[j].unlinked \/ h[j].raced}' =
              {j \in Inode : h[j].unlinked \/ h[j].raced} \cup {i}
        BY DEF SameFile, Exempt
    <2>2. WB!GiveUp(i)
        BY <2>1 DEF SameFile, Durable, WB!GiveUp
    <2> QED
        BY <2>2 DEF WB!Next

\* The steps that change a file: everything else is a stutter.
<1>FilesChange.
    ASSUME TypeOK, Refs, Next, ~Crash
    PROVE  \/ \A i \in Inode : SameFile(i)
           \/ \E p \in Client :
                 \/ WriteAppend(p)
                 \/ \E i \in Inode, size \in 0 .. MaxPos : SetattrSize(p, i, size)
                 \/ \E i \in Inode : UnlinkCommit(p, i)
                 \/ DeleteInode(p)
                 \/ \E i \in Inode : FsyncEarly(p, i)
                 \/ FsyncDone(p)
           \/ \E w \in Worker : FlushSnapshot(w) \/ FlushCommit(w)
    <2> USE <1>FilesChange
    <2> DEFINE P == \A i \in Inode : SameFile(i)
    <2>1. UNCHANGED <<disk, h>> => P
        BY DEF SameFile, Durable, Exempt
    <2> HIDE DEF P
    <2>2. ASSUME NEW p \in Client, WriteStep(p) PROVE P \/ WriteAppend(p)
        BY <2>1, <2>2 DEF WriteStep, WriteCall, WriteAcquire, WriteCancel,
           WritePoisoned, WriteEnqueue
    <2>3. ASSUME NEW p \in Client, FsyncStep(p)
          PROVE  P \/ (\E i \in Inode : FsyncEarly(p, i)) \/ FsyncDone(p)
        BY <2>1, <2>3 DEF FsyncStep, FsyncCall, FsyncSnapshot, FsyncTrigger,
           FsyncFired, FsyncCancel
    <2>4. ASSUME NEW p \in Client, SetattrStep(p)
          PROVE  P \/ \E i \in Inode, size \in 0 .. MaxPos : SetattrSize(p, i, size)
        <3>1. CASE \E i \in Inode : SetattrMode(p, i)
            BY <2>1, <3>1 DEF SetattrMode
        <3>2. CASE SetattrStat(p)
            BY <2>1, <3>2 DEF SetattrStat
        <3>3. ASSUME SetattrTruncate(p) \/ SetattrCommit(p) PROVE P
            <4>1. PICK i \in Inode : proc[p].inode = i
                BY <3>3 DEF SetattrTruncate, SetattrCommit, Refs, NoInode
            <4>2. \A j \in Inode : h[j] \in History
                BY DEF TypeOK
            <4>3. ASSUME NEW j \in Inode \ {i}
                  PROVE  h'[j] = h[j] /\ disk'[j] = disk[j]
                BY <3>3, <4>1 DEF SetattrTruncate, SetattrCommit, TypeOK
            <4>4. /\ h'[i].written = h[i].written /\ h'[i].synced = h[i].synced
                  /\ h'[i].raced = h[i].raced /\ h'[i].unlinked = h[i].unlinked
                BY SMTT(30), <3>3, <4>1, <4>2 DEF SetattrTruncate, SetattrCommit, TypeOK, History
            <4>5. CASE SetattrCommit(p)
                <5>1. h'[i].gone = h[i].gone /\ disk' = disk
                    BY <4>1, <4>2, <4>5 DEF SetattrCommit, TypeOK, History
                <5> QED
                    BY <4>3, <4>4, <5>1 DEF P, SameFile, Durable, Exempt
            <4>6. CASE SetattrTruncate(p)
                <5>1. PICK size : size = proc[p].size
                    OBVIOUS
                <5>2. /\ h'[i].gone = h[i].gone \cup PastSize(disk[i], size)
                      /\ disk'[i] = UpTo(disk[i], size)
                    BY <4>1, <4>2, <4>6, <5>1 DEF SetattrTruncate, TypeOK, History
                <5>3. size \in Int
                    <6>1. proc[p] \in Proc
                        BY DEF TypeOK
                    <6> QED
                        BY SMTT(30), <6>1, <5>1 DEF Proc, KeepSize
                <5>4. ASSUME NEW c \in disk[i] PROVE c[2] < size \/ c[2] >= size
                    <6>1. c \in Cell
                        BY DEF TypeOK
                    <6> QED
                        BY SMTT(30), <5>3, <6>1, CoalescerAssumption DEF Cell, Pos
                <5>5. disk'[i] \cup h'[i].gone = disk[i] \cup h[i].gone
                    BY <5>2, <5>4 DEF UpTo, PastSize
                <5>6. SameFile(i)
                    BY <4>4, <5>5 DEF SameFile, Durable, Exempt
                <5>7. ASSUME NEW j \in Inode \ {i} PROVE SameFile(j)
                    BY <4>3, <5>7 DEF SameFile, Durable, Exempt
                <5> QED
                    BY <5>6, <5>7 DEF P
            <4> QED
                BY <3>3, <4>5, <4>6
        <3> QED
            BY <2>4, <3>1, <3>2, <3>3 DEF SetattrStep
    <2>5. ASSUME NEW p \in Client, UnlinkStep(p)
          PROVE  P \/ (\E i \in Inode : UnlinkCommit(p, i)) \/ DeleteInode(p)
        BY <2>1, <2>5 DEF UnlinkStep, DropWait, DropClear, DropForget
    <2>6. ASSUME NEW p \in Client, CloseStep(p) PROVE P
        BY <2>1, <2>6 DEF CloseStep, Drain, Close, CloseJoin
    <2>7. ASSUME NEW w \in Worker, FlushStep(w)
          PROVE  P \/ FlushSnapshot(w) \/ FlushCommit(w)
        BY <2>1, <2>7 DEF FlushStep, FlushTake, FlushAppend, FlushFail,
           FlushHook, FlushSettle
    <2>8. ASSUME TickStep PROVE P
        <3>1. ASSUME TickScan PROVE P
            BY <2>1, <3>1 DEF TickScan
        <3>2. ASSUME NEW i \in Inode, TickSend(i) PROVE P
            BY <2>1, <3>2 DEF TickSend
        <3> QED
            BY <2>8, <3>1, <3>2 DEF TickStep
    <2> QED
        BY <2>2, <2>3, <2>4, <2>5, <2>6, <2>7, <2>8 DEF Next, P

\* Every step of the coalescer is a step or a stutter of the write-back buffer.
<1>StepMaps.
    ASSUME IInv, IInv', Next
    PROVE  [WB!Next]_(WB!vars)
    <2> USE <1>StepMaps
    <2>i. TypeOK /\ Refs /\ Callers /\ FlushWithin /\ FsyncDurable /\ FsyncDurable'
        BY DEF IInv
    <2>h. h \in [Inode -> History] /\ \A i \in Inode : h[i] \in History
        BY <2>i DEF TypeOK
    <2>d. disk \in [Inode -> SUBSET Cell]
        BY <2>i DEF TypeOK
    <2>1. ASSUME Crash PROVE WB!Next
        <3>1. \A i \in Inode : /\ h'[i].written = {} /\ h'[i].synced = h[i].synced
                               /\ h'[i].gone = h[i].gone /\ h'[i].raced = h[i].raced
                               /\ h'[i].unlinked = h[i].unlinked /\ disk'[i] = disk[i]
            BY <2>1, <2>h DEF Crash, History
        <3>2. [i \in Inode |-> h[i].written]' = [i \in Inode |-> {}]
            BY <3>1
        <3>3. UNCHANGED <<[i \in Inode |-> disk[i] \cup h[i].gone],
                          [i \in Inode |-> h[i].synced],
                          {i \in Inode : h[i].unlinked \/ h[i].raced}>>
            BY <3>1
        <3>4. WB!Crash
            BY <3>2, <3>3 DEF WB!Crash
        <3> QED
            BY <3>4 DEF WB!Next
    <2>2. ASSUME \A i \in Inode : SameFile(i) PROVE UNCHANGED WB!vars
        BY <2>2, StutterMaps
    <2>3. ASSUME NEW p \in Client, WriteAppend(p) PROVE WB!Next
        <3>1. PICK i \in Inode, P \in SUBSET Pos :
                 /\ h' = [h EXCEPT ![i] = [h[i] EXCEPT !.written = @ \cup NewCells(P)]]
                 /\ disk' = disk
            BY SMTT(30), <2>i, <2>3, AppendEffect
        <3>2. \A j \in Inode \ {i} : SameFile(j)
            BY <3>1, <2>h DEF SameFile, Durable, Exempt
        <3>3. /\ h[i].written \subseteq h'[i].written /\ h'[i].gone = h[i].gone
              /\ h'[i].synced = h[i].synced
              /\ h'[i].raced = h[i].raced /\ h'[i].unlinked = h[i].unlinked
            BY <3>1, <2>h DEF History
        <3>4. Durable(i)' = Durable(i) /\ Exempt(i)' = Exempt(i)
            BY <3>1, <3>3 DEF Durable, Exempt
        <3> QED
            BY <3>2, <3>3, <3>4, <1>AcceptMaps
    <2>4. ASSUME NEW p \in Client, NEW i \in Inode, NEW size \in 0 .. MaxPos,
                 SetattrSize(p, i, size)
          PROVE  WB!Next \/ UNCHANGED WB!vars
        <3>1. disk' = disk /\ (h' = h \/ h' = Shrunk(i, size))
            BY <2>i, <2>4, ShrinkEffect
        <3>2. CASE h' = h
            BY <2>2, <3>1, <3>2 DEF SameFile, Durable, Exempt
        <3>3. CASE h' = Shrunk(i, size)
            <4>1. \A j \in Inode \ {i} : SameFile(j)
                BY <3>1, <3>3, <2>h DEF SameFile, Durable, Exempt, Shrunk
            <4>2. /\ h'[i].written = h[i].written
                  /\ h'[i].gone = h[i].gone \cup Cut(i, size)
                  /\ h'[i].synced = h[i].synced
                  /\ h'[i].raced = h[i].raced /\ h'[i].unlinked = h[i].unlinked
                BY <3>3, <2>h DEF Shrunk, History
            <4>3. Exempt(i)' = Exempt(i) /\ Durable(i) \subseteq Durable(i)'
                BY <3>1, <4>2 DEF Durable, Exempt
            <4>4. CASE Exempt(i)
                BY <4>1, <4>3, <4>4, <1>GiveUpMaps
            <4>5. CASE ~Exempt(i)
                <5>1. Cut(i, size) \subseteq Durable(i) \cup h[i].written
                    BY <2>i, <4>5 DEF Cut, PastSize, Durable, FsyncDurable, Exempt
                <5>2. Durable(i)' \subseteq Durable(i) \cup h[i].written
                    BY <3>1, <4>2, <5>1 DEF Durable
                <5> QED
                    BY <4>1, <4>2, <4>3, <5>2, <1>SettleMaps
            <4> QED
                BY <4>4, <4>5
        <3> QED
            BY <3>1, <3>2, <3>3
    <2>5. ASSUME NEW p \in Client, NEW i \in Inode, UnlinkCommit(p, i) PROVE WB!Next
        <3>1. h' = [h EXCEPT ![i] = [h[i] EXCEPT !.unlinked = TRUE]] /\ disk' = disk
            BY <2>5 DEF UnlinkCommit
        <3>2. \A j \in Inode \ {i} : SameFile(j)
            BY <3>1, <2>h DEF SameFile, Durable, Exempt
        <3>3. Exempt(i)'
            BY <3>1, <2>h DEF Exempt, History
        <3> QED
            BY <3>2, <3>3, <1>GiveUpMaps
    <2>6. ASSUME NEW p \in Client, DeleteInode(p) PROVE WB!Next
        <3>1. PICK i \in Inode : proc[p].inode = i
            BY <2>i, <2>6 DEF DeleteInode, Refs, NoInode
        <3>2. h' = h /\ disk' = [disk EXCEPT ![i] = {}]
            BY <2>6, <3>1 DEF DeleteInode
        <3>3. \A j \in Inode \ {i} : SameFile(j)
            BY <3>2, <2>d DEF SameFile, Durable, Exempt
        <3>4. Exempt(i)'
            BY <2>i, <2>6, <3>1, <3>2 DEF DeleteInode, Callers, Unlinking, Exempt
        <3> QED
            BY <3>3, <3>4, <1>GiveUpMaps
    <2>7. ASSUME NEW i \in Inode, NEW C \in SUBSET Cell,
                 h' = [h EXCEPT ![i] = [h[i] EXCEPT !.synced = @ \cup C]], disk' = disk
          PROVE  WB!Next
        <3>1. \A j \in Inode \ {i} : SameFile(j)
            BY <2>7, <2>h DEF SameFile, Durable, Exempt
        <3>2. /\ h'[i].written = h[i].written /\ h'[i].gone = h[i].gone
              /\ h[i].synced \subseteq h'[i].synced
              /\ h'[i].raced = h[i].raced /\ h'[i].unlinked = h[i].unlinked
            BY <2>7, <2>h DEF History
        <3>3. Durable(i)' = Durable(i) /\ Exempt(i)' = Exempt(i)
            BY <2>7, <3>2 DEF Durable, Exempt
        <3>4. CASE Exempt(i)
            BY <3>1, <3>3, <3>4, <1>GiveUpMaps
        <3>5. CASE ~Exempt(i)
            <4>1. h'[i].synced \subseteq Durable(i)'
                BY <2>i, <3>3, <3>5 DEF FsyncDurable, Exempt, Durable
            <4> QED
                BY <3>1, <3>2, <3>3, <4>1, <1>VouchMaps
        <3> QED
            BY <3>4, <3>5
    <2>8. ASSUME NEW p \in Client, NEW i \in Inode, FsyncEarly(p, i)
          PROVE  WB!Next \/ UNCHANGED WB!vars
        <3>1. disk' = disk
            BY <2>8 DEF FsyncEarly
        <3>2. h' = h \/ h' = [h EXCEPT ![i] = [h[i] EXCEPT !.synced = @ \cup h[i].written]]
            BY <2>8 DEF FsyncEarly
        <3>3. h[i].written \in SUBSET Cell
            BY <2>h DEF History
        <3>4. CASE h' = h
            BY <2>2, <3>1, <3>4 DEF SameFile, Durable, Exempt
        <3> QED
            BY <2>7, <3>1, <3>2, <3>3, <3>4
    <2>9. ASSUME NEW p \in Client, FsyncDone(p) PROVE WB!Next \/ UNCHANGED WB!vars
        <3>1. PICK i \in Inode : proc[p].inode = i
            BY <2>i, <2>9 DEF FsyncDone, Refs, NoInode
        <3>2. disk' = disk
            BY <2>9 DEF FsyncDone
        <3>3. h' = h \/ h' = [h EXCEPT ![i] = [h[i] EXCEPT !.synced = @ \cup proc[p].must]]
            BY <2>9, <3>1 DEF FsyncDone
        <3>4. proc[p].must \in SUBSET Cell
            <4>1. proc[p] \in Proc
                BY <2>i DEF TypeOK
            <4> QED
                BY <4>1 DEF Proc
        <3>5. CASE h' = h
            BY <2>2, <3>2, <3>5 DEF SameFile, Durable, Exempt
        <3> QED
            BY <2>7, <3>2, <3>3, <3>4, <3>5
    <2>10. ASSUME NEW w \in Worker, FlushSnapshot(w) PROVE WB!Next \/ UNCHANGED WB!vars
        <3>1. PICK i \in Inode : wk[w].inode = i
            BY <2>i, <2>10 DEF FlushSnapshot, Refs
        <3>2. PICK r \in BOOLEAN : r = (wk[w].cells # batch[wk[w].batch].cells)
            OBVIOUS
        <3>3. h' = [h EXCEPT ![i] = [h[i] EXCEPT !.raced = @ \/ r]] /\ disk' = disk
            BY <2>10, <3>1, <3>2 DEF FlushSnapshot
        <3>4. \A j \in Inode \ {i} : SameFile(j)
            BY <3>3, <2>h DEF SameFile, Durable, Exempt
        <3>5. /\ h'[i].written = h[i].written /\ h'[i].gone = h[i].gone
              /\ h'[i].synced = h[i].synced /\ h'[i].raced = (h[i].raced \/ r)
              /\ h'[i].unlinked = h[i].unlinked
            BY <3>3, <2>h DEF History
        <3>6. CASE Exempt(i)'
            BY <3>4, <3>6, <1>GiveUpMaps
        <3>7. CASE ~Exempt(i)'
            <4>1. Exempt(i)' = Exempt(i)
                BY <3>5, <3>7 DEF Exempt
            <4>2. SameFile(i)
                BY <3>3, <3>5, <4>1 DEF SameFile, Durable
            <4> QED
                BY <2>2, <3>4, <4>2
        <3> QED
            BY <3>6, <3>7
    <2>11. ASSUME NEW w \in Worker, FlushCommit(w) PROVE WB!Next
        <3>1. PICK i \in Inode : wk[w].inode = i
            BY <2>i, <2>11 DEF FlushCommit, Refs
        <3>2. h' = h /\ disk' = [disk EXCEPT ![i] = disk[i] \cup wk[w].cells]
            BY <2>11, <3>1 DEF FlushCommit
        <3>3. \A j \in Inode \ {i} : SameFile(j)
            BY <3>2, <2>d DEF SameFile, Durable, Exempt
        <3>4. disk'[i] = disk[i] \cup wk[w].cells /\ Exempt(i)' = Exempt(i)
            BY <3>2, <2>d DEF Exempt
        <3>5. CASE Exempt(i)
            BY <3>3, <3>4, <3>5, <1>GiveUpMaps
        <3>6. CASE ~Exempt(i)
            <4>1. wk[w].cells \subseteq h[i].written
                BY <2>i, <2>11, <3>1, <3>6 DEF FlushCommit, FlushWithin, Exempt
            <4>2. Durable(i) \subseteq Durable(i)' /\ Durable(i)' \subseteq Durable(i) \cup h[i].written
                BY <3>2, <3>4, <4>1 DEF Durable
            <4> QED
                BY <3>2, <3>3, <3>4, <4>2, <1>SettleMaps
        <3> QED
            BY <3>5, <3>6
    <2>12. CASE Crash
        BY <2>1, <2>12
    <2>13. CASE ~Crash
        BY <2>i, <2>2, <2>3, <2>4, <2>5, <2>6, <2>8, <2>9, <2>10, <2>11, <2>13,
           <1>FilesChange
    <2> QED
        BY <2>12, <2>13

<1> QED
    BY <1>StepMaps

-----------------------------------------------------------------------------
(* Type correctness: no step of a caller, a flusher or the ticker follows *)
(* a nil pointer or overfills flushQ                                      *)

\* The set of positions is finite, and so is what one write covers.
LEMMA PosFinite ==
    ASSUME SetLaws, NEW P \in SUBSET Pos
    PROVE  IsFiniteSet(P) /\ Cardinality(P) \in Nat
<1>1. IsFiniteSet(Pos)
    BY SMTT(30), CoalescerAssumption DEF Pos, SetLaws, IntervalLaw
<1> QED
    BY <1>1 DEF SetLaws, SubsetLaw, SizeLaw

\* bufBatch.maxEnd is a size past every buffered position.
LEMMA MaxEndCovers ==
    ASSUME SetLaws, NEW C \in SUBSET Cell
    PROVE  MaxEnd(C) \in Nat /\ \A c \in C : c[2] < MaxEnd(C)
<1> DEFINE E == {pos \in Pos : \E c \in C : pos <= c[2]}
<1>1. E \in SUBSET Pos /\ MaxEnd(C) = Cardinality(E)
    BY DEF MaxEnd
<1>2. IsFiniteSet(E) /\ MaxEnd(C) \in Nat
    BY <1>1, PosFinite
<1>3. ASSUME NEW c \in C PROVE c[2] < MaxEnd(C)
    <2>1. c[2] \in Pos /\ c[2] \in Int /\ c[2] >= 0
        BY SMTT(30) DEF Cell, Pos
    <2>2. 0 .. c[2] \in SUBSET E
        BY SMTT(30), <2>1, CoalescerAssumption DEF Pos
    <2>3. Cardinality(0 .. c[2]) = c[2] + 1
        BY SMTT(30), <2>1 DEF SetLaws, IntervalLaw
    <2>4. Cardinality(0 .. c[2]) <= Cardinality(E)
        BY <1>2, <2>2 DEF SetLaws, SubsetLaw
    <2> QED
        BY SMTT(30), <1>1, <1>2, <2>1, <2>3, <2>4
<1> QED
    BY <1>2, <1>3

\* A write takes finitely many sequence numbers.
LEMMA StripesFinite ==
    ASSUME SetLaws, NEW P \in SUBSET Pos
    PROVE  IsFiniteSet(Stripes(P)) /\ Cardinality(Stripes(P)) \in Nat
<1> DEFINE f == [pos \in P |-> StripeOf(pos)]
<1>1. f \in [P -> Stripes(P)] /\ \A s \in Stripes(P) : \E pos \in P : f[pos] = s
    BY DEF Stripes
<1>2. IsFiniteSet(P)
    BY PosFinite
<1> QED
    BY <1>1, <1>2 DEF SetLaws, SurjectionLaw, SizeLaw

\* The cells of a write are cells, at most as many as the bytes it charges.
LEMMA NewCellsCounted ==
    ASSUME SetLaws, NEW P \in SUBSET Pos, seq \in Nat
    PROVE  /\ NewCells(P) \in SUBSET Cell
           /\ IsFiniteSet(NewCells(P))
           /\ Cardinality(NewCells(P)) <= Cardinality(P)
<1> DEFINE n(pos) == Cardinality({s \in Stripes(P) : s <= StripeOf(pos)})
           f == [pos \in P |-> <<seq + n(pos), pos>>]
<1>1. ASSUME NEW pos \in P PROVE n(pos) \in Nat
    <2>1. {s \in Stripes(P) : s <= StripeOf(pos)} \in SUBSET Stripes(P)
        OBVIOUS
    <2> QED
        BY <2>1, StripesFinite DEF SetLaws, SubsetLaw, SizeLaw
<1>2. NewCells(P) = {<<seq + n(pos), pos>> : pos \in P}
    BY DEF NewCells
<1> HIDE DEF n
<1>3. NewCells(P) \in SUBSET Cell
    BY SMTT(30), <1>1, <1>2 DEF Cell
<1>4. f \in [P -> NewCells(P)] /\ \A c \in NewCells(P) : \E pos \in P : f[pos] = c
    BY <1>2
<1>5. IsFiniteSet(P)
    BY PosFinite
<1> QED
    BY <1>3, <1>4, <1>5 DEF SetLaws, SurjectionLaw

\* Clipping a batch takes off as many bytes as it cuts.
LEMMA ClipCounted ==
    ASSUME SetLaws, NEW C \in SUBSET Cell, IsFiniteSet(C), NEW size \in Nat
    PROVE  /\ IsFiniteSet(UpTo(C, size))
           /\ Cardinality(PastSize(C, size)) \in Nat
           /\ Cardinality(UpTo(C, size)) =
                  Cardinality(C) - Cardinality(PastSize(C, size))
<1>1. PastSize(C, size) \in SUBSET C
    BY DEF PastSize
<1>2. UpTo(C, size) = C \ PastSize(C, size)
    BY SMTT(30) DEF UpTo, PastSize, Cell, Pos
<1>3. C \cap PastSize(C, size) = PastSize(C, size)
    BY <1>1
<1>4. /\ IsFiniteSet(UpTo(C, size))
      /\ Cardinality(UpTo(C, size)) = Cardinality(C) - Cardinality(C \cap PastSize(C, size))
    BY <1>2 DEF SetLaws, DifferenceLaw
<1>5. Cardinality(PastSize(C, size)) \in Nat
    BY <1>1 DEF SetLaws, SubsetLaw, SizeLaw
<1> QED
    BY <1>3, <1>4, <1>5

\* Any copy consists of bytes that were in the batch.
LEMMA SnapshotWithin ==
    ASSUME NEW old, NEW now, NEW ae \in Snapshots(old, now)
    PROVE  ae \subseteq old \cup now
BY DEF Snapshots

\* The values the operations give to a call, a flush and a node have their
\* types.
LEMMA ObjectTypes ==
    /\ NoNode \in Node /\ IdleProc \in Proc /\ IdleWk \in Wk
    /\ newBufBatch \in bufBatch
    /\ \A i \in Inode \cup {nil} : NewBuf(i) \in inodeBuf
BY SMTT(30) DEF NoNode, Node, IdleProc, Proc, ProcPc, IdleWk, Wk, WkPc, newBufBatch,
       bufBatch, NewBuf, inodeBuf, nil

\* Every step keeps the types and the pointers.
LEMMA StepTypes ==
    ASSUME SetLaws
    PROVE  TypeOK /\ Refs /\ Counted /\ [Next]_vars => TypeOK' /\ Refs'

\* The permits a clip returns for one batch.
<1>FreedType.
    ASSUME TypeOK, Counted, NEW x \in BatchId \cup {nil}, NEW size \in Nat
    PROVE  Freed(x, size) \in Nat
    <2> USE <1>FreedType
    <2>1. CASE x = nil
        BY <2>1 DEF Freed
    <2>2. CASE x # nil
        <3>1. batch[x].cells \in SUBSET Cell /\ IsFiniteSet(batch[x].cells)
            BY <2>2 DEF TypeOK, Counted, bufBatch
        <3> QED
            BY <2>2, <3>1, ClipCounted DEF Freed
    <2> QED
        BY <2>1, <2>2

\* Spending an event.
<1>SpendTypes.
    ASSUME TypeOK, NEW e \in Event, Spend(e)
    PROVE  budget' \in [Event -> Nat]
    BY SMTT(30), <1>SpendTypes DEF TypeOK, Spend

\* The three ways a call moves on.
<1>CallTypes.
    ASSUME TypeOK, NEW p \in Client
    PROVE  /\ \A e \in Event : Spend(e) => budget' \in [Event -> Nat]
           /\ \A pc \in ProcPc : Goto(p, pc) => proc' \in [Client -> Proc]
           /\ Return(p) => proc' \in [Client -> Proc]
           /\ \A r \in Proc : [proc EXCEPT ![p] = r] \in [Client -> Proc]
    <2> USE <1>CallTypes
    <2>1. \A e \in Event : Spend(e) => budget' \in [Event -> Nat]
        BY <1>SpendTypes
    <2>2. \A r \in Proc : [proc EXCEPT ![p] = r] \in [Client -> Proc]
        BY DEF TypeOK
    <2>3. ASSUME NEW pc \in ProcPc, Goto(p, pc) PROVE proc' \in [Client -> Proc]
        <3>0. proc[p] \in Proc
            BY DEF TypeOK
        <3>1. [proc[p] EXCEPT !.pc = pc] \in Proc
            BY <3>0 DEF Proc
        <3>2. proc' = [proc EXCEPT ![p] = [proc[p] EXCEPT !.pc = pc]]
            BY <2>3 DEF Goto, TypeOK
        <3> QED
            BY <2>2, <3>1, <3>2
    <2>4. Return(p) => proc' \in [Client -> Proc]
        BY <2>2, ObjectTypes DEF Return
    <2> QED
        BY <2>1, <2>2, <2>3, <2>4

\* A send that may give up.
<1>TrySendTypes.
    ASSUME TypeOK, NEW i \in Inode, NEW who \in {"call", "tick"}, TrySend(who, i)
    PROVE  /\ flushQ' \in Seq(flushReq) /\ Len(flushQ') <= queueSize
           /\ panic' \in SUBSET {"call", "tick", "done"}
    <2> USE <1>TrySendTypes
    <2>1. [inode |-> i, who |-> nil] \in flushReq
        BY DEF flushReq
    <2>2. flushQ \in Seq(flushReq) /\ Len(flushQ) <= queueSize
        BY DEF TypeOK
    <2>3. flushQ' \in Seq(flushReq) /\ Len(flushQ') <= queueSize
        BY SMTT(30), <2>1, <2>2, CoalescerAssumption DEF TrySend
    <2>4. panic' \in SUBSET {"call", "tick", "done"}
        BY DEF TrySend, Panic, TypeOK
    <2> QED
        BY <2>3, <2>4

\* A step of Write keeps the types.
<1>WriteTypes.
    ASSUME TypeOK, Refs, Counted, NEW p \in Client, WriteStep(p)
    PROVE  TypeOK'
    <2> USE <1>WriteTypes
    <2> USE CoalescerAssumption
    <2>0. proc[p] \in Proc
        BY DEF TypeOK
    <2>1. ASSUME NEW i \in Inode, NEW P \in Interval, WriteCall(p, i, P)
          PROVE  TypeOK'
        <3>1. P \in SUBSET Pos
            BY SMTT(30) DEF Interval, Pos
        <3>2. [IdleProc EXCEPT !.pc = "acquire", !.inode = i, !.data = P] \in Proc
            BY <3>1, ObjectTypes DEF Proc, ProcPc
        <3>3. proc' \in [Client -> Proc]
            BY <2>1, <3>2, <1>CallTypes DEF WriteCall, Begin
        <3>4. budget' \in [Event -> Nat]
            BY <2>1, <1>CallTypes DEF WriteCall, Begin, Event
        <3> QED
            BY <2>1, <3>3, <3>4 DEF WriteCall, TypeOK, mem, ctl
    <2>2. CASE WriteAcquire(p)
        <3> DEFINE i == proc[p].inode
                   b == IF buffers[i] = nil THEN nbuf + 1 ELSE buffers[i]
        <3>1. i \in Inode /\ b \in BufId
            BY <2>2 DEF WriteAcquire, Refs, NoInode
        <3>2. sem' \in Int
            <4>1. sem' = sem + Cardinality(proc[p].data) /\ sem \in Int
                BY <2>2 DEF WriteAcquire, TypeOK
            <4> QED
                BY SMTT(30), <2>0, <4>1, PosFinite DEF Proc
        <3>3. proc' \in [Client -> Proc]
            <4>1. [proc[p] EXCEPT !.pc = "append", !.buf = b] \in Proc
                BY <2>0, <3>1 DEF Proc, ProcPc
            <4>2. proc' = [proc EXCEPT ![p] = [proc[p] EXCEPT !.pc = "append", !.buf = b]]
                BY <2>2 DEF WriteAcquire, TypeOK
            <4> QED
                BY <4>1, <4>2, <1>CallTypes
        <3>4. buffers' \in [Inode -> BufId \cup {nil}]
            BY <2>2, <3>1 DEF WriteAcquire, TypeOK
        <3>5. buf' \in [BufId -> inodeBuf]
            BY <2>2, <3>1, ObjectTypes DEF WriteAcquire, TypeOK
        <3>6. nbuf' \in 0 .. MaxBuf
            <4>1. nbuf' = Larger(nbuf, b) /\ nbuf \in 0 .. MaxBuf
                BY <2>2 DEF WriteAcquire, TypeOK
            <4> HIDE DEF b
            <4> QED
                BY SMTT(30), <3>1, <4>1 DEF BufId, Larger
        <3> QED
            BY <2>2, <3>2, <3>3, <3>4, <3>5, <3>6 DEF WriteAcquire, TypeOK, ctl
    <2>3. CASE WriteCancel(p)
        <3>1. proc' \in [Client -> Proc] /\ budget' \in [Event -> Nat]
            BY <2>3, <1>CallTypes DEF WriteCancel, Event
        <3> QED
            BY <2>3, <3>1 DEF WriteCancel, TypeOK, mem, ctl
    <2>4. CASE WriteAppend(p)
        <3> DEFINE i == proc[p].inode
                   b == proc[p].buf
                   P == proc[p].data
                   x == IF buf[b].current = nil THEN nbatch + 1 ELSE buf[b].current
                   bytes == batch[x].bytes + Cardinality(P)
        <3>1. i \in Inode /\ b \in BufId /\ x \in BatchId /\ P \in SUBSET Pos
            BY <2>0, <2>4 DEF WriteAppend, Refs, NoInode, HoldsBuf, Proc
        <3>2. buf[b] \in inodeBuf /\ batch[x] \in bufBatch /\ h[i] \in History
            BY <3>1 DEF TypeOK
        <3>3. /\ batch' = [batch EXCEPT ![x] =
                     [batch[x] EXCEPT !.cells = @ \cup NewCells(P), !.bytes = bytes]]
              /\ buf' = [buf EXCEPT ![b] = [buf[b] EXCEPT !.current = x,
                             !.liveSize = Larger(@, MaxEnd(NewCells(P)))]]
              /\ h' = [h EXCEPT ![i] = [h[i] EXCEPT !.written = @ \cup NewCells(P)]]
              /\ nbatch' = Larger(nbatch, x) /\ seq' = seq + Cardinality(Stripes(P))
            BY <2>4, <3>1 DEF WriteAppend, TypeOK
        <3>4. bytes = batch[x].bytes + Cardinality(P)
            OBVIOUS
        <3> HIDE DEF x, bytes
        <3>5. /\ NewCells(P) \in SUBSET Cell /\ MaxEnd(NewCells(P)) \in Nat
              /\ Cardinality(P) \in Nat /\ Cardinality(Stripes(P)) \in Nat
            BY <3>1, NewCellsCounted, MaxEndCovers, PosFinite, StripesFinite DEF TypeOK
        <3>6. batch' \in [BatchId -> bufBatch]
            <4>1. bytes \in Int
                BY SMTT(30), <3>2, <3>4, <3>5 DEF bufBatch
            <4>2. [batch[x] EXCEPT !.cells = @ \cup NewCells(P), !.bytes = bytes]
                      \in bufBatch
                BY <3>2, <3>5, <4>1 DEF bufBatch
            <4> QED
                BY <3>1, <3>3, <4>2 DEF TypeOK
        <3>7. buf' \in [BufId -> inodeBuf]
            <4>1. [buf[b] EXCEPT !.current = x,
                      !.liveSize = Larger(@, MaxEnd(NewCells(P)))] \in inodeBuf
                BY <3>1, <3>2, <3>5 DEF inodeBuf, Larger
            <4> QED
                BY <3>1, <3>3, <4>1 DEF TypeOK
        <3>8. h' \in [Inode -> History]
            <4>1. [h[i] EXCEPT !.written = @ \cup NewCells(P)] \in History
                BY <3>2, <3>5 DEF History
            <4> QED
                BY <3>1, <3>3, <4>1 DEF TypeOK
        <3>9. seq' \in Nat /\ nbatch' \in 0 .. MaxBatch
            <4>1. seq \in Nat /\ nbatch \in 0 .. MaxBatch
                BY DEF TypeOK
            <4> QED
                BY SMTT(30), <3>1, <3>3, <3>5, <4>1 DEF BatchId, Larger
        <3>10. proc' \in [Client -> Proc]
            BY <2>4, <1>CallTypes DEF WriteAppend, ProcPc
        <3> QED
            BY <2>4, <3>6, <3>7, <3>8, <3>9, <3>10 DEF WriteAppend, TypeOK, ctl
    <2>5. CASE WritePoisoned(p)
        <3>1. proc' \in [Client -> Proc] /\ sem' \in Int
            BY SMTT(30), <2>0, <2>5, <1>CallTypes, PosFinite DEF WritePoisoned, TypeOK, Proc
        <3> QED
            BY <2>5, <3>1 DEF WritePoisoned, TypeOK, ctl
    <2>6. CASE WriteEnqueue(p)
        <3>1. proc' \in [Client -> Proc] /\ proc[p].inode \in Inode
            BY <2>6, <1>CallTypes DEF WriteEnqueue, Refs, NoInode
        <3> QED
            BY <2>6, <3>1, <1>TrySendTypes DEF WriteEnqueue, TypeOK, mem
    <2> QED
        BY <2>1, <2>2, <2>3, <2>4, <2>5, <2>6 DEF WriteStep

\* What Fsync waits for are batches.
<1>WaitsTypes.
    ASSUME TypeOK, NEW b \in BufId
    PROVE  Waits(b) \in SUBSET BatchId
    <2> USE <1>WaitsTypes
    <2>1. buf[b] \in inodeBuf
        BY DEF TypeOK
    <2> QED
        BY <2>1 DEF Waits, NeedTrigger, inodeBuf

\* Vouching for a set of cells keeps the history's type.
<1>VouchTypes.
    ASSUME TypeOK, NEW i \in Inode, NEW C \in SUBSET Cell
    PROVE  [h EXCEPT ![i].synced = @ \cup C] \in [Inode -> History]
    <2> USE <1>VouchTypes
    <2>1. h[i] \in History
        BY DEF TypeOK
    <2>2. [h[i] EXCEPT !.synced = @ \cup C] \in History
        BY <2>1 DEF History
    <2>3. [h EXCEPT ![i].synced = @ \cup C] =
              [h EXCEPT ![i] = [h[i] EXCEPT !.synced = @ \cup C]]
        BY DEF TypeOK
    <2> QED
        BY <2>2, <2>3 DEF TypeOK

\* Fsync's return to its caller.
<1>AfterFsyncTypes.
    ASSUME TypeOK, NEW p \in Client, NEW i \in Inode \cup {nil}, AfterFsync(p, i)
    PROVE  proc' \in [Client -> Proc]
    <2> USE <1>AfterFsyncTypes
    <2> DEFINE rest == proc[p].todo \ {i}
               r == IF rest # {} THEN [IdleProc EXCEPT !.pc = "fsync", !.todo = rest]
                    ELSE IF life = "draining" THEN [IdleProc EXCEPT !.pc = "close"]
                    ELSE IdleProc
    <2>1. rest \in SUBSET Inode
        <3>1. proc[p] \in Proc
            BY DEF TypeOK
        <3> QED
            BY <3>1 DEF Proc
    <2>2. proc' = [proc EXCEPT ![p] = r]
        BY DEF AfterFsync
    <2> HIDE DEF rest
    <2>3. [IdleProc EXCEPT !.pc = "fsync", !.todo = rest] \in Proc
        BY <2>1, ObjectTypes DEF Proc, ProcPc
    <2>4. [IdleProc EXCEPT !.pc = "close"] \in Proc
        BY ObjectTypes DEF Proc, ProcPc
    <2>5. r \in Proc
        BY <2>3, <2>4, ObjectTypes
    <2> QED
        BY <2>2, <2>5, <1>CallTypes

\* A step of Fsync keeps the types.
<1>FsyncTypes.
    ASSUME TypeOK, Refs, NEW p \in Client, FsyncStep(p)
    PROVE  TypeOK'
    <2> USE <1>FsyncTypes
    <2> USE CoalescerAssumption
    <2>0. proc[p] \in Proc
        BY DEF TypeOK
    <2>1. ASSUME NEW i \in Inode, FsyncCall(p, i) PROVE TypeOK'
        <3>1. [IdleProc EXCEPT !.pc = "fsync", !.todo = {i}] \in Proc
            BY ObjectTypes DEF Proc, ProcPc
        <3>2. proc' \in [Client -> Proc] /\ budget' \in [Event -> Nat]
            BY <2>1, <3>1, <1>CallTypes DEF FsyncCall, Begin, Event
        <3> QED
            BY <2>1, <3>2 DEF FsyncCall, TypeOK, mem, ctl
    <2>2. ASSUME NEW i \in Inode, FsyncSnapshot(p, i) PROVE TypeOK'
        <3> DEFINE b == buffers[i]
                   pc == IF NeedTrigger(b) THEN "trigger" ELSE "wait"
                   r == [proc[p] EXCEPT !.pc = pc, !.inode = i, !.buf = b,
                                        !.waits = Waits(b), !.must = h[i].written]
        <3>1. b \in BufId /\ h[i] \in History /\ pc \in ProcPc
            BY <2>2 DEF FsyncSnapshot, TypeOK, ProcPc
        <3>2. Waits(b) \in SUBSET BatchId /\ h[i].written \in SUBSET Cell
            BY <3>1, <1>WaitsTypes DEF History
        <3>3. proc' = [proc EXCEPT ![p] = r]
            BY <2>2 DEF FsyncSnapshot, TypeOK
        <3> HIDE DEF pc, b
        <3>4. r \in Proc
            BY <2>0, <3>1, <3>2 DEF Proc
        <3>5. proc' \in [Client -> Proc]
            BY <3>3, <3>4, <1>CallTypes
        <3> QED
            BY <2>2, <3>5 DEF FsyncSnapshot, TypeOK, mem, ctl
    <2>3. ASSUME NEW i \in Inode, FsyncEarly(p, i) PROVE TypeOK'
        <3>1. proc' \in [Client -> Proc]
            BY <2>3, <1>AfterFsyncTypes DEF FsyncEarly
        <3>2. h[i].written \in SUBSET Cell
            BY DEF TypeOK, History
        <3>3. h' \in [Inode -> History]
            BY <2>3, <3>2, <1>VouchTypes DEF FsyncEarly, TypeOK
        <3> QED
            BY <2>3, <3>1, <3>3 DEF FsyncEarly, TypeOK, mem, ctl
    <2>4. CASE FsyncTrigger(p)
        <3>1. [inode |-> proc[p].inode, who |-> p] \in flushReq
            BY <2>4 DEF FsyncTrigger, Refs, NoInode, flushReq
        <3>2. flushQ' \in Seq(flushReq) /\ Len(flushQ') <= queueSize
            BY SMTT(30), <2>4, <3>1 DEF FsyncTrigger, TypeOK
        <3>3. proc' \in [Client -> Proc]
            BY <2>4, <1>CallTypes DEF FsyncTrigger, ProcPc
        <3>4. panic' \in SUBSET {"call", "tick", "done"}
            BY <2>4 DEF FsyncTrigger, Panic, TypeOK
        <3> QED
            BY <2>4, <3>2, <3>3, <3>4 DEF FsyncTrigger, TypeOK, mem
    <2>5. CASE FsyncFired(p)
        <3>1. proc' \in [Client -> Proc]
            BY <2>5, <1>CallTypes DEF FsyncFired, ProcPc
        <3> QED
            BY <2>5, <3>1 DEF FsyncFired, TypeOK, mem, ctl
    <2>6. CASE FsyncDone(p)
        <3>1. proc[p].inode \in Inode /\ proc[p].must \in SUBSET Cell
            BY <2>0, <2>6 DEF FsyncDone, Refs, NoInode, Proc
        <3>2. proc' \in [Client -> Proc]
            BY <2>6, <3>1, <1>AfterFsyncTypes DEF FsyncDone
        <3>3. h' \in [Inode -> History]
            BY <2>6, <3>1, <1>VouchTypes DEF FsyncDone, TypeOK
        <3> QED
            BY <2>6, <3>2, <3>3 DEF FsyncDone, TypeOK, mem, ctl
    <2>7. CASE FsyncCancel(p)
        <3>1. proc' \in [Client -> Proc] /\ budget' \in [Event -> Nat]
            BY <2>7, <1>CallTypes DEF FsyncCancel, Event
        <3>2. flushQ' \in Seq(flushReq) /\ Len(flushQ') <= queueSize
            <4>0. flushQ \in Seq(flushReq) /\ Len(flushQ) <= queueSize
                BY DEF TypeOK
            <4>1. ASSUME NEW k \in 1 .. Len(flushQ)
                  PROVE  flushQ[k] \in flushReq
                         /\ [flushQ[k] EXCEPT !.who = nil] \in flushReq
                <5>1. flushQ[k] \in flushReq
                    BY SMTT(30), <4>0
                <5> QED
                    BY <5>1 DEF flushReq
            <4>2. flushQ' = [k \in 1 .. Len(flushQ) |->
                                IF flushQ[k].who = p THEN [flushQ[k] EXCEPT !.who = nil]
                                ELSE flushQ[k]]
                BY SMTT(30), <2>7, <4>0 DEF FsyncCancel
            <4>3. flushQ' \in [1 .. Len(flushQ) -> flushReq]
                BY <4>1, <4>2
            <4>4. Len(flushQ) \in Nat
                BY SMTT(30), <4>0
            <4>5. flushQ' \in Seq(flushReq) /\ Len(flushQ') = Len(flushQ)
                BY SMTT(30), <4>3, <4>4
            <4> QED
                BY <4>0, <4>5
        <3> QED
            BY <2>7, <3>1, <3>2 DEF FsyncCancel, TypeOK, mem, ctl
    <2> QED
        BY <2>1, <2>2, <2>3, <2>4, <2>5, <2>6, <2>7 DEF FsyncStep

\* Store.Stat returns a size.
<1>StatTypes.
    ASSUME TypeOK, NEW i \in Inode
    PROVE  StatSize(i) \in Nat
    <2> USE <1>StatTypes
    <2>1. node[i] \in Node /\ buffers[i] \in BufId \cup {nil}
        BY DEF TypeOK
    <2>2. CASE buffers[i] = nil
        BY <2>1, <2>2 DEF StatSize, Node
    <2>3. CASE buffers[i] # nil
        <3>1. buf[buffers[i]] \in inodeBuf
            BY <2>1, <2>3 DEF TypeOK
        <3> QED
            BY <2>1, <2>3, <3>1 DEF StatSize, Node, inodeBuf, Larger
    <2> QED
        BY <2>2, <2>3

\* InvalidatePastSize keeps the types of what it clips.
<1>InvalidateTypes.
    ASSUME TypeOK, Counted, NEW b \in BufId, NEW size \in Nat,
           InvalidatePastSize(b, size)
    PROVE  /\ batch' \in [BatchId -> bufBatch]
           /\ buf' \in [BufId -> inodeBuf]
           /\ sem' \in Int
    <2> USE <1>InvalidateTypes
    <2> DEFINE cur == buf[b].current
               fls == buf[b].flushing
               freed == Freed(cur, size) + Freed(fls, size)
    <2>0. buf[b] \in inodeBuf
        BY DEF TypeOK
    <2>1. Freed(cur, size) \in Nat /\ Freed(fls, size) \in Nat
        BY <2>0, <1>FreedType DEF inodeBuf
    <2>2. ASSUME NEW x \in BatchId, NEW n \in Nat PROVE Clip(x, size, n) \in bufBatch
        <3>1. batch[x] \in bufBatch
            BY DEF TypeOK
        <3>2. UpTo(batch[x].cells, size) \in SUBSET Cell /\ batch[x].bytes - n \in Int
            BY SMTT(30), <3>1 DEF bufBatch, UpTo
        <3> QED
            BY <3>1, <3>2 DEF Clip, bufBatch
    <2>3. /\ batch' = [x \in BatchId |->
                          IF x = cur THEN Clip(x, size, Freed(cur, size))
                          ELSE IF x = fls THEN Clip(x, size, freed) ELSE batch[x]]
          /\ sem' = sem - freed
        BY DEF InvalidatePastSize
    <2>4. freed \in Nat
        BY SMTT(30), <2>1
    <2> HIDE DEF cur, fls, freed
    <2>5. batch' \in [BatchId -> bufBatch]
        BY <2>1, <2>2, <2>3, <2>4 DEF TypeOK
    <2>6. sem' \in Int
        BY SMTT(30), <2>3, <2>4 DEF TypeOK
    <2>7. buf' \in [BufId -> inodeBuf]
        <3> DEFINE r == [buf[b] EXCEPT !.liveSize = IF @ > size THEN size ELSE @]
        <3>1. buf' = [buf EXCEPT ![b] = r]
            BY DEF InvalidatePastSize, TypeOK
        <3>2. r \in inodeBuf
            BY <2>0 DEF inodeBuf
        <3> QED
            BY <3>1, <3>2 DEF TypeOK
    <2> QED
        BY <2>5, <2>6, <2>7

\* A step of Setattr keeps the types.
<1>SetattrTypes.
    ASSUME TypeOK, Refs, Counted, NEW p \in Client, SetattrStep(p)
    PROVE  TypeOK'
    <2> USE <1>SetattrTypes
    <2> USE CoalescerAssumption
    <2>0. proc[p] \in Proc
        BY DEF TypeOK
    <2>1. ASSUME NEW i \in Inode, NEW size \in 0 .. MaxPos, SetattrSize(p, i, size)
          PROVE  TypeOK'
        <3> DEFINE pc == IF size < StatSize(i) THEN "truncate" ELSE "stat"
                   r == [IdleProc EXCEPT !.pc = pc, !.inode = i, !.size = size]
                   cut == PastSize(h[i].written \cup h[i].synced \cup disk[i], size)
                   s == [h[i] EXCEPT !.met = @ \/ Flushing(i), !.gone = @ \cup cut]
        <3>1. size \in Nat /\ pc \in ProcPc
            BY SMTT(30) DEF ProcPc, SetattrPc
        <3>2. proc' = [proc EXCEPT ![p] = r] /\ Spend("truncate")
            BY <2>1 DEF SetattrSize, Begin
        <3>3. h' = [h EXCEPT ![i] = s] \/ h' = h
            BY <2>1 DEF SetattrSize, TypeOK
        <3>4. \/ buffers[i] # nil /\ InvalidatePastSize(buffers[i], size)
              \/ UNCHANGED <<buf, batch, sem>>
            BY <2>1 DEF SetattrSize
        <3> HIDE DEF pc
        <3>5. proc' \in [Client -> Proc] /\ budget' \in [Event -> Nat]
            <4>1. r \in Proc
                BY <3>1, ObjectTypes DEF Proc
            <4> QED
                BY <3>2, <4>1, <1>CallTypes DEF Event
        <3>6. h' \in [Inode -> History]
            <4>1. h[i] \in History /\ disk[i] \in SUBSET Cell
                BY DEF TypeOK
            <4>2. cut \in SUBSET Cell /\ Flushing(i) \in BOOLEAN
                BY <4>1 DEF History, PastSize, Flushing
            <4> HIDE DEF cut
            <4>3. s \in History
                BY <4>1, <4>2 DEF History
            <4> QED
                BY <3>3, <4>3 DEF TypeOK
        <3>7. /\ batch' \in [BatchId -> bufBatch]
              /\ buf' \in [BufId -> inodeBuf]
              /\ sem' \in Int
            <4>1. CASE buffers[i] # nil /\ InvalidatePastSize(buffers[i], size)
                <5>1. buffers[i] \in BufId
                    BY <4>1 DEF TypeOK
                <5> QED
                    BY <3>1, <4>1, <5>1, <1>InvalidateTypes
            <4>2. CASE UNCHANGED <<buf, batch, sem>>
                BY <4>2 DEF TypeOK
            <4> QED
                BY <3>4, <4>1, <4>2
        <3> QED
            BY <2>1, <3>5, <3>6, <3>7 DEF SetattrSize, TypeOK, ctl
    <2>2. ASSUME NEW i \in Inode, SetattrMode(p, i) PROVE TypeOK'
        <3>1. [IdleProc EXCEPT !.pc = "stat", !.inode = i, !.size = KeepSize] \in Proc
            BY ObjectTypes DEF Proc, ProcPc, SetattrPc
        <3>2. proc' \in [Client -> Proc] /\ budget' \in [Event -> Nat]
            BY <2>2, <3>1, <1>CallTypes DEF SetattrMode, Begin, Event
        <3> QED
            BY <2>2, <3>2 DEF SetattrMode, TypeOK, mem, ctl
    <2>3. CASE SetattrTruncate(p)
        <3> DEFINE i == proc[p].inode
                   cut == PastSize(disk[i], proc[p].size)
                   s == [h[i] EXCEPT !.gone = @ \cup cut, !.met = @ \/ Flushing(i)]
        <3>1. i \in Inode
            BY <2>3 DEF SetattrTruncate, Refs, NoInode
        <3>2. disk' \in [Inode -> SUBSET Cell]
            BY <2>3, <3>1 DEF SetattrTruncate, TypeOK, UpTo
        <3>3. h' = [h EXCEPT ![i] = s]
            BY <2>3, <3>1 DEF SetattrTruncate, TypeOK
        <3>4. h' \in [Inode -> History]
            <4>1. h[i] \in History /\ disk[i] \in SUBSET Cell
                BY <3>1 DEF TypeOK
            <4>2. cut \in SUBSET Cell /\ Flushing(i) \in BOOLEAN
                BY <4>1 DEF PastSize, Flushing
            <4> HIDE DEF cut
            <4>3. s \in History
                BY <4>1, <4>2 DEF History
            <4> QED
                BY <3>1, <3>3, <4>3 DEF TypeOK
        <3>5. proc' \in [Client -> Proc]
            BY <2>3, <1>CallTypes DEF SetattrTruncate, ProcPc, SetattrPc
        <3> QED
            BY <2>3, <3>2, <3>4, <3>5 DEF SetattrTruncate, TypeOK, mem, ctl
    <2>4. CASE SetattrStat(p)
        <3> DEFINE i == proc[p].inode
                   keep == proc[p].size = KeepSize
                   size == IF keep THEN StatSize(i) ELSE proc[p].size
                   mode == IF keep THEN node[i].mode + 1 ELSE node[i].mode
                   nn == [ok |-> TRUE, size |-> size, mode |-> mode]
        <3>1. i \in Inode
            BY <2>4 DEF SetattrStat, Refs, NoInode
        <3>2. size \in Nat
            BY <2>0, <3>1, <1>StatTypes DEF Proc
        <3>3. mode \in Nat
            <4>1. node[i] \in Node
                BY <3>1 DEF TypeOK
            <4> QED
                BY SMTT(30), <4>1 DEF Node
        <3>4. \/ proc' = [proc EXCEPT ![p] = [proc[p] EXCEPT !.pc = "commit", !.nn = nn]]
              \/ Return(p)
            BY <2>4 DEF SetattrStat, TypeOK
        <3> HIDE DEF size, mode
        <3>5. [proc[p] EXCEPT !.pc = "commit", !.nn = nn] \in Proc
            BY <2>0, <3>2, <3>3 DEF Proc, ProcPc, SetattrPc, Node
        <3>6. proc' \in [Client -> Proc]
            BY SMTT(30), <3>4, <3>5, <1>CallTypes
        <3> QED
            BY <2>4, <3>6 DEF SetattrStat, TypeOK, mem, ctl
    <2>5. CASE SetattrCommit(p)
        <3> DEFINE i == proc[p].inode
                   nn == proc[p].nn
                   s == [h[i] EXCEPT !.chmodded = nn.mode, !.met = @ \/ Flushing(i)]
                   t == [h[i] EXCEPT !.asked = proc[p].size, !.met = @ \/ Flushing(i)]
        <3>1. i \in Inode /\ nn \in Node
            BY <2>0, <2>5 DEF SetattrCommit, Refs, NoInode, Proc
        <3>2. proc' \in [Client -> Proc] /\ node' \in [Inode -> Node]
            BY <2>5, <3>1, <1>CallTypes DEF SetattrCommit, TypeOK
        <3>3. h' = [h EXCEPT ![i] = IF proc[p].size = KeepSize THEN s ELSE t]
            BY <2>5, <3>1 DEF SetattrCommit, TypeOK
        <3>4. h' \in [Inode -> History]
            <4>1. h[i] \in History /\ nn.mode \in Nat /\ Flushing(i) \in BOOLEAN
                BY <3>1 DEF TypeOK, Node, Flushing
            <4>2. s \in History
                BY <4>1 DEF History
            <4>3. ASSUME proc[p].size # KeepSize PROVE t \in History
                BY <2>0, <4>1, <4>3 DEF History, Proc
            <4> QED
                BY <3>1, <3>3, <4>2, <4>3 DEF TypeOK
        <3> QED
            BY <2>5, <3>2, <3>4 DEF SetattrCommit, TypeOK, mem, ctl
    <2> QED
        BY <2>1, <2>2, <2>3, <2>4, <2>5 DEF SetattrStep

\* A step of Unlink keeps the types.
<1>UnlinkTypes.
    ASSUME TypeOK, Refs, NEW p \in Client, UnlinkStep(p)
    PROVE  TypeOK'
    <2> USE <1>UnlinkTypes
    <2> USE CoalescerAssumption
    <2>0. proc[p] \in Proc
        BY DEF TypeOK
    <2>1. ASSUME NEW i \in Inode, UnlinkCommit(p, i) PROVE TypeOK'
        <3>1. [IdleProc EXCEPT !.pc = "drop", !.inode = i] \in Proc
            BY ObjectTypes DEF Proc, ProcPc
        <3>2. proc' \in [Client -> Proc] /\ budget' \in [Event -> Nat]
            BY <2>1, <3>1, <1>CallTypes DEF UnlinkCommit, Begin, Event
        <3>3. node' \in [Inode -> Node]
            BY <2>1, ObjectTypes DEF UnlinkCommit, TypeOK
        <3>4. h' \in [Inode -> History]
            <4>1. h[i] \in History
                BY DEF TypeOK
            <4>2. [h[i] EXCEPT !.unlinked = TRUE] \in History
                BY <4>1 DEF History
            <4>3. h' = [h EXCEPT ![i] = [h[i] EXCEPT !.unlinked = TRUE]]
                BY <2>1 DEF UnlinkCommit, TypeOK
            <4> QED
                BY <4>2, <4>3 DEF TypeOK
        <3> QED
            BY <2>1, <3>2, <3>3, <3>4 DEF UnlinkCommit, TypeOK, mem, ctl
    <2>2. CASE DropWait(p)
        <3> DEFINE b == buffers[proc[p].inode]
                   pc == IF b = nil THEN "delete" ELSE "clear"
                   r == [proc[p] EXCEPT !.pc = pc, !.buf = b]
        <3>1. proc[p].inode \in Inode
            BY <2>2 DEF DropWait, Refs, NoInode
        <3>2. b \in BufId \cup {nil} /\ pc \in ProcPc
            BY <3>1 DEF TypeOK, ProcPc
        <3>3. proc' = [proc EXCEPT ![p] = r]
            BY <2>2 DEF DropWait, TypeOK
        <3> HIDE DEF b, pc
        <3>4. r \in Proc
            BY <2>0, <3>2 DEF Proc
        <3>5. proc' \in [Client -> Proc]
            BY <3>3, <3>4, <1>CallTypes
        <3> QED
            BY <2>2, <3>5 DEF DropWait, TypeOK, mem, ctl
    <2>3. CASE DropClear(p)
        <3> DEFINE b == proc[p].buf
                   x == buf[b].current
                   r == [buf[b] EXCEPT !.current = nil, !.liveSize = 0]
                   d == [batch[x] EXCEPT !.done = TRUE]
        <3>1. b \in BufId /\ buf[b] \in inodeBuf
            BY <2>3 DEF DropClear, Refs, HoldsBuf, TypeOK
        <3>2. buf' \in [BufId -> inodeBuf]
            <4>1. r \in inodeBuf
                BY <3>1 DEF inodeBuf
            <4>2. buf' = [buf EXCEPT ![b] = r]
                BY <2>3, <3>1 DEF DropClear, TypeOK
            <4> QED
                BY <3>1, <4>1, <4>2 DEF TypeOK
        <3>3. /\ batch' \in [BatchId -> bufBatch]
              /\ sem' \in Int
              /\ panic' \in SUBSET {"call", "tick", "done"}
            <4>1. CASE x = nil
                BY <2>3, <4>1 DEF DropClear, Abandoned, TypeOK
            <4>2. CASE x # nil
                <5>1. x \in BatchId /\ batch[x] \in bufBatch
                    BY <3>1, <4>2 DEF inodeBuf, TypeOK
                <5>2. d \in bufBatch /\ batch[x].bytes \in Int
                    BY <5>1 DEF bufBatch
                <5>3. /\ batch' = [batch EXCEPT ![x] = d]
                      /\ sem' = sem - batch[x].bytes
                      /\ panic' \in SUBSET {"call", "tick", "done"}
                    BY <2>3, <4>2, <5>1 DEF DropClear, Abandoned, Panic, TypeOK
                <5> HIDE DEF d, x
                <5>4. batch' \in [BatchId -> bufBatch] /\ sem' \in Int
                    <6>1. sem \in Int /\ batch \in [BatchId -> bufBatch]
                        BY DEF TypeOK
                    <6> QED
                        BY SMTT(30), <5>1, <5>2, <5>3, <6>1
                <5> QED
                    BY <5>3, <5>4
            <4> QED
                BY <4>1, <4>2
        <3>4. proc' \in [Client -> Proc]
            BY <2>3, <1>CallTypes DEF DropClear, ProcPc
        <3> QED
            BY <2>3, <3>2, <3>3, <3>4 DEF DropClear, TypeOK
    <2>4. CASE DropForget(p)
        <3>1. proc' \in [Client -> Proc] /\ buffers' \in [Inode -> BufId \cup {nil}]
            BY <2>4, <1>CallTypes DEF DropForget, ProcPc, TypeOK
        <3> QED
            BY <2>4, <3>1 DEF DropForget, TypeOK, ctl
    <2>5. CASE DeleteInode(p)
        <3>1. proc' \in [Client -> Proc] /\ disk' \in [Inode -> SUBSET Cell]
            BY <2>5, <1>CallTypes DEF DeleteInode, TypeOK
        <3> QED
            BY <2>5, <3>1 DEF DeleteInode, TypeOK, mem, ctl
    <2> QED
        BY <2>1, <2>2, <2>3, <2>4, <2>5 DEF UnlinkStep

\* A step of Close keeps the types.
<1>CloseTypes.
    ASSUME TypeOK, NEW p \in Client, CloseStep(p)
    PROVE  TypeOK'
    <2> USE <1>CloseTypes
    <2>1. CASE Drain(p)
        <3> DEFINE todo == {i \in Inode : buffers[i] # nil}
                   pc == IF todo = {} THEN "close" ELSE "fsync"
                   r == [IdleProc EXCEPT !.pc = pc, !.todo = todo]
        <3>1. pc \in ProcPc /\ todo \in SUBSET Inode
            BY DEF ProcPc
        <3>2. proc' = [proc EXCEPT ![p] = r] /\ Spend("close")
            BY <2>1 DEF Drain, Begin
        <3> HIDE DEF pc, todo
        <3>3. r \in Proc
            BY <3>1, ObjectTypes DEF Proc
        <3>4. proc' \in [Client -> Proc] /\ budget' \in [Event -> Nat]
            BY <3>2, <3>3, <1>CallTypes DEF Event
        <3> QED
            BY <2>1, <3>4 DEF Drain, TypeOK, mem
    <2>2. CASE Close(p)
        <3>1. proc' \in [Client -> Proc]
            BY <2>2, <1>CallTypes DEF Close, ProcPc
        <3> QED
            BY <2>2, <3>1 DEF Close, TypeOK, mem
    <2>3. CASE CloseJoin(p)
        <3>1. proc' \in [Client -> Proc]
            BY <2>3, <1>CallTypes DEF CloseJoin
        <3> QED
            BY <2>3, <3>1 DEF CloseJoin, TypeOK, mem
    <2> QED
        BY <2>1, <2>2, <2>3 DEF CloseStep

\* A step of a flusher keeps the types.
<1>FlushTypes.
    ASSUME TypeOK, Refs, NEW w \in Worker, FlushStep(w)
    PROVE  TypeOK'
    <2> USE <1>FlushTypes
    <2> USE CoalescerAssumption
    <2>0. wk[w] \in Wk /\ \A r \in Wk : [wk EXCEPT ![w] = r] \in [Worker -> Wk]
        BY DEF TypeOK
    <2>1. CASE FlushTake(w)
        <3> DEFINE req == Head(flushQ)
                   b == buffers[req.inode]
                   x == buf[b].current
        <3>1. /\ req \in flushReq /\ flushQ' \in Seq(flushReq)
              /\ Len(flushQ') <= queueSize
            <4>1. flushQ \in Seq(flushReq) /\ Len(flushQ) <= queueSize
                BY DEF TypeOK
            <4>2. flushQ # <<>> /\ flushQ' = Tail(flushQ)
                BY <2>1 DEF FlushTake
            <4> QED
                BY SMTT(30), <4>1, <4>2
        <3>2. proc' \in [Client -> Proc]
            <4>1. CASE req.who = nil
                BY <2>1, <4>1 DEF FlushTake, TypeOK
            <4>2. CASE req.who # nil
                <5>1. req.who \in Client /\ proc[req.who] \in Proc
                    BY <3>1, <4>2 DEF flushReq, TypeOK
                <5>2. [proc[req.who] EXCEPT !.fired = TRUE] \in Proc
                    BY <5>1 DEF Proc
                <5>3. proc' = [proc EXCEPT ![req.who] =
                                   [proc[req.who] EXCEPT !.fired = TRUE]]
                    BY <2>1, <4>2, <5>1 DEF FlushTake, TypeOK
                <5> HIDE DEF req
                <5> QED
                    BY <5>1, <5>2, <5>3, <1>CallTypes
            <4> QED
                BY <4>1, <4>2
        <3>3. CASE Bail(b)
            <4>1. UNCHANGED <<buf, nbatch, wk>>
                BY <2>1, <3>3 DEF FlushTake
            <4> QED
                BY <2>1, <3>1, <3>2, <4>1 DEF FlushTake, TypeOK, ctl
        <3>4. CASE ~Bail(b)
            <4>1. req.inode \in Inode /\ b \in BufId \cup {nil}
                BY <3>1 DEF flushReq, TypeOK
            <4>2. b \in BufId /\ buf[b] \in inodeBuf /\ x \in BatchId
                <5>1. b # nil
                    BY <3>4 DEF Bail
                <5>2. b \in BufId /\ buf[b] \in inodeBuf
                    BY <4>1, <5>1 DEF TypeOK
                <5>3. x # nil
                    BY <3>4, <5>1 DEF Bail, NeedTrigger
                <5> QED
                    BY <5>2, <5>3 DEF inodeBuf
            <4>3. nbatch + 1 \in BatchId /\ nbatch' \in 0 .. MaxBatch
                <5>1. nbatch + 1 \in BatchId /\ nbatch' = nbatch + 1
                    BY <2>1, <3>4 DEF FlushTake
                <5> QED
                    <6>1. nbatch \in 0 .. MaxBatch
                        BY DEF TypeOK
                    <6> QED
                        BY SMTT(30), <5>1, <6>1 DEF BatchId
            <4>4. buf' \in [BufId -> inodeBuf]
                <5>1. buf' = [buf EXCEPT ![b] = [buf[b] EXCEPT
                                  !.flushing = x, !.current = nbatch + 1]]
                    BY <2>1, <3>4 DEF FlushTake, TypeOK
                <5> HIDE DEF b, x
                <5>2. [buf[b] EXCEPT !.flushing = x, !.current = nbatch + 1] \in inodeBuf
                    BY <4>2, <4>3 DEF inodeBuf
                <5> QED
                    BY <4>2, <5>1, <5>2 DEF TypeOK
            <4>5. wk' \in [Worker -> Wk]
                <5> DEFINE r == [IdleWk EXCEPT !.pc = "swapped", !.inode = req.inode,
                                   !.buf = b, !.batch = x, !.cells = batch[x].cells]
                <5>1. wk' = [wk EXCEPT ![w] = r]
                    BY <2>1, <3>4 DEF FlushTake
                <5>2. batch[x] \in bufBatch
                    BY <4>2 DEF TypeOK
                <5>3. batch[x].cells \in SUBSET Cell
                    BY <5>2 DEF bufBatch
                <5> HIDE DEF b, x, req
                <5>4. r \in Wk
                    BY <4>1, <4>2, <5>3, ObjectTypes DEF Wk, WkPc
                <5> QED
                    BY <2>0, <5>1, <5>4
            <4> QED
                BY <2>1, <3>1, <3>2, <4>3, <4>4, <4>5 DEF FlushTake, TypeOK, ctl
        <3> QED
            BY <3>3, <3>4
    <2>2. CASE FlushSnapshot(w)
        <3> DEFINE i == wk[w].inode
                   old == wk[w].cells
                   now == batch[wk[w].batch].cells
        <3>1. i \in Inode /\ wk[w].batch \in BatchId
            BY <2>2 DEF FlushSnapshot, Refs
        <3>2. old \in SUBSET Cell /\ now \in SUBSET Cell
            <4>1. batch[wk[w].batch] \in bufBatch
                BY <3>1 DEF TypeOK
            <4> QED
                BY <2>0, <4>1 DEF Wk, bufBatch
        <3>3. PICK ae \in Snapshots(old, now), end \in {MaxEnd(old), MaxEnd(now)} :
                  wk' = [wk EXCEPT ![w].pc = "snapped", ![w].cells = ae, ![w].end = end]
            BY <2>2 DEF FlushSnapshot
        <3>4. h' = [h EXCEPT ![i] = [h[i] EXCEPT !.raced = @ \/ old # now]]
            BY <2>2, <3>1 DEF FlushSnapshot, TypeOK
        <3> HIDE DEF old, now
        <3>5. ae \in SUBSET Cell /\ end \in Nat
            BY SMTT(30), <3>2, SnapshotWithin, MaxEndCovers
        <3>6. wk' \in [Worker -> Wk]
            <4>1. [wk[w] EXCEPT !.pc = "snapped", !.cells = ae, !.end = end] \in Wk
                BY <2>0, <3>5 DEF Wk, WkPc
            <4>2. wk' = [wk EXCEPT ![w] = [wk[w] EXCEPT
                             !.pc = "snapped", !.cells = ae, !.end = end]]
                BY <3>3 DEF TypeOK
            <4> QED
                BY <2>0, <4>1, <4>2
        <3>7. h' \in [Inode -> History]
            <4>1. h[i] \in History /\ (old # now) \in BOOLEAN
                BY <3>1 DEF TypeOK
            <4>2. [h[i] EXCEPT !.raced = @ \/ old # now] \in History
                BY <4>1 DEF History
            <4> QED
                BY <3>1, <3>4, <4>2 DEF TypeOK
        <3> QED
            BY <2>2, <3>6, <3>7 DEF FlushSnapshot, TypeOK, mem, ctl
    <2>3. CASE FlushAppend(w)
        <3>1. [wk[w] EXCEPT !.pc = "appended"] \in Wk
            BY <2>0 DEF Wk, WkPc
        <3>2. wk' = [wk EXCEPT ![w] = [wk[w] EXCEPT !.pc = "appended"]]
            BY <2>3 DEF FlushAppend, TypeOK
        <3>3. wk' \in [Worker -> Wk]
            BY <2>0, <3>1, <3>2
        <3> QED
            BY <2>3, <3>3 DEF FlushAppend, TypeOK, mem, ctl
    <2>4. CASE FlushFail(w)
        <3>1. [wk[w] EXCEPT !.pc = "settle", !.err = TRUE] \in Wk
            BY <2>0 DEF Wk, WkPc
        <3>2. wk' = [wk EXCEPT ![w] = [wk[w] EXCEPT !.pc = "settle", !.err = TRUE]]
            BY <2>4 DEF FlushFail, TypeOK
        <3>3. wk' \in [Worker -> Wk]
            BY <2>0, <3>1, <3>2
        <3>4. budget' \in [Event -> Nat]
            BY <2>4, <1>SpendTypes DEF FlushFail, Event
        <3> QED
            BY <2>4, <3>3, <3>4 DEF FlushFail, TypeOK, mem, ctl
    <2>5. CASE FlushHook(w)
        <3> DEFINE n == node[wk[w].inode]
                   pc == IF n.ok THEN "hooked" ELSE "settle"
                   r == [wk[w] EXCEPT !.pc = pc, !.nn = n, !.err = ~n.ok]
        <3>1. wk[w].inode \in Inode
            BY <2>5 DEF FlushHook, Refs
        <3>2. n \in Node /\ pc \in WkPc /\ (~n.ok) \in BOOLEAN
            BY <3>1 DEF TypeOK, WkPc
        <3>3. wk' = [wk EXCEPT ![w] = r]
            BY <2>5 DEF FlushHook, TypeOK
        <3> HIDE DEF n, pc
        <3>4. r \in Wk
            BY <2>0, <3>2 DEF Wk
        <3>5. wk' \in [Worker -> Wk]
            BY <2>0, <3>3, <3>4
        <3> QED
            BY <2>5, <3>5 DEF FlushHook, TypeOK, mem, ctl
    <2>6. CASE FlushCommit(w)
        <3> DEFINE i == wk[w].inode
        <3>1. i \in Inode /\ wk[w].cells \in SUBSET Cell
            BY <2>0, <2>6 DEF FlushCommit, Refs, Wk
        <3>2. HookNode(w) \in Node
            <4>1. wk[w].nn \in Node /\ wk[w].end \in Nat
                BY <2>0 DEF Wk
            <4> QED
                BY <4>1 DEF HookNode, HookEnd, Larger, Node
        <3>3. disk' \in [Inode -> SUBSET Cell] /\ node' \in [Inode -> Node]
            BY <2>6, <3>1, <3>2 DEF FlushCommit, TypeOK
        <3>4. [wk[w] EXCEPT !.pc = "settle"] \in Wk
            BY <2>0 DEF Wk, WkPc
        <3>5. wk' = [wk EXCEPT ![w] = [wk[w] EXCEPT !.pc = "settle"]]
            BY <2>6 DEF FlushCommit, TypeOK
        <3>6. wk' \in [Worker -> Wk]
            BY <2>0, <3>4, <3>5
        <3> QED
            BY <2>6, <3>3, <3>6 DEF FlushCommit, TypeOK, mem, ctl
    <2>7. CASE FlushSettle(w)
        <3> DEFINE b == wk[w].buf
                   x == wk[w].batch
        <3>1. b \in BufId /\ x \in BatchId
            BY <2>7 DEF FlushSettle, Refs
        <3>2. buf[b] \in inodeBuf /\ batch[x] \in bufBatch /\ wk[w].err \in BOOLEAN
            BY <2>0, <3>1 DEF TypeOK, Wk
        <3>3. buf' \in [BufId -> inodeBuf]
            <4>1. [buf[b] EXCEPT !.flushing = nil, !.poisoned = @ \/ wk[w].err]
                      \in inodeBuf
                BY <3>2 DEF inodeBuf
            <4>2. buf' = [buf EXCEPT ![b] = [buf[b] EXCEPT
                              !.flushing = nil, !.poisoned = @ \/ wk[w].err]]
                BY <2>7 DEF FlushSettle, TypeOK
            <4> QED
                BY <3>1, <4>1, <4>2 DEF TypeOK
        <3>4. batch' \in [BatchId -> bufBatch]
            <4>1. [batch[x] EXCEPT !.done = TRUE] \in bufBatch
                BY <3>2 DEF bufBatch
            <4>2. batch' = [batch EXCEPT ![x] = [batch[x] EXCEPT !.done = TRUE]]
                BY <2>7 DEF FlushSettle, TypeOK
            <4> QED
                BY <3>1, <4>1, <4>2 DEF TypeOK
        <3>5. sem' \in Int
            BY SMTT(30), <2>7, <3>2 DEF FlushSettle, TypeOK, bufBatch
        <3>6. panic' \in SUBSET {"call", "tick", "done"} /\ wk' \in [Worker -> Wk]
            BY <2>0, <2>7, ObjectTypes DEF FlushSettle, Panic, TypeOK
        <3> QED
            BY <2>7, <3>3, <3>4, <3>5, <3>6 DEF FlushSettle, TypeOK
    <2> QED
        BY <2>1, <2>2, <2>3, <2>4, <2>5, <2>6, <2>7 DEF FlushStep

\* The ticker keeps the types.
<1>TickTypes.
    ASSUME TypeOK, TickStep
    PROVE  TypeOK'
    <2> USE <1>TickTypes
    <2>1. CASE TickScan
        BY <2>1 DEF TickScan, TypeOK, mem
    <2>2. ASSUME NEW i \in Inode, TickSend(i) PROVE TypeOK'
        BY <2>2, <1>TrySendTypes DEF TickSend, TypeOK, mem
    <2> QED
        BY <2>1, <2>2 DEF TickStep

\* A crash leaves a new coalescer.
<1>CrashTypes.
    ASSUME TypeOK, Crash
    PROVE  TypeOK'
    <2> USE <1>CrashTypes
    <2>1. /\ buffers' \in [Inode -> BufId \cup {nil}]
          /\ nbuf' \in 0 .. MaxBuf /\ nbatch' \in 0 .. MaxBatch /\ sem' \in Int
        BY SMTT(30), CoalescerAssumption DEF Crash
    <2>2. buf' \in [BufId -> inodeBuf] /\ batch' \in [BatchId -> bufBatch]
        BY ObjectTypes DEF Crash
    <2>3. flushQ' \in Seq(flushReq) /\ Len(flushQ') <= queueSize
        BY SMTT(30), CoalescerAssumption DEF Crash
    <2>4. proc' \in [Client -> Proc] /\ wk' \in [Worker -> Wk]
        BY ObjectTypes DEF Crash
    <2>5. budget' \in [Event -> Nat]
        BY <1>SpendTypes DEF Crash, Event
    <2>6. h' \in [Inode -> History]
        <3>1. ASSUME NEW i \in Inode PROVE [h[i] EXCEPT !.written = {}] \in History
            <4>1. h[i] \in History
                BY DEF TypeOK
            <4> QED
                BY <4>1 DEF History
        <3> QED
            BY <3>1 DEF Crash
    <2>7. /\ life' \in {"open", "draining", "stopped", "closed"}
          /\ tick' \in SUBSET Inode /\ panic' \in SUBSET {"call", "tick", "done"}
        BY DEF Crash
    <2> QED
        BY <2>1, <2>2, <2>3, <2>4, <2>5, <2>6, <2>7 DEF Crash, TypeOK

\* A call that waits for a buffer, or holds one, keeps knowing which.
<1>RefsStep.
    ASSUME TypeOK, Refs, Next
    PROVE  Refs'
    <2> USE <1>RefsStep
    <2> DEFINE PR(r) == /\ r.pc \notin NoInode => r.inode \in Inode
                        /\ r.pc \in HoldsBuf => r.buf \in BufId
               WR(r) == r.pc # "idle" =>
                            r.inode \in Inode /\ r.buf \in BufId /\ r.batch \in BatchId
    <2>1. Refs' <=> (\A q \in Client : PR(proc'[q])) /\ (\A v \in Worker : WR(wk'[v]))
        BY DEF Refs
    <2>2. /\ \A q \in Client : proc[q] \in Proc /\ PR(proc[q])
          /\ \A v \in Worker : wk[v] \in Wk /\ WR(wk[v])
        BY DEF Refs, TypeOK
    <2>3. PR(IdleProc) /\ WR(IdleWk)
        BY DEF IdleProc, IdleWk, NoInode, HoldsBuf, Syncing
    <2>4. ASSUME NEW p \in Client, NEW r, PR(r), proc' = [proc EXCEPT ![p] = r]
          PROVE  \A q \in Client : PR(proc'[q])
        BY <2>2, <2>4 DEF TypeOK
    <2>5. ASSUME NEW w \in Worker, NEW r, WR(r), wk' = [wk EXCEPT ![w] = r]
          PROVE  \A v \in Worker : WR(wk'[v])
        BY <2>2, <2>5 DEF TypeOK
    <2>6. UNCHANGED proc => \A q \in Client : PR(proc'[q])
        BY <2>2
    <2>7. UNCHANGED wk => \A v \in Worker : WR(wk'[v])
        BY <2>2
    <2>8. ASSUME NEW p \in Client, NEW pc, pc \notin HoldsBuf,
                 proc[p].pc \notin NoInode, Goto(p, pc)
          PROVE  \A q \in Client : PR(proc'[q])
        <3>1. proc' = [proc EXCEPT ![p] = [proc[p] EXCEPT !.pc = pc]]
            BY <2>8 DEF Goto, TypeOK
        <3>2. PR([proc[p] EXCEPT !.pc = pc])
            BY <2>2, <2>8 DEF Proc
        <3> QED
            BY <2>4, <3>1, <3>2
    <2>9. ASSUME NEW p \in Client, Return(p) PROVE \A q \in Client : PR(proc'[q])
        BY <2>3, <2>4, <2>9 DEF Return
    <2> HIDE DEF PR, WR
    <2>10. ASSUME NEW p \in Client, WriteStep(p) PROVE Refs'
        <3>1. ASSUME NEW i \in Inode, NEW P \in Interval, WriteCall(p, i, P)
              PROVE  Refs'
            <4>1. PR([IdleProc EXCEPT !.pc = "acquire", !.inode = i, !.data = P])
                BY DEF PR, IdleProc, HoldsBuf, Syncing
            <4> QED
                BY <2>1, <2>4, <2>7, <3>1, <4>1 DEF WriteCall, Begin
        <3>2. CASE WriteAcquire(p)
            <4> DEFINE b == IF buffers[proc[p].inode] = nil THEN nbuf + 1
                            ELSE buffers[proc[p].inode]
                       r == [proc[p] EXCEPT !.pc = "append", !.buf = b]
            <4>1. b \in BufId /\ proc' = [proc EXCEPT ![p] = r] /\ proc[p].pc = "acquire"
                BY <3>2 DEF WriteAcquire, TypeOK
            <4> HIDE DEF b
            <4>2. PR(r)
                BY <2>2, <4>1 DEF PR, Proc, NoInode
            <4> QED
                BY <2>1, <2>4, <2>7, <3>2, <4>1, <4>2 DEF WriteAcquire
        <3>3. CASE WriteAppend(p)
            <4>1. Return(p) \/ (Goto(p, "enqueue") /\ proc[p].pc \notin NoInode)
                BY <3>3 DEF WriteAppend, NoInode
            <4>2. UNCHANGED wk
                BY <3>3 DEF WriteAppend
            <4> QED
                BY <2>1, <2>7, <2>8, <2>9, <4>1, <4>2 DEF HoldsBuf, Syncing
        <3>4. CASE WriteCancel(p) \/ WritePoisoned(p) \/ WriteEnqueue(p)
            BY <2>1, <2>7, <2>9, <3>4 DEF WriteCancel, WritePoisoned, WriteEnqueue
        <3> QED
            BY <2>10, <3>1, <3>2, <3>3, <3>4 DEF WriteStep
    <2>11. ASSUME NEW p \in Client, FsyncStep(p) PROVE Refs'
        <3>1. ASSUME NEW i \in Inode, FsyncCall(p, i) PROVE Refs'
            <4>1. PR([IdleProc EXCEPT !.pc = "fsync", !.todo = {i}])
                BY DEF PR, IdleProc, HoldsBuf, Syncing, NoInode
            <4> QED
                BY <2>1, <2>4, <2>7, <3>1, <4>1 DEF FsyncCall, Begin
        <3>2. ASSUME NEW i \in Inode, FsyncSnapshot(p, i) PROVE Refs'
            <4> DEFINE b == buffers[i]
                       pc == IF NeedTrigger(b) THEN "trigger" ELSE "wait"
                       r == [proc[p] EXCEPT !.pc = pc, !.inode = i, !.buf = b,
                                            !.waits = Waits(b), !.must = h[i].written]
            <4>1. b \in BufId /\ proc' = [proc EXCEPT ![p] = r]
                BY <3>2 DEF FsyncSnapshot, TypeOK
            <4> HIDE DEF b, pc
            <4>2. PR(r)
                BY <2>2, <4>1 DEF PR, Proc
            <4> QED
                BY <2>1, <2>4, <2>7, <3>2, <4>1, <4>2 DEF FsyncSnapshot
        <3>3. ASSUME NEW i, AfterFsync(p, i) PROVE \A q \in Client : PR(proc'[q])
            <4> DEFINE rest == proc[p].todo \ {i}
                       r == IF rest # {} THEN [IdleProc EXCEPT !.pc = "fsync", !.todo = rest]
                            ELSE IF life = "draining" THEN [IdleProc EXCEPT !.pc = "close"]
                            ELSE IdleProc
            <4>1. proc' = [proc EXCEPT ![p] = r]
                BY <3>3 DEF AfterFsync
            <4>2. PR(r)
                BY DEF PR, IdleProc, HoldsBuf, Syncing, NoInode
            <4> QED
                BY <2>4, <4>1, <4>2
        <3>4. CASE \E i \in Inode : FsyncEarly(p, i)
            BY <2>1, <2>7, <3>3, <3>4 DEF FsyncEarly
        <3>5. CASE FsyncDone(p)
            BY <2>1, <2>7, <3>3, <3>5 DEF FsyncDone
        <3>6. CASE FsyncTrigger(p) \/ FsyncFired(p)
            <4> DEFINE pc == IF FsyncTrigger(p) THEN "fired" ELSE "wait"
            <4>1. proc' = [proc EXCEPT ![p] = [proc[p] EXCEPT !.pc = pc]] /\ UNCHANGED wk
                BY <3>6 DEF FsyncTrigger, FsyncFired, Goto, TypeOK
            <4>2. proc[p].pc \in Syncing
                BY <3>6 DEF FsyncTrigger, FsyncFired, Syncing
            <4>3. proc[p].inode \in Inode /\ proc[p].buf \in BufId
                BY <2>2, <4>2 DEF PR, HoldsBuf, Syncing, NoInode
            <4> HIDE DEF pc
            <4>4. PR([proc[p] EXCEPT !.pc = pc])
                BY <2>2, <4>3 DEF PR, Proc
            <4> QED
                BY <2>1, <2>4, <2>7, <4>1, <4>4
        <3>7. CASE FsyncCancel(p)
            BY <2>1, <2>7, <2>9, <3>7 DEF FsyncCancel
        <3> QED
            BY <2>11, <3>1, <3>2, <3>4, <3>5, <3>6, <3>7 DEF FsyncStep
    <2>12. ASSUME NEW p \in Client, SetattrStep(p) PROVE Refs'
        <3>1. ASSUME NEW i \in Inode, NEW size \in 0 .. MaxPos, SetattrSize(p, i, size)
              PROVE  Refs'
            <4> DEFINE pc == IF size < StatSize(i) THEN "truncate" ELSE "stat"
            <4>1. PR([IdleProc EXCEPT !.pc = pc, !.inode = i, !.size = size])
                BY DEF PR, IdleProc, HoldsBuf, Syncing
            <4> QED
                BY <2>1, <2>4, <2>7, <3>1, <4>1 DEF SetattrSize, Begin
        <3>2. ASSUME NEW i \in Inode, SetattrMode(p, i) PROVE Refs'
            <4>1. PR([IdleProc EXCEPT !.pc = "stat", !.inode = i, !.size = KeepSize])
                BY DEF PR, IdleProc, HoldsBuf, Syncing
            <4> QED
                BY <2>1, <2>4, <2>7, <3>2, <4>1 DEF SetattrMode, Begin
        <3>3. CASE SetattrTruncate(p)
            <4>1. Goto(p, "stat") /\ proc[p].pc \notin NoInode /\ UNCHANGED wk
                BY <3>3 DEF SetattrTruncate, NoInode
            <4> QED
                BY <2>1, <2>7, <2>8, <4>1 DEF HoldsBuf, Syncing
        <3>4. CASE SetattrStat(p)
            <4>1. PICK nn : \/ Return(p)
                            \/ proc' = [proc EXCEPT ![p].pc = "commit", ![p].nn = nn]
                BY <3>4 DEF SetattrStat
            <4>2. proc[p].pc = "stat" /\ UNCHANGED wk
                BY <3>4 DEF SetattrStat
            <4>3. proc[p].inode \in Inode
                BY <2>2, <4>2 DEF PR, NoInode
            <4>4. PR([proc[p] EXCEPT !.pc = "commit", !.nn = nn])
                BY <2>2, <4>3 DEF PR, Proc, HoldsBuf, Syncing
            <4>5. [proc EXCEPT ![p].pc = "commit", ![p].nn = nn] =
                      [proc EXCEPT ![p] = [proc[p] EXCEPT !.pc = "commit", !.nn = nn]]
                BY DEF TypeOK
            <4> QED
                BY <2>1, <2>4, <2>7, <2>9, <4>1, <4>2, <4>4, <4>5
        <3>5. CASE SetattrCommit(p)
            BY <2>1, <2>7, <2>9, <3>5 DEF SetattrCommit
        <3> QED
            BY <2>12, <3>1, <3>2, <3>3, <3>4, <3>5 DEF SetattrStep
    <2>13. ASSUME NEW p \in Client, UnlinkStep(p) PROVE Refs'
        <3>1. ASSUME NEW i \in Inode, UnlinkCommit(p, i) PROVE Refs'
            <4>1. PR([IdleProc EXCEPT !.pc = "drop", !.inode = i])
                BY DEF PR, IdleProc, HoldsBuf, Syncing
            <4> QED
                BY <2>1, <2>4, <2>7, <3>1, <4>1 DEF UnlinkCommit, Begin
        <3>2. CASE DropWait(p)
            <4> DEFINE b == buffers[proc[p].inode]
                       pc == IF b = nil THEN "delete" ELSE "clear"
            <4>1. /\ proc' = [proc EXCEPT ![p] = [proc[p] EXCEPT !.pc = pc, !.buf = b]]
                  /\ proc[p].pc = "drop" /\ UNCHANGED wk
                BY <3>2 DEF DropWait, TypeOK
            <4>2. proc[p].inode \in Inode
                BY <2>2, <4>1 DEF PR, NoInode
            <4>3. pc = "delete" \/ (pc = "clear" /\ b \in BufId)
                BY <4>2 DEF TypeOK
            <4> HIDE DEF b, pc
            <4>4. PR([proc[p] EXCEPT !.pc = pc, !.buf = b])
                BY <2>2, <4>2, <4>3 DEF PR, Proc, HoldsBuf, Syncing
            <4> QED
                BY <2>1, <2>4, <2>7, <4>1, <4>4
        <3>3. CASE DropClear(p) \/ DropForget(p)
            <4>1. \E pc \in {"forget", "delete"} : Goto(p, pc)
                BY <3>3 DEF DropClear, DropForget
            <4>2. proc[p].pc \notin NoInode /\ UNCHANGED wk
                BY <3>3 DEF DropClear, DropForget, NoInode
            <4> QED
                BY <2>1, <2>7, <2>8, <4>1, <4>2 DEF HoldsBuf, Syncing
        <3>4. CASE DeleteInode(p)
            BY <2>1, <2>7, <2>9, <3>4 DEF DeleteInode
        <3> QED
            BY <2>13, <3>1, <3>2, <3>3, <3>4 DEF UnlinkStep
    <2>14. ASSUME NEW p \in Client, CloseStep(p) PROVE Refs'
        <3>1. CASE Drain(p)
            <4> DEFINE todo == {i \in Inode : buffers[i] # nil}
                       pc == IF todo = {} THEN "close" ELSE "fsync"
            <4>1. PR([IdleProc EXCEPT !.pc = pc, !.todo = todo])
                BY DEF PR, IdleProc, HoldsBuf, Syncing, NoInode
            <4> QED
                BY <2>1, <2>4, <2>7, <3>1, <4>1 DEF Drain, Begin
        <3>2. CASE Close(p)
            <4>1. PR([proc[p] EXCEPT !.pc = "join"])
                BY <2>2 DEF PR, Proc, HoldsBuf, Syncing, NoInode
            <4>2. proc' = [proc EXCEPT ![p] = [proc[p] EXCEPT !.pc = "join"]]
                BY <3>2 DEF Close, Goto, TypeOK
            <4> QED
                BY <2>1, <2>4, <2>7, <3>2, <4>1, <4>2 DEF Close
        <3>3. CASE CloseJoin(p)
            BY <2>1, <2>7, <2>9, <3>3 DEF CloseJoin
        <3> QED
            BY <2>14, <3>1, <3>2, <3>3 DEF CloseStep
    <2>15. ASSUME NEW w \in Worker, FlushStep(w) PROVE Refs'
        <3>1. CASE FlushTake(w)
            <4> DEFINE req == Head(flushQ)
                       b == buffers[req.inode]
                       x == buf[b].current
                       r == [IdleWk EXCEPT !.pc = "swapped", !.inode = req.inode,
                                   !.buf = b, !.batch = x, !.cells = batch[x].cells]
            <4>1. req \in flushReq
                <5>1. flushQ \in Seq(flushReq) /\ flushQ # <<>>
                    BY <3>1 DEF FlushTake, TypeOK
                <5> QED
                    BY SMTT(30), <5>1
            <4>2. \A q \in Client : PR(proc'[q])
                <5>1. proc' = proc \/ \E q \in Client :
                          proc' = [proc EXCEPT ![q] = [proc[q] EXCEPT !.fired = TRUE]]
                    BY <3>1, <4>1 DEF FlushTake, flushReq, TypeOK
                <5>2. \A q \in Client : PR([proc[q] EXCEPT !.fired = TRUE])
                    BY <2>2 DEF PR, Proc
                <5> QED
                    BY <2>4, <2>6, <5>1, <5>2
            <4>3. \A v \in Worker : WR(wk'[v])
                <5>1. CASE Bail(b)
                    BY <2>7, <3>1, <5>1 DEF FlushTake
                <5>2. CASE ~Bail(b)
                    <6>1. wk' = [wk EXCEPT ![w] = r]
                        BY <3>1, <5>2 DEF FlushTake
                    <6>2. req.inode \in Inode /\ b \in BufId
                        BY <4>1, <5>2 DEF flushReq, TypeOK, Bail
                    <6>3. x \in BatchId
                        <7>1. buf[b] \in inodeBuf /\ x # nil
                            BY <5>2, <6>2 DEF Bail, NeedTrigger, TypeOK
                        <7> QED
                            BY <7>1 DEF inodeBuf
                    <6> HIDE DEF req, b, x
                    <6>4. WR(r)
                        BY <6>2, <6>3 DEF WR, IdleWk
                    <6> QED
                        BY <2>5, <6>1, <6>4
                <5> QED
                    BY <5>1, <5>2
            <4> QED
                BY <2>1, <4>2, <4>3
        <3>2. CASE FlushSettle(w)
            BY <2>1, <2>3, <2>5, <2>6, <3>2 DEF FlushSettle
        <3>3. CASE \/ FlushSnapshot(w) \/ FlushAppend(w) \/ FlushFail(w)
                   \/ FlushHook(w) \/ FlushCommit(w)
            <4>1. wk[w].pc # "idle" /\ UNCHANGED proc
                BY <3>3 DEF FlushSnapshot, FlushAppend, FlushFail, FlushHook, FlushCommit
            <4>2. \A v \in Worker : /\ wk'[v].inode = wk[v].inode
                                    /\ wk'[v].buf = wk[v].buf
                                    /\ wk'[v].batch = wk[v].batch
                                    /\ wk'[v].pc # "idle" => wk[v].pc # "idle"
                <5>1. CASE FlushSnapshot(w)
                    <6>1. PICK ae, end : wk' = [wk EXCEPT
                              ![w].pc = "snapped", ![w].cells = ae, ![w].end = end]
                        BY <5>1 DEF FlushSnapshot
                    <6> QED
                        BY <2>2, <4>1, <6>1 DEF TypeOK, Wk
                <5>2. CASE FlushAppend(w)
                    BY <2>2, <4>1, <5>2 DEF FlushAppend, TypeOK, Wk
                <5>3. CASE FlushFail(w)
                    BY <2>2, <4>1, <5>3 DEF FlushFail, TypeOK, Wk
                <5>4. CASE FlushHook(w)
                    BY <2>2, <4>1, <5>4 DEF FlushHook, TypeOK, Wk
                <5>5. CASE FlushCommit(w)
                    BY <2>2, <4>1, <5>5 DEF FlushCommit, TypeOK, Wk
                <5> QED
                    BY <3>3, <5>1, <5>2, <5>3, <5>4, <5>5
            <4>3. \A v \in Worker : WR(wk'[v])
                BY <2>2, <4>2 DEF WR
            <4> QED
                BY <2>1, <2>6, <4>1, <4>3
        <3> QED
            BY <2>15, <3>1, <3>2, <3>3 DEF FlushStep
    <2>16. CASE TickStep
        BY <2>1, <2>6, <2>7, <2>16 DEF TickStep, TickScan, TickSend
    <2>17. CASE Crash
        BY <2>1, <2>3, <2>17 DEF Crash
    <2> QED
        BY <2>10, <2>11, <2>12, <2>13, <2>14, <2>15, <2>16, <2>17 DEF Next

\* The type invariant is preserved by every step.
<1>NextTypes.
    ASSUME TypeOK, Refs, Counted, [Next]_vars
    PROVE  TypeOK' /\ Refs'
    <2> USE <1>NextTypes
    <2>1. CASE UNCHANGED vars
        BY <2>1 DEF vars, mem, ctl, TypeOK, Refs
    <2>2. CASE Next
        BY <2>2, <1>RefsStep, <1>WriteTypes, <1>FsyncTypes, <1>SetattrTypes, <1>UnlinkTypes,
           <1>CloseTypes, <1>FlushTypes, <1>TickTypes, <1>CrashTypes DEF Next
    <2> QED
        BY <2>1, <2>2

<1> QED
    BY <1>NextTypes

-----------------------------------------------------------------------------
(* The effect of the operations on the objects, field by field *)

\* A step that leaves buffers, batches and the disk alone, and what callers
\* wrote, cut off or unlinked.
Quiet ==
    /\ UNCHANGED <<buffers, buf, nbuf, batch, nbatch, disk>>
    /\ \A i \in Inode : /\ h'[i].written = h[i].written /\ h'[i].gone = h[i].gone
                        /\ h'[i].raced = h[i].raced
                        /\ h'[i].unlinked = h[i].unlinked

\* The steps that are not quiet.
Busy ==
    \/ \E p \in Client :
          \/ WriteAcquire(p) \/ WriteAppend(p)
          \/ \E i \in Inode, size \in 0 .. MaxPos : SetattrSize(p, i, size)
          \/ SetattrTruncate(p)
          \/ \E i \in Inode : UnlinkCommit(p, i)
          \/ DropClear(p) \/ DropForget(p) \/ DeleteInode(p)
    \/ \E w \in Worker : \/ FlushTake(w) \/ FlushSnapshot(w)
                         \/ FlushCommit(w) \/ FlushSettle(w)

\* Every step but a crash is quiet or one of those.
LEMMA QuietOrBusy ==
    ASSUME TypeOK, Refs, Next, ~Crash
    PROVE  Quiet \/ Busy
<1>1. UNCHANGED <<buffers, buf, nbuf, batch, nbatch, disk, h>> => Quiet
    BY DEF Quiet
<1>2. ASSUME NEW i \in Inode, NEW C,
             h' = [h EXCEPT ![i].synced = C],
             UNCHANGED <<buffers, buf, nbuf, batch, nbatch, disk>>
      PROVE  Quiet
    BY <1>2 DEF Quiet, TypeOK, History
<1>3. ASSUME NEW p \in Client, WriteStep(p) PROVE Quiet \/ Busy
    BY <1>1, <1>3 DEF WriteStep, WriteCall, WriteCancel, WritePoisoned,
       WriteEnqueue, Busy, mem
<1>4. ASSUME NEW p \in Client, FsyncStep(p) PROVE Quiet
    <2>1. CASE \/ \E i \in Inode : FsyncCall(p, i) \/ FsyncSnapshot(p, i)
               \/ FsyncTrigger(p) \/ FsyncFired(p) \/ FsyncCancel(p)
        BY <1>1, <2>1 DEF FsyncCall, FsyncSnapshot, FsyncTrigger, FsyncFired,
           FsyncCancel, mem
    <2>2. ASSUME NEW i \in Inode, FsyncEarly(p, i) PROVE Quiet
        BY <1>1, <1>2, <2>2 DEF FsyncEarly, mem
    <2>3. CASE FsyncDone(p)
        <3>1. proc[p].inode \in Inode
            BY <2>3 DEF FsyncDone, Refs, NoInode
        <3> QED
            BY <1>1, <1>2, <2>3, <3>1 DEF FsyncDone, mem
    <2> QED
        BY <1>4, <2>1, <2>2, <2>3 DEF FsyncStep
<1>5. ASSUME NEW p \in Client, SetattrStep(p) PROVE Quiet \/ Busy
    <2>1. CASE \E i \in Inode : SetattrMode(p, i)
        BY <1>1, <2>1 DEF SetattrMode, mem
    <2>2. CASE SetattrStat(p)
        BY <1>1, <2>2 DEF SetattrStat, mem
    <2>3. CASE SetattrCommit(p)
        <3>1. proc[p].inode \in Inode
            BY <2>3 DEF SetattrCommit, Refs, NoInode
        <3>2. UNCHANGED <<buffers, buf, nbuf, batch, nbatch, disk>>
            BY <2>3 DEF SetattrCommit, mem
        <3>3. \E i \in Inode : \E m, s, t :
                 \/ h' = [h EXCEPT ![i].chmodded = m, ![i].met = t]
                 \/ h' = [h EXCEPT ![i].asked = s, ![i].met = t]
            BY <2>3, <3>1 DEF SetattrCommit
        <3>4. h \in [Inode -> History] /\ \A i \in Inode : h[i] \in History
            BY DEF TypeOK
        <3> QED
            BY SMTT(30), <3>2, <3>3, <3>4 DEF Quiet, History
    <2> QED
        BY <1>5, <2>1, <2>2, <2>3 DEF SetattrStep, Busy
<1>6. ASSUME NEW p \in Client, UnlinkStep(p) PROVE Quiet \/ Busy
    BY <1>1, <1>6 DEF UnlinkStep, DropWait, Busy, mem
<1>7. ASSUME NEW p \in Client, CloseStep(p) PROVE Quiet
    BY <1>1, <1>7 DEF CloseStep, Drain, Close, CloseJoin, mem
<1>8. ASSUME NEW w \in Worker, FlushStep(w) PROVE Quiet \/ Busy
    BY <1>1, <1>8 DEF FlushStep, FlushAppend, FlushFail, FlushHook, Busy, mem
<1>9. CASE TickStep
    BY <1>1, <1>9 DEF TickStep, TickScan, TickSend, mem
<1> QED
    BY <1>3, <1>4, <1>5, <1>6, <1>7, <1>8, <1>9 DEF Next

\* getOrCreateBuf finds the buffer of the inode or allocates one.
LEMMA AcquireEffect ==
    ASSUME TypeOK, Refs, NEW p \in Client, WriteAcquire(p)
    PROVE  \E i \in Inode, b \in BufId :
             /\ proc[p].inode = i
             /\ proc' = [proc EXCEPT ![p] = [proc[p] EXCEPT !.pc = "append", !.buf = b]]
             /\ buffers'[i] = b /\ \A j \in Inode \ {i} : buffers'[j] = buffers[j]
             /\ \/ buffers[i] = b /\ UNCHANGED buf
                \/ /\ buffers[i] = nil /\ b = nbuf + 1
                   /\ buf'[b] = NewBuf(i)
                   /\ \A a \in BufId \ {b} : SameBuf(a)
             /\ nbuf' = Larger(nbuf, b)
             /\ UNCHANGED <<batch, nbatch, wk, disk, h>>
<1> DEFINE i == proc[p].inode
           b == IF buffers[i] = nil THEN nbuf + 1 ELSE buffers[i]
<1>1. i \in Inode /\ b \in BufId
    BY DEF WriteAcquire, Refs, NoInode
<1>2. /\ proc' = [proc EXCEPT ![p] = [proc[p] EXCEPT !.pc = "append", !.buf = b]]
      /\ nbuf' = Larger(nbuf, b)
      /\ UNCHANGED <<batch, nbatch, wk, disk, h>>
    BY DEF WriteAcquire, TypeOK
<1>3. buffers'[i] = b /\ \A j \in Inode \ {i} : buffers'[j] = buffers[j]
    BY <1>1 DEF WriteAcquire, TypeOK
<1>4. \/ buffers[i] = b /\ UNCHANGED buf
      \/ /\ buffers[i] = nil /\ b = nbuf + 1
         /\ buf'[b] = NewBuf(i)
         /\ \A a \in BufId \ {b} : SameBuf(a)
    <2>1. CASE buffers[i] = nil
        BY <1>1, <2>1 DEF WriteAcquire, TypeOK, SameBuf
    <2>2. CASE buffers[i] # nil
        BY <2>2 DEF WriteAcquire
    <2> QED
        BY <2>1, <2>2
<1> HIDE DEF b
<1> QED
    BY <1>1, <1>2, <1>3, <1>4

\* flushInode moves current to flushing and starts a new batch.
LEMMA TakeEffect ==
    ASSUME TypeOK, NEW w \in Worker, FlushTake(w)
    PROVE  \/ UNCHANGED <<buf, nbatch, wk>>
           \/ \E i \in Inode, b \in BufId, x \in BatchId, n \in BatchId :
                /\ buffers[i] = b /\ buf[b].current = x /\ buf[b].flushing = nil
                /\ n = nbatch + 1 /\ nbatch' = n
                /\ buf'[b].inode = buf[b].inode /\ buf'[b].current = n
                /\ buf'[b].flushing = x
                /\ buf'[b].poisoned = buf[b].poisoned
                /\ buf'[b].liveSize = buf[b].liveSize
                /\ \A a \in BufId \ {b} : SameBuf(a)
                /\ wk[w].pc = "idle"
                /\ wk' = [wk EXCEPT ![w] = [IdleWk EXCEPT
                             !.pc = "swapped", !.inode = i, !.buf = b,
                             !.batch = x, !.cells = batch[x].cells]]
<1> DEFINE i == Head(flushQ).inode
           b == buffers[i]
           x == buf[b].current
<1>1. i \in Inode
    <2>1. flushQ \in Seq(flushReq) /\ flushQ # <<>>
        BY DEF FlushTake, TypeOK
    <2>2. Head(flushQ) \in flushReq
        BY SMTT(30), <2>1
    <2> QED
        BY <2>2 DEF flushReq
<1>2. CASE Bail(b)
    BY <1>2 DEF FlushTake
<1>3. CASE ~Bail(b)
    <2>1. b \in BufId
        BY <1>1, <1>3 DEF Bail, TypeOK
    <2>2. buf[b] \in inodeBuf /\ buf[b].flushing = nil /\ x # nil
        BY <1>3, <2>1 DEF Bail, NeedTrigger, TypeOK, nil
    <2>3. x \in BatchId
        BY <2>2 DEF inodeBuf
    <2>4. /\ nbatch + 1 \in BatchId /\ nbatch' = nbatch + 1
          /\ wk[w].pc = "idle"
          /\ wk' = [wk EXCEPT ![w] = [IdleWk EXCEPT
                       !.pc = "swapped", !.inode = i, !.buf = b,
                       !.batch = x, !.cells = batch[x].cells]]
        BY <1>3 DEF FlushTake
    <2>5. buf' = [buf EXCEPT ![b] = [buf[b] EXCEPT
                      !.flushing = x, !.current = nbatch + 1]]
        BY <1>3 DEF FlushTake, TypeOK
    <2>6. /\ buf'[b].inode = buf[b].inode /\ buf'[b].current = nbatch + 1
          /\ buf'[b].flushing = x
          /\ buf'[b].poisoned = buf[b].poisoned
          /\ buf'[b].liveSize = buf[b].liveSize
          /\ \A a \in BufId \ {b} : SameBuf(a)
        BY <2>1, <2>2, <2>5 DEF inodeBuf, TypeOK, SameBuf
    <2>7. buffers[i] = b /\ buf[b].current = x
        OBVIOUS
    <2> HIDE DEF b, x, i
    <2> QED
        BY <1>1, <2>1, <2>2, <2>3, <2>4, <2>6, <2>7
<1> QED
    BY <1>2, <1>3

\* A flush settles its batch and leaves its buffer.
LEMMA SettleEffect ==
    ASSUME TypeOK, Refs, NEW w \in Worker, FlushSettle(w)
    PROVE  \E b \in BufId, x \in BatchId :
             /\ wk[w].pc = "settle" /\ wk[w].buf = b /\ wk[w].batch = x
             /\ buf'[b].inode = buf[b].inode /\ buf'[b].current = buf[b].current
             /\ buf'[b].flushing = nil
             /\ buf'[b].poisoned = (buf[b].poisoned \/ wk[w].err)
             /\ buf'[b].liveSize = buf[b].liveSize
             /\ \A a \in BufId \ {b} : SameBuf(a)
             /\ batch'[x].cells = batch[x].cells /\ batch'[x].bytes = batch[x].bytes
             /\ batch'[x].done
             /\ \A y \in BatchId \ {x} : SameBatch(y)
             /\ Panic("done", batch[x].done)
             /\ wk' = [wk EXCEPT ![w] = IdleWk]
             /\ UNCHANGED <<buffers, nbuf, nbatch, life, proc, disk, h>>
<1> DEFINE b == wk[w].buf
           x == wk[w].batch
<1>1. b \in BufId /\ x \in BatchId
    BY DEF FlushSettle, Refs
<1>2. buf[b] \in inodeBuf /\ batch[x] \in bufBatch
    BY <1>1 DEF TypeOK
<1>3. /\ wk[w].pc = "settle"
      /\ Panic("done", batch[x].done)
      /\ wk' = [wk EXCEPT ![w] = IdleWk]
      /\ UNCHANGED <<buffers, nbuf, nbatch, life, proc, disk, h>>
    BY DEF FlushSettle
<1>4. /\ buf'[b].inode = buf[b].inode /\ buf'[b].current = buf[b].current
      /\ buf'[b].flushing = nil
      /\ buf'[b].poisoned = (buf[b].poisoned \/ wk[w].err)
      /\ buf'[b].liveSize = buf[b].liveSize
      /\ \A a \in BufId \ {b} : SameBuf(a)
    BY <1>1, <1>2 DEF FlushSettle, inodeBuf, TypeOK, SameBuf
<1>5. /\ batch'[x].cells = batch[x].cells /\ batch'[x].bytes = batch[x].bytes
      /\ batch'[x].done
      /\ \A y \in BatchId \ {x} : SameBatch(y)
    BY <1>1, <1>2 DEF FlushSettle, bufBatch, TypeOK, SameBatch
<1> QED
    BY <1>1, <1>3, <1>4, <1>5

-----------------------------------------------------------------------------
(* How the objects evolve *)

\* Drop abandons the current batch of its buffer.
LEMMA ClearEffect ==
    ASSUME TypeOK, Refs, NEW p \in Client, DropClear(p)
    PROVE  \E b \in BufId :
             /\ proc[p].pc = "clear" /\ proc[p].buf = b
             /\ buf'[b].inode = buf[b].inode /\ buf'[b].current = nil
             /\ buf'[b].flushing = buf[b].flushing
             /\ buf'[b].poisoned = buf[b].poisoned
             /\ \A a \in BufId \ {b} : SameBuf(a)
             /\ buf[b].current # nil => batch'[buf[b].current].done
             /\ \A y \in BatchId : batch'[y].cells = batch[y].cells
                                   /\ (y # buf[b].current => SameBatch(y))
             /\ Panic("done", buf[b].current # nil
                                 /\ batch[buf[b].current].done)
             /\ UNCHANGED <<buffers, nbuf, nbatch, life, wk, disk, h>>
<1> DEFINE b == proc[p].buf
           x == buf[b].current
<1>1. b \in BufId /\ proc[p].pc = "clear"
    BY DEF DropClear, Refs, HoldsBuf
<1>2. buf[b] \in inodeBuf /\ x \in BatchId \cup {nil}
    BY <1>1 DEF TypeOK, inodeBuf
<1>3. /\ buf'[b].inode = buf[b].inode /\ buf'[b].current = nil
      /\ buf'[b].flushing = buf[b].flushing
      /\ buf'[b].poisoned = buf[b].poisoned
      /\ \A a \in BufId \ {b} : SameBuf(a)
    BY <1>1, <1>2 DEF DropClear, TypeOK, inodeBuf, SameBuf
<1>4. UNCHANGED <<buffers, nbuf, nbatch, life, wk, disk, h>>
    BY DEF DropClear
<1>5. /\ x # nil => batch'[x].done
      /\ \A y \in BatchId : batch'[y].cells = batch[y].cells
                            /\ (y # x => SameBatch(y))
      /\ Panic("done", x # nil /\ batch[x].done)
    <2>1. CASE x = nil
        <3>1. UNCHANGED <<batch, panic>>
            BY <2>1 DEF DropClear, Abandoned
        <3> QED
            BY <2>1, <3>1 DEF SameBatch, Panic
    <2>2. CASE x # nil
        <3>1. x \in BatchId /\ batch[x] \in bufBatch
            BY <1>2, <2>2 DEF TypeOK
        <3>2. /\ batch' = [batch EXCEPT ![x].done = TRUE]
              /\ Panic("done", batch[x].done)
            BY <2>2 DEF DropClear, Abandoned
        <3> HIDE DEF x
        <3>3. batch'[x].done /\ \A y \in BatchId : batch'[y].cells = batch[y].cells
                                              /\ (y # x => SameBatch(y))
            BY <3>1, <3>2 DEF TypeOK, bufBatch, SameBatch
        <3> QED
            BY <2>2, <3>2, <3>3 DEF Panic
    <2> QED
        BY <2>1, <2>2
<1> QED
    BY <1>1, <1>3, <1>4, <1>5

\* What is unlinked, raced, accepted or cut off stays so; what is durable or
\* cut off stays so until the file is unlinked, and so does its buffer.
InodeEvolves(i) ==
    /\ h[i].unlinked => h'[i].unlinked
    /\ h[i].raced => h'[i].raced
    /\ h[i].written \subseteq h'[i].written
    /\ h[i].gone \subseteq h'[i].gone
    /\ ~h'[i].unlinked => Durable(i) \subseteq Durable(i)'
    /\ ~h'[i].unlinked /\ buffers[i] # nil => buffers'[i] = buffers[i]

\* A buffer gets new batches only, keeps a batch until it is settled, and
\* keeps its inode and its poison; only the flush in flight ends a flush.
BufEvolves(b) ==
    /\ \A x \in Batches(b)' : x \in Batches(b) \/ x > nbatch
    /\ b <= nbuf =>
         /\ \A x \in Batches(b) : x \in Batches(b)' \/ batch'[x].done
         /\ buf'[b].inode = buf[b].inode
         /\ buf[b].poisoned => buf'[b].poisoned
         /\ buf[b].flushing # nil =>
              /\ \/ buf'[b].flushing = buf[b].flushing
                 \/ \E w \in Worker : /\ wk[w].pc # "idle" /\ wk[w].buf = b
                                      /\ wk'[w].pc = "idle"
              /\ batch'[buf[b].flushing].cells \subseteq batch[buf[b].flushing].cells

\* A byte of an unsettled batch that is in b, or in no buffer, stays there or
\* becomes durable, unless the buffer is poisoned.
CellsEvolve(b, i) ==
    \A x \in BatchId :
        /\ b <= nbuf /\ buf[b].inode = i
        /\ x <= nbatch /\ ~batch[x].done
        /\ \A a \in BufId \ {b} : x \notin Batches(a)
        /\ ~Exempt(i)' /\ ~buf'[b].poisoned
        => \A c \in batch[x].cells :
               c \in Durable(i)' \/ (~batch'[x].done /\ c \in batch'[x].cells)

Evolves ==
    /\ nbuf <= nbuf' /\ nbatch <= nbatch'
    /\ \A i \in Inode : InodeEvolves(i)
    /\ \A b \in BufId : BufEvolves(b)
    /\ \A b \in BufId, i \in Inode : CellsEvolve(b, i)

\* Every step but a crash moves the objects on: what was allocated stays, counts
\* grow, and what settled stays settled.
LEMMA ObjectsEvolve ==
    TypeOK /\ Refs /\ Owned /\ Callers /\ Flushers /\ Stored /\ FlushCovers /\ Next
    /\ ~Crash
    => Evolves

\* A position lies before a size or not.
<1>BeforeOrPast.
\A a, size \in Int : a < size \/ a >= size
    BY SMTT(30)

\* The position of a cell is a number, and so is a size.
<1>CellPos.
(\A c \in Cell : c[2] \in Int) /\ (\A n \in 0 .. MaxPos : n \in Int)
    BY SMTT(30) DEF Cell, Pos

\* The larger of two numbers is at least each of them.
<1>LargerBounds.
\A a, b \in Nat : a <= a /\ a <= Larger(a, b)
    BY SMTT(30) DEF Larger

\* A quiet step lets nothing evolve.
<1>QuietEvolves.
    ASSUME TypeOK, Quiet
    PROVE  Evolves
    <2> USE <1>QuietEvolves
    <2>1. nbuf <= nbuf' /\ nbatch <= nbatch'
        <3>1. nbuf \in Nat /\ nbatch \in Nat
            BY SMTT(30) DEF TypeOK
        <3> QED
            BY SMTT(30), <3>1 DEF Quiet
    <2>2. ASSUME NEW i \in Inode PROVE InodeEvolves(i)
        BY DEF Quiet, InodeEvolves, Durable
    <2>3. ASSUME NEW b \in BufId PROVE BufEvolves(b)
        BY DEF Quiet, BufEvolves, Batches
    <2>4. ASSUME NEW b \in BufId, NEW i \in Inode PROVE CellsEvolve(b, i)
        BY DEF Quiet, CellsEvolve
    <2> QED
        BY <2>1, <2>2, <2>3, <2>4 DEF Evolves

\* getOrCreateBuf gives an inode a buffer only when it has none.
<1>AcquireEvolves.
    ASSUME TypeOK, Refs, NEW p \in Client, WriteAcquire(p)
    PROVE  Evolves
    <2> USE <1>AcquireEvolves
    <2>1. PICK i \in Inode, b \in BufId :
                 /\ buffers'[i] = b /\ \A j \in Inode \ {i} : buffers'[j] = buffers[j]
                 /\ \/ buffers[i] = b /\ UNCHANGED buf
                    \/ /\ buffers[i] = nil /\ b = nbuf + 1
                       /\ buf'[b] = NewBuf(i)
                       /\ \A a \in BufId \ {b} : SameBuf(a)
                 /\ nbuf' = Larger(nbuf, b)
                 /\ UNCHANGED <<batch, nbatch, wk, disk, h>>
        BY AcquireEffect
    <2>2. nbuf \in Nat /\ nbatch \in Nat /\ b \in Nat
        BY SMTT(30) DEF TypeOK, BufId
    <2>3. nbuf <= nbuf' /\ nbatch <= nbatch'
        BY <2>1, <2>2, <1>LargerBounds
    <2>4. ASSUME NEW j \in Inode PROVE InodeEvolves(j)
        BY <2>1 DEF InodeEvolves, Durable
    <2>5. ASSUME NEW a \in BufId PROVE BufEvolves(a)
        <3>1. CASE SameBuf(a)
            BY <2>1, <3>1 DEF BufEvolves, Batches, SameBuf
        <3>2. CASE a = b /\ b = nbuf + 1 /\ buf'[b] = NewBuf(i)
            <4>1. Batches(a)' = {}
                BY SMTT(30), <3>2 DEF Batches, NewBuf
            <4>2. ~(a <= nbuf)
                BY SMTT(30), <2>2, <3>2
            <4> QED
                BY <4>1, <4>2 DEF BufEvolves
        <3> QED
            BY <2>1, <3>1, <3>2 DEF SameBuf
    <2>6. ASSUME NEW a \in BufId, NEW j \in Inode PROVE CellsEvolve(a, j)
        BY <2>1 DEF CellsEvolve
    <2> QED
        BY <2>3, <2>4, <2>5, <2>6 DEF Evolves

\* A write adds bytes to the current batch, or to a new one.
<1>AppendEvolves.
    ASSUME TypeOK, Refs, Owned, NEW p \in Client, WriteAppend(p)
    PROVE  Evolves
    <2> USE <1>AppendEvolves
    <2>1. PICK i \in Inode, b \in BufId, x \in BatchId, P \in SUBSET Pos :
                 /\ x = IF buf[b].current = nil THEN nbatch + 1 ELSE buf[b].current
                 /\ nbatch' = Larger(nbatch, x)
                 /\ batch'[x].cells = batch[x].cells \cup NewCells(P)
                 /\ batch'[x].done = batch[x].done
                 /\ \A y \in BatchId \ {x} : SameBatch(y)
                 /\ buf'[b].inode = buf[b].inode /\ buf'[b].current = x
                 /\ buf'[b].flushing = buf[b].flushing
                 /\ buf'[b].poisoned = buf[b].poisoned
                 /\ \A a \in BufId \ {b} : SameBuf(a)
                 /\ h' = [h EXCEPT ![i] = [h[i] EXCEPT !.written = @ \cup NewCells(P)]]
                 /\ UNCHANGED <<buffers, nbuf, wk, disk>>
        BY SMTT(30), AppendEffect
    <2>2. nbuf \in Nat /\ nbatch \in Nat /\ x \in Nat /\ x # nil
        BY SMTT(30) DEF TypeOK, BatchId, nil
    <2>3. nbuf <= nbuf' /\ nbatch <= nbatch'
        BY <2>1, <2>2, <1>LargerBounds
    <2>4. ASSUME NEW j \in Inode PROVE InodeEvolves(j)
        <3>1. h[j] \in History /\ h \in [Inode -> History]
            BY DEF TypeOK
        <3>2. /\ h'[j].unlinked = h[j].unlinked /\ h'[j].raced = h[j].raced
              /\ h'[j].gone = h[j].gone /\ h[j].written \subseteq h'[j].written
            BY <2>1, <3>1 DEF History
        <3> QED
            BY <2>1, <3>2 DEF InodeEvolves, Durable
    <2>5. ASSUME NEW a \in BufId PROVE BufEvolves(a)
        <3>1. buf[a].flushing # nil => buf[a].flushing # x /\ buf[a].flushing \in BatchId
            <4>1. buf[a] \in inodeBuf
                BY DEF TypeOK
            <4>2. CASE buf[b].current = nil
                BY SMTT(30), <2>1, <2>2, <4>1, <4>2 DEF Owned, Batches, inodeBuf
            <4>3. CASE buf[b].current # nil /\ a = b
                BY <2>1, <4>1, <4>3 DEF Owned, inodeBuf
            <4>4. CASE buf[b].current # nil /\ a # b
                <5>1. Batches(a) \cap Batches(b) = {}
                    BY <4>4 DEF Owned
                <5> QED
                    BY <2>1, <4>1, <4>4, <5>1 DEF Batches, inodeBuf
            <4> QED
                BY <4>2, <4>3, <4>4
        <3>2. /\ buf'[a].inode = buf[a].inode /\ buf'[a].flushing = buf[a].flushing
              /\ buf'[a].poisoned = buf[a].poisoned
            BY <2>1 DEF SameBuf
        <3>3. buf[a].flushing # nil =>
                 batch'[buf[a].flushing].cells \subseteq batch[buf[a].flushing].cells
            BY <2>1, <3>1 DEF SameBatch
        <3>4. /\ \A y \in Batches(a)' : y \in Batches(a) \/ y > nbatch
              /\ \A y \in Batches(a) : y \in Batches(a)'
            <4>1. CASE a # b
                BY <2>1, <4>1 DEF SameBuf, Batches
            <4>2. CASE a = b
                BY SMTT(30), <2>1, <2>2, <4>2 DEF Batches
            <4> QED
                BY <4>1, <4>2
        <3> QED
            BY <3>2, <3>3, <3>4 DEF BufEvolves
    <2>6. ASSUME NEW a \in BufId, NEW j \in Inode PROVE CellsEvolve(a, j)
        BY <2>1 DEF CellsEvolve, SameBatch
    <2> QED
        BY <2>3, <2>4, <2>5, <2>6 DEF Evolves

\* A flush moves the current batch to flushing and starts a new one.
<1>TakeEvolves.
    ASSUME TypeOK, NEW w \in Worker, FlushTake(w)
    PROVE  Evolves
    <2> USE <1>TakeEvolves
    <2>1. UNCHANGED <<buffers, nbuf, batch, disk, h>>
        BY DEF FlushTake
    <2>2. CASE UNCHANGED <<buf, nbatch, wk>>
        BY <2>1, <2>2, <1>QuietEvolves DEF Quiet
    <2>3. CASE \E b \in BufId, x \in BatchId, n \in BatchId :
                    /\ buf[b].current = x /\ buf[b].flushing = nil
                    /\ n = nbatch + 1 /\ nbatch' = n
                    /\ buf'[b].inode = buf[b].inode /\ buf'[b].current = n
                    /\ buf'[b].flushing = x
                    /\ buf'[b].poisoned = buf[b].poisoned
                    /\ \A a \in BufId \ {b} : SameBuf(a)
        <3>1. PICK b \in BufId, x \in BatchId, n \in BatchId :
                    /\ buf[b].current = x /\ buf[b].flushing = nil
                    /\ n = nbatch + 1 /\ nbatch' = n
                    /\ buf'[b].inode = buf[b].inode /\ buf'[b].current = n
                    /\ buf'[b].flushing = x
                    /\ buf'[b].poisoned = buf[b].poisoned
                    /\ \A a \in BufId \ {b} : SameBuf(a)
            BY <2>3
        <3>2. nbuf \in Nat /\ nbatch \in Nat
            BY SMTT(30) DEF TypeOK
        <3>3. nbuf <= nbuf' /\ nbatch <= nbatch'
            BY SMTT(30), <2>1, <3>1, <3>2
        <3>4. ASSUME NEW i \in Inode PROVE InodeEvolves(i)
            BY <2>1 DEF InodeEvolves, Durable
        <3>5. ASSUME NEW a \in BufId PROVE BufEvolves(a)
            <4>1. CASE a # b
                BY <2>1, <3>1, <4>1 DEF BufEvolves, Batches, SameBuf
            <4>2. CASE a = b
                BY SMTT(30), <2>1, <3>1, <3>2, <4>2 DEF BufEvolves, Batches
            <4> QED
                BY <4>1, <4>2
        <3>6. ASSUME NEW a \in BufId, NEW i \in Inode PROVE CellsEvolve(a, i)
            BY <2>1 DEF CellsEvolve
        <3> QED
            BY <3>3, <3>4, <3>5, <3>6 DEF Evolves
    <2> QED
        BY <2>2, <2>3, TakeEffect

\* A flush ends with its batch durable, or with the buffer poisoned.
<1>SettleEvolves.
    ASSUME TypeOK, Refs, Owned, Flushers, FlushCovers,
           NEW w \in Worker, FlushSettle(w)
    PROVE  Evolves
    <2> USE <1>SettleEvolves
    <2>1. PICK b \in BufId, x \in BatchId :
                 /\ wk[w].pc = "settle" /\ wk[w].buf = b /\ wk[w].batch = x
                 /\ buf'[b].inode = buf[b].inode /\ buf'[b].current = buf[b].current
                 /\ buf'[b].flushing = nil
                 /\ buf'[b].poisoned = (buf[b].poisoned \/ wk[w].err)
                 /\ \A a \in BufId \ {b} : SameBuf(a)
                 /\ batch'[x].cells = batch[x].cells
                 /\ batch'[x].done
                 /\ \A y \in BatchId \ {x} : SameBatch(y)
                 /\ wk' = [wk EXCEPT ![w] = IdleWk]
                 /\ UNCHANGED <<buffers, nbuf, nbatch, disk, h>>
        BY SMTT(30), SettleEffect
    <2>2. nbuf \in Nat /\ nbatch \in Nat /\ x # nil
        BY SMTT(30) DEF TypeOK, BatchId, nil
    <2>3. nbuf <= nbuf' /\ nbatch <= nbatch'
        BY SMTT(30), <2>1, <2>2
    <2>4. buf[b].flushing = x /\ buf[b].inode = wk[w].inode /\ wk'[w].pc = "idle"
        BY <2>1 DEF Flushers, TypeOK, IdleWk
    <2>5. x \in Batches(b)
        BY <2>2, <2>4 DEF Batches
    <2>6. ASSUME NEW i \in Inode PROVE InodeEvolves(i)
        BY <2>1 DEF InodeEvolves, Durable
    <2>7. ASSUME NEW a \in BufId PROVE BufEvolves(a)
        <3>1. CASE a # b
            <4>1. buf[a].flushing # nil =>
                     batch'[buf[a].flushing].cells = batch[buf[a].flushing].cells
                <5>1. buf[a] \in inodeBuf
                    BY DEF TypeOK
                <5> QED
                    BY <2>1, <5>1 DEF SameBatch, inodeBuf
            <4> QED
                BY <2>1, <3>1, <4>1 DEF BufEvolves, Batches, SameBuf
        <3>2. CASE a = b
            <4>1. /\ \A y \in Batches(a)' : y \in Batches(a)
                  /\ \A y \in Batches(a) : y \in Batches(a)' \/ batch'[y].done
                BY <2>1, <2>4, <3>2 DEF Batches
            <4>2. buf[a].poisoned => buf'[a].poisoned
                BY <2>1, <3>2
            <4>3. batch'[buf[a].flushing].cells \subseteq batch[buf[a].flushing].cells
                BY <2>1, <2>4, <3>2
            <4>4. \E v \in Worker : /\ wk[v].pc # "idle" /\ wk[v].buf = a
                                    /\ wk'[v].pc = "idle"
                BY <2>1, <2>4, <3>2
            <4> QED
                BY <2>1, <3>2, <4>1, <4>2, <4>3, <4>4 DEF BufEvolves
        <3> QED
            BY <3>1, <3>2
    <2>8. ASSUME NEW a \in BufId, NEW i \in Inode PROVE CellsEvolve(a, i)
        <3> SUFFICES ASSUME NEW y \in BatchId, a <= nbuf, buf[a].inode = i,
                            y <= nbatch, ~batch[y].done,
                            \A d \in BufId \ {a} : y \notin Batches(d),
                            ~Exempt(i)', ~buf'[a].poisoned,
                            NEW c \in batch[y].cells
                     PROVE  c \in Durable(i)' \/ (~batch'[y].done /\ c \in batch'[y].cells)
            BY DEF CellsEvolve
        <3>1. CASE y # x
            BY <2>1, <3>1 DEF SameBatch
        <3>2. CASE y = x
            <4>1. a = b
                BY <2>5, <3>2
            <4>2. ~wk[w].err
                BY <2>1, <4>1
            <4>3. i = wk[w].inode /\ ~Exempt(i)
                BY <2>1, <2>4, <4>1 DEF Exempt
            <4>4. batch[x].cells \subseteq Durable(i)
                BY <2>1, <4>2, <4>3 DEF FlushCovers
            <4> QED
                BY <2>1, <3>2, <4>4 DEF Durable
        <3> QED
            BY <3>1, <3>2
    <2> QED
        BY <2>3, <2>6, <2>7, <2>8 DEF Evolves

\* A step that leaves the buffers and the batches alone.
<1>SameObjectsEvolve.
    ASSUME TypeOK, UNCHANGED <<buf, nbuf, batch, nbatch>>,
           \A i \in Inode : InodeEvolves(i)
    PROVE  Evolves
    <2> USE <1>SameObjectsEvolve
    <2>1. nbuf <= nbuf' /\ nbatch <= nbatch'
        <3>1. nbuf \in Nat /\ nbatch \in Nat
            BY SMTT(30) DEF TypeOK
        <3> QED
            BY SMTT(30), <3>1
    <2>2. ASSUME NEW b \in BufId PROVE BufEvolves(b)
        BY DEF BufEvolves, Batches
    <2>3. ASSUME NEW b \in BufId, NEW i \in Inode PROVE CellsEvolve(b, i)
        BY DEF CellsEvolve
    <2> QED
        BY <2>1, <2>2, <2>3 DEF Evolves

\* The commit of a flush, a truncate, an unlink and DeleteInode take no
\* durable byte of a linked file that is not cut off.
<1>DiskEvolves.
    ASSUME TypeOK, Refs, Callers,
           \/ \E w \in Worker : FlushSnapshot(w) \/ FlushCommit(w)
           \/ \E p \in Client : \/ SetattrTruncate(p)
                                \/ \E i \in Inode : UnlinkCommit(p, i)
                                \/ DropForget(p) \/ DeleteInode(p)
    PROVE  Evolves
    <2> USE <1>DiskEvolves
    <2>h. \A j \in Inode : h[j] \in History
        BY DEF TypeOK
    <2>1. ASSUME NEW w \in Worker, FlushSnapshot(w) PROVE Evolves
        <3>1. /\ UNCHANGED <<buffers, buf, nbuf, batch, nbatch, disk>>
              /\ h' = [h EXCEPT ![wk[w].inode] = [h[wk[w].inode] EXCEPT
                           !.raced = @ \/ wk[w].cells # batch[wk[w].batch].cells]]
            BY <2>1 DEF FlushSnapshot, mem, TypeOK
        <3>2. ASSUME NEW j \in Inode PROVE InodeEvolves(j)
            <4>1. /\ h'[j].unlinked = h[j].unlinked
                  /\ h[j].raced => h'[j].raced
                  /\ h'[j].gone = h[j].gone /\ h'[j].written = h[j].written
                BY <2>h, <3>1 DEF History, TypeOK
            <4> QED
                <5>1. disk' = disk /\ buffers' = buffers
                    BY <3>1
                <5>2. /\ h[j].unlinked => h'[j].unlinked
                      /\ h[j].written \subseteq h'[j].written /\ h[j].gone \subseteq h'[j].gone
                    BY SMTT(30), <4>1
                <5>3. Durable(j) \subseteq Durable(j)'
                    BY <4>1, <5>1 DEF Durable
                <5> QED
                    BY <4>1, <5>1, <5>2, <5>3 DEF InodeEvolves
        <3> QED
            BY <3>1, <3>2, <1>SameObjectsEvolve
    <2>2. ASSUME NEW w \in Worker, FlushCommit(w) PROVE Evolves
        <3>1. /\ UNCHANGED <<buffers, buf, nbuf, batch, nbatch, h>>
              /\ disk' = [disk EXCEPT ![wk[w].inode] = @ \cup wk[w].cells]
            BY <2>2 DEF FlushCommit, mem
        <3>2. ASSUME NEW j \in Inode PROVE InodeEvolves(j)
            <4>1. disk[j] \subseteq disk'[j]
                BY <3>1 DEF TypeOK
            <4> QED
                BY <3>1, <4>1 DEF InodeEvolves, Durable
        <3> QED
            BY <3>1, <3>2, <1>SameObjectsEvolve
    <2>3. ASSUME NEW p \in Client, SetattrTruncate(p) PROVE Evolves
        <3> DEFINE i == proc[p].inode
                   size == proc[p].size
        <3>1. i \in Inode /\ proc[p] \in Proc
            BY <2>3 DEF SetattrTruncate, Refs, NoInode, TypeOK
        <3>2. /\ UNCHANGED <<buffers, buf, nbuf, batch, nbatch>>
              /\ disk' = [disk EXCEPT ![i] = UpTo(@, size)]
              /\ h' = [h EXCEPT ![i] = [h[i] EXCEPT
                          !.gone = @ \cup PastSize(disk[i], size),
                          !.met = @ \/ Flushing(i)]]
            BY <2>3 DEF SetattrTruncate, mem, TypeOK
        <3>3. disk[i] \in SUBSET Cell /\ size \in Int
            BY SMTT(30), <3>1 DEF TypeOK, Proc, KeepSize
        <3> HIDE DEF i, size
        <3>4. disk[i] \subseteq UpTo(disk[i], size) \cup PastSize(disk[i], size)
            BY SMTT(30), <3>3 DEF UpTo, PastSize, Cell, Pos
        <3>5. ASSUME NEW j \in Inode PROVE InodeEvolves(j)
            <4>1. /\ h'[j].unlinked = h[j].unlinked /\ h'[j].raced = h[j].raced
                  /\ h'[j].written = h[j].written
                  /\ h'[j].gone = IF j = i THEN h[i].gone \cup PastSize(disk[i], size)
                                  ELSE h[j].gone
                BY <2>h, <3>1, <3>2 DEF History, TypeOK
            <4>2. disk'[j] = IF j = i THEN UpTo(disk[i], size) ELSE disk[j]
                BY <3>1, <3>2 DEF TypeOK
            <4> QED
                BY SMTT(30), <3>2, <3>4, <4>1, <4>2 DEF InodeEvolves, Durable
        <3> QED
            BY <3>2, <3>5, <1>SameObjectsEvolve
    <2>4. ASSUME NEW p \in Client, NEW i \in Inode, UnlinkCommit(p, i) PROVE Evolves
        <3>1. /\ UNCHANGED <<buffers, buf, nbuf, batch, nbatch, disk>>
              /\ h' = [h EXCEPT ![i] = [h[i] EXCEPT !.unlinked = TRUE]]
            BY <2>4 DEF UnlinkCommit, mem, TypeOK
        <3>2. ASSUME NEW j \in Inode PROVE InodeEvolves(j)
            <4>1. /\ h[j].unlinked => h'[j].unlinked /\ h'[j].raced = h[j].raced
                  /\ h'[j].raced = h[j].raced
                  /\ h'[j].gone = h[j].gone /\ h'[j].written = h[j].written
                BY <2>h, <3>1 DEF History, TypeOK
            <4> QED
                BY <3>1, <4>1 DEF InodeEvolves, Durable
        <3> QED
            BY <3>1, <3>2, <1>SameObjectsEvolve
    <2>5. ASSUME NEW p \in Client, DropForget(p) PROVE Evolves
        <3>1. /\ UNCHANGED <<buf, nbuf, batch, nbatch, disk, h>>
              /\ buffers' = [buffers EXCEPT ![proc[p].inode] = nil]
              /\ h[proc[p].inode].unlinked
            BY <2>5 DEF DropForget, Callers, Unlinking
        <3>2. ASSUME NEW j \in Inode PROVE InodeEvolves(j)
            BY <3>1 DEF InodeEvolves, Durable, TypeOK
        <3> QED
            BY <3>1, <3>2, <1>SameObjectsEvolve
    <2>6. ASSUME NEW p \in Client, DeleteInode(p) PROVE Evolves
        <3>1. /\ UNCHANGED <<buffers, buf, nbuf, batch, nbatch, h>>
              /\ disk' = [disk EXCEPT ![proc[p].inode] = {}]
              /\ h[proc[p].inode].unlinked
            BY <2>6 DEF DeleteInode, mem, Callers, Unlinking
        <3>2. ASSUME NEW j \in Inode PROVE InodeEvolves(j)
            BY <3>1 DEF InodeEvolves, Durable, TypeOK
        <3> QED
            BY <3>1, <3>2, <1>SameObjectsEvolve
    <2> QED
        BY <2>1, <2>2, <2>3, <2>4, <2>5, <2>6

\* What InvalidatePastSize takes out of the batches has been cut off.
<1>ShrinkEvolves.
    ASSUME TypeOK, Owned, Stored, NEW p \in Client, NEW i \in Inode,
           NEW size \in 0 .. MaxPos, SetattrSize(p, i, size)
    PROVE  Evolves
    <2> USE <1>ShrinkEvolves
    <2>h. \A j \in Inode : h[j] \in History
        BY DEF TypeOK
    <2>1. /\ UNCHANGED <<buffers, nbuf, nbatch, wk, disk>>
          /\ h' = h \/ h' = Shrunk(i, size)
        BY ShrinkEffect
    <2>2. ASSUME NEW j \in Inode
          PROVE  /\ h'[j].unlinked = h[j].unlinked /\ h'[j].raced = h[j].raced
                 /\ h'[j].written = h[j].written
                 /\ h[j].gone \subseteq h'[j].gone
                 /\ h' = Shrunk(i, size) => Cut(i, size) \subseteq h'[i].gone
        <3>1. CASE h' = h
            <4>1. Shrunk(i, size)[i].gone = h[i].gone \cup Cut(i, size)
                BY <2>h DEF History, TypeOK, Shrunk
            <4> QED
                BY <3>1, <4>1
        <3>2. CASE h' = Shrunk(i, size)
            BY <2>h, <3>2 DEF History, TypeOK, Shrunk
        <3> QED
            BY <2>1, <3>1, <3>2
    <2>3. ASSUME NEW j \in Inode PROVE InodeEvolves(j)
        BY <2>1, <2>2 DEF InodeEvolves, Durable
    <2>4. CASE UNCHANGED <<buf, batch>>
        BY <2>1, <2>3, <2>4, <1>SameObjectsEvolve
    <2>5. ASSUME h' = Shrunk(i, size), NEW b \in BufId, buffers[i] = b,
                 \A x \in BatchId :
                     /\ batch'[x].done = batch[x].done
                     /\ x \in Batches(b) => batch'[x].cells = UpTo(batch[x].cells, size)
                     /\ x \notin Batches(b) => SameBatch(x),
                 \A a \in BufId :
                     /\ buf'[a].inode = buf[a].inode
                     /\ buf'[a].current = buf[a].current
                     /\ buf'[a].flushing = buf[a].flushing
                     /\ buf'[a].poisoned = buf[a].poisoned
          PROVE  Evolves
        <3>1. nbuf <= nbuf' /\ nbatch <= nbatch'
            <4>1. nbuf \in Nat /\ nbatch \in Nat
                BY SMTT(30) DEF TypeOK
            <4> QED
                BY SMTT(30), <2>1, <4>1
        <3>2. ASSUME NEW a \in BufId PROVE BufEvolves(a)
            <4>1. buf[a].flushing # nil =>
                     batch'[buf[a].flushing].cells \subseteq batch[buf[a].flushing].cells
                <5>1. buf[a] \in inodeBuf
                    BY DEF TypeOK
                <5>2. ASSUME NEW x \in BatchId PROVE batch'[x].cells \subseteq batch[x].cells
                    BY <2>5 DEF UpTo, SameBatch
                <5> QED
                    BY <5>1, <5>2 DEF inodeBuf
            <4>2. Batches(a)' = Batches(a)
                BY <2>5 DEF Batches
            <4> QED
                BY <2>5, <4>1, <4>2 DEF BufEvolves
        <3>3. ASSUME NEW a \in BufId, NEW j \in Inode PROVE CellsEvolve(a, j)
            <4> SUFFICES ASSUME NEW y \in BatchId, a <= nbuf, buf[a].inode = j,
                                y <= nbatch, ~batch[y].done,
                                \A d \in BufId \ {a} : y \notin Batches(d),
                                ~Exempt(j)', NEW c \in batch[y].cells
                         PROVE  c \in Durable(j)'
                                   \/ (~batch'[y].done /\ c \in batch'[y].cells)
                BY DEF CellsEvolve
            <4>1. CASE y \notin Batches(b)
                BY <2>5, <4>1 DEF SameBatch
            <4>2. CASE y \in Batches(b)
                <5>1. a = b /\ j = i
                    <6>1. b # nil
                        BY NotNil
                    <6>2. buf[b].inode = i
                        BY <2>5, <6>1 DEF Owned
                    <6> QED
                        BY <4>2, <6>2
                <5>2. ~h[i].unlinked
                    BY <2>2, <5>1 DEF Exempt
                <5>3. c \in h[i].written
                    <6>1. b # nil
                        BY NotNil
                    <6> QED
                        BY <2>5, <4>2, <5>2, <6>1 DEF Stored
                <5>4. c \in Cell
                    <6>1. batch[y] \in bufBatch
                        BY DEF TypeOK
                    <6> QED
                        BY <6>1 DEF bufBatch
                <5>5. c[2] \in Int /\ size \in Int
                    BY <5>4, <1>CellPos
                <5>6. CASE c[2] < size
                    BY <2>5, <4>2, <5>6 DEF UpTo
                <5>7. CASE c[2] >= size
                    <6>1. c \in Cut(i, size)
                        BY <5>3, <5>7 DEF PastSize, Cut
                    <6> QED
                        BY <2>2, <2>5, <5>1, <6>1 DEF Durable
                <5> QED
                    BY <5>5, <5>6, <5>7, <1>BeforeOrPast
            <4> QED
                BY <4>1, <4>2
        <3> QED
            BY <2>3, <3>1, <3>2, <3>3 DEF Evolves
    <2>6. \/ UNCHANGED <<buf, batch>>
          \/ /\ h' = Shrunk(i, size)
             /\ \E b \in BufId :
                  /\ buffers[i] = b
                  /\ \A x \in BatchId :
                       /\ batch'[x].done = batch[x].done
                       /\ x \in Batches(b) =>
                             batch'[x].cells = UpTo(batch[x].cells, size)
                       /\ x \notin Batches(b) => SameBatch(x)
                       /\ x = buf[b].current => batch'[x].bytes =
                             batch[x].bytes
                               - Cardinality(PastSize(batch[x].cells, size))
                  /\ \A a \in BufId :
                       /\ buf'[a].inode = buf[a].inode
                       /\ buf'[a].current = buf[a].current
                       /\ buf'[a].flushing = buf[a].flushing
                       /\ buf'[a].poisoned = buf[a].poisoned
                       /\ a # b => SameBuf(a)
                  /\ buf'[b].liveSize = IF buf[b].liveSize > size THEN size
                                        ELSE buf[b].liveSize
        BY ShrinkEffect
    <2>7. ASSUME ~UNCHANGED <<buf, batch>> PROVE Evolves
        <3>1. PICK b \in BufId :
                 /\ buffers[i] = b
                 /\ \A x \in BatchId :
                      /\ batch'[x].done = batch[x].done
                      /\ x \in Batches(b) =>
                            batch'[x].cells = UpTo(batch[x].cells, size)
                      /\ x \notin Batches(b) => SameBatch(x)
                      /\ x = buf[b].current => batch'[x].bytes =
                            batch[x].bytes
                              - Cardinality(PastSize(batch[x].cells, size))
                 /\ \A a \in BufId :
                      /\ buf'[a].inode = buf[a].inode
                      /\ buf'[a].current = buf[a].current
                      /\ buf'[a].flushing = buf[a].flushing
                      /\ buf'[a].poisoned = buf[a].poisoned
                      /\ a # b => SameBuf(a)
                 /\ buf'[b].liveSize = IF buf[b].liveSize > size THEN size
                                       ELSE buf[b].liveSize
            BY <2>6, <2>7
        <3>2. h' = Shrunk(i, size)
            BY <2>6, <2>7
        <3> QED
            BY <2>5, <3>1, <3>2
    <2> QED
        BY <2>4, <2>7

\* Drop clears the buffer of an unlinked file only.
<1>ClearEvolves.
    ASSUME TypeOK, Refs, Owned, Callers, NEW p \in Client, DropClear(p)
    PROVE  Evolves
    <2> USE <1>ClearEvolves
    <2>1. PICK b \in BufId :
                 /\ proc[p].pc = "clear" /\ proc[p].buf = b
                 /\ buf'[b].inode = buf[b].inode /\ buf'[b].current = nil
                 /\ buf'[b].flushing = buf[b].flushing
                 /\ buf'[b].poisoned = buf[b].poisoned
                 /\ \A a \in BufId \ {b} : SameBuf(a)
                 /\ buf[b].current # nil => batch'[buf[b].current].done
                 /\ \A y \in BatchId : batch'[y].cells = batch[y].cells
                                       /\ (y # buf[b].current => SameBatch(y))
                 /\ UNCHANGED <<buffers, nbuf, nbatch, wk, disk, h>>
        BY ClearEffect
    <2>2. nbuf <= nbuf' /\ nbatch <= nbatch'
        <3>1. nbuf \in Nat /\ nbatch \in Nat
            BY SMTT(30) DEF TypeOK
        <3> QED
            BY SMTT(30), <2>1, <3>1
    <2>3. ASSUME NEW i \in Inode PROVE InodeEvolves(i)
        BY <2>1 DEF InodeEvolves, Durable
    <2>4. ASSUME NEW a \in BufId PROVE BufEvolves(a)
        <3>1. buf[a] \in inodeBuf
            BY DEF TypeOK
        <3>2. buf[a].flushing # nil =>
                 batch'[buf[a].flushing].cells = batch[buf[a].flushing].cells
            BY <2>1, <3>1 DEF inodeBuf
        <3>3. CASE a # b
            BY <2>1, <3>2, <3>3 DEF BufEvolves, Batches, SameBuf
        <3>4. CASE a = b
            BY <2>1, <3>2, <3>4 DEF BufEvolves, Batches
        <3> QED
            BY <3>3, <3>4
    <2>5. ASSUME NEW a \in BufId, NEW i \in Inode PROVE CellsEvolve(a, i)
        <3> SUFFICES ASSUME NEW y \in BatchId, a <= nbuf, buf[a].inode = i,
                            y <= nbatch, ~batch[y].done,
                            \A d \in BufId \ {a} : y \notin Batches(d),
                            ~Exempt(i)', NEW c \in batch[y].cells
                     PROVE  c \in Durable(i)' \/ (~batch'[y].done /\ c \in batch'[y].cells)
            BY DEF CellsEvolve
        <3>1. CASE y # buf[b].current
            BY <2>1, <3>1 DEF SameBatch
        <3>2. CASE y = buf[b].current
            <4>1. y \in Batches(b)
                BY SMTT(30), <3>2 DEF Batches, BatchId, nil
            <4>2. a = b
                BY <4>1
            <4>3. h[i].unlinked
                BY <2>1, <4>2 DEF Callers, Unlinking, HoldsBuf
            <4> QED
                BY <2>1, <4>3 DEF Exempt
        <3> QED
            BY <3>1, <3>2
    <2> QED
        BY <2>2, <2>3, <2>4, <2>5 DEF Evolves

\* Every step but a crash.
<1>Evolution.
    ASSUME TypeOK, Refs, Owned, Callers, Flushers, Stored, FlushCovers,
           Next, ~Crash
    PROVE  Evolves
    <2> USE <1>Evolution
    <2>1. CASE Quiet
        BY <2>1, <1>QuietEvolves
    <2>2. CASE Busy
        BY <2>2, <1>AcquireEvolves, <1>AppendEvolves, <1>ShrinkEvolves, <1>DiskEvolves,
           <1>ClearEvolves, <1>TakeEvolves, <1>SettleEvolves DEF Busy
    <2> QED
        BY <2>1, <2>2, QuietOrBusy

<1> QED
    BY <1>Evolution

-----------------------------------------------------------------------------
(* Owners: buffers and batches keep theirs, and calls and flushes in progress *)
(* point at what they pointed at before                                       *)

\* A buffer's batches are allocated and unsettled, and in no other buffer.
LEMMA BatchFacts ==
    ASSUME TypeOK, Owned
    PROVE  /\ nbuf \in Nat /\ nbatch \in Nat
           /\ \A b \in BufId : b \in Nat /\ b # nil
           /\ \A x \in BatchId : x \in Nat /\ x # nil
           /\ \A b \in BufId : /\ buf[b].current # nil => buf[b].current \in BatchId
                               /\ buf[b].flushing # nil => buf[b].flushing \in BatchId
           /\ \A b \in BufId : Batches(b) \subseteq BatchId
           /\ \A a, b \in BufId : a # b =>
                 /\ buf[a].current # nil => buf[a].current \notin Batches(b)
                 /\ buf[a].flushing # nil => buf[a].flushing \notin Batches(b)
           /\ \A b \in BufId : buf[b].current # nil =>
                 buf[b].current \in Batches(b) /\ buf[b].current # buf[b].flushing
           /\ \A b \in BufId : buf[b].flushing # nil =>
                 buf[b].flushing \in Batches(b) /\ buf[b].current # buf[b].flushing
<1>1. nbuf \in Nat /\ nbatch \in Nat
    BY SMTT(30) DEF TypeOK
<1>2. /\ \A b \in BufId : b \in Nat /\ b # nil
      /\ \A x \in BatchId : x \in Nat /\ x # nil
    BY SMTT(30) DEF BufId, BatchId, nil
<1>3. \A b \in BufId : /\ buf[b].current # nil => buf[b].current \in BatchId
                       /\ buf[b].flushing # nil => buf[b].flushing \in BatchId
    <2>1. \A b \in BufId : buf[b] \in inodeBuf
        BY DEF TypeOK
    <2> QED
        BY <2>1 DEF inodeBuf
<1>4. \A b \in BufId : Batches(b) \subseteq BatchId
    BY <1>3 DEF Batches
<1>5. /\ \A b \in BufId : buf[b].current # nil =>
             buf[b].current \in Batches(b) /\ buf[b].current # buf[b].flushing
      /\ \A b \in BufId : buf[b].flushing # nil =>
             buf[b].flushing \in Batches(b) /\ buf[b].current # buf[b].flushing
    BY DEF Batches, Owned
<1>6. \A a, b \in BufId : a # b => Batches(a) \cap Batches(b) = {}
    BY DEF Owned
<1>7. \A a, b \in BufId : a # b =>
         /\ buf[a].current # nil => buf[a].current \notin Batches(b)
         /\ buf[a].flushing # nil => buf[a].flushing \notin Batches(b)
    BY <1>5, <1>6
<1> QED
    BY <1>1, <1>2, <1>3, <1>4, <1>5, <1>7

\* Every step keeps what the invariant says of owners.
LEMMA OwnersStay ==
    ASSUME SetLaws
    PROVE  TypeOK /\ Refs /\ Counted /\ Owned /\ Flushers /\ [Next]_vars
           => Counted' /\ Owned'

\* The batch a write fills is unsettled and in no other buffer, and has
\* charged at least its bytes.
<1>FilledBatch.
    ASSUME TypeOK, Counted, Owned, NEW b \in BufId, NEW x \in BatchId,
           x = IF buf[b].current = nil THEN nbatch + 1 ELSE buf[b].current
    PROVE  /\ ~batch[x].done
           /\ batch[x].bytes \in Int /\ Cardinality(batch[x].cells) \in Nat
           /\ batch[x].bytes >= Cardinality(batch[x].cells)
           /\ x <= nbatch + 1
           /\ buf[b].flushing # x
           /\ \A a \in BufId \ {b} : x \notin Batches(a)
    <2> USE <1>FilledBatch
    <2>1. batch[x].bytes \in Int /\ Cardinality(batch[x].cells) \in Nat
        <3>1. batch[x] \in bufBatch /\ IsFiniteSet(batch[x].cells)
            BY DEF TypeOK, Counted
        <3> QED
            BY <3>1 DEF bufBatch, SetLaws, SizeLaw
    <2>2. CASE buf[b].current = nil
        <3>1. x = nbatch + 1 /\ nbatch \in Nat
            BY <2>2, BatchFacts
        <3>2. batch[x] = newBufBatch
            <4>1. x > nbatch
                BY SMTT(30), <3>1
            <4> QED
                BY <4>1 DEF Owned
        <3>3. batch[x].bytes = 0 /\ Cardinality(batch[x].cells) = 0 /\ ~batch[x].done
            BY SMTT(30), <3>2 DEF newBufBatch, SetLaws, EmptyLaw
        <3>4. \A a \in BufId : x \notin Batches(a)
            <4>1. ~(x <= nbatch)
                BY SMTT(30), <3>1
            <4> QED
                BY <4>1 DEF Owned
        <3>5. buf[b].flushing # x
            <4>1. x # nil
                BY BatchFacts
            <4> QED
                BY <3>4, <4>1 DEF Batches
        <3> QED
            BY SMTT(30), <2>1, <3>1, <3>3, <3>4, <3>5
    <2>3. CASE buf[b].current # nil
        <3>1. x = buf[b].current /\ x \in Batches(b) /\ buf[b].flushing # x
            BY <2>3, BatchFacts
        <3>2. ~batch[x].done /\ x <= nbatch
            BY <3>1 DEF Owned
        <3>3. batch[x].bytes >= Cardinality(batch[x].cells)
            BY <2>3, <3>1 DEF Counted
        <3>4. \A a \in BufId \ {b} : x \notin Batches(a)
            BY SMTT(30), <2>3, <3>1, BatchFacts
        <3>5. nbatch \in Nat /\ x \in Nat
            BY BatchFacts
        <3> QED
            BY SMTT(30), <2>1, <3>1, <3>2, <3>3, <3>4, <3>5
    <2> QED
        BY <2>2, <2>3

\* A new buffer has no batches, and belongs to its inode.
<1>AcquireOwned.
    ASSUME TypeOK, Refs, Counted, Owned, NEW p \in Client, WriteAcquire(p)
    PROVE  Counted' /\ Owned'
    <2> USE <1>AcquireOwned
    <2>1. PICK i \in Inode, b \in BufId :
                 /\ buffers'[i] = b /\ \A j \in Inode \ {i} : buffers'[j] = buffers[j]
                 /\ \/ buffers[i] = b /\ UNCHANGED buf
                    \/ /\ buffers[i] = nil /\ b = nbuf + 1
                       /\ buf'[b] = NewBuf(i)
                       /\ \A a \in BufId \ {b} : SameBuf(a)
                 /\ nbuf' = Larger(nbuf, b)
                 /\ UNCHANGED <<batch, nbatch>>
        BY AcquireEffect
    <2>2. /\ nbuf \in Nat /\ b \in Nat /\ b # nil
          /\ \A j \in Inode : buffers[j] # nil => buffers[j] \in BufId /\ buffers[j] \in Nat
        BY BatchFacts DEF TypeOK
    <2>3. \A a \in BufId : \/ SameBuf(a)
                           \/ a = b /\ buf'[a] = NewBuf(i)
        BY <2>1 DEF SameBuf
    <2>4. Counted'
        <3>1. ASSUME NEW a \in BufId
              PROVE  buf'[a].current # nil => buf'[a].current = buf[a].current
            BY SMTT(30), <2>3 DEF SameBuf, NewBuf
        <3> QED
            BY <2>1, <3>1 DEF Counted
    <2>5. \A j \in Inode : buffers'[j] # nil =>
              buffers'[j] <= nbuf' /\ buf'[buffers'[j]].inode = j
        <3>1. CASE buffers[i] = b /\ UNCHANGED buf
            <4>1. \A j \in Inode : buffers'[j] = buffers[j]
                BY <2>1, <3>1
            <4>2. nbuf' = nbuf
                <5>1. buffers[i] = b /\ b # nil /\ nbuf' = Larger(nbuf, b)
                    BY <2>1, <2>2, <3>1
                <5>2. b <= nbuf
                    BY <5>1 DEF Owned
                <5> QED
                    BY SMTT(30), <2>2, <5>1, <5>2 DEF Larger
            <4> QED
                BY <3>1, <4>1, <4>2 DEF Owned
        <3>2. CASE /\ b = nbuf + 1 /\ buf'[b] = NewBuf(i)
                   /\ \A a \in BufId \ {b} : SameBuf(a)
            <4>1. nbuf' = nbuf + 1
                BY SMTT(30), <2>1, <2>2, <3>2 DEF Larger
            <4>2. buf'[b].inode = i
                BY SMTT(30), <3>2 DEF NewBuf
            <4>3. ASSUME NEW j \in Inode \ {i}, buffers'[j] # nil
                  PROVE  buffers'[j] <= nbuf' /\ buf'[buffers'[j]].inode = j
                <5>1. buffers'[j] = buffers[j]
                    BY <2>1
                <5>2. buffers[j] <= nbuf /\ buf[buffers[j]].inode = j
                    BY <4>3, <5>1 DEF Owned
                <5>3. buffers[j] # b
                    BY SMTT(30), <2>2, <3>2, <4>3, <5>1, <5>2
                <5>4. SameBuf(buffers[j])
                    BY <2>2, <3>2, <4>3, <5>1, <5>3
                <5> QED
                    BY SMTT(30), <2>2, <4>1, <4>3, <5>1, <5>2, <5>4 DEF SameBuf
            <4> QED
                BY SMTT(30), <2>1, <2>2, <3>2, <4>1, <4>2, <4>3
        <3> QED
            BY <2>1, <3>1, <3>2
    <2>6. ASSUME NEW a \in BufId
          PROVE  /\ Batches(a)' = Batches(a) \/ Batches(a)' = {}
                 /\ buf'[a].current = buf'[a].flushing => buf'[a].current = nil
        <3>1. CASE SameBuf(a)
            BY <3>1 DEF Owned, Batches, SameBuf
        <3>2. CASE buf'[a] = NewBuf(i)
            <4>1. buf'[a].current = nil /\ buf'[a].flushing = nil
                BY SMTT(30), <3>2 DEF NewBuf
            <4> QED
                BY <4>1 DEF Batches
        <3> QED
            BY <2>3, <3>1, <3>2
    <2>7. \A a \in BufId :
               /\ \A x \in Batches(a)' : x <= nbatch' /\ ~batch'[x].done
               /\ buf'[a].current = buf'[a].flushing => buf'[a].current = nil
               /\ \A d \in BufId : d # a => Batches(d)' \cap Batches(a)' = {}
        <3>1. \A a \in BufId : \A x \in Batches(a)' : x <= nbatch' /\ ~batch'[x].done
            BY <2>1, <2>6 DEF Owned
        <3>2. \A a, d \in BufId : d # a => Batches(d)' \cap Batches(a)' = {}
            BY <2>6 DEF Owned
        <3> QED
            BY <2>6, <3>1, <3>2
    <2>8. \A x \in BatchId : x > nbatch' => batch'[x] = newBufBatch
        BY <2>1 DEF Owned
    <2> QED
        BY <2>4, <2>5, <2>7, <2>8 DEF Owned

\* A batch that Write allocates is new to every buffer.
<1>AppendOwned.
    ASSUME TypeOK, Refs, Counted, Owned, NEW p \in Client, WriteAppend(p)
    PROVE  Counted' /\ Owned'
    <2> USE <1>AppendOwned
    <2>1. PICK b \in BufId, x \in BatchId, P \in SUBSET Pos :
                 /\ x = IF buf[b].current = nil THEN nbatch + 1 ELSE buf[b].current
                 /\ nbatch' = Larger(nbatch, x)
                 /\ batch'[x].cells = batch[x].cells \cup NewCells(P)
                 /\ batch'[x].bytes = batch[x].bytes + Cardinality(P)
                 /\ batch'[x].done = batch[x].done
                 /\ \A y \in BatchId \ {x} : SameBatch(y)
                 /\ buf'[b].inode = buf[b].inode /\ buf'[b].current = x
                 /\ buf'[b].flushing = buf[b].flushing
                 /\ \A a \in BufId \ {b} : SameBuf(a)
                 /\ UNCHANGED <<buffers, nbuf>>
        BY SMTT(30), AppendEffect
    <2>2. /\ ~batch[x].done
          /\ batch[x].bytes \in Int /\ Cardinality(batch[x].cells) \in Nat
          /\ batch[x].bytes >= Cardinality(batch[x].cells)
          /\ x <= nbatch + 1
          /\ buf[b].flushing # x
          /\ \A a \in BufId \ {b} : x \notin Batches(a)
        <3>1. x = IF buf[b].current = nil THEN nbatch + 1 ELSE buf[b].current
            BY <2>1
        <3> QED
            BY <3>1, <1>FilledBatch
    <2>3. nbatch \in Nat /\ x \in Nat /\ x # nil
        BY BatchFacts
    <2>4. \A y \in BatchId : IsFiniteSet(batch[y].cells)
        BY DEF Counted
    <2>5. /\ IsFiniteSet(batch'[x].cells)
          /\ batch'[x].bytes >= Cardinality(batch'[x].cells)
        <3>1. /\ IsFiniteSet(NewCells(P)) /\ Cardinality(NewCells(P)) <= Cardinality(P)
            BY NewCellsCounted DEF TypeOK
        <3>2. Cardinality(P) \in Nat /\ Cardinality(NewCells(P)) \in Nat
            BY <3>1, PosFinite DEF SetLaws, SizeLaw
        <3>3. /\ IsFiniteSet(batch[x].cells \cup NewCells(P))
              /\ Cardinality(batch[x].cells \cup NewCells(P)) =
                     Cardinality(batch[x].cells) + Cardinality(NewCells(P))
                       - Cardinality(batch[x].cells \cap NewCells(P))
            BY <2>4, <3>1 DEF SetLaws, UnionLaw
        <3>4. Cardinality(batch[x].cells \cap NewCells(P)) \in Nat
            BY <3>1 DEF SetLaws, MeetLaw, SizeLaw
        <3>5. Cardinality(batch[x].cells \cup NewCells(P)) <= batch[x].bytes + Cardinality(P)
            BY SMTT(30), <2>2, <3>1, <3>2, <3>3, <3>4
        <3>6. Cardinality(batch[x].cells \cup NewCells(P)) \in Nat
            BY <3>3 DEF SetLaws, SizeLaw
        <3> QED
            BY <2>1, <2>2, <3>2, <3>3, <3>5, <3>6
    <2>6. ASSUME NEW a \in BufId \ {b}
          PROVE  /\ Batches(a)' = Batches(a) /\ SameBuf(a)
                 /\ \A y \in Batches(a) : y \in BatchId \ {x}
        BY <2>1, <2>2, BatchFacts DEF Batches, SameBuf
    <2>7. Batches(b)' \subseteq Batches(b) \cup {x}
        BY <2>1 DEF Batches
    <2>8. Counted'
        <3>1. \A y \in BatchId : IsFiniteSet(batch'[y].cells)
            BY <2>1, <2>4, <2>5 DEF SameBatch
        <3>2. ASSUME NEW a \in BufId, buf'[a].current # nil
              PROVE  batch'[buf'[a].current].bytes >= Cardinality(batch'[buf'[a].current].cells)
            <4>1. CASE a = b
                BY <2>1, <2>5, <4>1
            <4>2. CASE a # b
                <5>1. buf[a].current # nil /\ buf'[a].current = buf[a].current
                    BY <2>6, <3>2, <4>2 DEF SameBuf
                <5>2. buf[a].current \in Batches(a)
                    BY <5>1, BatchFacts
                <5>3. SameBatch(buf[a].current)
                    BY <2>1, <2>6, <4>2, <5>2
                <5>4. batch[buf[a].current].bytes >= Cardinality(batch[buf[a].current].cells)
                    BY <5>1 DEF Counted
                <5> QED
                    BY <5>1, <5>3, <5>4 DEF SameBatch
            <4> QED
                BY <4>1, <4>2
        <3> QED
            BY <3>1, <3>2 DEF Counted
    <2>9. \A j \in Inode : buffers'[j] # nil =>
              buffers'[j] <= nbuf' /\ buf'[buffers'[j]].inode = j
        <3>1. \A j \in Inode : buffers[j] # nil => buffers[j] \in BufId
            BY DEF TypeOK
        <3>2. /\ buffers' = buffers /\ nbuf' = nbuf
              /\ \A a \in BufId : buf'[a].inode = buf[a].inode
            BY <2>1 DEF SameBuf
        <3> QED
            BY <3>1, <3>2 DEF Owned
    <2>10. ASSUME NEW a \in BufId
           PROVE  /\ \A y \in Batches(a)' : y <= nbatch' /\ ~batch'[y].done
                  /\ buf'[a].current = buf'[a].flushing => buf'[a].current = nil
                  /\ \A d \in BufId : d # a => Batches(d)' \cap Batches(a)' = {}
        <3>1. nbatch <= nbatch' /\ x <= nbatch'
            <4>1. nbatch' = Larger(nbatch, x)
                BY <2>1
            <4> QED
                BY SMTT(30), <2>3, <4>1 DEF Larger
        <3>2. \A d \in BufId : \A y \in Batches(d) : y \in Nat /\ y <= nbatch'
            <4>1. \A d \in BufId : \A y \in Batches(d) : y <= nbatch /\ y \in Nat
                BY BatchFacts DEF Owned
            <4>2. nbatch' \in Nat
                BY <2>1, <2>3 DEF Larger
            <4> QED
                BY SMTT(30), <2>3, <3>1, <4>1, <4>2
        <3>3. \A y \in BatchId : batch'[y].done = batch[y].done
            BY <2>1 DEF SameBatch
        <3>4. \A y \in Batches(a)' : y <= nbatch' /\ ~batch'[y].done
            <4>1. \A y \in Batches(a)' : y = x \/ y \in Batches(a)
                BY <2>6, <2>7
            <4>2. \A y \in Batches(a) : ~batch[y].done /\ y \in BatchId
                BY BatchFacts DEF Owned
            <4> QED
                BY <2>2, <3>1, <3>2, <3>3, <4>1, <4>2
        <3>5. buf'[a].current = buf'[a].flushing => buf'[a].current = nil
            <4>1. CASE a = b
                BY <2>1, <2>2, <4>1
            <4>2. CASE a # b
                BY <2>6, <4>2 DEF SameBuf, Owned
            <4> QED
                BY <4>1, <4>2
        <3>6. ASSUME NEW d \in BufId, d # a PROVE Batches(d)' \cap Batches(a)' = {}
            <4>1. Batches(d) \cap Batches(a) = {}
                BY <3>6 DEF Owned
            <4>2. CASE a = b
                BY <2>6, <2>7, <3>6, <4>1, <4>2
            <4>3. CASE d = b
                BY SMTT(30), <2>6, <2>7, <3>6, <4>1, <4>3
            <4>4. CASE a # b /\ d # b
                BY SMTT(30), <2>6, <4>1, <4>4
            <4> QED
                BY <4>2, <4>3, <4>4
        <3> QED
            BY <3>4, <3>5, <3>6
    <2>11. ASSUME NEW y \in BatchId, y > nbatch' PROVE batch'[y] = newBufBatch
        <3>1. y \in Nat /\ y # x /\ y > nbatch
            <4>1. nbatch' = Larger(nbatch, x) /\ y \in Nat
                BY <2>1, BatchFacts
            <4> QED
                BY SMTT(30), <2>3, <2>11, <4>1 DEF Larger
        <3> QED
            BY <2>1, <3>1 DEF SameBatch, Owned
    <2> QED
        BY <2>8, <2>9, <2>10, <2>11 DEF Owned

\* So is the one flushInode allocates; the old one stays in its buffer.
<1>TakeOwned.
    ASSUME TypeOK, Counted, Owned, NEW w \in Worker, FlushTake(w)
    PROVE  Counted' /\ Owned'
    <2> USE <1>TakeOwned
    <2>1. UNCHANGED <<buffers, nbuf, batch>>
        BY DEF FlushTake
    <2>2. CASE UNCHANGED <<buf, nbatch>>
        BY <2>1, <2>2 DEF Counted, Owned, Batches
    <2>3. ASSUME NEW b \in BufId, NEW x \in BatchId, NEW n \in BatchId,
                 buf[b].current = x, buf[b].flushing = nil,
                 n = nbatch + 1, nbatch' = n,
                 buf'[b].inode = buf[b].inode, buf'[b].current = n,
                 buf'[b].flushing = x,
                 \A a \in BufId \ {b} : SameBuf(a)
          PROVE  Counted' /\ Owned'
        <3>1. nbatch \in Nat /\ x \in Nat /\ x # nil /\ n # nil
            BY BatchFacts
        <3>2. batch[n] = newBufBatch
            <4>1. n = nbatch + 1
                BY <2>3
            <4>2. n > nbatch
                BY SMTT(30), <3>1, <4>1
            <4> QED
                BY <4>2 DEF Owned
        <3>3. ~batch[n].done /\ batch[n].bytes >= Cardinality(batch[n].cells)
            BY SMTT(30), <3>2 DEF newBufBatch, SetLaws, EmptyLaw
        <3>4. Batches(b) = {x} /\ Batches(b)' = {x, n}
            BY <2>3, <3>1 DEF Batches
        <3>5. \A a \in BufId : n \notin Batches(a)
            BY SMTT(30), <2>3, <3>1 DEF Owned
        <3>6. \A a \in BufId \ {b} : Batches(a)' = Batches(a) /\ SameBuf(a)
            BY <2>3 DEF Batches, SameBuf
        <3>7. Counted'
            BY <2>1, <2>3, <3>3 DEF Counted, SameBuf
        <3>8. \A j \in Inode : buffers'[j] # nil =>
                  buffers'[j] <= nbuf' /\ buf'[buffers'[j]].inode = j
            <4>1. \A j \in Inode : buffers[j] # nil => buffers[j] \in BufId
                BY DEF TypeOK
            <4> QED
                <5>1. \A a \in BufId : buf'[a].inode = buf[a].inode
                    BY <2>3 DEF SameBuf
                <5> QED
                    BY <2>1, <4>1, <5>1 DEF Owned
        <3>9. ASSUME NEW a \in BufId
              PROVE  /\ \A y \in Batches(a)' : y <= nbatch' /\ ~batch'[y].done
                     /\ buf'[a].current = buf'[a].flushing => buf'[a].current = nil
                     /\ \A d \in BufId : d # a => Batches(d)' \cap Batches(a)' = {}
            <4>1. \A d \in BufId : \A y \in Batches(d) :
                      y \in Nat /\ y <= nbatch /\ ~batch[y].done
                BY BatchFacts DEF Owned
            <4>2. \A y \in Batches(a)' : y = n \/ y \in Batches(a)
                BY <3>4, <3>6
            <4>3. \A y \in Batches(a)' : y <= nbatch' /\ ~batch'[y].done
                BY SMTT(30), <2>1, <2>3, <3>1, <3>3, <4>1, <4>2
            <4>4. x # n
                BY <3>4, <3>5
            <4>5. buf'[a].current = buf'[a].flushing => buf'[a].current = nil
                BY <2>3, <3>6, <4>4 DEF SameBuf, Owned
            <4>6. ASSUME NEW d \in BufId, d # a PROVE Batches(d)' \cap Batches(a)' = {}
                <5>1. Batches(d) \cap Batches(a) = {}
                    BY <4>6 DEF Owned
                <5>2. CASE a = b
                    BY <3>4, <3>5, <3>6, <4>6, <5>1, <5>2
                <5>3. CASE d = b
                    BY <3>4, <3>5, <3>6, <4>6, <5>1, <5>3
                <5>4. CASE a # b /\ d # b
                    BY SMTT(30), <3>6, <5>1, <5>4
                <5> QED
                    BY <5>2, <5>3, <5>4
            <4> QED
                BY <4>3, <4>5, <4>6
        <3>10. ASSUME NEW y \in BatchId, y > nbatch' PROVE batch'[y] = newBufBatch
            <4>1. y \in Nat
                BY BatchFacts
            <4>2. y > nbatch
                BY SMTT(30), <2>3, <3>1, <3>10, <4>1
            <4> QED
                BY <2>1, <4>2 DEF Owned
        <3> QED
            BY <3>7, <3>8, <3>9, <3>10 DEF Owned
    <2>4. UNCHANGED <<buf, nbatch>> \/
          \E b \in BufId, x \in BatchId, n \in BatchId :
                 /\ buf[b].current = x /\ buf[b].flushing = nil
                 /\ n = nbatch + 1 /\ nbatch' = n
                 /\ buf'[b].inode = buf[b].inode /\ buf'[b].current = n
                 /\ buf'[b].flushing = x
                 /\ \A a \in BufId \ {b} : SameBuf(a)
        BY TakeEffect
    <2> QED
        BY <2>2, <2>3, <2>4

\* A step that settles at most one batch, takes it out of its buffer and
\* moves no other, as the end of a flush and Drop do.
<1>SettledOwned.
    ASSUME TypeOK, Counted, Owned, UNCHANGED <<buffers, nbuf, nbatch>>,
           NEW b \in BufId, NEW x \in BatchId \cup {nil},
           x # nil => x \in Batches(b),
           \A a \in BufId : /\ buf'[a].inode = buf[a].inode
                            /\ buf'[a].current \in {buf[a].current, nil}
                            /\ buf'[a].flushing \in {buf[a].flushing, nil},
           x \notin Batches(b)',
           \A y \in BatchId : /\ batch'[y].cells = batch[y].cells
                              /\ y # x => SameBatch(y)
    PROVE  Counted' /\ Owned'
    <2> USE <1>SettledOwned
    <2>1. \A a \in BufId : Batches(a)' \subseteq Batches(a)
        BY DEF Batches
    <2>2. \A a \in BufId : x \notin Batches(a)'
        <3>1. CASE x = nil
            BY <3>1 DEF Batches
        <3>2. CASE x # nil
            <4>1. \A a \in BufId : a # b => Batches(a) \cap Batches(b) = {}
                BY DEF Owned
            <4> QED
                BY <2>1, <3>2, <4>1
        <3> QED
            BY <3>1, <3>2
    <2>3. Counted'
        <3>1. \A y \in BatchId : IsFiniteSet(batch'[y].cells)
            BY DEF Counted
        <3>2. ASSUME NEW a \in BufId, buf'[a].current # nil
              PROVE  batch'[buf'[a].current].bytes >= Cardinality(batch'[buf'[a].current].cells)
            <4>1. buf'[a].current = buf[a].current /\ buf[a].current # nil
                BY <3>2
            <4>2. buf'[a].current \in Batches(a)'
                BY <3>2 DEF Batches
            <4>3. buf[a].current \in BatchId /\ buf[a].current # x
                <5>1. buf[a].current \in BatchId
                    BY <4>1, BatchFacts
                <5> QED
                    BY <2>2, <4>1, <4>2, <5>1
            <4>4. SameBatch(buf[a].current)
                BY <4>3
            <4>5. batch[buf[a].current].bytes >= Cardinality(batch[buf[a].current].cells)
                BY <4>1 DEF Counted
            <4> QED
                BY <4>1, <4>4, <4>5 DEF SameBatch
        <3> QED
            BY <3>1, <3>2 DEF Counted
    <2>4. \A j \in Inode : buffers'[j] # nil =>
              buffers'[j] <= nbuf' /\ buf'[buffers'[j]].inode = j
        <3>1. \A j \in Inode : buffers[j] # nil => buffers[j] \in BufId
            BY DEF TypeOK
        <3> QED
            BY <3>1 DEF Owned
    <2>5. ASSUME NEW a \in BufId
          PROVE  /\ \A y \in Batches(a)' : y <= nbatch' /\ ~batch'[y].done
                 /\ buf'[a].current = buf'[a].flushing => buf'[a].current = nil
                 /\ \A d \in BufId : d # a => Batches(d)' \cap Batches(a)' = {}
        <3>1. \A y \in Batches(a)' : y <= nbatch' /\ ~batch'[y].done
            <4>1. \A y \in Batches(a)' : y \in Batches(a) /\ y \in BatchId /\ y # x
                BY SMTT(30), <2>1, <2>2, BatchFacts
            <4> QED
                BY <4>1 DEF Owned, SameBatch
        <3>2. buf'[a].current = buf'[a].flushing => buf'[a].current = nil
            BY DEF Owned
        <3>3. \A d \in BufId : d # a => Batches(d)' \cap Batches(a)' = {}
            <4>1. \A d \in BufId : d # a => Batches(d) \cap Batches(a) = {}
                BY DEF Owned
            <4> QED
                BY <2>1, <4>1
        <3> QED
            BY <3>1, <3>2, <3>3
    <2>6. ASSUME NEW y \in BatchId, y > nbatch' PROVE batch'[y] = newBufBatch
        <3>1. y # x
            <4>1. CASE x = nil
                BY <4>1, BatchFacts
            <4>2. CASE x # nil
                <5>1. x <= nbatch /\ x \in Nat /\ nbatch \in Nat /\ y \in Nat
                    BY <4>2, BatchFacts DEF Owned
                <5> QED
                    BY SMTT(30), <2>6, <5>1
            <4> QED
                BY <4>1, <4>2
        <3> QED
            BY <2>6, <3>1 DEF SameBatch, Owned
    <2> QED
        BY <2>3, <2>4, <2>5, <2>6 DEF Owned

\* The batch a flush has settled is in no buffer any more.
<1>SettleOwned.
    ASSUME TypeOK, Refs, Counted, Owned, Flushers, NEW w \in Worker, FlushSettle(w)
    PROVE  Counted' /\ Owned'
    <2> USE <1>SettleOwned
    <2>1. PICK b \in BufId, x \in BatchId :
                 /\ wk[w].pc = "settle" /\ wk[w].buf = b /\ wk[w].batch = x
                 /\ buf'[b].inode = buf[b].inode /\ buf'[b].current = buf[b].current
                 /\ buf'[b].flushing = nil
                 /\ \A a \in BufId \ {b} : SameBuf(a)
                 /\ batch'[x].cells = batch[x].cells
                 /\ \A y \in BatchId \ {x} : SameBatch(y)
                 /\ UNCHANGED <<buffers, nbuf, nbatch>>
        BY SMTT(30), SettleEffect
    <2>2. buf[b].flushing = x /\ x # nil
        BY <2>1, BatchFacts DEF Flushers
    <2>3. x \in Batches(b) /\ x \notin Batches(b)'
        BY <2>1, <2>2 DEF Batches, Owned
    <2>4. \A a \in BufId : /\ buf'[a].inode = buf[a].inode
                           /\ buf'[a].current \in {buf[a].current, nil}
                           /\ buf'[a].flushing \in {buf[a].flushing, nil}
        BY <2>1 DEF SameBuf
    <2>5. \A y \in BatchId : /\ batch'[y].cells = batch[y].cells
                             /\ y # x => SameBatch(y)
        BY <2>1 DEF SameBatch
    <2>6. UNCHANGED <<buffers, nbuf, nbatch>>
        BY <2>1
    <2> QED
        BY <2>3, <2>4, <2>5, <2>6, <1>SettledOwned

\* Nor is the one Drop has abandoned.
<1>ClearOwned.
    ASSUME TypeOK, Refs, Counted, Owned, NEW p \in Client, DropClear(p)
    PROVE  Counted' /\ Owned'
    <2> USE <1>ClearOwned
    <2>1. PICK b \in BufId :
                 /\ buf'[b].inode = buf[b].inode /\ buf'[b].current = nil
                 /\ buf'[b].flushing = buf[b].flushing
                 /\ \A a \in BufId \ {b} : SameBuf(a)
                 /\ \A y \in BatchId : batch'[y].cells = batch[y].cells
                                       /\ (y # buf[b].current => SameBatch(y))
                 /\ UNCHANGED <<buffers, nbuf, nbatch>>
        BY ClearEffect
    <2> DEFINE x == buf[b].current
    <2>2. x \in BatchId \cup {nil} /\ (x # nil => x \in Batches(b))
        BY BatchFacts
    <2>3. x \notin Batches(b)'
        BY <2>1, BatchFacts DEF Batches
    <2>4. \A a \in BufId : /\ buf'[a].inode = buf[a].inode
                           /\ buf'[a].current \in {buf[a].current, nil}
                           /\ buf'[a].flushing \in {buf[a].flushing, nil}
        BY <2>1 DEF SameBuf
    <2>5. UNCHANGED <<buffers, nbuf, nbatch>>
        BY <2>1
    <2>6. \A y \in BatchId : /\ batch'[y].cells = batch[y].cells
                             /\ y # x => SameBatch(y)
        BY <2>1
    <2> HIDE DEF x
    <2> QED
        BY <2>2, <2>3, <2>4, <2>5, <2>6, <1>SettledOwned

\* InvalidatePastSize leaves the batches where they are.
<1>ShrinkOwned.
    ASSUME TypeOK, Counted, Owned, NEW p \in Client, NEW i \in Inode,
           NEW size \in 0 .. MaxPos, SetattrSize(p, i, size)
    PROVE  Counted' /\ Owned'
    <2> USE <1>ShrinkOwned
    <2>1. UNCHANGED <<buffers, nbuf, nbatch>>
        BY ShrinkEffect
    <2>2. CASE UNCHANGED <<buf, batch>>
        BY <2>1, <2>2 DEF Counted, Owned, Batches
    <2>3. ASSUME NEW b \in BufId,
                 buffers[i] = b,
                 \A x \in BatchId :
                      /\ batch'[x].done = batch[x].done
                      /\ x \in Batches(b) => batch'[x].cells = UpTo(batch[x].cells, size)
                      /\ x \notin Batches(b) => SameBatch(x)
                      /\ x = buf[b].current => batch'[x].bytes =
                             batch[x].bytes - Cardinality(PastSize(batch[x].cells, size)),
                 \A a \in BufId :
                      /\ buf'[a].inode = buf[a].inode
                      /\ buf'[a].current = buf[a].current
                      /\ buf'[a].flushing = buf[a].flushing
          PROVE  Counted' /\ Owned'
        <3>1. ASSUME NEW x \in BatchId
              PROVE  /\ batch[x].cells \in SUBSET Cell /\ IsFiniteSet(batch[x].cells)
                     /\ batch[x].bytes \in Int /\ Cardinality(batch[x].cells) \in Nat
            <4>1. batch[x] \in bufBatch /\ IsFiniteSet(batch[x].cells)
                BY DEF TypeOK, Counted
            <4> QED
                BY <4>1 DEF bufBatch, SetLaws, SizeLaw
        <3>2. size \in Nat
            BY SMTT(30)
        <3>3. ASSUME NEW x \in BatchId
              PROVE  /\ IsFiniteSet(UpTo(batch[x].cells, size))
                     /\ Cardinality(PastSize(batch[x].cells, size)) \in Nat
                     /\ Cardinality(UpTo(batch[x].cells, size)) =
                            Cardinality(batch[x].cells)
                              - Cardinality(PastSize(batch[x].cells, size))
            BY <3>1, <3>2, ClipCounted
        <3>4. \A x \in BatchId : IsFiniteSet(batch'[x].cells)
            BY <2>3, <3>1, <3>3 DEF SameBatch
        <3>5. ASSUME NEW a \in BufId, buf'[a].current # nil
              PROVE  batch'[buf'[a].current].bytes >= Cardinality(batch'[buf'[a].current].cells)
            <4> DEFINE x == buf[a].current
            <4>1. buf'[a].current = x /\ x # nil /\ x \in BatchId /\ x \in Batches(a)
                BY <2>3, <3>5, BatchFacts
            <4>2. batch[x].bytes >= Cardinality(batch[x].cells)
                BY <4>1 DEF Counted
            <4>3. CASE a = b
                <5>1. /\ batch'[x].bytes =
                            batch[x].bytes - Cardinality(PastSize(batch[x].cells, size))
                      /\ batch'[x].cells = UpTo(batch[x].cells, size)
                    BY <2>3, <4>1, <4>3
                <5>2. /\ Cardinality(UpTo(batch[x].cells, size)) =
                            Cardinality(batch[x].cells)
                              - Cardinality(PastSize(batch[x].cells, size))
                      /\ Cardinality(PastSize(batch[x].cells, size)) \in Nat
                      /\ batch[x].bytes \in Int /\ Cardinality(batch[x].cells) \in Nat
                    BY <3>1, <3>3, <4>1
                <5> HIDE DEF x
                <5>3. batch'[x].bytes >= Cardinality(batch'[x].cells)
                    <6>1. PICK u, v, t : /\ u = batch[x].bytes /\ v = Cardinality(batch[x].cells)
                                         /\ t = Cardinality(PastSize(batch[x].cells, size))
                        OBVIOUS
                    <6>2. u \in Int /\ v \in Nat /\ t \in Nat /\ u >= v
                        BY <4>2, <5>2, <6>1
                    <6>3. u - t >= v - t
                        BY SMTT(30), <6>2
                    <6>4. batch'[x].bytes = u - t /\ Cardinality(batch'[x].cells) = v - t
                        BY <5>1, <5>2, <6>1
                    <6> QED
                        BY <6>3, <6>4
                <5> QED
                    BY <4>1, <5>3
            <4>4. CASE a # b
                <5>1. x \notin Batches(b)
                    BY <4>1, <4>4, BatchFacts
                <5>2. SameBatch(x)
                    BY <2>3, <4>1, <5>1
                <5> QED
                    BY <4>1, <4>2, <5>2 DEF SameBatch
            <4> QED
                BY <4>3, <4>4
        <3>6. Counted'
            BY <3>4, <3>5 DEF Counted
        <3>7. \A a \in BufId : Batches(a)' = Batches(a)
            BY <2>3 DEF Batches
        <3>8. \A j \in Inode : buffers'[j] # nil =>
                  buffers'[j] <= nbuf' /\ buf'[buffers'[j]].inode = j
            <4>1. \A j \in Inode : buffers[j] # nil => buffers[j] \in BufId
                BY DEF TypeOK
            <4> QED
                BY <2>1, <2>3, <4>1 DEF Owned
        <3>9. ASSUME NEW a \in BufId
              PROVE  /\ \A y \in Batches(a)' : y <= nbatch' /\ ~batch'[y].done
                     /\ buf'[a].current = buf'[a].flushing => buf'[a].current = nil
                     /\ \A d \in BufId : d # a => Batches(d)' \cap Batches(a)' = {}
            <4>1. Batches(a)' = Batches(a) /\ Batches(a) \subseteq BatchId
                BY <3>7, BatchFacts
            <4>2. \A y \in Batches(a) : y <= nbatch /\ ~batch[y].done
                BY DEF Owned
            <4>3. \A y \in BatchId : batch'[y].done = batch[y].done
                BY <2>3
            <4>4. buf'[a].current = buf'[a].flushing => buf'[a].current = nil
                BY <2>3 DEF Owned
            <4>5. \A d \in BufId : d # a => Batches(d)' \cap Batches(a)' = {}
                BY <3>7 DEF Owned
            <4> QED
                BY <2>1, <4>1, <4>2, <4>3, <4>4, <4>5
        <3>10. ASSUME NEW y \in BatchId, y > nbatch' PROVE batch'[y] = newBufBatch
            <4>1. y \in Nat /\ nbatch \in Nat
                BY BatchFacts
            <4>2. y \notin Batches(b)
                <5>1. y \in Batches(b) => y <= nbatch
                    BY DEF Owned
                <5>2. y > nbatch
                    BY <2>1, <3>10
                <5> QED
                    BY SMTT(30), <4>1, <5>1, <5>2
            <4> QED
                BY <2>1, <2>3, <3>10, <4>2 DEF SameBatch, Owned
        <3> QED
            BY <3>6, <3>8, <3>9, <3>10 DEF Owned
    <2>4. UNCHANGED <<buf, batch>> \/ \E b \in BufId :
                 /\ buffers[i] = b
                 /\ \A x \in BatchId :
                      /\ batch'[x].done = batch[x].done
                      /\ x \in Batches(b) => batch'[x].cells = UpTo(batch[x].cells, size)
                      /\ x \notin Batches(b) => SameBatch(x)
                      /\ x = buf[b].current => batch'[x].bytes =
                             batch[x].bytes - Cardinality(PastSize(batch[x].cells, size))
                 /\ \A a \in BufId :
                      /\ buf'[a].inode = buf[a].inode
                      /\ buf'[a].current = buf[a].current
                      /\ buf'[a].flushing = buf[a].flushing
        BY ShrinkEffect
    <2> QED
        BY <2>2, <2>3, <2>4

\* Counted and Owned are preserved by every step.
<1>OwnedStep.
    ASSUME TypeOK, Refs, Counted, Owned, Flushers, [Next]_vars
    PROVE  Counted' /\ Owned'
    <2> USE <1>OwnedStep
    <2>1. ASSUME UNCHANGED <<buffers, buf, nbuf, batch, nbatch>>
          PROVE  Counted' /\ Owned'
        BY <2>1 DEF Counted, Owned, Batches
    <2>2. CASE Crash
        <3>1. Counted'
            BY <2>2 DEF Crash, Counted, newBufBatch, NewBuf, SetLaws, EmptyLaw
        <3>2. Owned'
            BY <2>2 DEF Crash, Owned, newBufBatch, NewBuf, Batches
        <3> QED
            BY <3>1, <3>2
    <2>3. CASE Quiet
        BY <2>1, <2>3 DEF Quiet
    <2>4. CASE Busy
        <3>1. ASSUME \/ \E w \in Worker : FlushSnapshot(w) \/ FlushCommit(w)
                     \/ \E p \in Client : \/ SetattrTruncate(p) \/ DeleteInode(p)
                                          \/ \E i \in Inode : UnlinkCommit(p, i)
              PROVE  Counted' /\ Owned'
            BY <2>1, <3>1 DEF FlushSnapshot, FlushCommit, SetattrTruncate,
               DeleteInode, UnlinkCommit, mem
        <3>2. ASSUME NEW p \in Client, DropForget(p) PROVE Counted' /\ Owned'
            <4>1. UNCHANGED <<buf, nbuf, batch, nbatch>>
                BY <3>2 DEF DropForget
            <4>2. \A j \in Inode : buffers'[j] # nil => buffers'[j] = buffers[j]
                BY <3>2 DEF DropForget, TypeOK
            <4>3. \A j \in Inode : buffers'[j] # nil =>
                     buffers'[j] <= nbuf' /\ buf'[buffers'[j]].inode = j
                BY <4>1, <4>2 DEF Owned
            <4> QED
                BY <4>1, <4>3 DEF Counted, Owned, Batches
        <3> QED
            BY <2>4, <3>1, <3>2, <1>AcquireOwned, <1>AppendOwned, <1>ShrinkOwned,
               <1>ClearOwned, <1>TakeOwned, <1>SettleOwned DEF Busy
    <2>5. CASE UNCHANGED vars
        BY <2>1, <2>5 DEF vars, mem
    <2> QED
        BY <2>2, <2>3, <2>4, <2>5, QuietOrBusy

<1> QED
    BY <1>OwnedStep

-----------------------------------------------------------------------------
(* What calls and flushes remember from one state to the next *)

\* Call n goes on where call o was.
CallOn(o, n) ==
    /\ n.pc \in Unlinking => o.pc \in Unlinking /\ n.inode = o.inode
    /\ n.pc \in HoldsBuf =>
           o.pc \in HoldsBuf /\ n.inode = o.inode /\ n.buf = o.buf
    /\ n.pc \in Syncing =>
           o.pc \in Syncing /\ n.waits = o.waits /\ n.must = o.must

\* A call that has no buffer and is not unlinking remembers nothing.
Free(n) == n.pc \notin Unlinking \cup HoldsBuf

\* The ways a call goes on: it stays, is told that its request was fired,
\* forgets, or moves to the next stage of an Fsync or an Unlink.
LEMMA CallOnSteps ==
    ASSUME NEW o \in Proc
    PROVE  /\ CallOn(o, o)
           /\ CallOn(o, [o EXCEPT !.fired = TRUE])
           /\ \A n : Free(n) => CallOn(o, n)
           /\ o.pc \in Syncing => /\ CallOn(o, [o EXCEPT !.pc = "fired"])
                                  /\ CallOn(o, [o EXCEPT !.pc = "wait"])
           /\ o.pc \in Unlinking => /\ CallOn(o, [o EXCEPT !.pc = "forget"])
                                    /\ CallOn(o, [o EXCEPT !.pc = "delete"])
<1>1. \A n : Free(n) => CallOn(o, n)
    BY DEF Free, CallOn, Syncing, HoldsBuf
<1>2. CallOn(o, [o EXCEPT !.fired = TRUE])
    BY DEF Proc, CallOn
<1>3. o.pc \in Syncing => /\ CallOn(o, [o EXCEPT !.pc = "fired"])
                          /\ CallOn(o, [o EXCEPT !.pc = "wait"])
    BY DEF Proc, CallOn, Syncing, HoldsBuf, Unlinking
<1>4. o.pc \in Unlinking => /\ CallOn(o, [o EXCEPT !.pc = "forget"])
                            /\ CallOn(o, [o EXCEPT !.pc = "delete"])
    BY DEF Proc, CallOn, Syncing, HoldsBuf, Unlinking
<1> QED
    BY <1>1, <1>2, <1>3, <1>4 DEF CallOn

\* The calls whose step takes a buffer or unlinks.
TakesHold(q) ==
    \/ WriteAcquire(q) \/ DropWait(q)
    \/ \E i \in Inode : FsyncSnapshot(q, i) \/ UnlinkCommit(q, i)

\* Every other call goes on.
LEMMA CallsGoOn ==
    ASSUME TypeOK, Next, ~Crash, NEW q \in Client
    PROVE  CallOn(proc[q], proc'[q]) \/ TakesHold(q)
<1>t. proc \in [Client -> Proc] /\ proc[q] \in Proc
    BY DEF TypeOK
<1>1. UNCHANGED proc => CallOn(proc[q], proc'[q])
    BY <1>t, CallOnSteps
<1>2. ASSUME NEW p \in Client, NEW r, proc' = [proc EXCEPT ![p] = r],
             CallOn(proc[p], r)
      PROVE  CallOn(proc[q], proc'[q])
    BY <1>t, <1>2, CallOnSteps
<1>3. ASSUME NEW p \in Client, NEW r, proc' = [proc EXCEPT ![p] = r], Free(r)
      PROVE  CallOn(proc[q], proc'[q])
    <2>1. proc[p] \in Proc
        BY <1>t
    <2> QED
        BY <1>2, <1>3, <2>1, CallOnSteps
<1>i. Free(IdleProc)
    BY DEF Free, IdleProc, Unlinking, HoldsBuf, Syncing
<1>4. ASSUME NEW p \in Client, Return(p) PROVE CallOn(proc[q], proc'[q])
    BY <1>3, <1>4, <1>i DEF Return
<1>5. ASSUME NEW p \in Client, NEW i, AfterFsync(p, i) PROVE CallOn(proc[q], proc'[q])
    <2>1. /\ Free([IdleProc EXCEPT !.pc = "fsync", !.todo = proc[p].todo \ {i}])
          /\ Free([IdleProc EXCEPT !.pc = "close"])
        BY DEF Free, IdleProc, Unlinking, HoldsBuf, Syncing
    <2>2. \E r : proc' = [proc EXCEPT ![p] = r] /\ Free(r)
        BY <1>5, <1>i, <2>1 DEF AfterFsync
    <2> QED
        BY <1>3, <2>2
<1>6. ASSUME NEW p \in Client, WriteStep(p)
      PROVE  CallOn(proc[q], proc'[q]) \/ TakesHold(q)
    <2>1. ASSUME NEW i \in Inode, NEW P \in Interval, WriteCall(p, i, P)
          PROVE  CallOn(proc[q], proc'[q])
        <3>1. Free([IdleProc EXCEPT !.pc = "acquire", !.inode = i, !.data = P])
            BY DEF Free, IdleProc, Unlinking, HoldsBuf, Syncing
        <3> QED
            BY <1>3, <2>1, <3>1 DEF WriteCall, Begin
    <2>2. ASSUME WriteAcquire(p) PROVE CallOn(proc[q], proc'[q]) \/ TakesHold(q)
        <3>1. CASE q = p
            BY <2>2, <3>1 DEF TakesHold
        <3>2. CASE q # p
            <4>1. proc'[q] = proc[q]
                BY <1>t, <2>2, <3>2 DEF WriteAcquire
            <4> QED
                BY <1>t, <4>1, CallOnSteps
        <3> QED
            BY <3>1, <3>2
    <2>3. ASSUME WriteAppend(p) PROVE CallOn(proc[q], proc'[q])
        <3>1. Free([proc[p] EXCEPT !.pc = "enqueue"])
            <4>1. proc[p] \in Proc
                BY <1>t
            <4> QED
                BY <4>1 DEF Proc, Free, Unlinking, HoldsBuf, Syncing
        <3>2. Goto(p, "enqueue") \/ Return(p)
            BY <2>3 DEF WriteAppend
        <3>3. Goto(p, "enqueue") => proc' = [proc EXCEPT ![p] = [proc[p] EXCEPT !.pc = "enqueue"]]
            BY <1>t DEF Goto
        <3> QED
            BY <1>3, <1>4, <3>1, <3>2, <3>3
    <2> QED
        BY <1>4, <1>6, <2>1, <2>2, <2>3
           DEF WriteStep, WriteCancel, WritePoisoned, WriteEnqueue
<1>7. ASSUME NEW p \in Client, FsyncStep(p)
      PROVE  CallOn(proc[q], proc'[q]) \/ TakesHold(q)
    <2>1. ASSUME NEW i \in Inode, FsyncCall(p, i) PROVE CallOn(proc[q], proc'[q])
        <3>1. Free([IdleProc EXCEPT !.pc = "fsync", !.todo = {i}])
            BY DEF Free, IdleProc, Unlinking, HoldsBuf, Syncing
        <3> QED
            BY <1>3, <2>1, <3>1 DEF FsyncCall, Begin
    <2>2. ASSUME NEW i \in Inode, FsyncSnapshot(p, i)
          PROVE  CallOn(proc[q], proc'[q]) \/ TakesHold(q)
        <3>1. CASE q = p
            BY <2>2, <3>1 DEF TakesHold
        <3>2. CASE q # p
            <4>1. proc'[q] = proc[q]
                BY <1>t, <2>2, <3>2 DEF FsyncSnapshot
            <4> QED
                BY <1>t, <4>1, CallOnSteps
        <3> QED
            BY <3>1, <3>2
    <2>3. ASSUME FsyncTrigger(p) \/ FsyncFired(p) PROVE CallOn(proc[q], proc'[q])
        <3>1. proc[p] \in Proc /\ proc[p].pc \in Syncing
            BY <1>t, <2>3 DEF FsyncTrigger, FsyncFired, Syncing
        <3>2. \/ proc' = [proc EXCEPT ![p] = [proc[p] EXCEPT !.pc = "fired"]]
              \/ proc' = [proc EXCEPT ![p] = [proc[p] EXCEPT !.pc = "wait"]]
            BY <1>t, <2>3 DEF FsyncTrigger, FsyncFired, Goto
        <3> QED
            BY <1>2, <3>1, <3>2, CallOnSteps
    <2> QED
        BY <1>4, <1>5, <1>7, <2>1, <2>2, <2>3
           DEF FsyncStep, FsyncEarly, FsyncDone, FsyncCancel
<1>8. ASSUME NEW p \in Client, SetattrStep(p)
      PROVE  CallOn(proc[q], proc'[q])
    <2>1. proc[p] \in Proc
        BY <1>t
    <2>2. ASSUME NEW i \in Inode, NEW s, NEW pc \in SetattrPc
          PROVE  Free([IdleProc EXCEPT !.pc = pc, !.inode = i, !.size = s])
        BY DEF Free, IdleProc, Unlinking, HoldsBuf, Syncing, SetattrPc
    <2>3. ASSUME NEW i \in Inode, SetattrMode(p, i) PROVE CallOn(proc[q], proc'[q])
        BY <1>3, <2>2, <2>3 DEF SetattrMode, Begin, SetattrPc
    <2>4. ASSUME NEW i \in Inode, NEW size \in 0 .. MaxPos, SetattrSize(p, i, size)
          PROVE  CallOn(proc[q], proc'[q])
        <3>1. \E pc \in SetattrPc : proc' = [proc EXCEPT ![p] =
                 [IdleProc EXCEPT !.pc = pc, !.inode = i, !.size = size]]
            BY <2>4 DEF SetattrSize, Begin, SetattrPc
        <3> QED
            BY <1>3, <2>2, <3>1
    <2>5. ASSUME SetattrTruncate(p) PROVE CallOn(proc[q], proc'[q])
        <3>1. Free([proc[p] EXCEPT !.pc = "stat"])
            BY <2>1 DEF Proc, Free, Unlinking, HoldsBuf, Syncing
        <3>2. proc' = [proc EXCEPT ![p] = [proc[p] EXCEPT !.pc = "stat"]]
            BY <1>t, <2>5 DEF SetattrTruncate, Goto
        <3> QED
            BY <1>3, <3>1, <3>2
    <2>6. ASSUME SetattrStat(p) PROVE CallOn(proc[q], proc'[q])
        <3>1. Return(p) \/ \E nn : proc' = [proc EXCEPT ![p].pc = "commit", ![p].nn = nn]
            BY <2>6 DEF SetattrStat
        <3>2. ASSUME NEW nn, proc' = [proc EXCEPT ![p].pc = "commit", ![p].nn = nn]
              PROVE  CallOn(proc[q], proc'[q])
            <4>1. proc' = [proc EXCEPT ![p] = [proc[p] EXCEPT !.pc = "commit", !.nn = nn]]
                BY <1>t, <3>2
            <4>2. Free([proc[p] EXCEPT !.pc = "commit", !.nn = nn])
                BY <2>1 DEF Proc, Free, Unlinking, HoldsBuf, Syncing
            <4> QED
                BY <1>3, <4>1, <4>2
        <3> QED
            BY <1>4, <3>1, <3>2
    <2>7. ASSUME SetattrCommit(p) PROVE CallOn(proc[q], proc'[q])
        BY <1>4, <2>7 DEF SetattrCommit
    <2> QED
        BY <1>8, <2>3, <2>4, <2>5, <2>6, <2>7 DEF SetattrStep
<1>9. ASSUME NEW p \in Client, UnlinkStep(p)
      PROVE  CallOn(proc[q], proc'[q]) \/ TakesHold(q)
    <2>1. ASSUME DropWait(p) \/ \E i \in Inode : UnlinkCommit(p, i)
          PROVE  CallOn(proc[q], proc'[q]) \/ TakesHold(q)
        <3>1. CASE q = p
            BY <2>1, <3>1 DEF TakesHold
        <3>2. CASE q # p
            <4>1. proc'[q] = proc[q]
                BY <1>t, <2>1, <3>2 DEF DropWait, UnlinkCommit, Begin
            <4> QED
                BY <1>t, <4>1, CallOnSteps
        <3> QED
            BY <3>1, <3>2
    <2>2. ASSUME DropClear(p) \/ DropForget(p) PROVE CallOn(proc[q], proc'[q])
        <3>1. proc[p] \in Proc /\ proc[p].pc \in Unlinking
            BY <1>t, <2>2 DEF DropClear, DropForget, Unlinking
        <3>2. \/ proc' = [proc EXCEPT ![p] = [proc[p] EXCEPT !.pc = "forget"]]
              \/ proc' = [proc EXCEPT ![p] = [proc[p] EXCEPT !.pc = "delete"]]
            BY <1>t, <2>2 DEF DropClear, DropForget, Goto
        <3> QED
            BY <1>2, <3>1, <3>2, CallOnSteps
    <2> QED
        BY <1>4, <1>9, <2>1, <2>2 DEF UnlinkStep, DeleteInode
<1>10. ASSUME NEW p \in Client, CloseStep(p) PROVE CallOn(proc[q], proc'[q])
    <2>1. ASSUME Drain(p) PROVE CallOn(proc[q], proc'[q])
        <3>1. \E pc \in {"close", "fsync"} : \E todo : proc' = [proc EXCEPT ![p] =
                 [IdleProc EXCEPT !.pc = pc, !.todo = todo]]
            BY <2>1 DEF Drain, Begin
        <3>2. ASSUME NEW pc \in {"close", "fsync"}, NEW todo
              PROVE  Free([IdleProc EXCEPT !.pc = pc, !.todo = todo])
            BY DEF Free, IdleProc, Unlinking, HoldsBuf, Syncing
        <3> QED
            BY <1>3, <3>1, <3>2
    <2>2. ASSUME Close(p) PROVE CallOn(proc[q], proc'[q])
        <3>1. proc[p] \in Proc
            BY <1>t
        <3>2. Free([proc[p] EXCEPT !.pc = "join"])
            BY <3>1 DEF Proc, Free, Unlinking, HoldsBuf, Syncing
        <3>3. proc' = [proc EXCEPT ![p] = [proc[p] EXCEPT !.pc = "join"]]
            BY <1>t, <2>2 DEF Close, Goto
        <3> QED
            BY <1>3, <3>2, <3>3
    <2> QED
        BY <1>4, <1>10, <2>1, <2>2 DEF CloseStep, CloseJoin
<1>11. ASSUME NEW w \in Worker, FlushStep(w) PROVE CallOn(proc[q], proc'[q])
    <2>1. ASSUME FlushTake(w) PROVE CallOn(proc[q], proc'[q])
        <3>1. \E p : proc' = [proc EXCEPT ![p].fired = TRUE] \/ UNCHANGED proc
            BY <2>1 DEF FlushTake
        <3>2. proc'[q] = proc[q] \/ proc'[q] = [proc[q] EXCEPT !.fired = TRUE]
            BY <1>t, <3>1
        <3> QED
            BY <1>t, <3>2, CallOnSteps
    <2> QED
        BY <1>1, <1>11, <2>1 DEF FlushStep, FlushSnapshot, FlushAppend,
           FlushFail, FlushHook, FlushCommit, FlushSettle
<1>12. CASE TickStep
    BY <1>1, <1>12 DEF TickStep, TickScan, TickSend
<1> QED
    BY <1>6, <1>7, <1>8, <1>9, <1>10, <1>11, <1>12 DEF Next

\* The flusher whose step this is.
Flushes(v) ==
    \/ FlushTake(v) /\ wk'[v] # wk[v]
    \/ FlushSnapshot(v) \/ FlushAppend(v) \/ FlushFail(v)
    \/ FlushHook(v) \/ FlushCommit(v) \/ FlushSettle(v)

\* Only a flusher's own step changes it.
LEMMA FlushersWait ==
    ASSUME TypeOK, Next, ~Crash, NEW v \in Worker
    PROVE  wk'[v] = wk[v] \/ Flushes(v)
<1>t. wk \in [Worker -> Wk]
    BY DEF TypeOK
<1>1. UNCHANGED wk \/ \E w \in Worker : FlushStep(w)
    <2>1. ASSUME NEW p \in Client, WriteStep(p) PROVE UNCHANGED wk
        BY <2>1 DEF WriteStep, WriteCall, WriteAcquire, WriteCancel,
           WriteAppend, WritePoisoned, WriteEnqueue
    <2>2. ASSUME NEW p \in Client, FsyncStep(p) PROVE UNCHANGED wk
        BY <2>2 DEF FsyncStep, FsyncCall, FsyncSnapshot, FsyncEarly,
           FsyncTrigger, FsyncFired, FsyncDone, FsyncCancel
    <2>3. ASSUME NEW p \in Client, SetattrStep(p) PROVE UNCHANGED wk
        BY <2>3 DEF SetattrStep, SetattrSize, SetattrMode, SetattrTruncate,
           SetattrStat, SetattrCommit
    <2>4. ASSUME NEW p \in Client, UnlinkStep(p) PROVE UNCHANGED wk
        BY <2>4 DEF UnlinkStep, UnlinkCommit, DropWait, DropClear,
           DropForget, DeleteInode
    <2>5. ASSUME NEW p \in Client, CloseStep(p) PROVE UNCHANGED wk
        BY <2>5 DEF CloseStep, Drain, Close, CloseJoin
    <2>6. ASSUME TickStep PROVE UNCHANGED wk
        BY <2>6 DEF TickStep, TickScan, TickSend
    <2> QED
        BY <2>1, <2>2, <2>3, <2>4, <2>5, <2>6 DEF Next
<1>2. ASSUME NEW w \in Worker, FlushStep(w) PROVE wk'[v] = wk[v] \/ Flushes(v)
    <2>1. CASE v = w
        BY <1>2, <2>1 DEF FlushStep, Flushes
    <2>2. CASE v # w
        <3>1. CASE FlushTake(w)
            BY <1>t, <2>2, <3>1 DEF FlushTake
        <3>2. CASE FlushSnapshot(w)
            BY <1>t, <2>2, <3>2 DEF FlushSnapshot
        <3>3. CASE FlushAppend(w) \/ FlushFail(w)
            BY <1>t, <2>2, <3>3 DEF FlushAppend, FlushFail
        <3>4. CASE FlushHook(w) \/ FlushCommit(w) \/ FlushSettle(w)
            BY <1>t, <2>2, <3>4 DEF FlushHook, FlushCommit, FlushSettle
        <3> QED
            BY <1>2, <3>1, <3>2, <3>3, <3>4 DEF FlushStep
    <2> QED
        BY <2>1, <2>2
<1> QED
    BY <1>1, <1>2

\* Flush n goes on where flush o was.
FlushOn(o, n) ==
    n.pc # "idle" =>
        /\ o.pc # "idle"
        /\ n.inode = o.inode /\ n.buf = o.buf /\ n.batch = o.batch
        /\ n.pc = "swapped" => o.pc = "swapped" /\ n.cells = o.cells

\* What a flusher's own step does to it, and to the batch and the disk.
LEMMA FlushEffect ==
    ASSUME TypeOK, NEW v \in Worker, Flushes(v), ~FlushTake(v)
    PROVE  /\ FlushOn(wk[v], wk'[v])
           /\ ~FlushSettle(v) => UNCHANGED batch
           /\ \/ wk'[v].pc = "idle"
              \/ FlushSnapshot(v)
              \/ FlushCommit(v)
              \/ wk'[v].pc = "settle" /\ wk'[v].err
              \/ /\ wk[v].pc # "settle" /\ wk'[v].pc # "settle"
                 /\ wk'[v].cells = wk[v].cells
<1>1. wk \in [Worker -> Wk] /\ wk[v] \in Wk
    BY DEF TypeOK
<1>2. CASE FlushSnapshot(v)
    <2>1. PICK ae, end : wk' = [wk EXCEPT ![v].pc = "snapped", ![v].cells = ae,
                                          ![v].end = end]
        BY <1>2 DEF FlushSnapshot
    <2>2. wk[v].pc = "swapped" /\ UNCHANGED batch
        BY <1>2 DEF FlushSnapshot, mem
    <2> QED
        BY <1>1, <1>2, <2>1, <2>2 DEF Wk, FlushOn
<1>3. CASE FlushAppend(v)
    BY <1>1, <1>3 DEF FlushAppend, mem, Wk, FlushOn
<1>4. CASE FlushFail(v)
    BY <1>1, <1>4 DEF FlushFail, mem, Wk, FlushOn
<1>5. CASE FlushHook(v)
    <2>1. PICK n : /\ wk' = [wk EXCEPT ![v].pc = IF n.ok THEN "hooked" ELSE "settle",
                                       ![v].nn = n, ![v].err = ~n.ok]
                   /\ wk[v].pc = "appended" /\ UNCHANGED batch
        BY <1>5 DEF FlushHook, mem
    <2>2. CASE n.ok
        BY <1>1, <2>1, <2>2 DEF Wk, FlushOn
    <2>3. CASE ~n.ok
        BY <1>1, <2>1, <2>3 DEF Wk, FlushOn
    <2> QED
        BY <2>2, <2>3
<1>6. CASE FlushCommit(v)
    BY <1>1, <1>6 DEF FlushCommit, mem, Wk, FlushOn
<1>7. CASE FlushSettle(v)
    BY <1>1, <1>7 DEF FlushSettle, Wk, IdleWk, FlushOn
<1> QED
    BY <1>2, <1>3, <1>4, <1>5, <1>6, <1>7 DEF Flushes

\* The pointers that calls and flushes hold stay good.
LEMMA PointersStay ==
    /\ TypeOK /\ Refs /\ Owned /\ Callers /\ TypeOK' /\ Refs' /\ Owned' /\ Evolves /\ Next
       /\ ~Crash
       => Callers'
    /\ TypeOK /\ Refs /\ Counted /\ Owned /\ Flushers /\ TypeOK' /\ Refs' /\ Evolves /\ Next
       /\ ~Crash
       => Flushers'

\* Object identities are never handed out twice between crashes.
<1>CountersGrow.
    ASSUME TypeOK, TypeOK', Evolves
    PROVE  /\ nbuf \in Nat /\ nbuf' \in Nat /\ nbatch \in Nat /\ nbatch' \in Nat
           /\ nbuf <= nbuf' /\ nbatch <= nbatch'
           /\ \A b \in BufId : b \in Nat /\ b # nil
           /\ \A x \in BatchId : x \in Nat /\ x # nil
    <2> USE <1>CountersGrow
    <2>1. nbuf \in Nat /\ nbuf' \in Nat /\ nbatch \in Nat /\ nbatch' \in Nat
        BY SMTT(30) DEF TypeOK
    <2>2. /\ \A b \in BufId : b \in Nat /\ b # nil
          /\ \A x \in BatchId : x \in Nat /\ x # nil
        BY SMTT(30) DEF BufId, BatchId, nil
    <2> QED
        BY <2>1, <2>2 DEF Evolves

\* A buffer that was allocated for inode i and is the one in the map, unless
\* i is unlinked, is so in the next state.
<1>BufferStays.
    ASSUME TypeOK, TypeOK', Evolves, NEW i \in Inode, NEW b \in BufId,
           b <= nbuf, buf[b].inode = i, ~h[i].unlinked => buffers[i] = b
    PROVE  /\ b <= nbuf' /\ buf'[b].inode = i
           /\ ~h'[i].unlinked => buffers'[i] = b
    <2> USE <1>BufferStays
    <2>1. InodeEvolves(i) /\ BufEvolves(b)
        BY DEF Evolves
    <2>2. b <= nbuf'
        BY SMTT(30), <1>CountersGrow
    <2>3. b # nil
        BY <1>CountersGrow
    <2> QED
        BY <2>1, <2>2, <2>3 DEF InodeEvolves, BufEvolves

\* A call in progress keeps pointing at the buffer in the map.
<1>CallersStep.
    ASSUME TypeOK, Refs, Owned, Callers, TypeOK', Refs', Owned', Evolves,
           Next, ~Crash
    PROVE  Callers'
    <2> USE <1>CallersStep
    <2> DEFINE Good(q) ==
            /\ proc'[q].pc \in Unlinking => h'[proc'[q].inode].unlinked
            /\ proc'[q].pc \in HoldsBuf =>
                 /\ proc'[q].buf <= nbuf'
                 /\ buf'[proc'[q].buf].inode = proc'[q].inode
                 /\ ~h'[proc'[q].inode].unlinked =>
                        buffers'[proc'[q].inode] = proc'[q].buf
            /\ proc'[q].pc \in Syncing => \A x \in proc'[q].waits :
                 x <= nbatch' /\ \A b \in BufId \ {proc'[q].buf} : x \notin Batches(b)'
    <2>1. ASSUME NEW q \in Client, CallOn(proc[q], proc'[q]) PROVE Good(q)
        <3>1. proc[q] \in Proc
            BY DEF TypeOK
        <3>2. ASSUME proc'[q].pc \in Unlinking PROVE h'[proc'[q].inode].unlinked
            <4>1. proc[q].pc \in Unlinking /\ proc'[q].inode = proc[q].inode
                BY <2>1, <3>2 DEF CallOn
            <4>2. PICK i \in Inode : i = proc[q].inode /\ h[i].unlinked
                BY <4>1 DEF Callers, Refs, Unlinking, NoInode
            <4>3. InodeEvolves(i)
                BY DEF Evolves
            <4> QED
                BY <4>1, <4>2, <4>3 DEF InodeEvolves
        <3>3. ASSUME proc'[q].pc \in HoldsBuf
              PROVE  /\ proc'[q].buf <= nbuf'
                     /\ buf'[proc'[q].buf].inode = proc'[q].inode
                     /\ ~h'[proc'[q].inode].unlinked =>
                            buffers'[proc'[q].inode] = proc'[q].buf
            <4>1. /\ proc[q].pc \in HoldsBuf /\ proc'[q].inode = proc[q].inode
                  /\ proc'[q].buf = proc[q].buf
                BY <2>1, <3>3 DEF CallOn
            <4>2. proc[q].inode \in Inode /\ proc[q].buf \in BufId
                BY <4>1 DEF Refs, HoldsBuf, Syncing, NoInode
            <4>3. /\ proc[q].buf <= nbuf /\ buf[proc[q].buf].inode = proc[q].inode
                  /\ ~h[proc[q].inode].unlinked => buffers[proc[q].inode] = proc[q].buf
                BY <4>1 DEF Callers
            <4>4. /\ proc[q].buf <= nbuf' /\ buf'[proc[q].buf].inode = proc[q].inode
                  /\ ~h'[proc[q].inode].unlinked => buffers'[proc[q].inode] = proc[q].buf
                BY <4>2, <4>3, <1>BufferStays
            <4> QED
                BY <4>1, <4>4
        <3>4. ASSUME proc'[q].pc \in Syncing, NEW x \in proc'[q].waits
              PROVE  /\ x <= nbatch'
                     /\ \A b \in BufId \ {proc'[q].buf} : x \notin Batches(b)'
            <4>1. /\ proc[q].pc \in Syncing /\ x \in proc[q].waits
                  /\ proc'[q].buf = proc[q].buf
                BY <2>1, <3>4 DEF CallOn, HoldsBuf
            <4>2. x \in BatchId
                BY <3>1, <4>1 DEF Proc
            <4>3. x <= nbatch /\ \A b \in BufId \ {proc[q].buf} : x \notin Batches(b)
                BY <4>1 DEF Callers
            <4>4. x \in Nat /\ x <= nbatch' /\ ~(x > nbatch)
                BY SMTT(30), <4>2, <4>3, <1>CountersGrow
            <4>5. \A b \in BufId \ {proc[q].buf} : x \notin Batches(b)'
                BY <4>3, <4>4 DEF Evolves, BufEvolves
            <4> QED
                BY <4>1, <4>4, <4>5
        <3> QED
            BY <3>2, <3>3, <3>4
    <2>2. ASSUME NEW q \in Client, WriteAcquire(q) PROVE Good(q)
        <3>1. PICK i \in Inode, b \in BufId :
                 /\ proc[q].inode = i
                 /\ proc' = [proc EXCEPT ![q] = [proc[q] EXCEPT !.pc = "append", !.buf = b]]
                 /\ buffers'[i] = b /\ \A j \in Inode \ {i} : buffers'[j] = buffers[j]
                 /\ \/ buffers[i] = b /\ UNCHANGED buf
                    \/ /\ buffers[i] = nil /\ b = nbuf + 1
                       /\ buf'[b] = NewBuf(i)
                       /\ \A a \in BufId \ {b} : SameBuf(a)
                 /\ nbuf' = Larger(nbuf, b)
                 /\ UNCHANGED <<batch, nbatch, wk, disk, h>>
            BY <2>2, AcquireEffect
        <3>2. proc'[q].pc = "append" /\ proc'[q].inode = i /\ proc'[q].buf = b
            <4>1. proc[q] \in Proc /\ proc \in [Client -> Proc]
                BY DEF TypeOK
            <4> QED
                BY <3>1, <4>1 DEF Proc
        <3>3. b <= nbuf' /\ buf'[b].inode = i
            <4>1. b # nil
                BY <1>CountersGrow
            <4> QED
                BY <3>1, <4>1 DEF Owned
        <3> QED
            BY <3>1, <3>2, <3>3 DEF Unlinking, Syncing
    <2>3. ASSUME NEW q \in Client, NEW i \in Inode, FsyncSnapshot(q, i) PROVE Good(q)
        <3> DEFINE b == buffers[i]
        <3>1. b \in BufId /\ b <= nbuf /\ buf[b].inode = i
            BY SMTT(30), <2>3 DEF FsyncSnapshot, Owned, TypeOK
        <3>2. UNCHANGED <<buffers, buf, nbuf, batch, nbatch, h>>
            BY <2>3 DEF FsyncSnapshot, mem
        <3>3. proc' = [proc EXCEPT ![q] = [proc[q] EXCEPT
                  !.pc = IF NeedTrigger(b) THEN "trigger" ELSE "wait",
                  !.inode = i, !.buf = b, !.waits = Waits(b), !.must = h[i].written]]
            BY <2>3 DEF FsyncSnapshot, TypeOK
        <3>4. proc[q] \in Proc /\ proc \in [Client -> Proc]
            BY DEF TypeOK
        <3> HIDE DEF b
        <3>5. /\ proc'[q].pc \in {"trigger", "wait"} /\ proc'[q].inode = i
              /\ proc'[q].buf = b /\ proc'[q].waits = Waits(b)
            BY <3>3, <3>4 DEF Proc
        <3>6. Waits(b) \subseteq Batches(b)
            BY DEF Waits, Batches, NeedTrigger
        <3>7. \A x \in Waits(b) :
                 x <= nbatch /\ \A a \in BufId \ {b} : x \notin Batches(a)
            BY <3>1, <3>6 DEF Owned
        <3>8. \A a \in BufId : Batches(a)' = Batches(a)
            BY <3>2 DEF Batches
        <3>9. proc'[q].pc \notin Unlinking
            BY <3>5 DEF Unlinking
        <3>10. /\ proc'[q].buf <= nbuf' /\ buf'[proc'[q].buf].inode = proc'[q].inode
               /\ buffers'[proc'[q].inode] = proc'[q].buf
            BY <3>1, <3>2, <3>5 DEF b
        <3>11. \A x \in proc'[q].waits :
                  x <= nbatch' /\ \A a \in BufId \ {proc'[q].buf} : x \notin Batches(a)'
            BY SMTT(30), <3>2, <3>5, <3>7, <3>8
        <3> QED
            BY <3>9, <3>10, <3>11
    <2>4. ASSUME NEW q \in Client, DropWait(q) PROVE Good(q)
        <3> DEFINE i == proc[q].inode
                   b == buffers[i]
        <3>1. /\ i \in Inode /\ h[i].unlinked
            BY <2>4 DEF DropWait, Callers, Refs, Unlinking, NoInode
        <3>2. UNCHANGED <<buffers, buf, nbuf, batch, nbatch, h>>
            BY <2>4 DEF DropWait, mem
        <3>3. proc' = [proc EXCEPT ![q] = [proc[q] EXCEPT
                  !.pc = IF b = nil THEN "delete" ELSE "clear", !.buf = b]]
            BY <2>4 DEF DropWait, TypeOK
        <3>4. proc[q] \in Proc /\ proc \in [Client -> Proc]
            BY DEF TypeOK
        <3>5. b # nil => b <= nbuf /\ buf[b].inode = i
            BY <3>1 DEF Owned
        <3>6. proc[q].inode = i
            OBVIOUS
        <3> HIDE DEF b, i
        <3>7. /\ proc'[q].pc = IF b = nil THEN "delete" ELSE "clear"
              /\ proc'[q].inode = i /\ proc'[q].buf = b
            BY <3>3, <3>4, <3>6 DEF Proc
        <3> QED
            BY <3>1, <3>2, <3>5, <3>7 DEF HoldsBuf, Syncing
    <2>5. ASSUME NEW q \in Client, NEW i \in Inode, UnlinkCommit(q, i) PROVE Good(q)
        <3>1. /\ proc' = [proc EXCEPT ![q] = [IdleProc EXCEPT !.pc = "drop", !.inode = i]]
              /\ h' = [h EXCEPT ![i].unlinked = TRUE]
            BY <2>5 DEF UnlinkCommit, Begin
        <3>2. proc'[q].pc = "drop" /\ proc'[q].inode = i
            BY <3>1 DEF TypeOK, IdleProc
        <3>3. h'[i].unlinked
            <4>1. h[i] \in History /\ h \in [Inode -> History]
                BY DEF TypeOK
            <4> QED
                BY <3>1, <4>1 DEF History
        <3> QED
            BY <3>2, <3>3 DEF HoldsBuf, Syncing
    <2> HIDE DEF Good
    <2>6. ASSUME NEW q \in Client PROVE Good(q)
        BY <2>1, <2>2, <2>3, <2>4, <2>5, CallsGoOn DEF TakesHold
    <2> QED
        BY <2>6 DEF Callers, Good

\* A flush in progress keeps its batch to itself.
<1>FlushersStep.
    ASSUME TypeOK, Refs, Counted, Owned, Flushers, TypeOK', Refs', Evolves,
           Next, ~Crash
    PROVE  Flushers'
    <2> USE <1>FlushersStep
    <2> DEFINE Good(v) ==
            wk'[v].pc # "idle" =>
            /\ wk'[v].buf <= nbuf'
            /\ buf'[wk'[v].buf].inode = wk'[v].inode
            /\ buf'[wk'[v].buf].flushing = wk'[v].batch
            /\ ~h'[wk'[v].inode].unlinked => buffers'[wk'[v].inode] = wk'[v].buf
            /\ wk'[v].pc = "swapped" => IsFiniteSet(wk'[v].cells)
    <2>1. ASSUME NEW v \in Worker, FlushOn(wk[v], wk'[v]), wk'[v].pc # "idle" PROVE Good(v)
        <3>1. /\ wk[v].pc # "idle" /\ wk'[v].inode = wk[v].inode
              /\ wk'[v].buf = wk[v].buf /\ wk'[v].batch = wk[v].batch
              /\ wk'[v].pc = "swapped" => wk[v].pc = "swapped" /\ wk'[v].cells = wk[v].cells
            BY <2>1 DEF FlushOn
        <3>2. wk[v].inode \in Inode /\ wk[v].buf \in BufId /\ wk[v].batch \in BatchId
            BY <3>1 DEF Refs
        <3>3. /\ wk[v].buf <= nbuf /\ buf[wk[v].buf].inode = wk[v].inode
              /\ buf[wk[v].buf].flushing = wk[v].batch
              /\ ~h[wk[v].inode].unlinked => buffers[wk[v].inode] = wk[v].buf
              /\ wk[v].pc = "swapped" => IsFiniteSet(wk[v].cells)
              /\ \A w \in Worker \ {v} : wk[w].pc # "idle" => wk[w].buf # wk[v].buf
            BY <3>1 DEF Flushers
        <3>4. buf'[wk[v].buf].flushing = wk[v].batch
            <4>1. PICK b \in BufId : b = wk[v].buf
                BY <3>2
            <4>2. buf[b].flushing # nil /\ buf[b].flushing = wk[v].batch
                BY <3>2, <3>3, <4>1, <1>CountersGrow
            <4>3. BufEvolves(b)
                BY DEF Evolves
            <4>4. ~\E w \in Worker : wk[w].pc # "idle" /\ wk[w].buf = b /\ wk'[w].pc = "idle"
                BY <2>1, <3>3, <4>1
            <4>5. buf'[b].flushing = buf[b].flushing
                BY <3>3, <4>1, <4>2, <4>3, <4>4 DEF BufEvolves
            <4> QED
                BY <4>1, <4>2, <4>5
        <3>5. /\ wk[v].buf <= nbuf' /\ buf'[wk[v].buf].inode = wk[v].inode
              /\ ~h'[wk[v].inode].unlinked => buffers'[wk[v].inode] = wk[v].buf
            BY <3>2, <3>3, <1>BufferStays
        <3> QED
            BY <3>1, <3>3, <3>4, <3>5
    <2>2. ASSUME NEW v \in Worker, FlushTake(v), wk'[v] # wk[v]
          PROVE  /\ Good(v)
                 /\ \A w \in Worker \ {v} : /\ wk'[w] = wk[w]
                                            /\ wk[w].pc # "idle" => wk[w].buf # wk'[v].buf
        <3>1. PICK i \in Inode, b \in BufId, x \in BatchId, n \in BatchId :
                    /\ buffers[i] = b /\ buf[b].current = x /\ buf[b].flushing = nil
                    /\ n = nbatch + 1 /\ nbatch' = n
                    /\ buf'[b].inode = buf[b].inode /\ buf'[b].current = n
                    /\ buf'[b].flushing = x
                    /\ buf'[b].poisoned = buf[b].poisoned
                    /\ buf'[b].liveSize = buf[b].liveSize
                    /\ \A a \in BufId \ {b} : SameBuf(a)
                    /\ wk[v].pc = "idle"
                    /\ wk' = [wk EXCEPT ![v] = [IdleWk EXCEPT
                                 !.pc = "swapped", !.inode = i, !.buf = b,
                                 !.batch = x, !.cells = batch[x].cells]]
            BY <2>2, TakeEffect
        <3>2. /\ wk'[v].inode = i /\ wk'[v].buf = b /\ wk'[v].batch = x
              /\ wk'[v].cells = batch[x].cells
              /\ \A w \in Worker \ {v} : wk'[w] = wk[w]
            BY <3>1 DEF TypeOK, IdleWk
        <3>3. b <= nbuf /\ buf[b].inode = i
            <4>1. b # nil
                BY <1>CountersGrow
            <4> QED
                BY <3>1, <4>1 DEF Owned
        <3>4. b <= nbuf' /\ buf'[b].inode = i /\ (~h'[i].unlinked => buffers'[i] = b)
            BY <3>1, <3>3, <1>BufferStays
        <3>5. IsFiniteSet(batch[x].cells)
            BY DEF Counted
        <3>6. ASSUME NEW w \in Worker \ {v}, wk[w].pc # "idle" PROVE wk[w].buf # b
            <4>1. wk[w].batch \in BatchId /\ buf[wk[w].buf].flushing = wk[w].batch
                BY <3>6 DEF Refs, Flushers
            <4>2. wk[w].batch # nil
                BY <4>1, <1>CountersGrow
            <4> QED
                BY <3>1, <4>1, <4>2
        <3> QED
            BY <3>1, <3>2, <3>4, <3>5, <3>6
    <2>3. ASSUME NEW v \in Worker
          PROVE  FlushOn(wk[v], wk'[v]) \/ (FlushTake(v) /\ wk'[v] # wk[v])
        <3>1. wk'[v] = wk[v] => FlushOn(wk[v], wk'[v])
            BY DEF FlushOn
        <3>2. ASSUME Flushes(v), ~FlushTake(v) PROVE FlushOn(wk[v], wk'[v])
            BY <3>2, FlushEffect
        <3> QED
            BY <3>1, <3>2, FlushersWait
    <2>4. ASSUME NEW v \in Worker, NEW w \in Worker \ {v},
                 wk'[v].pc # "idle", wk'[w].pc # "idle"
          PROVE  wk'[v].buf # wk'[w].buf
        <3>1. CASE FlushTake(v) /\ wk'[v] # wk[v]
            BY SMTT(30), <2>2, <2>4, <3>1
        <3>2. CASE FlushTake(w) /\ wk'[w] # wk[w]
            <4>1. v \in Worker \ {w}
                OBVIOUS
            <4> QED
                BY SMTT(30), <2>2, <2>4, <3>2, <4>1
        <3>3. CASE FlushOn(wk[v], wk'[v]) /\ FlushOn(wk[w], wk'[w])
            <4>1. /\ wk[v].pc # "idle" /\ wk'[v].buf = wk[v].buf
                  /\ wk[w].pc # "idle" /\ wk'[w].buf = wk[w].buf
                BY <2>4, <3>3 DEF FlushOn
            <4> QED
                BY <4>1 DEF Flushers
        <3> QED
            BY <2>3, <3>1, <3>2, <3>3
    <2> HIDE DEF Good
    <2>5. \A v \in Worker : wk'[v].pc # "idle" => Good(v)
        BY <2>1, <2>2, <2>3
    <2> QED
        BY <2>4, <2>5 DEF Flushers, Good

<1> QED
    BY <1>CallersStep, <1>FlushersStep

-----------------------------------------------------------------------------
(* Where the bytes are *)

\* Accepted bytes stay where the invariant says they are, and a live buffer
\* covers its own.
LEMMA BytesStay ==
    ASSUME SetLaws
    PROVE  /\ TypeOK /\ Refs /\ Owned /\ Callers /\ Stored /\ TypeOK' /\ Owned' /\ Evolves /\ Next
              /\ ~Crash
              => Stored'
           /\ TypeOK /\ Refs /\ Owned /\ Callers /\ Stored /\ LiveCovers /\ TypeOK' /\ Evolves /\ Next
              /\ ~Crash
              => LiveCovers'

\* What it does to the live sizes.
<1>ShrinkLive.
    ASSUME TypeOK, NEW p \in Client, NEW i \in Inode, NEW size \in 0 .. MaxPos,
           SetattrSize(p, i, size)
    PROVE  UNCHANGED buf \/ (/\ h' = Shrunk(i, size)
                             /\ \E a \in BufId :
                                  /\ buffers[i] = a
                                  /\ \A d \in BufId : d # a => SameBuf(d)
                                  /\ buf'[a].liveSize =
                                        IF buf[a].liveSize > size THEN size
                                        ELSE buf[a].liveSize)
    <2> USE <1>ShrinkLive
    <2>1. CASE UNCHANGED <<buf, batch>>
        BY <2>1
    <2>2. CASE ~UNCHANGED <<buf, batch>>
        <3>1. h' = Shrunk(i, size)
            BY <2>2, ShrinkEffect
        <3>2. PICK a \in BufId :
                 /\ buffers[i] = a
                 /\ \A d \in BufId : d # a => SameBuf(d)
                 /\ buf'[a].liveSize = IF buf[a].liveSize > size THEN size
                                      ELSE buf[a].liveSize
            BY <2>2, ShrinkEffect
        <3> QED
            BY <3>1, <3>2
    <2> QED
        BY <2>1, <2>2

\* Only Write accepts bytes.
<1>NoNewBytes.
    ASSUME TypeOK, Refs, Next, ~Crash, \A p \in Client : ~WriteAppend(p)
    PROVE  /\ \A x \in BatchId : batch'[x].cells \subseteq batch[x].cells
           /\ \A i \in Inode : h'[i].written = h[i].written
    <2> USE <1>NoNewBytes
    <2> DEFINE P == /\ \A x \in BatchId : batch'[x].cells \subseteq batch[x].cells
                    /\ \A i \in Inode : h'[i].written = h[i].written
    <2>h. \A i \in Inode : h[i] \in History
        BY DEF TypeOK
    <2>1. UNCHANGED <<batch, h>> => P
        OBVIOUS
    <2>2. CASE Quiet
        BY <2>2 DEF Quiet
    <2>3. ASSUME NEW p \in Client,
                 WriteAcquire(p) \/ DropForget(p) \/ DeleteInode(p)
          PROVE  P
        BY <2>3, <2>1 DEF WriteAcquire, DropForget, DeleteInode, mem
    <2>4. ASSUME NEW p \in Client, NEW i \in Inode, NEW size \in 0 .. MaxPos,
                 SetattrSize(p, i, size)
          PROVE  P
        <3>1. \A j \in Inode : h'[j].written = h[j].written
            <4>1. h' = h \/ h' = Shrunk(i, size)
                BY <2>4, ShrinkEffect
            <4>2. ASSUME NEW j \in Inode, h' = Shrunk(i, size)
                  PROVE  h'[j].written = h[j].written
                BY <2>h, <4>2 DEF Shrunk, History, TypeOK
            <4> QED
                BY <4>1, <4>2
        <3>2. UNCHANGED batch \/ \E b \in BufId : \A x \in BatchId :
                  /\ x \in Batches(b) => batch'[x].cells = UpTo(batch[x].cells, size)
                  /\ x \notin Batches(b) => SameBatch(x)
            BY SMTT(30), <2>4, ShrinkEffect
        <3>3. \A x \in BatchId : batch'[x].cells \subseteq batch[x].cells
            BY <3>2 DEF UpTo, SameBatch
        <3> QED
            BY <3>1, <3>3
    <2>5. ASSUME NEW p \in Client, SetattrTruncate(p) PROVE P
        <3>1. UNCHANGED batch /\ \A j \in Inode : h'[j].written = h[j].written
            BY <2>5, <2>h DEF SetattrTruncate, mem, TypeOK, History
        <3> QED
            BY <3>1
    <2>6. ASSUME NEW p \in Client, NEW i \in Inode, UnlinkCommit(p, i) PROVE P
        <3>1. UNCHANGED batch /\ \A j \in Inode : h'[j].written = h[j].written
            BY <2>6, <2>h DEF UnlinkCommit, mem, TypeOK, History
        <3> QED
            BY <3>1
    <2>7. ASSUME NEW p \in Client, DropClear(p) PROVE P
        <3>1. UNCHANGED h /\ \A y \in BatchId : batch'[y].cells = batch[y].cells
            BY <2>7, ClearEffect
        <3> QED
            BY <3>1
    <2>8. ASSUME NEW w \in Worker, FlushTake(w) \/ FlushCommit(w) PROVE P
        BY <2>1, <2>8 DEF FlushTake, FlushCommit, mem
    <2>9. ASSUME NEW w \in Worker, FlushSnapshot(w) PROVE P
        <3>1. UNCHANGED batch /\ \A j \in Inode : h'[j].written = h[j].written
            BY SMTT(30), <2>9, <2>h DEF FlushSnapshot, mem, TypeOK, History
        <3> QED
            BY <3>1
    <2>10. ASSUME NEW w \in Worker, FlushSettle(w) PROVE P
        <3>1. PICK x \in BatchId :
                 /\ batch'[x].cells = batch[x].cells
                 /\ \A y \in BatchId \ {x} : SameBatch(y)
                 /\ UNCHANGED h
            BY <2>10, SettleEffect
        <3> QED
            BY <3>1 DEF SameBatch
    <2> HIDE DEF P
    <2>11. ASSUME Busy PROVE P
        <3>1. ASSUME NEW p \in Client,
                     \/ WriteAcquire(p) \/ WriteAppend(p)
                     \/ \E i \in Inode, size \in 0 .. MaxPos : SetattrSize(p, i, size)
                     \/ SetattrTruncate(p)
                     \/ \E i \in Inode : UnlinkCommit(p, i)
                     \/ DropClear(p) \/ DropForget(p) \/ DeleteInode(p)
              PROVE  P
            BY <2>3, <2>4, <2>5, <2>6, <2>7, <3>1
        <3>2. ASSUME NEW w \in Worker, FlushTake(w) \/ FlushSnapshot(w)
                                        \/ FlushCommit(w) \/ FlushSettle(w)
              PROVE  P
            BY <2>8, <2>9, <2>10, <3>2
        <3> QED
            BY <2>11, <3>1, <3>2 DEF Busy
    <2>12. P
        BY <2>2, <2>11, QuietOrBusy DEF P
    <2> QED
        BY <2>12 DEF P

\* An accepted byte in a batch of the inode's buffer stays in one, or becomes
\* durable.
<1>ByteStays.
    ASSUME TypeOK, TypeOK', Owned, Evolves, NEW i \in Inode, NEW b \in BufId,
           b <= nbuf, buf[b].inode = i, ~Exempt(i)', ~buf'[b].poisoned,
           NEW x \in Batches(b), NEW c \in batch[x].cells
    PROVE  c \in Durable(i)' \/ \E y \in Batches(b)' : c \in batch'[y].cells
    <2> USE <1>ByteStays
    <2>1. /\ x \in BatchId /\ x <= nbatch /\ ~batch[x].done
          /\ \A a \in BufId \ {b} : x \notin Batches(a)
        <3>1. x \in BatchId /\ x <= nbatch /\ ~batch[x].done
            BY BatchFacts DEF Owned
        <3>2. \A a \in BufId : a # b => Batches(a) \cap Batches(b) = {}
            BY DEF Owned
        <3> QED
            BY <3>1, <3>2
    <2>2. CellsEvolve(b, i) /\ BufEvolves(b)
        BY DEF Evolves
    <2>3. c \in Durable(i)' \/ (~batch'[x].done /\ c \in batch'[x].cells)
        BY <2>1, <2>2 DEF CellsEvolve
    <2>4. x \in Batches(b)' \/ batch'[x].done
        BY <2>2 DEF BufEvolves
    <2> QED
        BY <2>3, <2>4

\* The last conjunct of Stored, for the bytes accepted before.
<1>AcceptedStays.
    ASSUME TypeOK, TypeOK', Owned, Stored, Evolves, NEW i \in Inode,
           NEW b \in BufId, buffers[i] = b, ~Exempt(i)', ~buf'[b].poisoned,
           NEW c \in h[i].written
    PROVE  c \in Durable(i)' \/ \E y \in Batches(b)' : c \in batch'[y].cells
    <2> USE <1>AcceptedStays
    <2>1. b # nil /\ b <= nbuf /\ buf[b].inode = i
        BY BatchFacts DEF Owned
    <2>2. InodeEvolves(i) /\ BufEvolves(b)
        BY DEF Evolves
    <2>3. ~h[i].unlinked /\ ~h[i].raced /\ ~h'[i].unlinked
        BY <2>2 DEF InodeEvolves, Exempt
    <2>4. ~buf[b].poisoned
        BY <2>1, <2>2 DEF BufEvolves
    <2>5. c \in Durable(i) \/ \E x \in Batches(b) : c \in batch[x].cells
        BY <2>1, <2>3, <2>4 DEF Stored
    <2>6. CASE c \in Durable(i)
        BY <2>2, <2>3, <2>6 DEF InodeEvolves
    <2>7. ASSUME NEW x \in Batches(b), c \in batch[x].cells
          PROVE  c \in Durable(i)' \/ \E y \in Batches(b)' : c \in batch'[y].cells
        BY <2>1, <2>7, <1>ByteStays
    <2> QED
        BY <2>5, <2>6, <2>7

\* An accepted byte stays in a batch of the inode's buffer until it is durable.
<1>StoredStep.
    ASSUME TypeOK, Refs, Owned, Callers, Stored, TypeOK', Owned', Evolves,
           Next, ~Crash
    PROVE  Stored'
    <2> USE <1>StoredStep
    <2> DEFINE Good(i) ==
            /\ buffers'[i] = nil => h'[i].written = {}
            /\ \A b \in BufId : buffers'[i] = b =>
                 /\ \A x \in Batches(b)' : batch'[x].cells \subseteq h'[i].written
                 /\ ~h'[i].raced /\ ~buf'[b].poisoned =>
                      \A c \in h'[i].written : c \in Durable(i)'
                          \/ \E x \in Batches(b)' : c \in batch'[x].cells
    <2>e. ASSUME NEW i \in Inode, ~h'[i].unlinked
          PROVE  /\ ~h[i].unlinked
                 /\ buffers[i] # nil => buffers'[i] = buffers[i]
                 /\ ~h'[i].raced => ~Exempt(i)'
        BY <2>e DEF Evolves, InodeEvolves, Exempt
    <2>1. ASSUME NEW p \in Client, WriteAppend(p), NEW i \in Inode, ~h'[i].unlinked
          PROVE  Good(i)
        <3>1. PICK j \in Inode, b \in BufId, x \in BatchId, P \in SUBSET Pos :
                 /\ proc[p].pc = "append" /\ proc[p].inode = j /\ proc[p].buf = b
                 /\ x = IF buf[b].current = nil THEN nbatch + 1 ELSE buf[b].current
                 /\ ~buf[b].poisoned
                 /\ nbatch' = Larger(nbatch, x)
                 /\ batch'[x].cells = batch[x].cells \cup NewCells(P)
                 /\ batch'[x].bytes = batch[x].bytes + Cardinality(P)
                 /\ batch'[x].done = batch[x].done
                 /\ \A y \in BatchId \ {x} : SameBatch(y)
                 /\ buf'[b].inode = buf[b].inode /\ buf'[b].current = x
                 /\ buf'[b].flushing = buf[b].flushing
                 /\ buf'[b].poisoned = buf[b].poisoned
                 /\ buf'[b].liveSize = Larger(buf[b].liveSize, MaxEnd(NewCells(P)))
                 /\ \A a \in BufId \ {b} : SameBuf(a)
                 /\ h' = [h EXCEPT ![j] = [h[j] EXCEPT !.written = @ \cup NewCells(P)]]
                 /\ UNCHANGED <<buffers, nbuf, wk, disk>>
            BY <2>1, AppendEffect
        <3>2. h'[i].written = IF i = j THEN h[i].written \cup NewCells(P) ELSE h[i].written
            <4>1. h[i] \in History /\ h \in [Inode -> History]
                BY DEF TypeOK
            <4> QED
                BY <3>1, <4>1 DEF History
        <3>3. /\ buf[b].inode = j
              /\ ~h[j].unlinked => buffers[j] = b
            BY <3>1 DEF Callers, HoldsBuf
        <3>4. ~h[i].unlinked
            BY <2>1, <2>e
        <3>5. x # nil /\ b # nil /\ nbatch \in Nat
            BY BatchFacts
        <3>6. CASE i # j
            <4>1. CASE buffers[i] = nil
                <5>1. buffers'[i] = nil /\ h'[i].written = {}
                    BY <3>1, <3>2, <3>4, <3>6, <4>1 DEF Stored
                <5>2. \A a \in BufId : buffers'[i] # a
                    BY <5>1, BatchFacts
                <5> QED
                    BY <5>1, <5>2
            <4>2. CASE buffers[i] # nil
                <5>0. PICK a \in BufId : buffers[i] = a
                    BY <4>2 DEF TypeOK
                <5>1. a \in BufId /\ buf[a].inode = i /\ a # b
                    BY <3>3, <3>6, <4>2, <5>0 DEF Owned
                <5>2. Batches(a)' = Batches(a)
                    BY <3>1, <5>1 DEF SameBuf, Batches
                <5>3. \A y \in Batches(a) : y \in BatchId /\ y # x
                    <6>1. \A y \in Batches(a) : y \in BatchId
                        BY <5>1, BatchFacts
                    <6>2. x \notin Batches(a)
                        <7>1. CASE buf[b].current = nil
                            <8>1. x = nbatch + 1
                                BY <3>1, <7>1
                            <8>2. ~(x <= nbatch)
                                BY SMTT(30), <3>5, <8>1
                            <8> QED
                                BY <5>1, <8>2 DEF Owned
                        <7>2. CASE buf[b].current # nil
                            BY SMTT(30), <3>1, <5>1, <7>2, BatchFacts
                        <7> QED
                            BY <7>1, <7>2
                    <6> QED
                        BY <6>1, <6>2
                <5>4. \A y \in Batches(a) : batch'[y].cells \subseteq h'[i].written
                    <6>1. \A y \in Batches(a) : batch'[y].cells = batch[y].cells
                        BY <3>1, <5>3 DEF SameBatch
                    <6>2. \A y \in Batches(a) : batch[y].cells \subseteq h[i].written
                        BY <3>4, <4>2, <5>0 DEF Stored
                    <6>3. h[i].written \subseteq h'[i].written
                        BY <3>2, <3>6
                    <6> QED
                        BY <6>1, <6>2, <6>3
                <5>5. buffers'[i] = a
                    BY <3>1, <5>0
                <5>6. ASSUME ~h'[i].raced, ~buf'[a].poisoned, NEW c \in h'[i].written
                      PROVE  c \in Durable(i)' \/ \E y \in Batches(a)' : c \in batch'[y].cells
                    BY <2>1, <2>e, <3>2, <3>6, <5>0, <5>6, <1>AcceptedStays
                <5>7. buffers'[i] # nil
                    BY <5>5, BatchFacts
                <5> QED
                    BY <5>2, <5>4, <5>5, <5>6, <5>7
            <4> QED
                BY <4>1, <4>2
        <3>7. CASE i = j
            <4>1. buffers[i] = b /\ buffers'[i] = b
                BY <3>1, <3>3, <3>4, <3>7
            <4>2. x \in Batches(b)' /\ \A y \in Batches(b)' : y = x \/ y \in Batches(b)
                BY <3>1, <3>5 DEF Batches
            <4>3. batch[x].cells \subseteq h[i].written
                <5>1. CASE buf[b].current = nil
                    <6>1. batch[x] = newBufBatch
                        <7>1. x = nbatch + 1 /\ x \in BatchId
                            BY <3>1, <5>1
                        <7>2. x > nbatch
                            BY SMTT(30), <3>5, <7>1
                        <7> QED
                            BY <7>1, <7>2 DEF Owned
                    <6> QED
                        BY SMTT(30), <6>1 DEF newBufBatch
                <5>2. CASE buf[b].current # nil
                    <6>1. x \in Batches(b)
                        BY SMTT(30), <3>1, <5>2, BatchFacts
                    <6> QED
                        BY <3>4, <3>5, <4>1, <6>1 DEF Stored
                <5> QED
                    BY <5>1, <5>2
            <4>4. \A y \in Batches(b)' : batch'[y].cells \subseteq h'[i].written
                <5>1. batch'[x].cells \subseteq h'[i].written
                    BY SMTT(30), <3>1, <3>2, <3>7, <4>3
                <5>2. ASSUME NEW y \in Batches(b), y # x
                      PROVE  batch'[y].cells \subseteq h'[i].written
                    <6>1. y \in BatchId /\ batch[y].cells \subseteq h[i].written
                        BY <3>4, <3>5, <4>1, <5>2, BatchFacts DEF Stored
                    <6>2. batch'[y] = batch[y]
                        BY <3>1, <5>2, <6>1 DEF SameBatch
                    <6> QED
                        BY <3>2, <6>1, <6>2
                <5> QED
                    BY <4>2, <5>1, <5>2
            <4>5. ASSUME ~h'[i].raced, ~buf'[b].poisoned, NEW c \in h'[i].written
                  PROVE  c \in Durable(i)' \/ \E y \in Batches(b)' : c \in batch'[y].cells
                <5>1. CASE c \in h[i].written
                    BY <2>1, <2>e, <3>5, <4>1, <4>5, <5>1, <1>AcceptedStays
                <5>2. CASE c \in NewCells(P)
                    BY <3>1, <4>2, <5>2
                <5> QED
                    BY <3>2, <4>5, <5>1, <5>2
            <4> QED
                BY <3>5, <4>1, <4>4, <4>5
        <3> QED
            BY <3>6, <3>7
    <2>2. ASSUME \A p \in Client : ~WriteAppend(p), NEW i \in Inode, ~h'[i].unlinked
          PROVE  Good(i)
        <3>1. /\ \A x \in BatchId : batch'[x].cells \subseteq batch[x].cells
              /\ h'[i].written = h[i].written
            BY <2>2, <1>NoNewBytes
        <3>2. ~h[i].unlinked
            BY <2>2, <2>e
        <3>3. CASE buffers[i] = nil
            <4>1. h'[i].written = {}
                BY <3>1, <3>2, <3>3 DEF Stored
            <4>2. ASSUME NEW b \in BufId, buffers'[i] = b PROVE Batches(b)' = {}
                <5>1. \/ \E p \in Client : WriteAcquire(p)
                      \/ \A j \in Inode : buffers'[j] # nil => buffers'[j] = buffers[j]
                    <6>1. CASE Quiet
                        BY <6>1 DEF Quiet
                    <6>2. CASE Busy
                        <7>1. ASSUME NEW p \in Client, DropForget(p)
                              PROVE \A j \in Inode : buffers'[j] # nil => buffers'[j] = buffers[j]
                            BY <7>1 DEF DropForget, TypeOK
                        <7> QED
                            BY <2>2, <6>2, <7>1 DEF Busy, SetattrSize, SetattrTruncate,
                               UnlinkCommit, DropClear, DeleteInode, FlushTake, FlushSnapshot,
                               FlushCommit, FlushSettle, mem
                    <6> QED
                        BY <6>1, <6>2, QuietOrBusy
                <5>2. ASSUME NEW p \in Client, WriteAcquire(p) PROVE Batches(b)' = {}
                    <6>1. PICK j \in Inode, a \in BufId :
                             /\ buffers'[j] = a
                             /\ \A k \in Inode \ {j} : buffers'[k] = buffers[k]
                             /\ \/ buffers[j] = a /\ UNCHANGED buf
                                \/ /\ buffers[j] = nil /\ a = nbuf + 1
                                   /\ buf'[a] = NewBuf(j)
                                   /\ \A d \in BufId \ {a} : SameBuf(d)
                        BY <5>2, AcquireEffect
                    <6>2. a = b /\ buf'[b] = NewBuf(j)
                        BY <3>3, <4>2, <6>1, BatchFacts
                    <6> QED
                        BY SMTT(30), <6>2 DEF Batches, NewBuf
                <5>3. b # nil
                    BY BatchFacts
                <5> QED
                    BY <3>3, <4>2, <5>1, <5>2, <5>3
            <4> QED
                BY <4>1, <4>2
        <3>4. CASE buffers[i] # nil
            <4>0. PICK b \in BufId : buffers[i] = b
                BY <3>4 DEF TypeOK
            <4>1. buffers'[i] = b
                BY <2>2, <2>e, <3>4, <4>0
            <4>2. ASSUME NEW x \in Batches(b)' PROVE batch'[x].cells \subseteq h'[i].written
                <5>1. x \in BatchId
                    <6>1. buf'[b] \in inodeBuf
                        BY <4>1 DEF TypeOK
                    <6> QED
                        BY <4>2, <6>1 DEF Batches, inodeBuf
                <5>2. CASE x \in Batches(b)
                    <6>1. batch[x].cells \subseteq h[i].written
                        BY <3>2, <3>4, <4>0, <5>2 DEF Stored
                    <6> QED
                        BY <3>1, <5>1, <6>1
                <5>3. CASE x > nbatch
                    <6>1. batch[x] = newBufBatch
                        BY <5>1, <5>3 DEF Owned
                    <6>2. batch[x].cells = {}
                        BY SMTT(30), <6>1 DEF newBufBatch
                    <6> QED
                        BY <3>1, <5>1, <6>2
                <5> QED
                    BY <4>1, <5>2, <5>3 DEF Evolves, BufEvolves
            <4>3. ASSUME ~h'[i].raced, ~buf'[b].poisoned, NEW c \in h'[i].written
                  PROVE  c \in Durable(i)' \/ \E y \in Batches(b)' : c \in batch'[y].cells
                BY <2>2, <2>e, <3>1, <4>0, <4>3, <1>AcceptedStays
            <4> QED
                BY <4>1, <4>2, <4>3, BatchFacts
        <3> QED
            BY <3>3, <3>4
    <2> HIDE DEF Good
    <2>3. \A i \in Inode : ~h'[i].unlinked => Good(i)
        BY <2>1, <2>2
    <2>4. \A i \in Inode : buffers'[i] # nil => buffers'[i] \in BufId
        BY DEF TypeOK
    <2> QED
        BY <2>3, <2>4 DEF Stored, Good, Batches

\* The live size of a buffer is only lowered by a shrink, and by Drop.
<1>LiveChanges.
    ASSUME TypeOK, Refs, Next, ~Crash, NEW b \in BufId, b <= nbuf
    PROVE  \/ buf'[b].liveSize = buf[b].liveSize
           \/ \E p \in Client : WriteAppend(p)
           \/ \E p \in Client : DropClear(p) /\ proc[p].buf = b
           \/ \E p \in Client, i \in Inode, size \in 0 .. MaxPos :
                 /\ SetattrSize(p, i, size) /\ buffers[i] = b
                 /\ h' = Shrunk(i, size)
                 /\ buf'[b].liveSize = IF buf[b].liveSize > size THEN size
                                       ELSE buf[b].liveSize
    <2> USE <1>LiveChanges
    <2> DEFINE Same == buf'[b].liveSize = buf[b].liveSize
    <2>1. UNCHANGED buf => Same
        OBVIOUS
    <2>2. CASE Quiet
        BY <2>2 DEF Quiet
    <2>3. ASSUME NEW p \in Client, WriteAcquire(p) PROVE Same
        <3>1. nbuf \in Nat
            BY SMTT(30) DEF TypeOK
        <3>2. UNCHANGED buf \/ SameBuf(b)
            <4>1. PICK i \in Inode, a \in BufId :
                     \/ buffers[i] = a /\ UNCHANGED buf
                     \/ /\ buffers[i] = nil /\ a = nbuf + 1
                        /\ buf'[a] = NewBuf(i)
                        /\ \A d \in BufId \ {a} : SameBuf(d)
                BY <2>3, AcquireEffect
            <4>2. b # nbuf + 1
                BY SMTT(30), <3>1 DEF BufId
            <4> QED
                BY <4>1, <4>2
        <3> QED
            BY <3>2 DEF SameBuf
    <2>4. ASSUME NEW p \in Client, DropClear(p), proc[p].buf # b PROVE Same
        <3>1. PICK a \in BufId : proc[p].buf = a /\ \A d \in BufId \ {a} : SameBuf(d)
            BY <2>4, ClearEffect
        <3> QED
            BY <2>4, <3>1 DEF SameBuf
    <2>5. ASSUME NEW w \in Worker, FlushTake(w) PROVE Same
        <3>1. UNCHANGED buf \/ \E a \in BufId : /\ buf'[a].liveSize = buf[a].liveSize
                                                /\ \A d \in BufId \ {a} : SameBuf(d)
            BY <2>5, TakeEffect
        <3> QED
            BY <3>1 DEF SameBuf
    <2>6. ASSUME NEW w \in Worker, FlushSettle(w) PROVE Same
        <3>1. PICK a \in BufId : /\ buf'[a].liveSize = buf[a].liveSize
                                 /\ \A d \in BufId \ {a} : SameBuf(d)
            BY <2>6, SettleEffect
        <3> QED
            BY <3>1 DEF SameBuf
    <2>7. ASSUME NEW p \in Client, NEW i \in Inode, NEW size \in 0 .. MaxPos,
                 SetattrSize(p, i, size)
          PROVE  Same \/ (/\ buffers[i] = b /\ h' = Shrunk(i, size)
                          /\ buf'[b].liveSize = IF buf[b].liveSize > size THEN size
                                                ELSE buf[b].liveSize)
        <3>1. CASE UNCHANGED buf
            BY <3>1
        <3>2. CASE buf' # buf
            <4>1. h' = Shrunk(i, size)
                BY <2>7, <3>2, <1>ShrinkLive
            <4>2. PICK a \in BufId : /\ buffers[i] = a
                                     /\ \A d \in BufId : d # a => SameBuf(d)
                                     /\ buf'[a].liveSize =
                                           IF buf[a].liveSize > size THEN size
                                           ELSE buf[a].liveSize
                BY <2>7, <3>2, <1>ShrinkLive
            <4> QED
                BY <4>1, <4>2 DEF SameBuf
        <3> QED
            BY <3>1, <3>2
    <2>8. ASSUME \/ \E w \in Worker : FlushSnapshot(w) \/ FlushCommit(w)
                 \/ \E p \in Client : \/ SetattrTruncate(p) \/ DeleteInode(p)
                                      \/ DropForget(p)
                                      \/ \E i \in Inode : UnlinkCommit(p, i)
          PROVE  Same
        BY <2>1, <2>8 DEF FlushSnapshot, FlushCommit, SetattrTruncate,
           DeleteInode, DropForget, UnlinkCommit, mem
    <2>9. CASE Busy
        <3> HIDE DEF Same
        <3>1. ASSUME NEW p \in Client,
                     \/ WriteAcquire(p) \/ WriteAppend(p)
                     \/ \E i \in Inode, size \in 0 .. MaxPos : SetattrSize(p, i, size)
                     \/ SetattrTruncate(p)
                     \/ \E i \in Inode : UnlinkCommit(p, i)
                     \/ DropClear(p) \/ DropForget(p) \/ DeleteInode(p)
              PROVE  \/ Same \/ WriteAppend(p) \/ (DropClear(p) /\ proc[p].buf = b)
                     \/ \E i \in Inode, size \in 0 .. MaxPos :
                          /\ SetattrSize(p, i, size) /\ buffers[i] = b
                          /\ h' = Shrunk(i, size)
                          /\ buf'[b].liveSize = IF buf[b].liveSize > size THEN size
                                                ELSE buf[b].liveSize
            BY <2>3, <2>4, <2>7, <2>8, <3>1
        <3>2. ASSUME NEW w \in Worker, FlushTake(w) \/ FlushSnapshot(w)
                                        \/ FlushCommit(w) \/ FlushSettle(w)
              PROVE  Same
            BY <2>5, <2>6, <2>8, <3>2
        <3> QED
            BY <2>9, <3>1, <3>2 DEF Busy, Same
    <2> QED
        BY <2>2, <2>9, QuietOrBusy

\* Write raises the live size past its bytes, and a shrink lowers it to a
\* size that cuts off every byte it no longer covers.
<1>LiveCoversStep.
    ASSUME TypeOK, Refs, Owned, Callers, Stored, LiveCovers, TypeOK', Evolves,
           Next, ~Crash
    PROVE  LiveCovers'
    <2> USE <1>LiveCoversStep
    <2> SUFFICES ASSUME NEW i \in Inode, NEW b \in BufId, ~h'[i].unlinked,
                        buffers'[i] = b, NEW c \in h'[i].written, c \notin h'[i].gone
                 PROVE  c[2] < buf'[b].liveSize
        <3>1. ASSUME NEW i \in Inode, buffers'[i] # nil
              PROVE  \E b \in BufId : buffers'[i] = b
            BY <3>1 DEF TypeOK
        <3> QED
            BY <3>1 DEF LiveCovers
    <2>1. InodeEvolves(i)
        BY DEF Evolves
    <2>2. ~h[i].unlinked /\ c \notin h[i].gone /\ (buffers[i] # nil => buffers[i] = b)
        BY <2>1 DEF InodeEvolves
    <2>3. c \in h[i].written =>
            /\ buffers[i] = b /\ b <= nbuf /\ buf[b].inode = i
            /\ c[2] < buf[b].liveSize
        BY <2>2 DEF Stored, LiveCovers, Owned
    <2>4. h[i].written \in SUBSET Cell /\ c \in Cell /\ c[2] \in Int
        <3>1. h[i] \in History /\ h'[i] \in History
            BY DEF TypeOK
        <3>2. c \in Cell /\ h[i].written \in SUBSET Cell
            BY <3>1 DEF History
        <3> QED
            BY SMTT(30), <3>2 DEF Cell, Pos
    <2>5. buf[b].liveSize \in Nat
        <3>1. buf[b] \in inodeBuf
            BY DEF TypeOK
        <3> QED
            BY <3>1 DEF inodeBuf
    <2>6. ASSUME NEW p \in Client, WriteAppend(p)
          PROVE  c[2] < buf'[b].liveSize
        <3>1. PICK j \in Inode, a \in BufId, x \in BatchId, P \in SUBSET Pos :
                 /\ proc[p].pc = "append" /\ proc[p].inode = j /\ proc[p].buf = a
                 /\ x = IF buf[a].current = nil THEN nbatch + 1 ELSE buf[a].current
                 /\ ~buf[a].poisoned
                 /\ nbatch' = Larger(nbatch, x)
                 /\ batch'[x].cells = batch[x].cells \cup NewCells(P)
                 /\ batch'[x].bytes = batch[x].bytes + Cardinality(P)
                 /\ batch'[x].done = batch[x].done
                 /\ \A y \in BatchId \ {x} : SameBatch(y)
                 /\ buf'[a].inode = buf[a].inode /\ buf'[a].current = x
                 /\ buf'[a].flushing = buf[a].flushing
                 /\ buf'[a].poisoned = buf[a].poisoned
                 /\ buf'[a].liveSize = Larger(buf[a].liveSize, MaxEnd(NewCells(P)))
                 /\ \A d \in BufId \ {a} : SameBuf(d)
                 /\ h' = [h EXCEPT ![j] = [h[j] EXCEPT !.written = @ \cup NewCells(P)]]
                 /\ UNCHANGED <<buffers, nbuf, wk, disk>>
            BY <2>6, AppendEffect
        <3>2. h'[i].written = IF i = j THEN h[i].written \cup NewCells(P) ELSE h[i].written
            <4>1. h[i] \in History /\ h \in [Inode -> History]
                BY DEF TypeOK
            <4> QED
                BY <3>1, <4>1 DEF History
        <3>3. buf[a].inode = j /\ (~h[j].unlinked => buffers[j] = a)
            BY <3>1 DEF Callers, HoldsBuf
        <3>4. MaxEnd(NewCells(P)) \in Nat /\ \A d \in NewCells(P) : d[2] < MaxEnd(NewCells(P))
            <4>1. seq \in Nat
                BY DEF TypeOK
            <4>2. NewCells(P) \in SUBSET Cell
                BY <4>1, NewCellsCounted
            <4> QED
                BY <4>2, MaxEndCovers
        <3>5. CASE b = a
            <4>1. c \in h[i].written \/ c \in NewCells(P)
                BY <3>2
            <4>2. c[2] < buf[b].liveSize \/ c[2] < MaxEnd(NewCells(P))
                BY <2>3, <3>4, <4>1
            <4>3. buf'[b].liveSize = Larger(buf[b].liveSize, MaxEnd(NewCells(P)))
                BY <3>1, <3>5
            <4> QED
                BY SMTT(30), <2>4, <2>5, <3>4, <4>2, <4>3 DEF Larger
        <3>6. CASE b # a
            <4>1. i # j
                BY <2>2, <3>1, <3>3, <3>6
            <4>2. c \in h[i].written
                BY <3>2, <4>1
            <4>3. buf'[b] = buf[b]
                BY <3>1, <3>6 DEF SameBuf
            <4> QED
                BY <2>3, <4>2, <4>3
        <3> QED
            BY <3>5, <3>6
    <2>7. ASSUME \A p \in Client : ~WriteAppend(p)
          PROVE  c[2] < buf'[b].liveSize
        <3>1. c \in h[i].written
            BY <2>7, <1>NoNewBytes
        <3>2. /\ buffers[i] = b /\ b <= nbuf /\ buf[b].inode = i
              /\ c[2] < buf[b].liveSize
            BY <2>3, <3>1
        <3>3. CASE buf'[b].liveSize = buf[b].liveSize
            BY <3>2, <3>3
        <3>4. ASSUME NEW p \in Client, DropClear(p), proc[p].buf = b PROVE FALSE
            <4>1. proc[p].pc = "clear"
                BY <3>4 DEF DropClear
            <4>2. h[proc[p].inode].unlinked /\ buf[proc[p].buf].inode = proc[p].inode
                BY <4>1 DEF Callers, Unlinking, HoldsBuf
            <4> QED
                BY <2>2, <3>2, <3>4, <4>2
        <3>5. ASSUME NEW p \in Client, NEW j \in Inode, NEW size \in 0 .. MaxPos,
                     buffers[j] = b, h' = Shrunk(j, size),
                     buf'[b].liveSize = IF buf[b].liveSize > size THEN size
                                        ELSE buf[b].liveSize
              PROVE  c[2] < buf'[b].liveSize
            <4>1. j = i
                <5>1. b # nil
                    BY BatchFacts
                <5> QED
                    BY <3>2, <3>5, <5>1 DEF Owned
            <4>2. h'[i].gone = h[i].gone \cup Cut(i, size)
                <5>1. h[i] \in History /\ h \in [Inode -> History]
                    BY DEF TypeOK
                <5> QED
                    BY <3>5, <4>1, <5>1 DEF Shrunk, History
            <4>3. c \notin Cut(i, size)
                BY <4>2
            <4>4. ~(c[2] >= size)
                BY <3>1, <4>3 DEF Cut, PastSize
            <4>5. size \in Int
                BY SMTT(30)
            <4> QED
                BY SMTT(30), <2>4, <2>5, <3>2, <3>5, <4>4, <4>5
        <3> QED
            BY SMTT(30), <2>7, <3>2, <3>3, <3>4, <3>5, <1>LiveChanges
    <2> QED
        BY <2>6, <2>7

<1> QED
    BY <1>StoredStep, <1>LiveCoversStep

-----------------------------------------------------------------------------
(* What callers were told stays true *)

\* What a step that does not open, stop or close the coalescer makes of where
\* a call is.
Turn(o, n) ==
    \/ n \in {o, "idle"}
    \/ /\ n # "join" /\ (n = "close" => life # "open")
       /\ life = "open" \/ o \notin {"idle", "join"}

\* What a flush carries and what a caller waits for stay covered, and what Fsync
\* vouched for stays durable.
LEMMA ToldStaysTrue ==
    ASSUME SetLaws
    PROVE  /\ TypeOK /\ Refs /\ Owned /\ Flushers /\ FlushCovers /\ TypeOK' /\ Refs' /\ Evolves
              /\ Next /\ ~Crash
              => FlushCovers'
           /\ TypeOK /\ Refs /\ Counted /\ Owned /\ Callers /\ Stored /\ WaitCovers /\ TypeOK'
              /\ Refs' /\ Evolves /\ Next /\ ~Crash
              => WaitCovers'
           /\ TypeOK /\ Refs /\ Stored /\ WaitCovers /\ FsyncDurable /\ Evolves /\ Next /\ ~Crash
              => FsyncDurable'
           /\ TypeOK /\ Refs /\ Owned /\ Flushers /\ Stored /\ FlushWithin /\ TypeOK' /\ Refs'
              /\ Evolves /\ Next /\ ~Crash
              => FlushWithin'
           /\ TypeOK /\ Closing /\ Next /\ ~Crash => Closing'
           /\ TypeOK /\ Refs /\ Owned /\ Flushers /\ Closing /\ NoPanic /\ Next /\ ~Crash
              => NoPanic'

\* A copy that no truncate overlaps is the batch.
<1>SnapshotExact.
    ASSUME NEW C \in SUBSET Cell, IsFiniteSet(C)
    PROVE  Snapshots(C, C) = {C}
    <2> USE <1>SnapshotExact
    <2> DEFINE Q == {c[1] : c \in C}
               R(c) == Cardinality({s \in Q : s <= c[1]})
               f == [c \in C |-> c[1]]
    <2>1. IsFiniteSet(Q) /\ Cardinality(Q) \in Nat
        <3>1. f \in [C -> Q] /\ \A q \in Q : \E c \in C : f[c] = q
            OBVIOUS
        <3> QED
            BY <3>1 DEF SetLaws, SurjectionLaw, SizeLaw
    <2>2. ASSUME NEW c \in C PROVE R(c) \in Nat
        <3>1. {s \in Q : s <= c[1]} \in SUBSET Q
            OBVIOUS
        <3> QED
            BY <2>1, <3>1 DEF SetLaws, SubsetLaw, SizeLaw
    <2> DEFINE Copy(k) == {c \in C : R(c) <= k} \cup {c \in C : R(c) > k}
                            \cup {c \in C : R(c) > Larger(k, Cardinality(Q))}
    <2>3. Snapshots(C, C) = {C} \cup {Copy(k) : k \in 0 .. Cardinality(Q)}
        BY DEF Snapshots
    <2> HIDE DEF R, Q
    <2>4. ASSUME NEW k \in 0 .. Cardinality(Q) PROVE Copy(k) = C
        BY SMTT(30), <2>1, <2>2
    <2> HIDE DEF Copy
    <2> QED
        BY <2>3, <2>4

\* What a flush carries covers its batch until the batch is settled.
<1>FlushCoversStep.
    ASSUME TypeOK, Refs, Owned, Flushers, FlushCovers, TypeOK', Refs', Evolves,
           Next, ~Crash
    PROVE  FlushCovers'
    <2> USE <1>FlushCoversStep
    <2> SUFFICES ASSUME NEW v \in Worker, wk'[v].pc # "idle", NEW i \in Inode,
                        wk'[v].inode = i, ~Exempt(i)'
                 PROVE  IF wk'[v].pc = "settle"
                        THEN \/ wk'[v].err
                             \/ batch'[wk'[v].batch].cells \subseteq Durable(i)'
                        ELSE batch'[wk'[v].batch].cells \subseteq wk'[v].cells
        BY DEF FlushCovers, Refs, Exempt, Durable
    <2>1. CASE FlushTake(v) /\ wk'[v] # wk[v]
        <3>1. PICK j \in Inode, b \in BufId, x \in BatchId, n \in BatchId :
                    /\ buffers[j] = b /\ buf[b].current = x /\ buf[b].flushing = nil
                    /\ n = nbatch + 1 /\ nbatch' = n
                    /\ buf'[b].inode = buf[b].inode /\ buf'[b].current = n
                    /\ buf'[b].flushing = x
                    /\ buf'[b].poisoned = buf[b].poisoned
                    /\ buf'[b].liveSize = buf[b].liveSize
                    /\ \A a \in BufId \ {b} : SameBuf(a)
                    /\ wk[v].pc = "idle"
                    /\ wk' = [wk EXCEPT ![v] = [IdleWk EXCEPT
                                 !.pc = "swapped", !.inode = j, !.buf = b,
                                 !.batch = x, !.cells = batch[x].cells]]
            BY <2>1, TakeEffect
        <3>2. /\ wk'[v].pc = "swapped" /\ wk'[v].batch = x
              /\ wk'[v].cells = batch[x].cells
            BY <3>1 DEF TypeOK, IdleWk
        <3>3. UNCHANGED batch
            BY <2>1 DEF FlushTake
        <3> QED
            BY <3>2, <3>3
    <2>2. CASE ~(FlushTake(v) /\ wk'[v] # wk[v])
        <3>1. wk'[v] = wk[v] \/ (Flushes(v) /\ ~FlushTake(v))
            BY <2>2, FlushersWait DEF Flushes, FlushTake, FlushSnapshot, FlushAppend,
               FlushFail, FlushHook, FlushCommit, FlushSettle
        <3>2. FlushOn(wk[v], wk'[v])
            BY <3>1, FlushEffect DEF FlushOn
        <3>3. wk[v].pc # "idle" /\ wk[v].inode = i
            BY <3>2 DEF FlushOn
        <3>4. PICK b \in BufId, x \in BatchId :
                 wk[v].buf = b /\ wk[v].batch = x /\ wk'[v].batch = x
            BY <3>2, <3>3 DEF Refs, FlushOn
        <3>5. /\ b <= nbuf /\ buf[b].flushing = x
              /\ wk[v].pc = "swapped" => IsFiniteSet(wk[v].cells)
            BY <3>3, <3>4 DEF Flushers
        <3>6. InodeEvolves(i) /\ BufEvolves(b)
            BY DEF Evolves
        <3>7. ~Exempt(i) /\ ~h'[i].unlinked /\ ~h'[i].raced
            BY <3>6 DEF Exempt, InodeEvolves
        <3>8. Durable(i) \subseteq Durable(i)'
            BY <3>6, <3>7 DEF InodeEvolves
        <3>9. IF wk[v].pc = "settle"
              THEN wk[v].err \/ batch[x].cells \subseteq Durable(i)
              ELSE batch[x].cells \subseteq wk[v].cells
            BY <3>3, <3>4, <3>7 DEF FlushCovers
        <3>10. batch'[x].cells \subseteq batch[x].cells
            <4>1. buf[b].flushing # nil
                BY <3>4, <3>5, BatchFacts
            <4> QED
                BY <3>5, <3>6, <4>1 DEF BufEvolves
        <3>11. CASE wk'[v] = wk[v]
            BY <3>4, <3>8, <3>9, <3>10, <3>11
        <3>12. CASE FlushSnapshot(v)
            <4> DEFINE old == wk[v].cells
                       now == batch[x].cells
            <4>1. /\ wk[v].pc = "swapped" /\ UNCHANGED batch
                  /\ h' = [h EXCEPT ![i].raced = @ \/ old # now]
                BY <3>3, <3>4, <3>12 DEF FlushSnapshot, mem
            <4>2. PICK ae \in Snapshots(old, now), end \in {MaxEnd(old), MaxEnd(now)} :
                     wk' = [wk EXCEPT ![v].pc = "snapped", ![v].cells = ae, ![v].end = end]
                BY <3>4, <3>12 DEF FlushSnapshot
            <4>3. old = now
                <5>1. h[i] \in History /\ h \in [Inode -> History]
                    BY DEF TypeOK
                <5> HIDE DEF old, now
                <5> QED
                    BY <3>7, <4>1, <5>1 DEF History
            <4>4. old \in SUBSET Cell /\ IsFiniteSet(old)
                <5>1. wk[v] \in Wk
                    BY DEF TypeOK
                <5> QED
                    BY <3>5, <4>1, <5>1 DEF Wk
            <4>5. ae = now
                <5> HIDE DEF old, now
                <5> QED
                    BY <4>2, <4>3, <4>4, <1>SnapshotExact
            <4>6. wk'[v].pc = "snapped" /\ wk'[v].cells = ae
                <5>1. wk[v] \in Wk /\ wk \in [Worker -> Wk]
                    BY DEF TypeOK
                <5> QED
                    BY <4>2, <5>1 DEF Wk
            <4> QED
                BY <3>4, <4>1, <4>5, <4>6
        <3>13. CASE FlushCommit(v)
            <4>1. /\ wk[v].pc = "hooked" /\ UNCHANGED <<batch, h>>
                  /\ disk' = [disk EXCEPT ![i] = @ \cup wk[v].cells]
                  /\ wk' = [wk EXCEPT ![v].pc = "settle"]
                BY <3>3, <3>13 DEF FlushCommit, mem
            <4>2. wk'[v].pc = "settle"
                <5>1. wk[v] \in Wk /\ wk \in [Worker -> Wk]
                    BY DEF TypeOK
                <5> QED
                    BY <4>1, <5>1 DEF Wk
            <4>3. wk[v].cells \subseteq Durable(i)'
                BY <4>1 DEF Durable, TypeOK
            <4> QED
                BY <3>4, <3>9, <4>1, <4>2, <4>3
        <3>14. CASE wk'[v].pc = "settle" /\ wk'[v].err
            BY <3>14
        <3>15. CASE /\ wk[v].pc # "settle" /\ wk'[v].pc # "settle"
                    /\ wk'[v].cells = wk[v].cells
            BY <3>4, <3>9, <3>10, <3>15
        <3> QED
            BY <3>1, <3>11, <3>12, <3>13, <3>14, <3>15, FlushEffect
    <2> QED
        BY <2>1, <2>2

\* A batch Fsync does not wait for is empty.
<1>WaitsCover.
    ASSUME TypeOK, Counted, Owned, NEW b \in BufId, NEW x \in Batches(b),
           NEW c \in batch[x].cells
    PROVE  x \in Waits(b) /\ ~batch[x].done
    <2> USE <1>WaitsCover
    <2>1. x \in BatchId /\ x # nil /\ ~batch[x].done
        BY BatchFacts DEF Owned
    <2>2. CASE x = buf[b].flushing
        BY <2>1, <2>2 DEF Waits
    <2>3. CASE x = buf[b].current
        <3>1. /\ IsFiniteSet(batch[x].cells)
              /\ batch[x].bytes >= Cardinality(batch[x].cells)
            BY <2>1, <2>3 DEF Counted
        <3>2. batch[x].bytes \in Int
            <4>1. batch[x] \in bufBatch
                BY <2>1 DEF TypeOK
            <4> QED
                BY <4>1 DEF bufBatch
        <3>3. Cardinality(batch[x].cells) \in Nat /\ Cardinality(batch[x].cells) # 0
            BY <3>1 DEF SetLaws, SizeLaw, EmptyLaw
        <3>4. batch[x].bytes > 0
            BY SMTT(30), <3>1, <3>2, <3>3
        <3>5. NeedTrigger(b)
            BY <2>1, <2>3, <3>4 DEF NeedTrigger
        <3> QED
            BY <2>1, <2>3, <3>5 DEF Waits
    <2> QED
        BY <2>2, <2>3 DEF Batches

\* The batches an Fsync waits for hold what it will vouch for until they are
\* settled.
<1>WaitCoversStep.
    ASSUME TypeOK, Refs, Counted, Owned, Callers, Stored, WaitCovers, TypeOK',
           Refs', Evolves, Next, ~Crash
    PROVE  WaitCovers'
    <2> USE <1>WaitCoversStep
    <2> SUFFICES ASSUME NEW q \in Client, proc'[q].pc \in Syncing,
                        NEW i \in Inode, proc'[q].inode = i, ~Exempt(i)',
                        NEW b \in BufId, proc'[q].buf = b, ~buf'[b].poisoned,
                        NEW c \in proc'[q].must
                 PROVE  c \in Durable(i)' \/
                        \E x \in proc'[q].waits : ~batch'[x].done /\ c \in batch'[x].cells
        <3>1. \A q \in Client : proc'[q].pc \in Syncing =>
                  proc'[q].inode \in Inode /\ proc'[q].buf \in BufId
            BY DEF Refs, Syncing, HoldsBuf, NoInode
        <3> QED
            BY <3>1 DEF WaitCovers, Exempt, Durable
    <2>1. CASE CallOn(proc[q], proc'[q])
        <3>1. /\ proc[q].pc \in Syncing /\ proc[q].inode = i /\ proc[q].buf = b
              /\ proc'[q].waits = proc[q].waits /\ proc'[q].must = proc[q].must
            BY <2>1 DEF CallOn, HoldsBuf
        <3>3. /\ b <= nbuf /\ buf[b].inode = i
              /\ \A x \in proc[q].waits :
                   x <= nbatch /\ \A a \in BufId \ {b} : x \notin Batches(a)
            BY <3>1 DEF Callers, HoldsBuf
        <3>4. InodeEvolves(i) /\ BufEvolves(b) /\ CellsEvolve(b, i)
            BY DEF Evolves
        <3>5. ~Exempt(i) /\ ~h'[i].unlinked
            BY <3>4 DEF Exempt, InodeEvolves
        <3>6. ~buf[b].poisoned
            BY <3>3, <3>4 DEF BufEvolves
        <3>7. c \in Durable(i) \/ \E x \in proc[q].waits : ~batch[x].done /\ c \in batch[x].cells
            BY <3>1, <3>5, <3>6 DEF WaitCovers
        <3>8. \A x \in proc[q].waits : x \in BatchId
            <4>1. proc[q] \in Proc
                BY DEF TypeOK
            <4> QED
                BY <4>1 DEF Proc
        <3>9. CASE c \in Durable(i)
            BY <3>4, <3>5, <3>9 DEF InodeEvolves
        <3>10. ASSUME NEW x \in proc[q].waits, ~batch[x].done, c \in batch[x].cells
               PROVE  c \in Durable(i)' \/ (~batch'[x].done /\ c \in batch'[x].cells)
            BY <3>3, <3>4, <3>5, <3>6, <3>8, <3>10 DEF CellsEvolve
        <3> QED
            BY <3>1, <3>7, <3>9, <3>10
    <2>2. ASSUME NEW j \in Inode, FsyncSnapshot(q, j)
          PROVE  c \in Durable(i)' \/
                 \E x \in proc'[q].waits : ~batch'[x].done /\ c \in batch'[x].cells
        <3>0. buffers[j] # nil
            BY <2>2 DEF FsyncSnapshot
        <3>1. PICK a \in BufId : buffers[j] = a
            BY <3>0 DEF TypeOK
        <3>2. UNCHANGED <<buf, batch, disk, h>>
            BY <2>2 DEF FsyncSnapshot, mem
        <3>3. proc' = [proc EXCEPT ![q] = [proc[q] EXCEPT
                  !.pc = IF NeedTrigger(a) THEN "trigger" ELSE "wait",
                  !.inode = j, !.buf = a, !.waits = Waits(a), !.must = h[j].written]]
            BY <2>2, <3>1 DEF FsyncSnapshot, TypeOK
        <3>4. /\ i = j /\ b = a
              /\ proc'[q].waits = Waits(b) /\ proc'[q].must = h[i].written
            <4>1. proc[q] \in Proc /\ proc \in [Client -> Proc]
                BY DEF TypeOK
            <4>2. /\ proc'[q].inode = j /\ proc'[q].buf = a
                  /\ proc'[q].waits = Waits(a) /\ proc'[q].must = h[j].written
                BY <3>3, <4>1 DEF Proc
            <4> QED
                BY <4>2
        <3>5. ~h[i].unlinked /\ ~h[i].raced /\ ~buf[b].poisoned /\ b # nil
            BY <3>2, BatchFacts DEF Exempt
        <3>6. c \in Durable(i) \/ \E x \in Batches(b) : c \in batch[x].cells
            BY <3>1, <3>4, <3>5 DEF Stored
        <3>7. Durable(i)' = Durable(i)
            BY <3>2 DEF Durable
        <3>8. ASSUME NEW x \in Batches(b), c \in batch[x].cells
              PROVE  x \in Waits(b) /\ ~batch[x].done
            BY <3>8, <1>WaitsCover
        <3> QED
            BY <3>2, <3>4, <3>6, <3>7, <3>8
    <2>3. ~WriteAcquire(q) /\ ~DropWait(q) /\ \A j \in Inode : ~UnlinkCommit(q, j)
        <3>1. proc[q] \in Proc /\ proc \in [Client -> Proc]
            BY DEF TypeOK
        <3>2. WriteAcquire(q) => proc'[q].pc = "append"
            BY SMTT(30), <3>1 DEF WriteAcquire, Proc
        <3>3. DropWait(q) => proc'[q].pc \in {"delete", "clear"}
            BY SMTT(30), <3>1 DEF DropWait, Proc
        <3>4. \A j \in Inode : UnlinkCommit(q, j) => proc'[q].pc = "drop"
            BY SMTT(30), <3>1 DEF UnlinkCommit, Begin, IdleProc
        <3> QED
            BY <3>2, <3>3, <3>4 DEF Syncing
    <2> QED
        BY <2>1, <2>2, <2>3, CallsGoOn DEF TakesHold

\* Only an Fsync that returns vouches for bytes.
<1>SyncedChanges.
    ASSUME TypeOK, Refs, Next, ~Crash, NEW i \in Inode
    PROVE  \/ h'[i].synced = h[i].synced
           \/ \E p \in Client : FsyncEarly(p, i)
           \/ \E p \in Client : FsyncDone(p) /\ proc[p].inode = i
    <2> USE <1>SyncedChanges
    <2>h. h \in [Inode -> History] /\ \A j \in Inode : h[j] \in History
        BY DEF TypeOK
    <2>1. UNCHANGED h => h'[i].synced = h[i].synced
        OBVIOUS
    <2>2. ASSUME NEW p \in Client, WriteStep(p) PROVE h'[i].synced = h[i].synced
        <3>1. CASE WriteAppend(p)
            BY <2>h, <3>1 DEF WriteAppend, History
        <3> QED
            BY <2>1, <2>2, <3>1 DEF WriteStep, WriteCall, WriteAcquire,
               WriteCancel, WritePoisoned, WriteEnqueue
    <2>3. ASSUME NEW p \in Client, FsyncStep(p)
          PROVE  \/ h'[i].synced = h[i].synced \/ FsyncEarly(p, i)
                 \/ FsyncDone(p) /\ proc[p].inode = i
        <3>1. ASSUME NEW j \in Inode, FsyncEarly(p, j), j # i
              PROVE  h'[i].synced = h[i].synced
            BY <2>h, <3>1 DEF FsyncEarly, History
        <3>2. ASSUME FsyncDone(p), proc[p].inode # i
              PROVE  h'[i].synced = h[i].synced
            BY <2>h, <3>2 DEF FsyncDone, History
        <3>3. ASSUME \/ \E j \in Inode : FsyncCall(p, j) \/ FsyncSnapshot(p, j)
                     \/ FsyncTrigger(p) \/ FsyncFired(p) \/ FsyncCancel(p)
              PROVE  h'[i].synced = h[i].synced
            BY <2>1, <3>3 DEF FsyncCall, FsyncSnapshot, FsyncTrigger,
               FsyncFired, FsyncCancel
        <3> QED
            BY <2>3, <3>1, <3>2, <3>3 DEF FsyncStep
    <2>4. ASSUME NEW p \in Client, SetattrStep(p) PROVE h'[i].synced = h[i].synced
        <3>1. ASSUME NEW j \in Inode, NEW size \in 0 .. MaxPos, SetattrSize(p, j, size)
              PROVE  h'[i].synced = h[i].synced
            <4>1. h' = h \/ h' = Shrunk(j, size)
                BY <3>1, ShrinkEffect
            <4>2. ASSUME h' = Shrunk(j, size) PROVE h'[i].synced = h[i].synced
                BY <2>h, <4>2 DEF Shrunk, History
            <4> QED
                BY <4>1, <4>2
        <3>2. ASSUME SetattrTruncate(p) PROVE h'[i].synced = h[i].synced
            BY <2>h, <3>2 DEF SetattrTruncate, History
        <3>3. ASSUME SetattrCommit(p) PROVE h'[i].synced = h[i].synced
            BY <2>h, <3>3 DEF SetattrCommit, History
        <3>4. ASSUME SetattrStat(p) \/ \E j \in Inode : SetattrMode(p, j)
              PROVE  h'[i].synced = h[i].synced
            BY <2>1, <3>4 DEF SetattrStat, SetattrMode
        <3> QED
            BY <2>4, <3>1, <3>2, <3>3, <3>4 DEF SetattrStep
    <2>5. ASSUME NEW p \in Client, UnlinkStep(p) PROVE h'[i].synced = h[i].synced
        <3>1. ASSUME NEW j \in Inode, UnlinkCommit(p, j) PROVE h'[i].synced = h[i].synced
            BY <2>h, <3>1 DEF UnlinkCommit, History
        <3> QED
            BY <2>1, <2>5, <3>1 DEF UnlinkStep, DropWait, DropClear,
               DropForget, DeleteInode
    <2>6. ASSUME NEW p \in Client, CloseStep(p) PROVE h'[i].synced = h[i].synced
        BY <2>1, <2>6 DEF CloseStep, Drain, Close, CloseJoin
    <2>7. ASSUME NEW w \in Worker, FlushStep(w) PROVE h'[i].synced = h[i].synced
        <3>1. ASSUME FlushSnapshot(w) PROVE h'[i].synced = h[i].synced
            BY <2>h, <3>1 DEF FlushSnapshot, History
        <3> QED
            BY <2>1, <2>7, <3>1 DEF FlushStep, FlushTake, FlushAppend,
               FlushFail, FlushHook, FlushCommit, FlushSettle
    <2>8. ASSUME TickStep PROVE h'[i].synced = h[i].synced
        BY <2>1, <2>8 DEF TickStep, TickScan, TickSend
    <2> QED
        BY <2>2, <2>3, <2>4, <2>5, <2>6, <2>7, <2>8 DEF Next

\* What an Fsync vouches for is durable, and stays so.
<1>FsyncDurableStep.
    ASSUME TypeOK, Refs, Stored, WaitCovers, FsyncDurable, Evolves, Next, ~Crash
    PROVE  FsyncDurable'
    <2> USE <1>FsyncDurableStep
    <2> SUFFICES ASSUME NEW i \in Inode, ~h'[i].unlinked, ~h'[i].raced
                 PROVE  h'[i].synced \subseteq Durable(i)'
        BY DEF FsyncDurable, Durable
    <2>h. h \in [Inode -> History] /\ h[i] \in History
        BY DEF TypeOK
    <2>1. InodeEvolves(i)
        BY DEF Evolves
    <2>2. ~h[i].unlinked /\ ~h[i].raced /\ Durable(i) \subseteq Durable(i)'
        BY <2>1 DEF InodeEvolves
    <2>3. h[i].synced \subseteq Durable(i)
        BY <2>2 DEF FsyncDurable, Durable
    <2>4. CASE h'[i].synced = h[i].synced
        BY <2>2, <2>3, <2>4
    <2>5. ASSUME NEW p \in Client, FsyncEarly(p, i)
          PROVE  h'[i].synced \subseteq Durable(i)'
        <3>1. CASE buffers[i] = nil
            <4>1. h[i].written = {}
                BY <2>2, <3>1 DEF Stored
            <4>2. h' = [h EXCEPT ![i].synced = @ \cup h[i].written]
                BY <2>5, <3>1 DEF FsyncEarly
            <4>3. h'[i].synced = h[i].synced
                BY <2>h, <4>1, <4>2 DEF History
            <4> QED
                BY <2>4, <4>3
        <3>2. CASE buffers[i] # nil
            BY <2>4, <2>5, <3>2 DEF FsyncEarly
        <3> QED
            BY <3>1, <3>2
    <2>6. ASSUME NEW p \in Client, FsyncDone(p), proc[p].inode = i
          PROVE  h'[i].synced \subseteq Durable(i)'
        <3>1. CASE buf[proc[p].buf].poisoned
            BY <2>4, <2>6, <3>1 DEF FsyncDone
        <3>2. CASE ~buf[proc[p].buf].poisoned
            <4>1. h' = [h EXCEPT ![i].synced = @ \cup proc[p].must]
                BY <2>6, <3>2 DEF FsyncDone
            <4>2. h'[i].synced = h[i].synced \cup proc[p].must
                BY <2>h, <4>1 DEF History
            <4>3. proc[p].pc \in Syncing /\ \A x \in proc[p].waits : batch[x].done
                BY <2>6 DEF FsyncDone, Syncing
            <4>4. proc[p].must \subseteq Durable(i)
                BY <2>2, <2>6, <3>2, <4>3 DEF WaitCovers, Exempt
            <4> QED
                BY <2>2, <2>3, <4>2, <4>4
        <3> QED
            BY <3>1, <3>2
    <2> QED
        BY <2>4, <2>5, <2>6, <1>SyncedChanges

\* Only Drain and Close take their turn otherwise.
<1>CallsTurn.
    ASSUME TypeOK, Next, ~Crash, \A p \in Client : ~CloseStep(p), NEW q \in Client
    PROVE  Turn(proc[q].pc, proc'[q].pc) /\ life' = life
    <2> USE <1>CallsTurn
    <2>t. proc \in [Client -> Proc] /\ proc[q] \in Proc
        BY DEF TypeOK
    <2>1. UNCHANGED proc => Turn(proc[q].pc, proc'[q].pc)
        BY DEF Turn
    <2>2. ASSUME NEW p \in Client, NEW r, proc' = [proc EXCEPT ![p] = r],
                 Turn(proc[p].pc, r.pc)
          PROVE  Turn(proc[q].pc, proc'[q].pc)
        BY <2>t, <2>2 DEF Turn
    <2>3. ASSUME NEW p \in Client, Return(p) PROVE Turn(proc[q].pc, proc'[q].pc)
        BY <2>2, <2>3 DEF Return, Turn, IdleProc
    <2>4. ASSUME NEW p \in Client, NEW r, NEW n, proc' = [proc EXCEPT ![p] = r], r.pc = n,
                 n \notin {"join", "close"}, life = "open" \/ proc[p].pc \notin {"idle", "join"}
          PROVE  Turn(proc[q].pc, proc'[q].pc)
        BY <2>2, <2>4 DEF Turn
    <2>5. ASSUME NEW p \in Client, NEW n, Goto(p, n), n \notin {"join", "close"},
                 proc[p].pc \notin {"idle", "join"}
          PROVE  Turn(proc[q].pc, proc'[q].pc)
        <3>1. proc[p] \in Proc
            BY <2>t
        <3>2. [proc[p] EXCEPT !.pc = n].pc = n
            BY <3>1 DEF Proc
        <3>3. proc' = [proc EXCEPT ![p] = [proc[p] EXCEPT !.pc = n]]
            BY <2>t, <2>5 DEF Goto
        <3> QED
            BY <2>4, <2>5, <3>2, <3>3
    <2>6. ASSUME NEW p \in Client, NEW e, NEW call, NEW n, Begin(p, e, call), call.pc = n,
                 n \notin {"join", "close"}
          PROVE  Turn(proc[q].pc, proc'[q].pc)
        BY <2>4, <2>6 DEF Begin
    <2>7. ASSUME NEW p \in Client, NEW i, AfterFsync(p, i), proc[p].pc \in {"fsync", "wait"}
          PROVE  Turn(proc[q].pc, proc'[q].pc)
        <3>1. /\ [IdleProc EXCEPT !.pc = "fsync", !.todo = proc[p].todo \ {i}].pc = "fsync"
              /\ [IdleProc EXCEPT !.pc = "close"].pc = "close"
              /\ IdleProc.pc = "idle"
            BY DEF IdleProc
        <3>2. PICK r : /\ proc' = [proc EXCEPT ![p] = r] /\ r.pc \in {"fsync", "close", "idle"}
                       /\ r.pc = "close" => life = "draining"
            BY <2>7, <3>1 DEF AfterFsync
        <3> QED
            BY <2>2, <2>7, <3>2 DEF Turn
    <2>8. ASSUME NEW p \in Client, WriteStep(p)
          PROVE  Turn(proc[q].pc, proc'[q].pc) /\ life' = life
        <3>0. UNCHANGED life
            BY <2>8 DEF WriteStep, WriteCall, WriteAcquire, WriteCancel, WriteAppend,
               WritePoisoned, WriteEnqueue, ctl
        <3>1. ASSUME NEW i \in Inode, NEW P \in Interval, WriteCall(p, i, P)
              PROVE  Turn(proc[q].pc, proc'[q].pc)
            <4>1. [IdleProc EXCEPT !.pc = "acquire", !.inode = i, !.data = P].pc = "acquire"
                BY DEF IdleProc
            <4> QED
                BY <2>6, <3>1, <4>1 DEF WriteCall
        <3>2. ASSUME WriteAcquire(p) PROVE Turn(proc[q].pc, proc'[q].pc)
            <4>1. proc[p] \in Proc /\ proc[p].pc = "acquire"
                BY <2>t, <3>2 DEF WriteAcquire
            <4>2. PICK b : proc' = [proc EXCEPT ![p].pc = "append", ![p].buf = b]
                BY <3>2 DEF WriteAcquire
            <4>3. proc' = [proc EXCEPT ![p] = [proc[p] EXCEPT !.pc = "append", !.buf = b]]
                BY <2>t, <4>2
            <4>4. [proc[p] EXCEPT !.pc = "append", !.buf = b].pc = "append"
                BY <4>1 DEF Proc
            <4> QED
                BY <2>4, <4>1, <4>3, <4>4
        <3>3. ASSUME WriteAppend(p) PROVE Turn(proc[q].pc, proc'[q].pc)
            BY <2>3, <2>5, <3>3 DEF WriteAppend
        <3> QED
            BY <2>3, <2>8, <3>0, <3>1, <3>2, <3>3
               DEF WriteStep, WriteCancel, WritePoisoned, WriteEnqueue
    <2>9. ASSUME NEW p \in Client, FsyncStep(p)
          PROVE  Turn(proc[q].pc, proc'[q].pc) /\ life' = life
        <3>0. UNCHANGED life
            BY <2>9 DEF FsyncStep, FsyncCall, FsyncSnapshot, FsyncEarly, FsyncTrigger,
               FsyncFired, FsyncDone, FsyncCancel, ctl
        <3>1. ASSUME NEW i \in Inode, FsyncCall(p, i) PROVE Turn(proc[q].pc, proc'[q].pc)
            <4>1. [IdleProc EXCEPT !.pc = "fsync", !.todo = {i}].pc = "fsync"
                BY DEF IdleProc
            <4> QED
                BY <2>6, <3>1, <4>1 DEF FsyncCall
        <3>2. ASSUME NEW i \in Inode, FsyncSnapshot(p, i)
              PROVE  Turn(proc[q].pc, proc'[q].pc)
            <4>1. proc[p].pc = "fsync" /\ \A r \in Client \ {p} : proc'[r] = proc[r]
                BY <2>t, <3>2 DEF FsyncSnapshot
            <4>2. proc'[p].pc \in {"trigger", "wait"}
                BY <2>t, <3>2 DEF FsyncSnapshot, Proc
            <4> QED
                BY <4>1, <4>2 DEF Turn
        <3>3. ASSUME FsyncTrigger(p) \/ FsyncFired(p) PROVE Turn(proc[q].pc, proc'[q].pc)
            BY <2>5, <3>3 DEF FsyncTrigger, FsyncFired
        <3>4. ASSUME NEW i \in Inode, FsyncEarly(p, i) PROVE Turn(proc[q].pc, proc'[q].pc)
            BY <2>7, <3>4 DEF FsyncEarly
        <3>5. ASSUME FsyncDone(p) PROVE Turn(proc[q].pc, proc'[q].pc)
            BY <2>7, <3>5 DEF FsyncDone
        <3> QED
            BY <2>3, <2>9, <3>0, <3>1, <3>2, <3>3, <3>4, <3>5 DEF FsyncStep, FsyncCancel
    <2>10. ASSUME NEW p \in Client, SetattrStep(p)
           PROVE  Turn(proc[q].pc, proc'[q].pc) /\ life' = life
        <3>0. UNCHANGED life
            BY <2>10 DEF SetattrStep, SetattrSize, SetattrMode, SetattrTruncate,
               SetattrStat, SetattrCommit, ctl
        <3>1. ASSUME NEW i, NEW s, NEW n
              PROVE  [IdleProc EXCEPT !.pc = n, !.inode = i, !.size = s].pc = n
            BY DEF IdleProc
        <3>2. ASSUME NEW i \in Inode, SetattrMode(p, i) PROVE Turn(proc[q].pc, proc'[q].pc)
            <4>1. [IdleProc EXCEPT !.pc = "stat", !.inode = i, !.size = KeepSize].pc = "stat"
                BY DEF IdleProc
            <4> QED
                BY <2>6, <3>2, <4>1 DEF SetattrMode
        <3>3. ASSUME NEW i \in Inode, NEW size \in 0 .. MaxPos, SetattrSize(p, i, size)
              PROVE  Turn(proc[q].pc, proc'[q].pc)
            <4>1. PICK n \in {"truncate", "stat"} :
                     Begin(p, "truncate", [IdleProc EXCEPT !.pc = n, !.inode = i, !.size = size])
                BY <3>3 DEF SetattrSize
            <4> QED
                BY <2>6, <3>1, <4>1
        <3>4. ASSUME SetattrTruncate(p) PROVE Turn(proc[q].pc, proc'[q].pc)
            BY <2>5, <3>4 DEF SetattrTruncate
        <3>5. ASSUME SetattrStat(p) PROVE Turn(proc[q].pc, proc'[q].pc)
            <4>1. proc[p] \in Proc /\ proc[p].pc = "stat"
                BY <2>t, <3>5 DEF SetattrStat
            <4>2. Return(p) \/ \E nn : proc' = [proc EXCEPT ![p].pc = "commit", ![p].nn = nn]
                BY <3>5 DEF SetattrStat
            <4>3. ASSUME NEW nn, proc' = [proc EXCEPT ![p].pc = "commit", ![p].nn = nn]
                  PROVE  Turn(proc[q].pc, proc'[q].pc)
                <5>1. proc' = [proc EXCEPT ![p] = [proc[p] EXCEPT !.pc = "commit", !.nn = nn]]
                    BY <2>t, <4>3
                <5>2. [proc[p] EXCEPT !.pc = "commit", !.nn = nn].pc = "commit"
                    BY <4>1 DEF Proc
                <5> QED
                    BY <2>4, <4>1, <5>1, <5>2
            <4> QED
                BY <2>3, <4>2, <4>3
        <3> QED
            BY <2>3, <2>10, <3>0, <3>2, <3>3, <3>4, <3>5 DEF SetattrStep, SetattrCommit
    <2>11. ASSUME NEW p \in Client, UnlinkStep(p)
           PROVE  Turn(proc[q].pc, proc'[q].pc) /\ life' = life
        <3>0. UNCHANGED life
            BY <2>11 DEF UnlinkStep, UnlinkCommit, DropWait, DropClear, DropForget,
               DeleteInode, ctl
        <3>1. ASSUME NEW i \in Inode, UnlinkCommit(p, i) PROVE Turn(proc[q].pc, proc'[q].pc)
            <4>1. [IdleProc EXCEPT !.pc = "drop", !.inode = i].pc = "drop"
                BY DEF IdleProc
            <4> QED
                BY <2>6, <3>1, <4>1 DEF UnlinkCommit
        <3>2. ASSUME DropWait(p) PROVE Turn(proc[q].pc, proc'[q].pc)
            <4>1. proc[p].pc = "drop" /\ \A r \in Client \ {p} : proc'[r] = proc[r]
                BY <2>t, <3>2 DEF DropWait
            <4>2. proc'[p].pc \in {"delete", "clear"}
                BY <2>t, <3>2 DEF DropWait, Proc
            <4> QED
                BY <4>1, <4>2 DEF Turn
        <3>3. ASSUME DropClear(p) \/ DropForget(p) PROVE Turn(proc[q].pc, proc'[q].pc)
            BY <2>5, <3>3 DEF DropClear, DropForget
        <3> QED
            BY <2>3, <2>11, <3>0, <3>1, <3>2, <3>3 DEF UnlinkStep, DeleteInode
    <2>12. ASSUME NEW w \in Worker, FlushStep(w)
           PROVE  Turn(proc[q].pc, proc'[q].pc) /\ life' = life
        <3>0. UNCHANGED life
            BY <2>12 DEF FlushStep, FlushTake, FlushSnapshot, FlushAppend, FlushFail,
               FlushHook, FlushCommit, FlushSettle, ctl
        <3>1. ASSUME FlushTake(w) PROVE Turn(proc[q].pc, proc'[q].pc)
            <4>1. \E p : proc' = [proc EXCEPT ![p].fired = TRUE] \/ UNCHANGED proc
                BY <3>1 DEF FlushTake
            <4>2. proc'[q].pc = proc[q].pc
                BY <2>t, <4>1 DEF Proc
            <4> QED
                BY <4>2 DEF Turn
        <3> QED
            BY <2>1, <2>12, <3>0, <3>1 DEF FlushStep, FlushSnapshot, FlushAppend,
               FlushFail, FlushHook, FlushCommit, FlushSettle
    <2>13. CASE TickStep
        BY <2>1, <2>13 DEF TickStep, TickScan, TickSend
    <2> QED
        BY <2>8, <2>9, <2>10, <2>11, <2>12, <2>13 DEF Next

\* Once Drain has begun there is one call, its own, and none but Close when
\* flushQ is closed.
<1>ClosingStep.
    ASSUME TypeOK, Closing, Next, ~Crash
    PROVE  Closing'
    <2> USE <1>ClosingStep
    <2>t. proc \in [Client -> Proc]
        BY DEF TypeOK
    <2>1. CASE \A p \in Client : ~CloseStep(p)
        <3>1. \A q \in Client : Turn(proc[q].pc, proc'[q].pc) /\ life' = life
            BY <2>1, <1>CallsTurn
        <3> QED
            BY <3>1 DEF Closing, Closed, Turn
    <2>2. ASSUME NEW p \in Client, Drain(p) PROVE Closing'
        <3>1. /\ life' = "draining"
              /\ \A q \in Client \ {p} : proc'[q].pc = "idle"
            BY <2>t, <2>2 DEF Drain, Begin
        <3> QED
            BY <3>1 DEF Closing, Closed
    <2>3. ASSUME NEW p \in Client, Close(p) \/ CloseJoin(p) PROVE Closing'
        <3>1. life # "open" /\ proc[p].pc # "idle"
            BY <2>3 DEF Close, CloseJoin, Closing
        <3>2. \A q \in Client \ {p} : proc'[q].pc = "idle"
            BY <2>t, <2>3, <3>1 DEF Closing, Close, CloseJoin, Goto, Return
        <3>3. proc'[p].pc \in {"idle", "join"}
            <4>1. proc[p] \in Proc
                BY <2>t
            <4> QED
                <5>1. ASSUME Close(p) PROVE proc'[p].pc = "join"
                    BY <2>t, <4>1, <5>1 DEF Close, Goto, Proc
                <5>2. ASSUME CloseJoin(p) PROVE proc'[p].pc = "idle"
                    BY <2>t, <5>2 DEF CloseJoin, Return, IdleProc
                <5> QED
                    BY <2>3, <5>1, <5>2
        <3>4. life' \in {"stopped", "closed"}
            BY <2>3 DEF Close, CloseJoin
        <3> QED
            BY <3>2, <3>3, <3>4 DEF Closing, Closed
    <2> QED
        BY <2>1, <2>2, <2>3 DEF CloseStep

\* A done channel is closed once, and only a tick meets a closed flushQ.
<1>NoPanicStep.
    ASSUME TypeOK, Refs, Owned, Flushers, Closing, NoPanic, Next, ~Crash
    PROVE  NoPanic'
    <2> USE <1>NoPanicStep
    <2>1. UNCHANGED panic => NoPanic'
        BY DEF NoPanic
    <2>2. ASSUME NEW p \in Client, proc[p].pc \in {"enqueue", "trigger"} PROVE ~Closed
        BY <2>2 DEF Closing
    <2>3. ASSUME NEW p \in Client, WriteStep(p) PROVE NoPanic'
        <3>1. ASSUME WriteEnqueue(p) PROVE NoPanic'
            BY <2>1, <2>2, <3>1 DEF WriteEnqueue, TrySend, Panic
        <3> QED
            BY <2>1, <2>3, <3>1 DEF WriteStep, WriteCall, WriteAcquire,
               WriteCancel, WriteAppend, WritePoisoned, ctl
    <2>4. ASSUME NEW p \in Client, FsyncStep(p) PROVE NoPanic'
        <3>1. ASSUME FsyncTrigger(p) PROVE NoPanic'
            BY <2>1, <2>2, <3>1 DEF FsyncTrigger, Panic
        <3> QED
            BY <2>1, <2>4, <3>1 DEF FsyncStep, FsyncCall, FsyncSnapshot, FsyncEarly,
               FsyncFired, FsyncDone, FsyncCancel, ctl
    <2>5. ASSUME NEW p \in Client, SetattrStep(p) PROVE NoPanic'
        BY <2>1, <2>5 DEF SetattrStep, SetattrSize, SetattrMode,
           SetattrTruncate, SetattrStat, SetattrCommit, ctl
    <2>6. ASSUME NEW p \in Client, UnlinkStep(p) PROVE NoPanic'
        <3>1. ASSUME DropClear(p) PROVE NoPanic'
            <4>1. PICK b \in BufId :
                     Panic("done", buf[b].current # nil /\ batch[buf[b].current].done)
                BY <3>1, ClearEffect
            <4>2. buf[b].current # nil => ~batch[buf[b].current].done
                BY DEF Owned, Batches
            <4> QED
                BY <2>1, <4>1, <4>2 DEF Panic
        <3> QED
            BY <2>1, <2>6, <3>1 DEF UnlinkStep, UnlinkCommit, DropWait,
               DropForget, DeleteInode, ctl
    <2>7. ASSUME NEW p \in Client, CloseStep(p) PROVE NoPanic'
        BY <2>1, <2>7 DEF CloseStep, Drain, Close, CloseJoin
    <2>8. ASSUME NEW w \in Worker, FlushStep(w) PROVE NoPanic'
        <3>1. ASSUME FlushSettle(w) PROVE NoPanic'
            <4>1. PICK b \in BufId, x \in BatchId :
                     /\ wk[w].pc = "settle" /\ wk[w].buf = b /\ wk[w].batch = x
                     /\ Panic("done", batch[x].done)
                BY <3>1, SettleEffect
            <4>2. buf[b].flushing = x
                BY <4>1 DEF Flushers
            <4>3. ~batch[x].done
                BY <4>2, BatchFacts DEF Owned, Batches
            <4> QED
                BY <2>1, <4>1, <4>3 DEF Panic
        <3> QED
            BY <2>1, <2>8, <3>1 DEF FlushStep, FlushTake, FlushSnapshot,
               FlushAppend, FlushFail, FlushHook, FlushCommit, ctl
    <2>9. ASSUME TickStep PROVE NoPanic'
        BY <2>1, <2>9 DEF TickStep, TickScan, TickSend, TrySend, Panic, NoPanic
    <2> QED
        BY <2>3, <2>4, <2>5, <2>6, <2>7, <2>8, <2>9 DEF Next

\* A flush takes a batch of accepted bytes, and its copy of the batch has bytes
\* of the batch only.
<1>FlushWithinStep.
    ASSUME TypeOK, Refs, Owned, Flushers, Stored, FlushWithin, TypeOK', Refs',
           Evolves, Next, ~Crash
    PROVE  FlushWithin'
    <2> USE <1>FlushWithinStep
    <2> SUFFICES ASSUME NEW v \in Worker, wk'[v].pc \notin {"idle", "settle"},
                        NEW i \in Inode, wk'[v].inode = i, ~h'[i].unlinked
                 PROVE  wk'[v].cells \subseteq h'[i].written
        BY DEF FlushWithin, Refs
    <2>1. ~h[i].unlinked /\ h[i].written \subseteq h'[i].written
        BY DEF Evolves, InodeEvolves
    <2>2. CASE FlushTake(v) /\ wk'[v] # wk[v]
        <3>1. PICK j \in Inode, b \in BufId, x \in BatchId, n \in BatchId :
                    /\ buffers[j] = b /\ buf[b].current = x /\ buf[b].flushing = nil
                    /\ n = nbatch + 1 /\ nbatch' = n
                    /\ buf'[b].inode = buf[b].inode /\ buf'[b].current = n
                    /\ buf'[b].flushing = x
                    /\ buf'[b].poisoned = buf[b].poisoned
                    /\ buf'[b].liveSize = buf[b].liveSize
                    /\ \A a \in BufId \ {b} : SameBuf(a)
                    /\ wk[v].pc = "idle"
                    /\ wk' = [wk EXCEPT ![v] = [IdleWk EXCEPT
                                 !.pc = "swapped", !.inode = j, !.buf = b,
                                 !.batch = x, !.cells = batch[x].cells]]
            BY <2>2, TakeEffect
        <3>2. wk'[v].inode = j /\ wk'[v].cells = batch[x].cells
            BY <3>1 DEF TypeOK, IdleWk
        <3>3. b # nil /\ x \in Batches(b)
            BY <3>1, BatchFacts DEF Batches
        <3> QED
            BY SMTT(30), <2>1, <3>1, <3>2, <3>3 DEF Stored
    <2>3. CASE ~(FlushTake(v) /\ wk'[v] # wk[v])
        <3>1. wk'[v] = wk[v] \/ (Flushes(v) /\ ~FlushTake(v))
            BY <2>3, FlushersWait DEF Flushes, FlushTake, FlushSnapshot, FlushAppend,
               FlushFail, FlushHook, FlushCommit, FlushSettle
        <3>2. FlushOn(wk[v], wk'[v])
            BY <3>1, FlushEffect DEF FlushOn
        <3>3. wk[v].pc # "idle" /\ wk[v].inode = i
            BY <3>2 DEF FlushOn
        <3>4. wk[v].pc # "settle" => wk[v].cells \subseteq h[i].written
            BY <2>1, <3>3 DEF FlushWithin
        <3>5. CASE wk'[v] = wk[v]
            BY <2>1, <3>4, <3>5
        <3>6. CASE FlushSnapshot(v)
            <4> DEFINE old == wk[v].cells
                       now == batch[wk[v].batch].cells
            <4>1. wk[v].pc = "swapped"
                BY <3>6 DEF FlushSnapshot
            <4>2. PICK ae \in Snapshots(old, now), end \in {MaxEnd(old), MaxEnd(now)} :
                     wk' = [wk EXCEPT ![v].pc = "snapped", ![v].cells = ae, ![v].end = end]
                BY <3>6 DEF FlushSnapshot
            <4>3. wk'[v].cells = ae
                <5>1. wk[v] \in Wk /\ wk \in [Worker -> Wk]
                    BY DEF TypeOK
                <5> QED
                    BY <4>2, <5>1 DEF Wk
            <4>4. now \subseteq h[i].written
                <5>1. PICK b \in BufId, x \in BatchId : wk[v].buf = b /\ wk[v].batch = x
                    BY <3>3 DEF Refs
                <5>2. buf[b].flushing = x /\ buffers[i] = b
                    BY <2>1, <3>3, <5>1 DEF Flushers
                <5>3. b # nil /\ x \in Batches(b)
                    BY <5>2, BatchFacts DEF Batches
                <5> QED
                    BY <2>1, <5>1, <5>2, <5>3 DEF Stored
            <4>5. ae \subseteq old \cup now
                BY SMTT(30), <4>2, SnapshotWithin
            <4> HIDE DEF old, now
            <4>6. old \subseteq h[i].written
                BY <3>4, <4>1 DEF old
            <4> QED
                BY <2>1, <4>3, <4>4, <4>5, <4>6
        <3>7. CASE FlushCommit(v)
            <4>1. wk[v] \in Wk /\ wk \in [Worker -> Wk]
                BY DEF TypeOK
            <4>2. wk'[v].pc = "settle"
                BY <3>7, <4>1 DEF FlushCommit, Wk
            <4> QED
                BY <4>2
        <3>8. CASE /\ wk[v].pc # "settle" /\ wk'[v].pc # "settle"
                   /\ wk'[v].cells = wk[v].cells
            BY <2>1, <3>4, <3>8
        <3> QED
            BY <3>1, <3>5, <3>6, <3>7, <3>8, FlushEffect
    <2> QED
        BY <2>2, <2>3

<1> QED
    BY <1>FlushCoversStep, <1>WaitCoversStep, <1>FsyncDurableStep, <1>FlushWithinStep, <1>ClosingStep, <1>NoPanicStep

-----------------------------------------------------------------------------
(* The invariant *)

\* A new coalescer over empty files satisfies the invariant.
LEMMA InitIInv ==
    ASSUME SetLaws
    PROVE  Init => IInv
<1> SUFFICES ASSUME Init PROVE IInv
    OBVIOUS
<1>1. TypeOK
    <2>1. /\ buffers \in [Inode -> BufId \cup {nil}]
          /\ nbuf \in 0 .. MaxBuf /\ nbatch \in 0 .. MaxBatch
          /\ batch \in [BatchId -> bufBatch]
        BY SMTT(30), CoalescerAssumption, ObjectTypes DEF Init
    <2>2. buf \in [BufId -> inodeBuf]
        BY ObjectTypes DEF Init
    <2>7. flushQ \in Seq(flushReq) /\ Len(flushQ) <= queueSize
        BY SMTT(30), CoalescerAssumption DEF Init
    <2>6. /\ tick \in SUBSET Inode
          /\ life \in {"open", "draining", "stopped", "closed"}
          /\ panic \in SUBSET {"call", "tick", "done"}
        BY DEF Init
    <2>3. proc \in [Client -> Proc] /\ wk \in [Worker -> Wk]
        BY ObjectTypes DEF Init
    <2>4. /\ seq \in Nat /\ sem \in Int /\ disk \in [Inode -> SUBSET Cell]
          /\ node \in [Inode -> Node] /\ budget \in [Event -> Nat]
        BY SMTT(30), CoalescerAssumption DEF Init, Node
    <2>5. h \in [Inode -> History]
        BY DEF Init, History
    <2> QED
        BY <2>1, <2>2, <2>3, <2>4, <2>5, <2>6, <2>7 DEF TypeOK
<1>2. Refs
    BY DEF Init, Refs, IdleProc, IdleWk, NoInode, HoldsBuf, Syncing
<1>3. Counted
    BY DEF Init, Counted, newBufBatch, NewBuf, SetLaws, EmptyLaw
<1>4. Owned
    BY DEF Init, Owned, newBufBatch, NewBuf, Batches
<1>5. Callers
    BY DEF Init, Callers, IdleProc, Unlinking, HoldsBuf, Syncing
<1>6. Flushers /\ FlushCovers /\ FlushWithin
    <2>1. \A w \in Worker : wk[w] = IdleWk
        BY DEF Init
    <2>2. \A w \in Worker : wk[w].pc = "idle"
        BY SMTT(30), <2>1 DEF IdleWk
    <2> QED
        BY <2>2 DEF Flushers, FlushCovers, FlushWithin
<1>7. Stored
    BY DEF Init, Stored
<1>8. WaitCovers
    BY DEF Init, WaitCovers, IdleProc, Syncing
<1>9. FsyncDurable /\ LiveCovers /\ Closing /\ NoPanic
    BY DEF Init, FsyncDurable, LiveCovers, Closing, Closed, IdleProc, NoPanic
<1> QED
    BY <1>1, <1>2, <1>3, <1>4, <1>5, <1>6, <1>7, <1>8, <1>9 DEF IInv

\* A restart forgets the objects and keeps what is durable, so the invariant
\* holds of it as of a new coalescer.
LEMMA CrashIInv ==
    ASSUME SetLaws, IInv, Crash
    PROVE  IInv'
<1>1. TypeOK' /\ Refs'
    BY StepTypes DEF IInv, Next
<1>2. Counted' /\ Owned'
    BY OwnersStay DEF IInv, Next
<1>h. \A i \in Inode : /\ h'[i].written = {} /\ h'[i].synced = h[i].synced
                       /\ h'[i].gone = h[i].gone /\ h'[i].raced = h[i].raced
                       /\ h'[i].unlinked = h[i].unlinked
    <2>1. h \in [Inode -> History]
        BY DEF IInv, TypeOK
    <2> QED
        BY <2>1 DEF Crash, History
<1>3. Callers' /\ WaitCovers'
    BY DEF Crash, Callers, WaitCovers, IdleProc, Unlinking, HoldsBuf, Syncing
<1>4. Flushers' /\ FlushCovers' /\ FlushWithin'
    BY DEF Crash, Flushers, FlushCovers, FlushWithin, IdleWk
<1>5. Stored' /\ LiveCovers'
    BY <1>h DEF Crash, Stored, LiveCovers
<1>6. FsyncDurable'
    BY <1>h DEF Crash, IInv, FsyncDurable
<1>7. Closing' /\ NoPanic'
    BY DEF Crash, Closing, Closed, IdleProc, NoPanic
<1> QED
    BY <1>1, <1>2, <1>3, <1>4, <1>5, <1>6, <1>7 DEF IInv

\* Every step of a caller, a flusher or the ticker preserves the invariant.
LEMMA NextIInv ==
    ASSUME SetLaws, IInv, [Next]_vars
    PROVE  IInv'
<1>1. CASE Crash
    BY <1>1, CrashIInv
<1>2. CASE UNCHANGED vars
    <2>1. UNCHANGED <<buffers, buf, nbuf, batch, nbatch, sem, flushQ, life, tick, panic,
                      proc, wk, seq, disk, node, budget, h>>
        BY <1>2 DEF vars, mem, ctl
    <2>2. TypeOK' /\ Refs'
        BY <1>2, StepTypes DEF IInv
    <2>3. Counted' /\ Owned'
        BY <1>2, OwnersStay DEF IInv
    <2>4. Callers' /\ WaitCovers'
        BY <2>1 DEF IInv, Callers, WaitCovers, Exempt, Durable, Batches
    <2>5. Flushers' /\ FlushCovers' /\ FlushWithin'
        BY <2>1 DEF IInv, Flushers, FlushCovers, FlushWithin, Exempt, Durable
    <2>6. Stored' /\ LiveCovers'
        BY <2>1 DEF IInv, Stored, LiveCovers, Durable, Batches
    <2>7. FsyncDurable' /\ Closing' /\ NoPanic'
        BY <2>1 DEF IInv, FsyncDurable, Closing, NoPanic, Closed
    <2> QED
        BY <2>2, <2>3, <2>4, <2>5, <2>6, <2>7 DEF IInv
<1>3. CASE Next /\ ~Crash
    <2>1. /\ TypeOK /\ Refs /\ Counted /\ Owned /\ Callers /\ Flushers
          /\ Stored /\ FlushCovers /\ FlushWithin /\ WaitCovers /\ FsyncDurable
          /\ LiveCovers /\ Closing /\ NoPanic
        BY DEF IInv
    <2>2. TypeOK' /\ Refs'
        BY <1>3, <2>1, StepTypes
    <2>3. Counted' /\ Owned'
        BY <1>3, <2>1, OwnersStay
    <2>4. Evolves
        BY <1>3, <2>1, ObjectsEvolve
    <2>5. Callers'
        BY <1>3, <2>1, <2>2, <2>3, <2>4, PointersStay
    <2>6. Flushers'
        BY <1>3, <2>1, <2>2, <2>4, PointersStay
    <2>7. Stored'
        BY <1>3, <2>1, <2>2, <2>3, <2>4, BytesStay
    <2>8. FlushCovers'
        BY <1>3, <2>1, <2>2, <2>4, ToldStaysTrue
    <2>9. FlushWithin'
        BY <1>3, <2>1, <2>2, <2>4, ToldStaysTrue
    <2>10. WaitCovers'
        BY <1>3, <2>1, <2>2, <2>4, ToldStaysTrue
    <2>11. FsyncDurable'
        BY <1>3, <2>1, <2>4, ToldStaysTrue
    <2>12. LiveCovers'
        BY <1>3, <2>1, <2>2, <2>4, BytesStay
    <2>13. NoPanic'
        BY <1>3, <2>1, ToldStaysTrue
    <2>14. Closing'
        BY <1>3, <2>1, ToldStaysTrue
    <2> QED
        BY <2>2, <2>3, <2>5, <2>6, <2>7, <2>8, <2>9, <2>10, <2>11, <2>12, <2>13, <2>14
        DEF IInv
<1> QED
    BY <1>1, <1>2, <1>3

-----------------------------------------------------------------------------
(* The laws, from the library *)

INSTANCE FiniteSetTheorems

\* The laws of finite sets that the lemmas assume hold.
LEMMA SetLawsHold == SetLaws
<1>1. SizeLaw /\ EmptyLaw /\ SingletonLaw
    BY FS_CardinalityType, FS_EmptySet, FS_Singleton DEF SizeLaw, EmptyLaw, SingletonLaw
<1>2. AddLaw
    BY FS_AddElement DEF AddLaw
<1>3. RemoveLaw
    BY FS_RemoveElement DEF RemoveLaw
<1>4. SubsetLaw
    BY FS_Subset DEF SubsetLaw
<1>5. IntervalLaw
    BY FS_Interval DEF IntervalLaw
<1>6. UnionLaw
    BY FS_Union DEF UnionLaw
<1>7. MeetLaw
    BY FS_Intersection DEF MeetLaw
<1>8. DifferenceLaw
    BY FS_Difference DEF DifferenceLaw
<1>9. FamilyLaw
    BY FS_UNION DEF FamilyLaw
<1>10. SurjectionLaw
    <2>1. ASSUME NEW S, NEW T, NEW f \in [S -> T], IsFiniteSet(S),
                 \A t \in T : \E s \in S : f[s] = t
          PROVE  IsFiniteSet(T) /\ Cardinality(T) <= Cardinality(S)
        <3>1. f \in Surjection(S, T)
            BY <2>1 DEF Surjection
        <3> QED
            BY <2>1, <3>1, FS_Surjection
    <2> QED
        BY <2>1 DEF SurjectionLaw
<1>11. InjectionLaw
    BY FS_Injection DEF InjectionLaw, Injection, IsInjective
<1>12. PigeonLaw
    BY FS_PigeonHole DEF PigeonLaw
<1>13. LeastLaw
    <2>1. SUFFICES ASSUME NEW S \in SUBSET Nat, S # {}
                   PROVE  \E x \in S : \A y \in S : x <= y
        BY DEF LeastLaw
    <2>2. PICK x \in S : \A y \in S : ~(<<y, x>> \in OpToRel(<, Nat))
        <3>1. S \subseteq Nat
            OBVIOUS
        <3> QED
            BY <2>1, <3>1, NatLessThanWellFounded, WFMin
    <2>3. ASSUME NEW y \in S PROVE x <= y
        <3>1. x \in Nat /\ y \in Nat
            OBVIOUS
        <3>2. ~(y < x)
            BY <2>2, <3>1 DEF OpToRel
        <3> QED
            BY SMTT(30), <3>1, <3>2
    <2> QED
        BY <2>3
<1> QED
    BY <1>1, <1>2, <1>3, <1>4, <1>5, <1>6, <1>7, <1>8, <1>9, <1>10, <1>11, <1>12, <1>13
    DEF SetLaws

-----------------------------------------------------------------------------
(* Theorems *)

\* IInv is an inductive invariant of the coalescer.
THEOREM Invariance == Spec => []IInv
<1>1. Init => IInv
    BY InitIInv, SetLawsHold
<1>2. IInv /\ [Next]_vars => IInv'
    BY NextIInv, SetLawsHold
<1> QED
    BY <1>1, <1>2, PTL DEF Spec

-----------------------------------------------------------------------------
(* What the invariant gives *)

\* The variables keep their types, and flushQ stays within its capacity.
THEOREM TypeCorrect == Spec => []TypeOK
<1>1. IInv => TypeOK
    BY DEF IInv
<1> QED
    BY <1>1, Invariance, PTL

\* What a successful Fsync vouched for is never lost (coalescer.go:17-18),
\* whatever the calls, flushes, errors and crashes around it.
THEOREM FsyncIsDurable == Spec => []FsyncDurable
<1>1. IInv => FsyncDurable
    BY DEF IInv
<1> QED
    BY <1>1, Invariance, PTL

\* No two workers flush one inode at once (coalescer.go:615).
THEOREM OneFlusher == Spec => []SingleFlusher
<1>1. IInv => SingleFlusher
    <2> SUFFICES ASSUME IInv, NEW v \in Worker, NEW w \in Worker, v # w,
                        wk[v].pc # "idle", wk[w].pc # "idle",
                        wk[v].inode = wk[w].inode, ~h[wk[v].inode].unlinked
                 PROVE  FALSE
        BY DEF SingleFlusher
    <2>1. buffers[wk[v].inode] = wk[v].buf /\ buffers[wk[w].inode] = wk[w].buf
        BY DEF IInv, Flushers
    <2>2. wk[v].buf # wk[w].buf
        BY DEF IInv, Flushers
    <2> QED
        BY <2>1, <2>2
<1> QED
    BY <1>1, Invariance, PTL

\* Stat covers what was written and not cut off (store.go:240-241).
THEOREM StatCovers == Spec => []StatCoversWritten
<1>1. IInv => StatCoversWritten
    <2> SUFFICES ASSUME IInv, NEW i \in Inode, ~h[i].unlinked,
                        NEW c \in h[i].written, c \notin h[i].gone
                 PROVE  c[2] < StatSize(i)
        BY DEF StatCoversWritten
    <2>1. buffers[i] # nil
        BY DEF IInv, Stored
    <2>2. buffers[i] \in BufId
        BY <2>1 DEF IInv, TypeOK
    <2>3. c[2] < buf[buffers[i]].liveSize
        BY <2>1 DEF IInv, LiveCovers
    <2>4. c \in Cell
        BY DEF IInv, TypeOK, History
    <2>5. c[2] \in Nat
        BY SMTT(30), <2>4, CoalescerAssumption DEF Cell, Pos
    <2>6. node[i].size \in Nat /\ buf[buffers[i]].liveSize \in Nat
        <3>1. node[i] \in Node /\ buf[buffers[i]] \in inodeBuf
            BY <2>2 DEF IInv, TypeOK
        <3> QED
            BY <3>1 DEF Node, inodeBuf
    <2>7. StatSize(i) \in Nat /\ StatSize(i) >= buf[buffers[i]].liveSize
        BY SMTT(30), <2>1, <2>6 DEF StatSize, Larger
    <2> QED
        BY SMTT(30), <2>3, <2>5, <2>6, <2>7
<1> QED
    BY <1>1, Invariance, PTL

\* No done channel is closed twice and nothing is sent on the closed flushQ,
\* but by the ticker.
THEOREM NoGoroutinePanics == Spec => []NoPanic
<1>1. IInv => NoPanic
    BY DEF IInv
<1> QED
    BY <1>1, Invariance, PTL

\* The coalescer implements the write-back buffer of module WriteBack, for any
\* number of files, callers and flushers.
THEOREM Refinement == Spec => ImplementsWriteBack
<1>1. Init => WB!Init
    <2> SUFFICES ASSUME Init PROVE WB!Init
        OBVIOUS
    <2>1. \A i \in Inode : /\ h[i].written = {} /\ h[i].synced = {} /\ h[i].gone = {}
                           /\ ~h[i].raced /\ ~h[i].unlinked /\ disk[i] = {}
        BY DEF Init
    <2> QED
        BY <2>1 DEF WB!Init
<1>2. IInv /\ IInv' /\ [Next]_vars => [WB!Next]_(WB!vars)
    <2>1. CASE UNCHANGED vars
        BY <2>1, StutterMaps DEF vars, SameFile, Durable, Exempt
    <2>2. CASE Next
        BY <2>2, StepsMap
    <2> QED
        BY <2>1, <2>2
<1> QED
    BY <1>1, <1>2, Invariance, PTL DEF Spec, ImplementsWriteBack, WB!Spec

=============================================================================
