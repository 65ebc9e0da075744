------------------------- MODULE Namespace_proof -------------------------
(***************************************************************************)
(* Proofs about the namespace, for any clients, names, inode numbers and   *)
(* budgets.  As long as no two operations were given the same inode        *)
(* (clashed), the namespace is sound between any two commits, although     *)
(* every operation commits a batch it filled from what it read earlier.    *)
(* The invariant has a part about the store and one about the operations   *)
(* in flight.  The latter, BatchOK, says of a batch what it takes for its  *)
(* commit to be right whenever it comes: the locks of the kernel cover all *)
(* the keys and directories it is about, what it read of those is still    *)
(* so, and it changes the link counts as it changes the names.  It does    *)
(* not mention the kind of the operation, so one argument covers all of    *)
(* them.                                                                   *)
(***************************************************************************)
EXTENDS Namespace, FiniteLaws, TLAPS

\* A leaf that names no prover is Zenon's.
USE ZenonT(60)

Inode == [kind : {"dir", "file", "symlink"}, nlink : Int, size : Nat]

\* No directory has this number, now or later.
NeverDir(i) == i \in InodeId /\ i < next /\ ~IsDir(i)

-----------------------------------------------------------------------------
(* The store *)

StoreTypes ==
    /\ next \in Nat /\ next > RootInode
    /\ \A i \in DOMAIN node : i \in InodeId /\ i < next /\ node[i] \in Inode
    /\ IsDir(RootInode)
    /\ IsFiniteSet(DOMAIN dirent)
    /\ \A k \in DOMAIN dirent : k \in Key /\ dirent[k] \in InodeId /\ dirent[k] < next
                                /\ dirent[k] # RootInode
    /\ data \in [InodeId -> Nat]
    /\ \A i \in InodeId : data[i] > 0 => NeverDir(i)
    /\ \A i \in lost : NeverDir(i)
    /\ \A i \in known : i \in Nat /\ i < next

\* NoDangling, and every directory but the root has one name.
Names ==
    /\ \A k \in DOMAIN dirent : dirent[k] \in DOMAIN node \cup lost /\ IsDir(k[1])
    /\ \A i \in DOMAIN node :
          IsDir(i) /\ i # RootInode => Cardinality(Dirents(i)) = 1

\* No set of directories is closed under taking parents unless it has the
\* root: nothing hangs below itself.
Rooted(S) == \E i \in S : \/ ~IsDir(i) \/ i = RootInode
                          \/ \A k \in Dirents(i) : k[1] \notin S

Acyclic == \A S \in SUBSET InodeId : S # {} => Rooted(S)

Links ==
    /\ \A i \in DOMAIN node \ lost :
          ~IsDir(i) => node[i].nlink = Cardinality(Dirents(i))
    /\ \A i \in DOMAIN node :
          IsDir(i) => node[i].nlink >= 2 + Cardinality(SubDirs(i))

\* A bulk write has put bytes there that its node is yet to cover.
BulkCovers(i) ==
    \E c \in Client : op[c].kind = "bulk" /\ op[c].inode = i /\ op[c].size >= data[i]

Sizes ==
    \A i \in DOMAIN node \ (torn \cup lost) : data[i] > node[i].size => BulkCovers(i)

Owned ==
    \A i \in InodeId \ (torn \cup lost) :
        data[i] > 0 => i \in DOMAIN node
                       \/ \E c \in Client : i \in {op[c].free, op[c].inode}

StoreInv == StoreTypes /\ Names /\ Acyclic /\ Links /\ Sizes /\ Owned

-----------------------------------------------------------------------------
(* The operations in flight *)

\* The names the commit takes, those it gives to an inode, and those it takes
\* from it; of these, the names of directories in one.
Touched(b) == b.unlink \cup DOMAIN b.link

Gained(b, i) == {k \in DOMAIN b.link : b.link[k] = i}

Dropped(b, i) == {k \in Touched(b) \cap DOMAIN dirent : dirent[k] = i}

MadeDir(b, i) == i \in DOMAIN b.set /\ b.set[i].kind = "dir"

GainedDirs(b, i) ==
    {k \in DOMAIN b.link : k[1] = i /\ (IsDir(b.link[k]) \/ MadeDir(b, b.link[k]))}

DroppedDirs(b, i) ==
    {k \in Touched(b) \cap DOMAIN dirent : k[1] = i /\ IsDir(dirent[k])}

\* Climbing from p never meets src.
Apart(p, src) ==
    \E A \in SUBSET InodeId :
        /\ p \in A /\ src \notin A
        /\ \A i \in A : IsDir(i) /\ (i = RootInode \/ \E k \in Dirents(i) : k[1] \in A)

New(b) == IF b.next = 0 THEN {} ELSE {next}

BatchTypes(o) ==
    LET b == o.batch
    IN  /\ DOMAIN o.seen \subseteq DOMAIN b.set
        /\ \A i \in DOMAIN b.set : i \in InodeId /\ b.set[i] \in Inode
        /\ \A i \in DOMAIN o.seen : o.seen[i] \in Inode /\ o.seen[i].kind = b.set[i].kind
        /\ b.del \subseteq InodeId /\ b.unlink \subseteq Key /\ DOMAIN b.link \subseteq Key
        /\ \A k, l \in DOMAIN b.link : k = l
        /\ DOMAIN b.set \subseteq DOMAIN o.seen \cup New(b)

\* The nodes it writes or removes.
BatchNodes(o) ==
    LET b == o.batch
    IN  /\ \A i \in DOMAIN o.seen :
              IF o.seen[i].kind = "dir"
              THEN i \in o.locks /\ i \in DOMAIN node /\ node[i] = o.seen[i]
              ELSE NeverDir(i) /\ (i \in o.locks \/ o.kind = "bulk")
        /\ \A i \in b.del :
              /\ i \in o.locks /\ i \in DOMAIN node /\ i \notin DOMAIN b.set /\ i # RootInode
              /\ \A k \in DOMAIN dirent : k[1] # i
              /\ i \notin lost => Dirents(i) = Dropped(b, i)
              /\ Gained(b, i) = {} /\ (IsDir(i) \/ o.free = i)
        /\ b.next # 0 => /\ b.next = next + 1 /\ b.del = {} /\ o.kind = "create" /\ o.free = 0
                         /\ next \in DOMAIN b.set \ DOMAIN o.seen
                         /\ Cardinality(Gained(b, next)) = 1
                         /\ b.set[next].nlink = IF b.set[next].kind = "dir" THEN 2 ELSE 1

\* The names it adds and removes.
BatchNames(o) ==
    LET b == o.batch
    IN  /\ \A k \in Touched(b) : k[1] \in o.locks
        /\ \A k \in DOMAIN b.link :
              /\ IsDir(k[1]) /\ k[1] \notin b.del
              /\ \/ b.link[k] \in New(b)
                 \/ b.link[k] \in DOMAIN o.seen \cap o.locks /\ ~IsDir(b.link[k])
                 \/ /\ o.kind = "rename"
                    /\ \E u \in b.unlink \cap DOMAIN dirent :
                          dirent[u] = b.link[k] /\ u # k
                    /\ IsDir(b.link[k]) => Apart(k[1], b.link[k])

\* The links it counts.
BatchLinks(o) ==
    LET b == o.batch
    IN  /\ \A i \in InodeId \ (b.del \cup New(b)) :
              IF i \in DOMAIN o.seen /\ o.seen[i].kind # "dir"
              THEN b.set[i].nlink =
                     o.seen[i].nlink + Cardinality(Gained(b, i)) - Cardinality(Dropped(b, i))
              ELSE Cardinality(Gained(b, i)) = Cardinality(Dropped(b, i))
        /\ \A i \in InodeId \ (b.del \cup New(b)) :
              IF i \in DOMAIN o.seen /\ o.seen[i].kind = "dir"
              THEN b.set[i].nlink >=
                     o.seen[i].nlink + Cardinality(GainedDirs(b, i))
                                     - Cardinality(DroppedDirs(b, i))
              ELSE Cardinality(GainedDirs(b, i)) <= Cardinality(DroppedDirs(b, i))

\* The sizes it writes: only a Setattr shortens a file, to a size that its
\* data ends before; a bulk write's node covers its bytes.
BatchSizes(o) ==
    LET b == o.batch
    IN  /\ o.inode # 0 => o.inode \in DOMAIN b.set
        /\ \A i \in DOMAIN o.seen :
              IF o.kind = "setattr"
              THEN i = o.inode /\ b.set[i].size = o.size
              ELSE b.set[i].size >= o.seen[i].size
        /\ o.kind = "bulk" => b.set[o.inode].size >= o.size

BatchOK(o) == BatchTypes(o) /\ BatchNodes(o) /\ BatchNames(o) /\ BatchLinks(o)
              /\ BatchSizes(o)

OpShape(o) ==
    /\ o = [pc |-> o.pc, kind |-> o.kind, locks |-> o.locks, free |-> o.free,
            batch |-> o.batch, seen |-> o.seen, inode |-> o.inode, size |-> o.size]
    /\ o.pc \in {"idle", "stat", "bulk", "commit", "free"}
    /\ o.free \in InodeId \cup {0} /\ o.size \in Nat /\ o.inode \in Nat
    /\ o.batch.next \in Nat

OpOK(o) ==
    /\ OpShape(o)
    /\ o.pc = "idle" => o = Idle
    /\ o.pc # "commit" => o.batch.next = 0
    /\ o.kind = "setattr" =>
          /\ o.pc \in {"stat", "commit"} /\ o.locks = {o.inode} /\ o.free = 0
          /\ NeverDir(o.inode) /\ o.inode \in DOMAIN node
          /\ o.inode \in torn \cup lost \/ data[o.inode] <= o.size \/ BulkCovers(o.inode)
    /\ o.kind = "bulk" =>
          o.pc \in {"bulk", "commit"} /\ NeverDir(o.inode) /\ o.free = 0
    /\ o.kind \notin {"setattr", "bulk"} => o.inode = 0
    /\ o.pc = "stat" => o.kind = "setattr"
    /\ o.pc = "bulk" => o.kind = "bulk"
    /\ o.pc = "free" => o.free \in InodeId
    /\ o.pc = "commit" => BatchOK(o)

OpsInv ==
    /\ DOMAIN op = Client
    /\ \A c \in Client : OpOK(op[c])
    /\ \A c, d \in Client : c # d =>
          /\ op[c].locks \cap op[d].locks = {}
          /\ op[c].batch.next = 0 \/ op[d].batch.next = 0
          /\ op[c].kind # "rename" \/ op[d].kind # "rename"

FlushInv ==
    /\ flush = [inode |-> flush.inode, nn |-> flush.nn, end |-> flush.end]
    /\ flush.end \in Nat /\ flush.nn \in Inode /\ flush.nn.kind # "dir"
    /\ flush.inode # 0 => NeverDir(flush.inode)

\* What a step of somebody else has to leave alone for a batch to stay right:
\* directories and names under the locks of its operation.
Keeps(o) ==
    /\ lost \subseteq lost' /\ \A i : NeverDir(i) => NeverDir(i)'
    /\ o.batch.next # 0 => next' = next
    /\ \A i \in o.locks : /\ i \in DOMAIN node => i \in DOMAIN node'
                          /\ IsDir(i) => node'[i] = node[i]
    /\ \A k : k[1] \in o.locks =>
          /\ k \in DOMAIN dirent' <=> k \in DOMAIN dirent
          /\ k \in DOMAIN dirent => /\ dirent'[k] = dirent[k]
                                    /\ IsDir(dirent[k])' <=> IsDir(dirent[k])
    /\ \A i \in o.locks \cap DOMAIN node :
          i \notin lost' /\ (\A k \in Dirents(i) : k[1] \in o.locks)
          => Dirents(i)' \subseteq Dirents(i)
    /\ o.kind = "rename" => \A p \in o.locks : \A s : Apart(p, s) => Apart(p, s)'

\* A step that leaves all directories and names alone.
SameDirs ==
    /\ UNCHANGED <<dirent, next>> /\ lost \subseteq lost' /\ DOMAIN node \subseteq DOMAIN node'
    /\ \A i : (IsDir(i)' <=> IsDir(i)) /\ (IsDir(i) => node'[i] = node[i])

\* What a Setattr that is in flight has to find: it cut the data off.
CutStays(o) ==
    o.kind = "setattr" =>
        \A i : i = o.inode => \/ i \in torn' \cup lost' \/ data'[i] <= o.size
                              \/ BulkCovers(i)'

-----------------------------------------------------------------------------
(* The walk *)

\* The directories a LookupPath has come through: a name that leads to one of
\* them still does if the directory is still there.
Trail(a) ==
    /\ a \in [0 .. Len(walk.done) -> InodeId]
    /\ a[0] = RootInode /\ a[Len(walk.done)] = walk.cur
    /\ \A n \in 0 .. Len(walk.done) : a[n] < next
    /\ \A n \in 1 .. Len(walk.done) :
          IsDir(a[n]) => /\ <<a[n - 1], walk.done[n]>> \in DOMAIN dirent
                         /\ dirent[<<a[n - 1], walk.done[n]>>] = a[n]

WalkInv ==
    /\ walk = [done |-> walk.done, left |-> walk.left, cur |-> walk.cur]
    /\ walk.done \in Seq(Name) /\ walk.left \in Seq(Name)
    /\ Walking => /\ \A c \in Client : op[c].kind # "rename"
                  /\ \E a \in [0 .. Len(walk.done) -> InodeId] : Trail(a)

NamespaceInv == clashed \/ (StoreInv /\ OpsInv /\ FlushInv /\ WalkInv)

-----------------------------------------------------------------------------
(* What a commit does *)

\* An inode that is being made has no node, no name and no data, and is no
\* directory yet.
LEMMA NewIsFresh ==
    ASSUME StoreTypes
    PROVE  /\ next \notin DOMAIN node /\ ~IsDir(next) /\ Dirents(next) = {}
           /\ \A i : NeverDir(i) => i # next
<1>1. next \notin DOMAIN node /\ Dirents(next) = {}
    BY SMTT(30) DEF StoreTypes, Dirents
<1> QED
    BY SMTT(30), <1>1 DEF StoreTypes, IsDir, NeverDir

\* T is the finite set S without the elements D and with the elements G.
Exchanges(S, D, G, T) ==
    /\ IsFiniteSet(S) /\ IsFiniteSet(G) /\ D \subseteq S
    /\ T = (S \ D) \cup G /\ \A x \in G : x \in S => x \in D

\* A directory other than the root has exactly one name.
LEMMA OneName ==
    ASSUME SetLaws, StoreTypes, Names, NEW i, IsDir(i), i # RootInode
    PROVE  \E k : Dirents(i) = {k}
<1>1. IsFiniteSet(Dirents(i))
    <2>1. Dirents(i) \subseteq DOMAIN dirent
        BY DEF Dirents
    <2> QED
        BY <2>1 DEF StoreTypes, SetLaws, SubsetLaw
<1>2. Cardinality(Dirents(i)) = 1
    BY DEF Names, IsDir
<1> QED
    BY <1>1, <1>2 DEF SetLaws, SingletonLaw

\* A batch stays right as long as the others leave alone what it locked.
LEMMA BatchStays ==
    ASSUME NEW o, StoreTypes, StoreTypes', BatchOK(o), Keeps(o)
    PROVE  BatchOK(o)'
<1> DEFINE b == o.batch
<1>1. b = o.batch /\ BatchTypes(o) /\ BatchNodes(o) /\ BatchNames(o) /\ BatchLinks(o)
      /\ BatchSizes(o)
    BY DEF BatchOK
<1>2. New(b)' = New(b)
    BY DEF New, Keeps
<1>3. Touched(b)' = Touched(b) /\ \A k \in Touched(b) : k[1] \in o.locks
    BY <1>1 DEF Touched, BatchNames
<1>4. \A i : Gained(b, i)' = Gained(b, i)
    BY DEF Gained
<1>5. /\ lost \subseteq lost' /\ \A i : NeverDir(i) => NeverDir(i)'
      /\ \A i \in o.locks : /\ i \in DOMAIN node => i \in DOMAIN node'
                            /\ IsDir(i) => node'[i] = node[i]
      /\ \A k \in Touched(b) :
             /\ k \in DOMAIN dirent' <=> k \in DOMAIN dirent
             /\ k \in DOMAIN dirent => /\ dirent'[k] = dirent[k]
                                       /\ IsDir(dirent[k])' <=> IsDir(dirent[k])
    BY <1>3 DEF Keeps
<1>6. \A i : Dropped(b, i)' = Dropped(b, i) /\ DroppedDirs(b, i)' = DroppedDirs(b, i)
    <2>1. ASSUME NEW i, NEW k
          PROVE  /\ k \in Dropped(b, i)' <=> k \in Dropped(b, i)
                 /\ k \in DroppedDirs(b, i)' <=> k \in DroppedDirs(b, i)
        BY <1>3, <1>5 DEF Dropped, DroppedDirs
    <2> QED
        BY SMTT(30), <2>1
<1>7. \A i \in o.locks : IsDir(i) => IsDir(i)'
    BY <1>5 DEF IsDir
<1>8. \A i \in DOMAIN o.seen : IsDir(i) \/ NeverDir(i)
    BY <1>1 DEF BatchNodes, IsDir, BatchTypes
<1>9. ASSUME NEW k \in DOMAIN b.link
      PROVE  IsDir(b.link[k]) \/ MadeDir(b, b.link[k])
             <=> IsDir(b.link[k])' \/ MadeDir(b, b.link[k])
    <2>1. CASE b.link[k] \in New(b)
        <3>1. b.link[k] = next /\ next' = next
            BY <2>1 DEF New, Keeps
        <3>3. next \notin DOMAIN node /\ next' \notin DOMAIN node'
            BY SMTT(30) DEF StoreTypes
        <3>2. ~IsDir(b.link[k]) /\ ~IsDir(b.link[k])'
            BY <3>1, <3>3 DEF IsDir
        <3> QED
            BY <3>2
    <2>2. CASE b.link[k] \in DOMAIN o.seen /\ ~IsDir(b.link[k])
        BY <1>5, <1>8, <2>2 DEF NeverDir
    <2>3. CASE \E u \in b.unlink \cap DOMAIN dirent : dirent[u] = b.link[k]
        <3>1. PICK u \in Touched(b) : u \in DOMAIN dirent /\ dirent[u] = b.link[k]
            BY <2>3 DEF Touched
        <3> QED
            BY <1>5, <3>1
    <2> QED
        BY <1>1, <2>1, <2>2, <2>3 DEF BatchNames
<1>10. \A i : GainedDirs(b, i)' = GainedDirs(b, i)
    <2>2. ASSUME NEW i
          PROVE  GainedDirs(b, i)' = GainedDirs(b, i)
        BY <1>9 DEF GainedDirs, MadeDir
    <2> QED
        BY <2>2
<1>11. BatchTypes(o)' /\ BatchSizes(o)'
    BY <1>1, <1>2 DEF BatchTypes, BatchSizes, InodeId, Key, Inode
<1>12. BatchLinks(o)'
    BY <1>1, <1>2, <1>4, <1>6, <1>10 DEF BatchLinks, InodeId
<1>13. BatchNames(o)'
    <2>1. ASSUME NEW k \in DOMAIN b.link
          PROVE  /\ IsDir(k[1])' /\ k[1] \notin b.del
                 /\ \/ b.link[k] \in New(b)'
                    \/ b.link[k] \in DOMAIN o.seen \cap o.locks /\ ~IsDir(b.link[k])'
                    \/ /\ o.kind = "rename"
                       /\ \E u \in b.unlink \cap DOMAIN dirent' :
                             dirent'[u] = b.link[k] /\ u # k
                       /\ IsDir(b.link[k])' => Apart(k[1], b.link[k])'
        <3>1. k[1] \in o.locks /\ IsDir(k[1]) /\ k[1] \notin b.del
            BY <1>1, <1>3 DEF BatchNames, Touched
        <3>2. IsDir(k[1])'
            BY <1>7, <3>1
        <3>3. CASE b.link[k] \in DOMAIN o.seen \cap o.locks /\ ~IsDir(b.link[k])
            BY <1>5, <1>8, <3>1, <3>2, <3>3 DEF NeverDir
        <3>4. CASE /\ o.kind = "rename"
                   /\ \E u \in b.unlink \cap DOMAIN dirent : dirent[u] = b.link[k] /\ u # k
                   /\ IsDir(b.link[k]) => Apart(k[1], b.link[k])
            <4>1. PICK u \in b.unlink \cap DOMAIN dirent : dirent[u] = b.link[k] /\ u # k
                BY <3>4
            <4>2. u \in DOMAIN dirent' /\ dirent'[u] = b.link[k]
                  /\ (IsDir(b.link[k])' => IsDir(b.link[k]))
                BY <1>5, <4>1 DEF Touched
            <4>3. IsDir(b.link[k])' => Apart(k[1], b.link[k])'
                BY <3>1, <3>4, <4>2 DEF Keeps
            <4> QED
                BY <3>1, <3>2, <3>4, <4>1, <4>2, <4>3
        <3> QED
            BY <1>1, <1>2, <3>1, <3>2, <3>3, <3>4 DEF BatchNames
    <2> QED
        BY <1>3, <2>1 DEF BatchNames
<1>14. BatchNodes(o)'
    <2>1. \A i \in DOMAIN o.seen :
             IF o.seen[i].kind = "dir"
             THEN i \in o.locks /\ i \in DOMAIN node' /\ node'[i] = o.seen[i]
             ELSE NeverDir(i)' /\ (i \in o.locks \/ o.kind = "bulk")
        <3>1. SUFFICES ASSUME NEW i \in DOMAIN o.seen
                       PROVE  IF o.seen[i].kind = "dir"
                              THEN i \in o.locks /\ i \in DOMAIN node' /\ node'[i] = o.seen[i]
                              ELSE NeverDir(i)' /\ (i \in o.locks \/ o.kind = "bulk")
            OBVIOUS
        <3>2. IF o.seen[i].kind = "dir"
              THEN i \in o.locks /\ i \in DOMAIN node /\ node[i] = o.seen[i]
              ELSE NeverDir(i) /\ (i \in o.locks \/ o.kind = "bulk")
            BY <1>1 DEF BatchNodes
        <3>3. o.seen[i].kind = "dir" => IsDir(i)
            BY <3>2 DEF IsDir
        <3> QED
            BY <1>5, <3>2, <3>3
    <2>2. ASSUME NEW i \in b.del
          PROVE  /\ i \in o.locks /\ i \in DOMAIN node' /\ i \notin DOMAIN b.set
                 /\ i # RootInode
                 /\ \A k \in DOMAIN dirent' : k[1] # i
                 /\ i \notin lost' => Dirents(i)' = Dropped(b, i)'
                 /\ Gained(b, i)' = {} /\ (IsDir(i)' \/ o.free = i)
        <3>1. /\ i \in o.locks /\ i \in DOMAIN node /\ i \notin DOMAIN b.set
              /\ i # RootInode /\ \A k \in DOMAIN dirent : k[1] # i
              /\ i \notin lost => Dirents(i) = Dropped(b, i)
              /\ Gained(b, i) = {} /\ (IsDir(i) \/ o.free = i)
            BY <1>1, <2>2 DEF BatchNodes
        <3>2. i \in DOMAIN node' /\ (IsDir(i)' \/ o.free = i)
            BY <1>5, <1>7, <3>1
        <3>3. \A k \in DOMAIN dirent' : k[1] # i
            BY <3>1 DEF Keeps
        <3>4. ASSUME i \notin lost'
              PROVE  Dirents(i)' = Dropped(b, i)'
            <4>1. Dirents(i) = Dropped(b, i)
                BY <1>5, <3>1, <3>4
            <4>2. \A k \in Dirents(i) : k[1] \in o.locks
                BY <1>3, <4>1 DEF Dropped
            <4>3. Dirents(i)' \subseteq Dirents(i)
                BY <3>1, <3>4, <4>2 DEF Keeps
            <4>4. Dropped(b, i)' \subseteq Dirents(i)'
                BY DEF Dropped, Dirents
            <4> QED
                BY <1>6, <4>1, <4>3, <4>4
        <3> QED
            BY <1>4, <3>1, <3>2, <3>3, <3>4
    <2>3. b.next # 0 => /\ b.next = next' + 1 /\ b.del = {} /\ o.kind = "create" /\ o.free = 0
                        /\ next' \in DOMAIN b.set \ DOMAIN o.seen
                        /\ Cardinality(Gained(b, next)') = 1
                        /\ b.set[next'].nlink = IF b.set[next'].kind = "dir" THEN 2 ELSE 1
        <3>1. b.next # 0 => Gained(b, next)' = Gained(b, next)
            BY DEF Keeps, Gained
        <3> QED
            BY <1>1, <3>1 DEF BatchNodes, Keeps
    <2> QED
        BY <2>1, <2>2, <2>3 DEF BatchNodes, RootInode
<1> QED
    BY <1>11, <1>12, <1>13, <1>14 DEF BatchOK

\* So does an operation in flight.
LEMMA OpStays ==
    ASSUME NEW o, StoreTypes, StoreTypes', OpOK(o), Keeps(o), CutStays(o)
    PROVE  OpOK(o)'
<1>1. OpShape(o)' <=> OpShape(o)
    BY DEF OpShape, InodeId
<1>2. o.pc = "commit" => BatchOK(o)'
    BY BatchStays DEF OpOK
<1>3. \A i : NeverDir(i) => NeverDir(i)'
    BY DEF Keeps
<1>4. o.kind = "setattr" => o.inode \in DOMAIN node'
    BY DEF Keeps, OpOK
<1>5. Idle' = Idle /\ InodeId' = InodeId
    BY DEF Idle, EmptyBatch, InodeId
<1> QED
    BY <1>1, <1>2, <1>3, <1>4, <1>5 DEF OpOK, CutStays

\* The operations stay right when one of them changes and the others are left
\* alone.
LEMMA OpsStay ==
    ASSUME NEW c \in Client, StoreTypes, StoreTypes', OpsInv, DOMAIN op' = Client,
           OpOK(op[c])',
           \A d \in Client : d # c =>
               /\ op'[d] = op[d] /\ Keeps(op[d]) /\ CutStays(op[d])
               /\ op'[c].locks \cap op[d].locks = {}
               /\ op'[c].batch.next = 0 \/ op[d].batch.next = 0
               /\ op'[c].kind # "rename" \/ op[d].kind # "rename"
    PROVE  OpsInv'
<1>1. ASSUME NEW d \in Client, d # c
      PROVE  OpOK(op[d])'
    <2>1. PICK o : o = op[d]
        OBVIOUS
    <2>2. OpOK(o)'
        BY <1>1, <2>1, OpStays DEF OpsInv
    <2>3. o = op'[d]
        BY <1>1, <2>1
    <2> QED
        BY <2>2, <2>3
<1>2. \A d \in Client : OpOK(op[d])'
    BY <1>1
<1>3. ASSUME NEW d \in Client, NEW e \in Client, d # e
      PROVE  /\ op'[d].locks \cap op'[e].locks = {}
             /\ op'[d].batch.next = 0 \/ op'[e].batch.next = 0
             /\ op'[d].kind # "rename" \/ op'[e].kind # "rename"
    <2>1. CASE d # c /\ e # c
        BY <1>3, <2>1 DEF OpsInv
    <2>2. CASE d = c
        BY <1>3, <2>2
    <2>3. CASE e = c
        BY <1>3, <2>3
    <2> QED
        BY <2>1, <2>2, <2>3
<1> QED
    BY <1>2, <1>3 DEF OpsInv

\* Nothing has to be found right of an operation that is over.
LEMMA IdleOK ==
    OpOK(Idle) /\ OpOK(Idle)' /\ Idle.locks = {} /\ Idle.batch.next = 0
    /\ Idle.kind = "none" /\ Idle.free = 0 /\ Idle.inode = 0
BY DEF OpOK, OpShape, Idle, EmptyBatch

Inv == StoreInv /\ OpsInv /\ FlushInv /\ WalkInv

\* Committing a batch keeps the invariant: the store it leaves is sound, and the
\* batches of the operations still in flight remain right.
LEMMA CommitKeepsInv ==
    ASSUME SetLaws
    PROVE  \A c \in Client : Inv /\ Commit(c) => Inv'

\* Merge and One, pointwise.
<1>MergeFacts.
    ASSUME NEW f, NEW g, NEW gone
    PROVE  /\ \A x : x \in DOMAIN Merge(f, g, gone)
                     <=> (x \in DOMAIN f \/ x \in DOMAIN g) /\ x \notin gone
           /\ \A x \in DOMAIN Merge(f, g, gone) :
                 Merge(f, g, gone)[x] = IF x \in DOMAIN g THEN g[x] ELSE f[x]
    BY DEF Merge

\* A commit writes and removes the nodes and the dirents of its batch.
<1>CommitEffect.
    ASSUME NEW c \in Client, Commit(c), NEW b, b = op[c].batch
    PROVE  /\ \A i : i \in DOMAIN node'
                     <=> (i \in DOMAIN node \/ i \in DOMAIN b.set) /\ i \notin b.del
           /\ \A i \in DOMAIN node' :
                 node'[i] = IF i \in DOMAIN b.set THEN b.set[i] ELSE node[i]
           /\ \A k : k \in DOMAIN dirent'
                     <=> (k \in DOMAIN dirent /\ k \notin b.unlink) \/ k \in DOMAIN b.link
           /\ \A k \in DOMAIN dirent' :
                 dirent'[k] = IF k \in DOMAIN b.link THEN b.link[k] ELSE dirent[k]
           /\ next' = IF b.next = 0 THEN next ELSE b.next
    <2> USE <1>CommitEffect
    <2>1. /\ node' = Merge(node, b.set, b.del)
          /\ dirent' = Merge(dirent, b.link, b.unlink \ DOMAIN b.link)
          /\ next' = IF b.next = 0 THEN next ELSE b.next
        BY DEF Commit
    <2> QED
        BY SMTT(30), <2>1, <1>MergeFacts

\* Each inode loses the names the batch drops and has those it gains.
<1>DirentsAfter.
    ASSUME NEW c \in Client, Commit(c), NEW i, NEW b, b = op[c].batch
    PROVE  Dirents(i)' = (Dirents(i) \ Dropped(b, i)) \cup Gained(b, i)
    <2> USE <1>DirentsAfter
    <2>1. ASSUME NEW k
          PROVE  k \in Dirents(i)' <=> k \in (Dirents(i) \ Dropped(b, i)) \cup Gained(b, i)
        BY SMTT(30), <1>CommitEffect DEF Dirents, Dropped, Gained, Touched
    <2> QED
        BY <2>1

\* The facts about a batch that is about to be committed.
<1>Committing.
    ASSUME NEW c \in Client, Commit(c), OpsInv
    PROVE  op[c].pc = "commit" /\ OpOK(op[c]) /\ OpShape(op[c]) /\ BatchOK(op[c])
    BY <1>Committing DEF Commit, OpsInv, OpOK

\* The directories after a commit: it removes some, and may make a new one.
<1>DirsAfter.
    ASSUME NEW c \in Client, Commit(c), StoreTypes, OpsInv, NEW b, b = op[c].batch
    PROVE  \A i : IsDir(i)' <=> i \notin b.del
                                /\ (IsDir(i) \/ (i \in New(b) /\ MadeDir(b, i)))
    <2> USE <1>DirsAfter
    <2>1. BatchTypes(op[c]) /\ BatchNodes(op[c])
        BY <1>Committing DEF BatchOK
    <2>2. \A i : IsDir(i)' <=> i \notin b.del
                               /\ (MadeDir(b, i) \/ (i \notin DOMAIN b.set /\ IsDir(i)))
        BY SMTT(30), <1>CommitEffect DEF IsDir, MadeDir
    <2>3. \A i \in DOMAIN op[c].seen : MadeDir(b, i) <=> IsDir(i)
        BY SMTT(30), <2>1 DEF BatchTypes, BatchNodes, MadeDir, IsDir, NeverDir
    <2>4. \A i \in DOMAIN b.set : i \in DOMAIN op[c].seen \/ i \in New(b)
        BY <2>1 DEF BatchTypes
    <2>5. \A i \in New(b) : i = next
        BY DEF New
    <2> QED
        BY <2>2, <2>3, <2>4, <2>5, NewIsFresh DEF MadeDir

\* A number that no directory has stays so.
<1>NeverDirStays.
    ASSUME NEW c \in Client, Commit(c), StoreTypes, OpsInv
    PROVE  next' \in Nat /\ next' >= next /\ \A i : NeverDir(i) => NeverDir(i)'
    <2> USE <1>NeverDirStays
    <2> DEFINE b == op[c].batch
    <2>1. b = op[c].batch /\ b.next \in Nat /\ (b.next # 0 => b.next = next + 1)
        BY <1>Committing DEF BatchOK, BatchNodes, OpShape
    <2> HIDE DEF b
    <2>2. \A i : IsDir(i)' => IsDir(i) \/ i = next
        <3>1. \A i \in New(b) : i = next
            BY DEF New
        <3> QED
            BY <2>1, <3>1, <1>DirsAfter
    <2>3. next' \in Nat /\ next' >= next
        BY SMTT(30), <2>1, <1>CommitEffect DEF StoreTypes
    <2> QED
        BY SMTT(30), <2>2, <2>3 DEF NeverDir, StoreTypes, InodeId

\* Where a new name leads: to an inode that exists once the commit is done.
<1>LinkTargets.
    ASSUME NEW c \in Client, Commit(c), StoreTypes, Names, OpsInv,
           NEW b, b = op[c].batch, NEW k \in DOMAIN b.link
    PROVE  /\ b.link[k] \in InodeId /\ b.link[k] < next' /\ b.link[k] # RootInode
           /\ b.link[k] \in DOMAIN node' \/ b.link[k] \in lost
    <2> USE <1>LinkTargets
    <2>1. BatchTypes(op[c]) /\ BatchNodes(op[c]) /\ BatchNames(op[c])
        BY <1>Committing DEF BatchOK
    <2>2. next' \in Nat /\ next' >= next /\ next \in Nat /\ IsDir(RootInode)
        BY <1>NeverDirStays DEF StoreTypes
    <2> DEFINE i == b.link[k]
    <2>3. CASE i \in New(b)
        <3>1. b.next # 0 /\ i = next
            BY <2>3 DEF New
        <3>2. i \in DOMAIN b.set /\ b.next = next + 1 /\ b.del = {} /\ i \in InodeId
            BY <2>1, <3>1 DEF BatchNodes, BatchTypes
        <3>3. i \in DOMAIN node' /\ next' = next + 1
            BY SMTT(30), <3>1, <3>2, <1>CommitEffect
        <3>4. i # RootInode
            BY <3>1, NewIsFresh DEF StoreTypes
        <3> QED
            BY SMTT(30), <2>2, <3>1, <3>2, <3>3, <3>4
    <2>4. CASE i \in DOMAIN op[c].seen /\ ~IsDir(i)
        <3>1. NeverDir(i) /\ i \in DOMAIN b.set /\ i \notin b.del
            BY <2>1, <2>4 DEF BatchNodes, BatchTypes, IsDir
        <3>2. i \in DOMAIN node'
            BY <3>1, <1>CommitEffect
        <3> QED
            BY SMTT(30), <2>2, <2>4, <3>1, <3>2 DEF NeverDir, InodeId
    <2>5. CASE \E u \in b.unlink \cap DOMAIN dirent : dirent[u] = i
        <3>1. i \in InodeId /\ i < next /\ i # RootInode /\ i \in DOMAIN node \cup lost
            BY <2>5 DEF StoreTypes, Names
        <3>2. i \notin b.del
            BY <2>1 DEF BatchNodes, Gained
        <3>3. i \in DOMAIN node => i \in DOMAIN node'
            BY <3>2, <1>CommitEffect
        <3> QED
            BY SMTT(30), <2>2, <3>1, <3>3 DEF InodeId
    <2> QED
        BY <2>1, <2>3, <2>4, <2>5 DEF BatchNames

\* The inodes a commit makes lost are no directories.
<1>LostAfter.
    ASSUME NEW c \in Client, Commit(c), StoreTypes, OpsInv
    PROVE  lost \subseteq lost' /\ \A i \in lost' : NeverDir(i)
    <2> USE <1>LostAfter
    <2>1. BatchTypes(op[c]) /\ BatchNodes(op[c]) /\ OpOK(op[c])
        BY <1>Committing DEF BatchOK
    <2>2. lost' = lost \cup Stale(op[c].seen)
                       \cup (IF op[c].kind = "bulk" THEN Meets(op[c].inode) ELSE {})
        BY DEF Commit
    <2>3. \A i \in Stale(op[c].seen) : NeverDir(i)
        BY <2>1 DEF Stale, BatchNodes
    <2>4. op[c].kind = "bulk" => \A i \in Meets(op[c].inode) : NeverDir(i)
        BY <2>1 DEF Meets, OpOK
    <2> QED
        BY <2>2, <2>3, <2>4 DEF StoreTypes

\* A batch adds at most one name.
<1>LinkFinite.
    ASSUME NEW o, BatchTypes(o)
    PROVE  IsFiniteSet(DOMAIN o.batch.link)
    <2> USE <1>LinkFinite
    <2>1. CASE DOMAIN o.batch.link = {}
        BY <2>1 DEF SetLaws, EmptyLaw
    <2>2. ASSUME NEW k \in DOMAIN o.batch.link
          PROVE  IsFiniteSet(DOMAIN o.batch.link)
        <3>1. DOMAIN o.batch.link = {k}
            BY DEF BatchTypes
        <3> QED
            BY <3>1 DEF SetLaws, SingletonLaw
    <2> QED
        BY <2>1, <2>2

\* Types are kept.
<1>CommitTypes.
    ASSUME NEW c \in Client, Commit(c), StoreTypes, Names, OpsInv
    PROVE  StoreTypes'
    <2> USE <1>CommitTypes
    <2> DEFINE b == op[c].batch
    <2>1. b = op[c].batch
        OBVIOUS
    <2>2. BatchTypes(op[c]) /\ BatchNodes(op[c]) /\ BatchNames(op[c])
        BY <1>Committing DEF BatchOK
    <2>3. next' \in Nat /\ next' >= next /\ \A i : NeverDir(i) => NeverDir(i)'
        BY <1>NeverDirStays
    <2>4. ASSUME NEW i \in DOMAIN node'
          PROVE  i \in InodeId /\ i < next' /\ node'[i] \in Inode
        <3>1. CASE i \notin DOMAIN b.set
            <4>1. i \in DOMAIN node /\ node'[i] = node[i]
                BY SMTT(30), <2>1, <3>1, <1>CommitEffect
            <4> QED
                BY SMTT(30), <2>3, <4>1 DEF StoreTypes, InodeId
        <3>2. CASE i \in DOMAIN b.set
            <4>1. node'[i] \in Inode /\ i \in InodeId
                BY <2>1, <2>2, <3>2, <1>CommitEffect DEF BatchTypes
            <4>2. i < next'
                <5>1. CASE i \in DOMAIN op[c].seen
                    BY SMTT(30), <2>2, <2>3, <5>1 DEF BatchNodes, StoreTypes, NeverDir, InodeId
                <5>2. CASE i \in New(b)
                    <6>1. b.next # 0 /\ i = next
                        BY <5>2 DEF New
                    <6>2. next' = next + 1
                        BY <2>1, <2>2, <6>1, <1>CommitEffect DEF BatchNodes
                    <6> QED
                        BY SMTT(30), <6>1, <6>2 DEF StoreTypes
                <5> QED
                    BY <2>2, <3>2, <5>1, <5>2 DEF BatchTypes
            <4> QED
                BY <4>1, <4>2
        <3> QED
            BY <3>1, <3>2
    <2>5. IsDir(RootInode)'
        <3>1. RootInode \notin b.del
            BY <2>2 DEF BatchNodes
        <3> QED
            BY <2>1, <3>1, <1>DirsAfter DEF StoreTypes
    <2>6. IsFiniteSet(DOMAIN dirent')
        <3>1. DOMAIN dirent' \subseteq DOMAIN dirent \cup DOMAIN b.link
            BY <2>1, <1>CommitEffect
        <3>2. IsFiniteSet(DOMAIN dirent \cup DOMAIN b.link)
            BY <2>2, <1>LinkFinite DEF StoreTypes, SetLaws, UnionLaw
        <3> QED
            BY <3>1, <3>2 DEF SetLaws, SubsetLaw
    <2>7. ASSUME NEW k \in DOMAIN dirent'
          PROVE  /\ k \in Key /\ dirent'[k] \in InodeId /\ dirent'[k] < next'
                 /\ dirent'[k] # RootInode
        <3>1. CASE k \in DOMAIN b.link
            <4>1. dirent'[k] = b.link[k] /\ k \in Key
                BY <2>1, <2>2, <3>1, <1>CommitEffect DEF BatchTypes
            <4> QED
                BY <2>1, <3>1, <4>1, <1>LinkTargets
        <3>2. CASE k \notin DOMAIN b.link
            <4>1. k \in DOMAIN dirent /\ dirent'[k] = dirent[k]
                BY SMTT(30), <2>1, <3>2, <1>CommitEffect
            <4> QED
                BY SMTT(30), <2>3, <4>1 DEF StoreTypes, InodeId
        <3> QED
            BY <3>1, <3>2
    <2>8. data' = data /\ \A i \in lost' : NeverDir(i)'
        BY <2>3, <1>LostAfter DEF Commit
    <2>9. \A i \in known' : i \in Nat /\ i < next'
        <3>1. known' \subseteq known \cup {b.link[k] : k \in DOMAIN b.link}
            BY DEF Commit, Entries
        <3>2. \A k \in DOMAIN b.link : b.link[k] \in Nat /\ b.link[k] < next'
            BY SMTT(30), <2>1, <1>LinkTargets DEF InodeId
        <3> QED
            BY SMTT(30), <2>3, <3>1, <3>2 DEF StoreTypes
    <2>10. data' \in [InodeId -> Nat] /\ \A i \in InodeId : data'[i] > 0 => NeverDir(i)'
        BY <2>3, <2>8 DEF StoreTypes
    <2>11. next' > RootInode
        BY SMTT(30), <2>3 DEF StoreTypes, RootInode
    <2> QED
        BY <2>3, <2>4, <2>5, <2>6, <2>7, <2>8, <2>9, <2>10, <2>11 DEF StoreTypes

\* It has as many elements more as were added, and less as were taken away.
<1>Exchange.
    ASSUME NEW S, NEW D, NEW G, NEW T, Exchanges(S, D, G, T)
    PROVE  /\ Cardinality(S) \in Nat /\ Cardinality(D) \in Nat /\ Cardinality(G) \in Nat
           /\ Cardinality(T) = Cardinality(S) - Cardinality(D) + Cardinality(G)
    <2> USE <1>Exchange
    <2>1. IsFiniteSet(D) /\ IsFiniteSet(S \ D) /\ IsFiniteSet(S) /\ IsFiniteSet(G)
        BY DEF Exchanges, SetLaws, SubsetLaw
    <2>2. S \cap D = D /\ Cardinality({}) = 0
        BY DEF Exchanges, SetLaws, EmptyLaw
    <2>3. Cardinality(S \ D) = Cardinality(S) - Cardinality(D)
        BY <2>1, <2>2 DEF SetLaws, DifferenceLaw
    <2>4. Cardinality((S \ D) \cup G)
            = Cardinality(S \ D) + Cardinality(G) - Cardinality((S \ D) \cap G)
        BY <2>1 DEF SetLaws, UnionLaw
    <2>5. (S \ D) \cap G = {} /\ T = (S \ D) \cup G
        BY DEF Exchanges
    <2>6. Cardinality(S) \in Nat /\ Cardinality(D) \in Nat /\ Cardinality(G) \in Nat
        BY <2>1 DEF SetLaws, SizeLaw
    <2> QED
        BY SMTT(30), <2>2, <2>3, <2>4, <2>5, <2>6

\* The number of an inode's names after a commit.
<1>CountAfter.
    ASSUME NEW c \in Client, Commit(c), StoreTypes, OpsInv, NEW i, NEW b, b = op[c].batch
    PROVE  /\ Cardinality(Dirents(i)) \in Nat /\ Cardinality(Dropped(b, i)) \in Nat
           /\ Cardinality(Gained(b, i)) \in Nat
           /\ Cardinality(Dirents(i)') = Cardinality(Dirents(i))
                                         - Cardinality(Dropped(b, i)) + Cardinality(Gained(b, i))
    <2> USE <1>CountAfter
    <2>1. IsFiniteSet(DOMAIN dirent) /\ IsFiniteSet(DOMAIN b.link)
        BY <1>Committing, <1>LinkFinite DEF StoreTypes, BatchOK
    <2>2. Dirents(i) \subseteq DOMAIN dirent /\ Gained(b, i) \subseteq DOMAIN b.link
        BY DEF Dirents, Gained
    <2>3. IsFiniteSet(Dirents(i)) /\ IsFiniteSet(Gained(b, i))
        BY <2>1, <2>2 DEF SetLaws, SubsetLaw
    <2>4. /\ Dropped(b, i) \subseteq Dirents(i)
          /\ \A x \in Gained(b, i) : x \in Dirents(i) => x \in Dropped(b, i)
        BY DEF Dropped, Dirents, Gained, Touched
    <2>5. Dirents(i)' = (Dirents(i) \ Dropped(b, i)) \cup Gained(b, i)
        BY <1>DirentsAfter
    <2>6. Exchanges(Dirents(i), Dropped(b, i), Gained(b, i), Dirents(i)')
        BY <2>3, <2>4, <2>5 DEF Exchanges
    <2> QED
        BY SMTT(30), <2>6, <1>Exchange

\* The subdirectories of a directory after a commit.
<1>SubDirsAfter.
    ASSUME NEW c \in Client, Commit(c), StoreTypes, Names, OpsInv,
           NEW i, NEW b, b = op[c].batch
    PROVE  /\ Cardinality(SubDirs(i)) \in Nat /\ Cardinality(DroppedDirs(b, i)) \in Nat
           /\ Cardinality(GainedDirs(b, i)) \in Nat
           /\ Cardinality(SubDirs(i)') = Cardinality(SubDirs(i))
                     - Cardinality(DroppedDirs(b, i)) + Cardinality(GainedDirs(b, i))
    <2> USE <1>SubDirsAfter
    <2>1. BatchTypes(op[c]) /\ BatchNodes(op[c]) /\ BatchNames(op[c])
        BY <1>Committing DEF BatchOK
    <2>2. ASSUME NEW k
          PROVE  k \in SubDirs(i)'
                 <=> k \in (SubDirs(i) \ DroppedDirs(b, i)) \cup GainedDirs(b, i)
        <3>1. CASE k \in DOMAIN b.link
            <4>1. b.link[k] \notin b.del
                BY <2>1, <3>1 DEF BatchNodes, Gained
            <4>2. MadeDir(b, b.link[k]) => IsDir(b.link[k]) \/ b.link[k] \in New(b)
                BY SMTT(30), <2>1 DEF BatchTypes, BatchNodes, MadeDir, IsDir
            <4>3. IsDir(b.link[k])' <=> IsDir(b.link[k]) \/ MadeDir(b, b.link[k])
                BY <4>1, <4>2, <1>DirsAfter
            <4>4. k \in DOMAIN dirent' /\ dirent'[k] = b.link[k]
                BY <3>1, <1>CommitEffect
            <4>5. k \in SubDirs(i)' <=> k[1] = i /\ IsDir(b.link[k])'
                BY <4>4 DEF SubDirs
            <4>6. k \in GainedDirs(b, i)
                  <=> k[1] = i /\ (IsDir(b.link[k]) \/ MadeDir(b, b.link[k]))
                BY <3>1 DEF GainedDirs
            <4>7. k \in SubDirs(i) => k \in DroppedDirs(b, i)
                BY <3>1 DEF SubDirs, DroppedDirs, Touched
            <4> QED
                BY <4>3, <4>5, <4>6, <4>7
        <3>2. CASE k \notin DOMAIN b.link
            <4>1. k \notin GainedDirs(b, i)
                BY <3>2 DEF GainedDirs
            <4>2. CASE k \in DOMAIN dirent /\ k \notin b.unlink
                <5>1. k \in DOMAIN dirent' /\ dirent'[k] = dirent[k]
                    BY SMTT(30), <3>2, <4>2, <1>CommitEffect
                <5>2. dirent[k] \notin New(b)
                    <6>1. dirent[k] # next
                        BY SMTT(30), <4>2 DEF StoreTypes, InodeId
                    <6> QED
                        BY <6>1 DEF New
                <5>3. IsDir(dirent[k]) => dirent[k] \notin b.del
                    <6>1. SUFFICES ASSUME IsDir(dirent[k]), dirent[k] \in b.del
                                   PROVE  FALSE
                        OBVIOUS
                    <6>2. dirent[k] \notin lost
                        BY <6>1 DEF StoreTypes, NeverDir
                    <6>3. k \in Dropped(b, dirent[k])
                        BY SMTT(30), <2>1, <4>2, <6>1, <6>2 DEF BatchNodes, Dirents
                    <6> QED
                        BY <3>2, <4>2, <6>3 DEF Dropped, Touched
                <5>4. IsDir(dirent[k])' <=> IsDir(dirent[k])
                    BY <5>1, <5>2, <5>3, <1>DirsAfter
                <5>5. k \notin DroppedDirs(b, i)
                    BY <3>2, <4>2 DEF DroppedDirs, Touched
                <5> QED
                    BY <4>1, <4>2, <5>1, <5>4, <5>5 DEF SubDirs
            <4>3. CASE ~(k \in DOMAIN dirent /\ k \notin b.unlink)
                <5>1. k \notin DOMAIN dirent'
                    BY <3>2, <4>3, <1>CommitEffect
                <5> QED
                    BY <4>1, <4>3, <5>1 DEF SubDirs, DroppedDirs, Touched
            <4> QED
                BY <4>2, <4>3
        <3> QED
            BY <3>1, <3>2
    <2>3. SubDirs(i)' = (SubDirs(i) \ DroppedDirs(b, i)) \cup GainedDirs(b, i)
        BY <2>2
    <2>4. IsFiniteSet(DOMAIN dirent) /\ IsFiniteSet(DOMAIN b.link)
        BY <2>1, <1>LinkFinite DEF StoreTypes
    <2>5. SubDirs(i) \subseteq DOMAIN dirent /\ GainedDirs(b, i) \subseteq DOMAIN b.link
        BY DEF SubDirs, GainedDirs
    <2>6. IsFiniteSet(SubDirs(i)) /\ IsFiniteSet(GainedDirs(b, i))
        BY <2>4, <2>5 DEF SetLaws, SubsetLaw
    <2>7. /\ DroppedDirs(b, i) \subseteq SubDirs(i)
          /\ \A x \in GainedDirs(b, i) : x \in SubDirs(i) => x \in DroppedDirs(b, i)
        BY DEF DroppedDirs, SubDirs, GainedDirs, Touched
    <2>8. Exchanges(SubDirs(i), DroppedDirs(b, i), GainedDirs(b, i), SubDirs(i)')
        BY <2>6, <2>7, <2>3 DEF Exchanges
    <2> QED
        BY SMTT(30), <2>8, <1>Exchange

\* Every name leads to an inode and lies in a directory, and every directory
\* but the root has one name, after a commit too.
<1>CommitNames.
    ASSUME NEW c \in Client, Commit(c), StoreTypes, Names, OpsInv
    PROVE  Names'
    <2> USE <1>CommitNames
    <2> DEFINE b == op[c].batch
    <2>1. b = op[c].batch
        OBVIOUS
    <2>2. BatchTypes(op[c]) /\ BatchNodes(op[c]) /\ BatchNames(op[c]) /\ BatchLinks(op[c])
        BY <1>Committing DEF BatchOK
    <2>3. ASSUME NEW k \in DOMAIN dirent'
          PROVE  dirent'[k] \in DOMAIN node' \cup lost' /\ IsDir(k[1])'
        <3>1. CASE k \in DOMAIN b.link
            <4>1. dirent'[k] = b.link[k]
                BY <2>1, <3>1, <1>CommitEffect
            <4>2. b.link[k] \in DOMAIN node' \/ b.link[k] \in lost
                BY <2>1, <3>1, <1>LinkTargets
            <4>3. IsDir(k[1]) /\ k[1] \notin b.del
                BY <2>2, <3>1 DEF BatchNames
            <4>4. IsDir(k[1])'
                BY <2>1, <4>3, <1>DirsAfter
            <4> QED
                BY <4>1, <4>2, <4>4, <1>LostAfter
        <3>2. CASE k \notin DOMAIN b.link
            <4>1. k \in DOMAIN dirent /\ k \notin b.unlink /\ dirent'[k] = dirent[k]
                BY SMTT(30), <2>1, <3>2, <1>CommitEffect
            <4>2. dirent[k] \in DOMAIN node \cup lost /\ IsDir(k[1])
                BY <4>1 DEF Names
            <4>3. k[1] \notin b.del
                BY <2>2, <4>1 DEF BatchNodes
            <4>4. IsDir(k[1])'
                BY <2>1, <4>2, <4>3, <1>DirsAfter
            <4>5. dirent[k] \in b.del => dirent[k] \in lost
                <5>1. SUFFICES ASSUME dirent[k] \in b.del, dirent[k] \notin lost
                               PROVE  FALSE
                    OBVIOUS
                <5>2. k \in Dropped(b, dirent[k])
                    BY <2>2, <4>1, <5>1 DEF BatchNodes, Dirents
                <5> QED
                    BY <3>2, <4>1, <5>2 DEF Dropped, Touched
            <4>6. dirent[k] \in DOMAIN node' \/ dirent[k] \in lost
                BY <2>1, <4>2, <4>5, <1>CommitEffect
            <4> QED
                BY <4>1, <4>4, <4>6, <1>LostAfter
        <3> QED
            BY <3>1, <3>2
    <2>4. ASSUME NEW i, IsDir(i)', i # RootInode
          PROVE  Cardinality(Dirents(i)') = 1
        <3>1. i \notin b.del /\ (IsDir(i) \/ i \in New(b))
            BY <2>1, <2>4, <1>DirsAfter
        <3>2. /\ Cardinality(Dirents(i)) \in Nat /\ Cardinality(Dropped(b, i)) \in Nat
              /\ Cardinality(Gained(b, i)) \in Nat
              /\ Cardinality(Dirents(i)') = Cardinality(Dirents(i))
                                            - Cardinality(Dropped(b, i)) + Cardinality(Gained(b, i))
            BY <2>1, <1>CountAfter
        <3>3. CASE i \in New(b)
            <4>1. b.next # 0 /\ i = next
                BY <3>3 DEF New
            <4>2. Dirents(i) = {} /\ Dropped(b, i) = {}
                BY <4>1, NewIsFresh DEF Dropped, Dirents
            <4>3. Cardinality(Gained(b, i)) = 1
                BY <2>2, <4>1 DEF BatchNodes
            <4>4. Cardinality({}) = 0
                BY DEF SetLaws, EmptyLaw
            <4> QED
                BY SMTT(30), <3>2, <4>2, <4>3, <4>4
        <3>4. CASE i \notin New(b)
            <4>1. IsDir(i) /\ i \in DOMAIN node /\ i \in InodeId
                BY <3>1, <3>4 DEF StoreTypes, IsDir
            <4>2. Cardinality(Dirents(i)) = 1
                BY <2>4, <4>1 DEF Names
            <4>3. ~(i \in DOMAIN op[c].seen /\ op[c].seen[i].kind # "dir")
                BY <2>2, <4>1 DEF BatchNodes, NeverDir
            <4>4. Cardinality(Gained(b, i)) = Cardinality(Dropped(b, i))
                BY <2>2, <3>1, <3>4, <4>1, <4>3 DEF BatchLinks
            <4> QED
                BY SMTT(30), <3>2, <4>2, <4>4
        <3> QED
            BY <3>3, <3>4
    <2> QED
        BY <2>3, <2>4 DEF Names

\* Link counts are right after a commit, of the files that are not lost.
<1>CommitLinks.
    ASSUME NEW c \in Client, Commit(c), StoreTypes, Names, Links, OpsInv
    PROVE  Links'
    <2> USE <1>CommitLinks
    <2> DEFINE b == op[c].batch
    <2>1. b = op[c].batch
        OBVIOUS
    <2>2. BatchTypes(op[c]) /\ BatchNodes(op[c]) /\ BatchNames(op[c]) /\ BatchLinks(op[c])
        BY <1>Committing DEF BatchOK
    <2>3. /\ StoreTypes' /\ \A i \in DOMAIN node' : i \in InodeId
          /\ \A i \in DOMAIN op[c].seen : i \in lost'
                 \/ (i \in DOMAIN node /\ node[i] = op[c].seen[i] /\ i \notin lost)
        <3>1. lost \cup Stale(op[c].seen) \subseteq lost'
            BY DEF Commit
        <3> QED
            BY <3>1, <1>CommitTypes DEF StoreTypes, Stale
    <2>4. ASSUME NEW i \in DOMAIN node', i \notin lost', ~IsDir(i)'
          PROVE  node'[i].nlink = Cardinality(Dirents(i)')
        <3>1. i \notin b.del /\ ~IsDir(i) /\ i \in InodeId /\ i \notin lost
            <4>1. i \notin b.del /\ i \in InodeId
                BY <2>1, <2>3, <1>CommitEffect
            <4>2. i \notin lost
                BY <2>4, <1>LostAfter
            <4> QED
                BY <2>1, <2>4, <4>1, <4>2, <1>DirsAfter
        <3>2. /\ Cardinality(Dirents(i)) \in Nat /\ Cardinality(Dropped(b, i)) \in Nat
              /\ Cardinality(Gained(b, i)) \in Nat
              /\ Cardinality(Dirents(i)') = Cardinality(Dirents(i))
                                            - Cardinality(Dropped(b, i)) + Cardinality(Gained(b, i))
            BY <2>1, <1>CountAfter
        <3>3. CASE i \in New(b)
            <4>1. b.next # 0 /\ i = next
                BY <3>3 DEF New
            <4>2. Dirents(i) = {} /\ Dropped(b, i) = {}
                BY <4>1, NewIsFresh DEF Dropped, Dirents
            <4>3. /\ Cardinality(Gained(b, i)) = 1 /\ i \in DOMAIN b.set
                  /\ b.set[i].nlink = IF b.set[i].kind = "dir" THEN 2 ELSE 1
                BY <2>2, <4>1 DEF BatchNodes
            <4>4. Cardinality({}) = 0
                BY DEF SetLaws, EmptyLaw
            <4>5. node'[i] = b.set[i] /\ node'[i].kind # "dir"
                BY <2>1, <2>4, <4>3, <1>CommitEffect DEF IsDir
            <4> QED
                BY SMTT(30), <3>2, <4>2, <4>3, <4>4, <4>5
        <3>4. CASE i \notin New(b) /\ i \in DOMAIN b.set
            <4>1. i \in DOMAIN op[c].seen
                BY <2>2, <3>4 DEF BatchTypes
            <4>2. i \in DOMAIN node /\ node[i] = op[c].seen[i] /\ op[c].seen[i].kind # "dir"
                BY <2>3, <2>4, <3>1, <4>1 DEF IsDir
            <4>3. node[i].nlink = Cardinality(Dirents(i))
                BY <3>1, <4>2 DEF Links
            <4>4. b.set[i].nlink = node[i].nlink + Cardinality(Gained(b, i))
                                   - Cardinality(Dropped(b, i))
                BY <2>2, <3>1, <3>4, <4>1, <4>2 DEF BatchLinks
            <4>5. node'[i] = b.set[i]
                BY <2>1, <3>4, <1>CommitEffect
            <4> QED
                BY SMTT(30), <3>2, <4>3, <4>4, <4>5
        <3>5. CASE i \notin DOMAIN b.set /\ i \notin New(b)
            <4>1. i \in DOMAIN node /\ node'[i] = node[i]
                BY SMTT(30), <2>1, <3>5, <1>CommitEffect
            <4>2. node[i].nlink = Cardinality(Dirents(i))
                BY <3>1, <4>1 DEF Links
            <4>3. i \notin DOMAIN op[c].seen
                BY <2>2, <3>5 DEF BatchTypes
            <4>4. Cardinality(Gained(b, i)) = Cardinality(Dropped(b, i))
                BY <2>2, <3>1, <3>5, <4>3 DEF BatchLinks
            <4> QED
                BY SMTT(30), <3>2, <4>1, <4>2, <4>4
        <3> QED
            BY <3>3, <3>4, <3>5
    <2>5. ASSUME NEW i \in DOMAIN node', IsDir(i)'
          PROVE  node'[i].nlink >= 2 + Cardinality(SubDirs(i)')
        <3>1. i \notin b.del /\ (IsDir(i) \/ i \in New(b))
            BY <2>1, <2>5, <1>DirsAfter
        <3>2. /\ Cardinality(SubDirs(i)) \in Nat /\ Cardinality(DroppedDirs(b, i)) \in Nat
              /\ Cardinality(GainedDirs(b, i)) \in Nat
              /\ Cardinality(SubDirs(i)') = Cardinality(SubDirs(i))
                     - Cardinality(DroppedDirs(b, i)) + Cardinality(GainedDirs(b, i))
            BY <2>1, <1>SubDirsAfter
        <3>3. CASE i \in New(b)
            <4>1. b.next # 0 /\ i = next
                BY <3>3 DEF New
            <4>2. SubDirs(i) = {} /\ DroppedDirs(b, i) = {}
                BY <4>1, NewIsFresh DEF DroppedDirs, SubDirs, Names
            <4>3. GainedDirs(b, i) = {}
                BY <2>2, <4>1, NewIsFresh DEF BatchNames, GainedDirs
            <4>4. /\ i \in DOMAIN b.set
                  /\ b.set[i].nlink = IF b.set[i].kind = "dir" THEN 2 ELSE 1
                BY <2>2, <4>1 DEF BatchNodes
            <4>5. Cardinality({}) = 0
                BY DEF SetLaws, EmptyLaw
            <4>6. node'[i] = b.set[i] /\ node'[i].kind = "dir"
                BY <2>1, <2>5, <4>4, <1>CommitEffect DEF IsDir
            <4>7. Cardinality(SubDirs(i)') = 0
                BY SMTT(30), <3>2, <4>2, <4>3, <4>5
            <4>8. node'[i].nlink = 2
                BY <4>4, <4>6
            <4> QED
                BY SMTT(30), <4>7, <4>8
        <3>4. CASE i \notin New(b)
            <4>1. IsDir(i) /\ i \in DOMAIN node /\ i \in InodeId
                BY <3>1, <3>4 DEF StoreTypes, IsDir
            <4>2. node[i].nlink >= 2 + Cardinality(SubDirs(i)) /\ node[i].nlink \in Int
                BY <4>1 DEF Links, StoreTypes, Inode
            <4>3. CASE i \in DOMAIN op[c].seen
                <5>1. op[c].seen[i].kind = "dir" /\ node[i] = op[c].seen[i]
                    BY <2>2, <4>1, <4>3 DEF BatchNodes, NeverDir
                <5>2. b.set[i].nlink >= node[i].nlink + Cardinality(GainedDirs(b, i))
                                        - Cardinality(DroppedDirs(b, i))
                    BY <2>2, <3>1, <3>4, <4>1, <4>3, <5>1 DEF BatchLinks
                <5>3. i \in DOMAIN b.set /\ b.set[i] \in Inode
                    BY <2>2, <4>3 DEF BatchTypes
                <5>4. node'[i] = b.set[i] /\ b.set[i].nlink \in Int
                    BY <2>1, <5>3, <1>CommitEffect DEF Inode
                <5> QED
                    BY SMTT(30), <3>2, <4>2, <5>2, <5>4
            <4>4. CASE i \notin DOMAIN op[c].seen
                <5>1. i \notin DOMAIN b.set
                    BY <2>2, <3>4, <4>4 DEF BatchTypes
                <5>2. node'[i] = node[i]
                    BY SMTT(30), <2>1, <5>1, <1>CommitEffect
                <5>3. Cardinality(GainedDirs(b, i)) <= Cardinality(DroppedDirs(b, i))
                    BY <2>2, <3>1, <3>4, <4>1, <4>4 DEF BatchLinks
                <5> QED
                    BY SMTT(30), <3>2, <4>2, <5>2, <5>3
            <4> QED
                BY <4>3, <4>4
        <3> QED
            BY <3>3, <3>4
    <2> QED
        BY <2>4, <2>5 DEF Links

\* A commit hangs no directory below itself: of a set that would be closed
\* under parents after it, what was apart from the moved directory, or all of
\* it, was closed before.
<1>CommitAcyclic.
    ASSUME NEW c \in Client, Commit(c), StoreTypes, Names, Acyclic, OpsInv
    PROVE  Acyclic'
    <2> USE <1>CommitAcyclic
    <2> DEFINE b == op[c].batch
    <2>1. b = op[c].batch
        OBVIOUS
    <2>2. BatchTypes(op[c]) /\ BatchNames(op[c])
        BY <1>Committing DEF BatchOK
    <2>3. SUFFICES ASSUME NEW S \in SUBSET InodeId, S # {},
                          \A i \in S : IsDir(i)' /\ i # RootInode
                                       /\ \E k \in Dirents(i)' : k[1] \in S
                   PROVE  FALSE
        <3>1. InodeId' = InodeId /\ RootInode' = RootInode
            BY DEF InodeId, RootInode
        <3> QED
            BY <3>1 DEF Acyclic, Rooted
    <2>4. \A i : \A k \in Dirents(i)' :
             IsDir(k[1]) /\ (k \in Dirents(i) \/ (k \in DOMAIN b.link /\ b.link[k] = i))
        BY SMTT(30), <2>1, <2>2, <1>DirentsAfter DEF Gained, Dirents, Names, BatchNames
    <2>5. \A i \in New(b) : ~IsDir(i)
        BY NewIsFresh DEF New
    <2> DEFINE T == {i \in S : IsDir(i)}
    <2>7. T # {} /\ T \in SUBSET InodeId
        <3>1. PICK i \in S : TRUE
            BY <2>3
        <3>2. PICK k \in Dirents(i)' : k[1] \in S
            BY <2>3, <3>1
        <3> QED
            BY <2>4, <3>2
    <2>8. \A i \in T : IsDir(i) /\ i # RootInode /\ \E k \in Dirents(i)' : k[1] \in T
        BY <2>3, <2>4
    <2>9. CASE \A i \in T : \E k \in Dirents(i) : k[1] \in T
        BY <2>7, <2>8, <2>9 DEF Acyclic, Rooted
    <2>10. CASE \E i \in T : \A k \in Dirents(i) : k[1] \notin T
        <3>1. PICK src \in T, l \in DOMAIN b.link : b.link[l] = src /\ l[1] \in T
            BY <2>4, <2>8, <2>10
        <3>2. src \notin New(b) /\ IsDir(src)
            BY <2>5, <3>1
        <3>3. Apart(l[1], src)
            BY <2>2, <3>1, <3>2 DEF BatchNames
        <3>4. PICK A \in SUBSET InodeId :
                 /\ l[1] \in A /\ src \notin A
                 /\ \A i \in A : IsDir(i) /\ (i = RootInode \/ \E k \in Dirents(i) : k[1] \in A)
            BY <3>3 DEF Apart
        <3>5. \A k \in DOMAIN b.link : k = l
            BY <2>2, <3>1 DEF BatchTypes
        <3> DEFINE U == {i \in T : i \in A}
        <3>6. U # {} /\ U \in SUBSET InodeId
            BY <2>7, <3>1, <3>4
        <3>7. ASSUME NEW i \in U
              PROVE  IsDir(i) /\ i # RootInode /\ \E k \in Dirents(i) : k[1] \in U
            <4>1. IsDir(i) /\ i # RootInode /\ i # src
                BY <2>8, <3>4, <3>7
            <4>2. PICK k \in Dirents(i)' : k[1] \in T
                BY <2>8, <3>7
            <4>3. PICK m \in Dirents(i) : m[1] \in A
                BY <3>4, <3>7, <4>1
            <4>4. k \in Dirents(i)
                BY <2>4, <3>1, <3>5, <4>1, <4>2
            <4>5. k = m
                <5>1. PICK x : Dirents(i) = {x}
                    BY <4>1, OneName
                <5> QED
                    BY <4>3, <4>4, <5>1
            <4> QED
                BY <4>1, <4>2, <4>3, <4>5
        <3> QED
            BY <3>6, <3>7 DEF Acyclic, Rooted
    <2> QED
        BY <2>9, <2>10

\* The operations other than the committing one stay as they are.
<1>CommitOps.
    ASSUME NEW c \in Client, Commit(c), OpsInv
    PROVE  /\ DOMAIN op' = Client
           /\ \A d \in Client : d # c => op'[d] = op[d]
           /\ op'[c] = IF op[c].free = 0 THEN Idle ELSE [op[c] EXCEPT !.pc = "free"]
    BY <1>CommitOps DEF Commit, OpsInv

\* After a commit no data lies past the size of its node, either.
<1>CommitSizes.
    ASSUME NEW c \in Client, Commit(c), StoreTypes, Sizes, OpsInv
    PROVE  Sizes'
    <2> USE <1>CommitSizes
    <2> DEFINE b == op[c].batch
    <2>1. b = op[c].batch /\ data' = data /\ torn' = torn
        BY DEF Commit
    <2>2. BatchTypes(op[c]) /\ BatchSizes(op[c]) /\ OpOK(op[c])
        BY <1>Committing DEF BatchOK
    <2>3. SUFFICES ASSUME NEW i \in DOMAIN node', i \notin torn, i \notin lost',
                          data[i] > node'[i].size
                   PROVE  \E d \in Client : d # c /\ op[d].kind = "bulk" /\ op[d].inode = i
                                            /\ op[d].size >= data[i]
        <3>1. SUFFICES ASSUME NEW i \in DOMAIN node', i \notin torn, i \notin lost',
                              data[i] > node'[i].size
                       PROVE  BulkCovers(i)'
            BY <2>1 DEF Sizes
        <3>2. PICK d \in Client : d # c /\ op[d].kind = "bulk" /\ op[d].inode = i
                                  /\ op[d].size >= data[i]
            BY <2>3, <3>1
        <3>3. op'[d] = op[d]
            BY <3>2, <1>CommitOps
        <3> QED
            BY <2>1, <3>2, <3>3 DEF BulkCovers
    <2>4. i \notin lost /\ i \notin Stale(op[c].seen)
        BY <2>3, <1>LostAfter DEF Commit
    <2>5. /\ i \in DOMAIN b.set \/ i \in DOMAIN node
          /\ node'[i] = IF i \in DOMAIN b.set THEN b.set[i] ELSE node[i]
        BY <2>1, <1>CommitEffect
    <2>6. i \in InodeId /\ node'[i].size \in Nat /\ data[i] \in Nat
        BY <2>2, <2>5 DEF StoreTypes, BatchTypes, Inode
    <2>7. ASSUME i \in DOMAIN node, data[i] > node[i].size
          PROVE  \E d \in Client : op[d].kind = "bulk" /\ op[d].inode = i /\ op[d].size >= data[i]
        BY <2>3, <2>4, <2>7 DEF Sizes, BulkCovers
    <2>8. CASE i \notin DOMAIN b.set
        <3>1. i \in DOMAIN node /\ node'[i] = node[i]
            BY <2>5, <2>8
        <3>2. op[c].inode # i
            BY SMTT(30), <2>2, <2>6, <2>8 DEF BatchSizes, InodeId
        <3> QED
            BY <2>3, <2>7, <3>1, <3>2
    <2>9. CASE i \in DOMAIN b.set /\ i \in DOMAIN op[c].seen
        <3>1. i \in DOMAIN node /\ node[i] = op[c].seen[i] /\ node'[i] = b.set[i]
            BY <2>4, <2>5, <2>9 DEF Stale
        <3>2. CASE op[c].kind = "setattr"
            <4>1. i = op[c].inode /\ b.set[i].size = op[c].size
                BY <2>2, <2>9, <3>2 DEF BatchSizes
            <4>2. i \in torn \cup lost \/ data[i] <= op[c].size \/ BulkCovers(i)
                BY <2>2, <3>2, <4>1 DEF OpOK
            <4>3. BulkCovers(i)
                BY SMTT(30), <2>3, <2>4, <2>6, <3>1, <4>1, <4>2
            <4> QED
                BY <3>2, <4>3 DEF BulkCovers
        <3>3. CASE op[c].kind # "setattr"
            <4>1. b.set[i].size >= node[i].size /\ node[i].size \in Nat
                BY <2>2, <2>9, <3>1, <3>3 DEF BatchSizes, StoreTypes, Inode
            <4>2. data[i] > node[i].size
                BY SMTT(30), <2>3, <2>6, <3>1, <4>1
            <4>3. PICK d \in Client : op[d].kind = "bulk" /\ op[d].inode = i
                                      /\ op[d].size >= data[i]
                BY <2>7, <3>1, <4>2
            <4>4. ASSUME d = c
                  PROVE  FALSE
                <5>1. node'[i].size >= op[c].size /\ op[c].size \in Nat
                    BY <2>2, <3>1, <4>3, <4>4 DEF BatchSizes, OpOK, OpShape
                <5> QED
                    BY SMTT(30), <2>3, <2>6, <4>3, <4>4, <5>1
            <4> QED
                BY <4>3, <4>4
        <3> QED
            BY <3>2, <3>3
    <2>10. CASE i \in DOMAIN b.set /\ i \notin DOMAIN op[c].seen
        <3>1. i \in New(b)
            BY <2>2, <2>10 DEF BatchTypes
        <3>2. i = next
            BY <3>1 DEF New
        <3>3. ~(data[i] > 0)
            BY <2>6, <3>2, NewIsFresh DEF StoreTypes
        <3> QED
            BY SMTT(30), <2>3, <2>6, <3>3
    <2> QED
        BY <2>8, <2>9, <2>10

\* What a commit leaves of a file's data its operation goes on to free.
<1>CommitOwned.
    ASSUME NEW c \in Client, Commit(c), StoreTypes, Owned, OpsInv
    PROVE  Owned'
    <2> USE <1>CommitOwned
    <2> DEFINE b == op[c].batch
    <2>1. b = op[c].batch /\ data' = data /\ torn' = torn
        BY DEF Commit
    <2>2. BatchNodes(op[c]) /\ BatchSizes(op[c]) /\ OpShape(op[c])
        BY <1>Committing DEF BatchOK
    <2>3. InodeId' = InodeId
        BY DEF InodeId
    <2>4. SUFFICES ASSUME NEW i \in InodeId, i \notin torn, i \notin lost, data[i] > 0
                   PROVE  i \in DOMAIN node'
                          \/ \E d \in Client : i \in {op'[d].free, op'[d].inode}
        BY <2>1, <2>3, <1>LostAfter DEF Owned
    <2>5. i # 0 /\ ~IsDir(i)
        BY SMTT(30), <2>4 DEF InodeId, StoreTypes, NeverDir
    <2>6. op[c].free = i => op'[c].free = i
        BY <2>2, <2>5, <1>CommitOps DEF OpShape
    <2>7. op[c].inode = i => i \in DOMAIN node'
        BY SMTT(30), <2>1, <2>2, <2>5, <1>CommitEffect DEF BatchSizes, BatchNodes
    <2>8. i \in DOMAIN node => i \in DOMAIN node' \/ op[c].free = i
        BY <2>1, <2>2, <2>5, <1>CommitEffect DEF BatchNodes
    <2>9. i \in DOMAIN node \/ \E d \in Client : i \in {op[d].free, op[d].inode}
        BY <2>4 DEF Owned
    <2> QED
        BY <2>6, <2>7, <2>8, <2>9, <1>CommitOps

\* The store is sound after a commit.
<1>CommitStore.
    ASSUME NEW c \in Client, Commit(c), StoreInv, OpsInv
    PROVE  StoreInv'
    BY <1>CommitStore, <1>CommitTypes, <1>CommitNames, <1>CommitAcyclic, <1>CommitLinks, <1>CommitSizes, <1>CommitOwned
        DEF StoreInv

\* Nobody but a rename takes a name from a directory that stays.
<1>DirKeepsNames.
    ASSUME NEW c \in Client, Commit(c), StoreTypes, OpsInv, op[c].kind # "rename",
           NEW i, IsDir(i), IsDir(i)', NEW k \in Dirents(i)
    PROVE  k \in Dirents(i)'
    <2> USE <1>DirKeepsNames
    <2> DEFINE b == op[c].batch
    <2>1. b = op[c].batch
        OBVIOUS
    <2>2. BatchNodes(op[c]) /\ BatchNames(op[c]) /\ BatchLinks(op[c])
        BY <1>Committing DEF BatchOK
    <2>3. i \notin b.del /\ i \in InodeId
        <3>1. i \notin b.del
            BY <2>1, <1>DirsAfter
        <3> QED
            BY <3>1 DEF StoreTypes, IsDir
    <2>4. i \notin New(b)
        BY NewIsFresh DEF New
    <2>5. ~(i \in DOMAIN op[c].seen /\ op[c].seen[i].kind # "dir")
        BY <2>2 DEF BatchNodes, NeverDir
    <2>6. Cardinality(Gained(b, i)) = Cardinality(Dropped(b, i))
        BY <2>2, <2>3, <2>4, <2>5 DEF BatchLinks
    <2>7. Gained(b, i) = {}
        BY <2>2, <2>4 DEF Gained, BatchNames
    <2>8. IsFiniteSet(Dropped(b, i))
        <3>1. Dropped(b, i) \subseteq DOMAIN dirent
            BY DEF Dropped
        <3> QED
            BY <3>1 DEF StoreTypes, SetLaws, SubsetLaw
    <2>9. Dropped(b, i) = {}
        BY <2>6, <2>7, <2>8 DEF SetLaws, EmptyLaw
    <2>10. Dirents(i)' = (Dirents(i) \ Dropped(b, i)) \cup Gained(b, i)
        BY <2>1, <1>DirentsAfter
    <2> QED
        BY <2>9, <2>10

\* The locks keep a commit away from the batches of the others.
<1>CommitKeeps.
    ASSUME NEW c \in Client, Commit(c), StoreTypes, Names, OpsInv,
           NEW d \in Client, d # c
    PROVE  Keeps(op[d])
    <2> USE <1>CommitKeeps
    <2> DEFINE b == op[c].batch
               L == op[d].locks
    <2>1. b = op[c].batch
        OBVIOUS
    <2>2. BatchTypes(op[c]) /\ BatchNodes(op[c]) /\ BatchNames(op[c])
        BY <1>Committing DEF BatchOK
    <2>3. \A i \in L : i \notin op[c].locks
        BY DEF OpsInv
    <2>4. lost \subseteq lost' /\ \A i : NeverDir(i) => NeverDir(i)'
        BY <1>LostAfter, <1>NeverDirStays
    <2>5. op[d].batch.next # 0 => next' = next
        <3>1. op[d].batch.next # 0 => b.next = 0
            BY DEF OpsInv
        <3>2. next' = IF b.next = 0 THEN next ELSE b.next
            BY <2>1, <1>CommitEffect
        <3> QED
            BY <3>1, <3>2
    <2>6. \A i \in L : i \notin b.del
        BY <2>2, <2>3 DEF BatchNodes
    <2>7. ASSUME NEW i \in L, IsDir(i)
          PROVE  i \notin DOMAIN b.set
        <3>1. i \notin New(b)
            BY <2>7, NewIsFresh DEF New
        <3>2. i \notin DOMAIN op[c].seen
            BY <2>2, <2>3, <2>7 DEF BatchNodes, NeverDir
        <3> QED
            BY <2>2, <3>1, <3>2 DEF BatchTypes
    <2>8. \A i \in L : /\ i \in DOMAIN node => i \in DOMAIN node'
                       /\ IsDir(i) => node'[i] = node[i]
        <3>1. ASSUME NEW i \in L, i \in DOMAIN node
              PROVE  i \in DOMAIN node'
            BY <2>1, <2>6, <3>1, <1>CommitEffect
        <3>2. ASSUME NEW i \in L, IsDir(i)
              PROVE  node'[i] = node[i]
            <4>1. i \in DOMAIN node'
                BY <3>1, <3>2 DEF IsDir
            <4> QED
                BY SMTT(30), <2>1, <2>7, <3>2, <4>1, <1>CommitEffect
        <3> QED
            BY <3>1, <3>2
    <2>9. \A k \in Touched(b) : k[1] \notin L
        BY <2>2, <2>3 DEF BatchNames
    <2>10. ASSUME NEW k, k[1] \in L
           PROVE  /\ k \in DOMAIN dirent' <=> k \in DOMAIN dirent
                  /\ k \in DOMAIN dirent => dirent'[k] = dirent[k]
        <3>1. k \notin b.unlink /\ k \notin DOMAIN b.link
            BY <2>9, <2>10 DEF Touched
        <3> QED
            BY SMTT(30), <2>1, <3>1, <1>CommitEffect
    <2>11. ASSUME NEW k \in DOMAIN dirent, k[1] \in L
           PROVE  IsDir(dirent[k])' <=> IsDir(dirent[k])
        <3>1. dirent'[k] = dirent[k]
            BY <2>10, <2>11
        <3> DEFINE i == dirent[k]
        <3>2. i \notin New(b)
            BY NewIsFresh DEF New, Dirents
        <3>3. IsDir(i) => i \notin b.del
            <4>1. SUFFICES ASSUME IsDir(i), i \in b.del PROVE FALSE
                OBVIOUS
            <4>2. i \notin lost
                BY <4>1 DEF StoreTypes, NeverDir
            <4>3. k \in Dropped(b, i)
                <5>1. Dirents(i) = Dropped(b, i)
                    BY <2>2, <4>1, <4>2 DEF BatchNodes
                <5>2. k \in Dirents(i)
                    BY DEF Dirents
                <5> QED
                    BY <5>1, <5>2
            <4> QED
                BY <2>9, <2>11, <4>3 DEF Dropped
        <3>4. \A j : j = i => (IsDir(j)' <=> IsDir(j))
            BY <2>1, <3>2, <3>3, <1>DirsAfter
        <3> QED
            BY <3>1, <3>4
    <2>12. ASSUME NEW i \in L, i \in DOMAIN node, i \notin lost',
                  \A k \in Dirents(i) : k[1] \in L
           PROVE  Dirents(i)' \subseteq Dirents(i)
        <3>1. SUFFICES ASSUME NEW k \in DOMAIN b.link, b.link[k] = i, i \notin New(b)
                       PROVE  FALSE
            <4>1. i \notin New(b)
                BY <2>12, NewIsFresh DEF New
            <4>2. Dirents(i)' = (Dirents(i) \ Dropped(b, i)) \cup Gained(b, i)
                BY <2>1, <1>DirentsAfter
            <4> QED
                BY <4>1, <4>2 DEF Gained
        <3>2. ~(i \in op[c].locks)
            BY <2>3
        <3>3. PICK u \in b.unlink \cap DOMAIN dirent : dirent[u] = i
            BY <2>2, <3>1, <3>2 DEF BatchNames
        <3> QED
            BY <2>9, <2>12, <3>3 DEF Touched, Dirents
    <2>13. ASSUME op[d].kind = "rename", NEW p \in L, NEW s, Apart(p, s)
           PROVE  Apart(p, s)'
        <3>1. PICK A \in SUBSET InodeId :
                 /\ p \in A /\ s \notin A
                 /\ \A i \in A : IsDir(i) /\ (i = RootInode \/ \E k \in Dirents(i) : k[1] \in A)
            BY <2>13 DEF Apart
        <3>2. op[c].kind # "rename"
            BY <2>13 DEF OpsInv
        <3> DEFINE B == {i \in A : IsDir(i)'}
        <3>3. p \in B /\ s \notin B /\ B \in SUBSET InodeId
            BY <2>8, <3>1 DEF IsDir
        <3>4. ASSUME NEW i \in B, i # RootInode
              PROVE  \E k \in Dirents(i)' : k[1] \in B
            <4>1. PICK k \in Dirents(i) : k[1] \in A
                BY <3>1, <3>4
            <4>2. IsDir(i) /\ IsDir(i)'
                BY <3>1, <3>4
            <4>3. k \in Dirents(i)'
                BY <3>2, <4>1, <4>2, <1>DirKeepsNames
            <4>4. IsDir(k[1]) /\ k[1] \notin b.del
                BY <2>2, <4>1 DEF Dirents, Names, BatchNodes
            <4>5. IsDir(k[1])'
                BY <2>1, <4>4, <1>DirsAfter
            <4> QED
                BY <4>1, <4>3, <4>5
        <3> HIDE DEF B
        <3>5. \A i \in B : IsDir(i)' /\ (i = RootInode \/ \E k \in Dirents(i)' : k[1] \in B)
            BY <3>4 DEF B
        <3> QED
            BY <3>3, <3>5 DEF Apart, InodeId, RootInode
    <2> QED
        BY <2>4, <2>5, <2>8, <2>10, <2>11, <2>12, <2>13 DEF Keeps

\* The operations in flight stay right when one of them commits.
<1>CommitOpsInv.
    ASSUME NEW c \in Client, Commit(c), StoreInv, OpsInv
    PROVE  OpsInv'
    <2> USE <1>CommitOpsInv
    <2>1. StoreTypes /\ Names /\ StoreTypes' /\ data' = data /\ torn' = torn
        BY <1>CommitStore DEF StoreInv, Commit
    <2>2. OpOK(op[c]) /\ OpShape(op[c]) /\ BatchNodes(op[c])
        BY <1>Committing DEF BatchOK
    <2>3. /\ DOMAIN op' = Client /\ \A d \in Client : d # c => op'[d] = op[d]
          /\ op'[c] = IF op[c].free = 0 THEN Idle ELSE [op[c] EXCEPT !.pc = "free"]
        BY <1>CommitOps
    <2>4. /\ OpOK(op[c])' /\ op'[c].locks \subseteq op[c].locks
          /\ op'[c].batch.next \in {0, op[c].batch.next}
          /\ op'[c].kind \in {"none", op[c].kind}
        <3>1. CASE op[c].free = 0
            <4>1. op'[c] = Idle
                BY <2>3, <3>1
            <4>2. PICK o : o = op'[c]
                OBVIOUS
            <4>3. o = Idle
                BY <4>1, <4>2
            <4>4. OpOK(o)'
                BY <4>3, IdleOK DEF Idle, EmptyBatch
            <4>5. OpOK(op[c])'
                BY <4>2, <4>4
            <4> QED
                BY <4>1, <4>5, IdleOK
        <3>2. CASE op[c].free # 0
            <4>1. PICK o : o = op'[c]
                OBVIOUS
            <4>2. o = [op[c] EXCEPT !.pc = "free"]
                BY <2>3, <3>2, <4>1
            <4>3. /\ OpShape(o) /\ o.pc = "free" /\ o.free = op[c].free /\ o.kind = op[c].kind
                  /\ o.locks = op[c].locks /\ o.inode = op[c].inode /\ o.batch = op[c].batch
                BY <2>2, <4>2 DEF OpShape
            <4>4. op[c].kind \notin {"setattr", "bulk"} /\ op[c].free \in InodeId
                BY <2>2, <3>2 DEF OpOK, OpShape
            <4>5. op[c].batch.next = 0
                BY <2>2, <3>2 DEF BatchNodes
            <4>6. op[c].inode = 0
                BY <2>2, <4>4 DEF OpOK
            <4>7. OpShape(o)' /\ o.free \in InodeId'
                BY <4>3, <4>4 DEF OpShape, InodeId
            <4>8. OpOK(o)'
                BY <4>3, <4>4, <4>5, <4>6, <4>7 DEF OpOK
            <4>9. OpOK(op[c])'
                BY <4>1, <4>8
            <4> QED
                BY <4>1, <4>3, <4>9
        <3> QED
            BY <3>1, <3>2
    <2>5. ASSUME NEW d \in Client, d # c
          PROVE  CutStays(op[d])
        <3>1. SUFFICES ASSUME NEW i, i = op[d].inode, op[d].kind = "setattr",
                              i \notin torn, i \notin lost'
                       PROVE  data[i] <= op[d].size \/ BulkCovers(i)'
            BY <2>1 DEF CutStays
        <3>2. lost \subseteq lost'
            BY <2>1, <1>LostAfter
        <3>3. data[i] <= op[d].size \/ BulkCovers(i)
            BY <3>1, <3>2 DEF OpsInv, OpOK
        <3>4. ASSUME NEW e \in Client, op[e].kind = "bulk", op[e].inode = i
              PROVE  e # c
            <4>1. i \in Meets(i)
                BY <3>1 DEF Meets
            <4> QED
                BY <3>1, <3>4, <4>1 DEF Commit
        <3> QED
            BY <2>1, <2>3, <3>3, <3>4 DEF BulkCovers
    <2>6. ASSUME NEW d \in Client, d # c
          PROVE  /\ op'[c].locks \cap op[d].locks = {}
                 /\ op'[c].batch.next = 0 \/ op[d].batch.next = 0
                 /\ op'[c].kind # "rename" \/ op[d].kind # "rename"
        BY <2>4, <2>6 DEF OpsInv
    <2>7. \A d \in Client : d # c => Keeps(op[d])
        BY <2>1, <1>CommitKeeps
    <2> QED
        BY <2>1, <2>3, <2>4, <2>5, <2>6, <2>7, OpsStay

\* So do the flush and the walk.
<1>CommitOthers.
    ASSUME NEW c \in Client, Commit(c), StoreInv, OpsInv, FlushInv, WalkInv
    PROVE  FlushInv' /\ WalkInv'
    <2> USE <1>CommitOthers
    <2>1. StoreTypes /\ flush' = flush /\ walk' = walk
        BY DEF Commit, StoreInv
    <2>2. next' \in Nat /\ next' >= next /\ next \in Nat /\ \A i : NeverDir(i) => NeverDir(i)'
        BY <2>1, <1>NeverDirStays DEF StoreTypes
    <2>3. FlushInv'
        <3>1. flush.inode # 0 => NeverDir(flush.inode)'
            <4>1. \A i : i = flush.inode /\ NeverDir(i) => NeverDir(flush.inode)'
                BY <2>1, <2>2
            <4> QED
                BY <4>1 DEF FlushInv
        <3> QED
            BY <2>1, <3>1 DEF FlushInv, Inode
    <2>4. ASSUME Walking
          PROVE  /\ \A d \in Client : op'[d].kind # "rename"
                 /\ \E a \in [0 .. Len(walk.done) -> InodeId] : Trail(a)'
        <3>1. \A d \in Client : op[d].kind # "rename"
            BY <2>4 DEF WalkInv
        <3>2. op'[c].kind \in {"none", op[c].kind}
            <4>1. OpShape(op[c])
                BY <1>Committing
            <4> QED
                BY <4>1, <1>CommitOps, IdleOK DEF OpShape
        <3>3. PICK a \in [0 .. Len(walk.done) -> InodeId] : Trail(a)
            BY <2>4 DEF WalkInv
        <3>4. ASSUME NEW n \in 1 .. Len(walk.done), IsDir(a[n])'
              PROVE  /\ <<a[n - 1], walk.done[n]>> \in DOMAIN dirent'
                     /\ dirent'[<<a[n - 1], walk.done[n]>>] = a[n]
            <4> DEFINE k == <<a[n - 1], walk.done[n]>>
            <4>1. a[n] # next
                <5>1. n \in 0 .. Len(walk.done) /\ a[n] < next /\ a[n] \in Int
                    BY SMTT(30), <3>3, <3>4 DEF Trail, InodeId
                <5> QED
                    BY SMTT(30), <2>2, <5>1
            <4>2. IsDir(a[n])
                BY <2>1, <3>4, <4>1, <1>DirsAfter DEF New
            <4>3. k \in Dirents(a[n])
                BY <3>3, <3>4, <4>2 DEF Trail, Dirents
            <4>4. PICK i, l : i = a[n] /\ l = k
                OBVIOUS
            <4>5. l \in Dirents(i)'
                BY <2>1, <3>1, <3>4, <4>2, <4>3, <4>4, <1>DirKeepsNames
            <4> QED
                BY <4>4, <4>5 DEF Dirents
        <3>5. \A n \in 0 .. Len(walk.done) : a[n] < next'
            <4>1. ASSUME NEW n \in 0 .. Len(walk.done)
                  PROVE  a[n] < next'
                <5>1. a[n] < next /\ a[n] \in Int
                    BY SMTT(30), <3>3, <4>1 DEF Trail, InodeId
                <5> QED
                    BY SMTT(30), <2>2, <5>1
            <4> QED
                BY <4>1
        <3>6. Trail(a)'
            BY <2>1, <3>3, <3>4, <3>5 DEF Trail, InodeId, RootInode
        <3> QED
            BY <3>1, <3>2, <3>3, <3>6, <1>CommitOps
    <2>5. WalkInv'
        BY <2>1, <2>4 DEF WalkInv, Walking, InodeId
    <2> QED
        BY <2>3, <2>5

\* A commit keeps the invariant.
<1>CommitInv.
    ASSUME NEW c \in Client, Inv, Commit(c)
    PROVE  Inv'
    BY <1>CommitInv, <1>CommitStore, <1>CommitOpsInv, <1>CommitOthers DEF Inv

<1> QED
    BY <1>CommitInv

-----------------------------------------------------------------------------
(* Data and bulk writes *)

\* The function with one argument.
LEMMA OneFacts ==
    ASSUME NEW x, NEW y
    PROVE  DOMAIN One(x, y) = {x} /\ One(x, y)[x] = y
BY DEF One

\* A step that leaves directories and names alone disturbs no batch.
LEMMA SameDirsKeep ==
    ASSUME StoreTypes, SameDirs, NEW o
    PROVE  Keeps(o)
<1>1. \A i : NeverDir(i) => NeverDir(i)'
    BY DEF SameDirs, NeverDir, InodeId
<1>2. \A i : Dirents(i)' = Dirents(i)
    BY DEF SameDirs, Dirents
<1>3. dirent' = dirent /\ next' = next
    BY DEF SameDirs
<1>4. \A k : IsDir(dirent[k])' <=> IsDir(dirent[k])
    BY <1>3 DEF SameDirs
<1>5. \A p, s : Apart(p, s) => Apart(p, s)'
    BY <1>2 DEF SameDirs, Apart, InodeId, RootInode
<1> QED
    BY <1>1, <1>2, <1>3, <1>4, <1>5 DEF SameDirs, Keeps

\* The tree stays as it is.
LEMMA SameDirsTree ==
    ASSUME Names, Acyclic, SameDirs
    PROVE  Names' /\ Acyclic'
<1>1. \A i : Dirents(i)' = Dirents(i)
    BY DEF SameDirs, Dirents
<1>2. \A i : IsDir(i)' <=> IsDir(i)
    BY DEF SameDirs
<1>3. Names'
    <2>1. dirent' = dirent /\ lost \subseteq lost' /\ DOMAIN node \subseteq DOMAIN node'
        BY DEF SameDirs
    <2>2. \A k \in DOMAIN dirent' : dirent'[k] \in DOMAIN node' \cup lost' /\ IsDir(k[1])'
        BY <1>2, <2>1 DEF Names
    <2>3. \A i : IsDir(i) => i \in DOMAIN node
        BY DEF IsDir
    <2>4. \A i \in DOMAIN node' :
             IsDir(i)' /\ i # RootInode => Cardinality(Dirents(i)') = 1
        BY <1>1, <1>2, <2>3 DEF Names
    <2> QED
        BY <2>2, <2>4 DEF Names, RootInode
<1>4. \A S : Rooted(S)' <=> Rooted(S)
    BY <1>1, <1>2 DEF Rooted, RootInode
<1> QED
    BY <1>3, <1>4 DEF Acyclic, InodeId

\* The link counts stay right if those of files that are not lost stay.
LEMMA SameDirsLinks ==
    ASSUME Links, SameDirs,
           \A i \in DOMAIN node' : i \notin lost' /\ ~IsDir(i) =>
               i \in DOMAIN node /\ node'[i].nlink = node[i].nlink
    PROVE  Links'
<1>1. \A i : Dirents(i)' = Dirents(i)
    BY DEF SameDirs, Dirents
<1>2. \A i : SubDirs(i)' = SubDirs(i)
    <2>1. dirent' = dirent /\ \A j : IsDir(j)' <=> IsDir(j)
        BY DEF SameDirs
    <2>2. \A k : IsDir(dirent[k])' <=> IsDir(dirent[k])
        BY <2>1
    <2> QED
        BY <2>1, <2>2 DEF SubDirs
<1>3. \A i \in DOMAIN node' \ lost' : ~IsDir(i)' => node'[i].nlink = Cardinality(Dirents(i)')
    BY <1>1 DEF SameDirs, Links
<1>4. \A i \in DOMAIN node' : IsDir(i)' => node'[i].nlink >= 2 + Cardinality(SubDirs(i)')
    <2>1. ASSUME NEW i, IsDir(i)'
          PROVE  i \in DOMAIN node /\ IsDir(i) /\ node'[i] = node[i]
        BY <2>1 DEF SameDirs, IsDir
    <2> QED
        BY <1>2, <2>1 DEF Links
<1> QED
    BY <1>3, <1>4 DEF Links

\* The flush in flight stays right, too.
LEMMA SameDirsFlush ==
    ASSUME SameDirs, FlushInv, flush' = flush
    PROVE  FlushInv'
<1>1. flush.inode # 0 => NeverDir(flush.inode)'
    BY DEF FlushInv, NeverDir, SameDirs, InodeId
<1> QED
    BY <1>1 DEF FlushInv, Inode

\* A walk keeps its trail.
LEMMA SameDirsWalk ==
    ASSUME SameDirs, WalkInv, walk' = walk,
           Walking => \A c \in Client : op'[c].kind # "rename"
    PROVE  WalkInv'
<1>1. dirent' = dirent /\ next' = next /\ \A i : IsDir(i)' <=> IsDir(i)
    BY DEF SameDirs
<1>2. ASSUME NEW a, Trail(a)
      PROVE  Trail(a)'
    BY <1>1, <1>2 DEF Trail, InodeId, RootInode
<1> QED
    BY <1>2 DEF WalkInv, Walking, InodeId

\* What a bulk write that stays covers, it covers of less data.
LEMMA CoverStays ==
    ASSUME NEW i, data[i] \in Nat, data'[i] \in Nat, data'[i] <= data[i], BulkCovers(i),
           \A d \in Client : op[d].kind = "bulk" /\ op[d].inode = i =>
               /\ op[d].size \in Nat /\ op'[d].kind = "bulk"
               /\ op'[d].inode = i /\ op'[d].size = op[d].size
    PROVE  BulkCovers(i)'
<1>1. PICK d \in Client : op[d].kind = "bulk" /\ op[d].inode = i /\ op[d].size >= data[i]
    BY DEF BulkCovers
<1>2. op'[d].kind = "bulk" /\ op'[d].inode = i /\ op'[d].size >= data'[i]
    BY SMTT(30), <1>1
<1> QED
    BY <1>2 DEF BulkCovers

\* The store stays sound when it does not change, if the operations that
\* answer for data go on to do so, or are known to be torn.
LEMMA QuietStore ==
    ASSUME StoreInv, OpsInv, UNCHANGED <<node, dirent, next, data, known, lost>>,
           torn \subseteq torn',
           \A d \in Client : op[d].kind = "bulk" =>
               \/ op'[d].kind = "bulk" /\ op'[d].inode = op[d].inode
                  /\ op'[d].size = op[d].size
               \/ op[d].inode \in torn',
           \A d \in Client : \A i \in {op[d].free, op[d].inode} :
               i \in InodeId => i \in {op'[d].free, op'[d].inode} \cup torn'
    PROVE  StoreInv' /\ SameDirs
<1>1. SameDirs
    BY DEF SameDirs, IsDir
<1>2. StoreTypes'
    BY DEF StoreInv, StoreTypes, NeverDir, IsDir, InodeId, Key, Inode, RootInode
<1>3. Names' /\ Acyclic' /\ Links'
    BY <1>1, SameDirsTree, SameDirsLinks DEF StoreInv
<1>4. Sizes'
    <2>1. SUFFICES ASSUME NEW i \in DOMAIN node, i \notin torn', i \notin lost,
                          data[i] > node[i].size
                   PROVE  BulkCovers(i)'
        BY DEF Sizes
    <2>2. BulkCovers(i)
        BY <2>1 DEF StoreInv, Sizes
    <2> QED
        BY <2>1, <2>2 DEF BulkCovers
<1>5. Owned'
    <2>1. SUFFICES ASSUME NEW i \in InodeId, i \notin torn', i \notin lost, data[i] > 0
                   PROVE  i \in DOMAIN node
                          \/ \E d \in Client : i \in {op'[d].free, op'[d].inode}
        BY DEF Owned, InodeId
    <2>2. i \in DOMAIN node \/ \E d \in Client : i \in {op[d].free, op[d].inode}
        BY <2>1 DEF StoreInv, Owned
    <2> QED
        BY <2>1, <2>2
<1> QED
    BY <1>1, <1>2, <1>3, <1>4, <1>5 DEF StoreInv

\* What is at most a, and a at most b, is at most b.
LEMMA AtMost ==
    ASSUME NEW x \in Nat, NEW a \in Nat, NEW b \in Nat, x <= a, a <= b
    PROVE  x <= b
BY SMTT(30)

\* A Setattr in flight goes on to find what it cut off, when no data is added
\* that counts as lost to it, and no bulk write ends.
LEMMA CutsStay ==
    ASSUME StoreTypes, OpsInv, NEW d \in Client,
           \A i \in InodeId :
               /\ data'[i] \in Nat
               /\ data'[i] <= data[i]
                  \/ (op[d].kind = "setattr" /\ i = op[d].inode => i \in lost'),
           torn \subseteq torn', lost \subseteq lost',
           \A e \in Client : op[e].kind = "bulk" =>
               \/ op'[e].kind = "bulk" /\ op'[e].inode = op[e].inode
                  /\ op'[e].size = op[e].size
               \/ op[e].inode \in torn'
    PROVE  CutStays(op[d])
<1>1. SUFFICES ASSUME NEW i, i = op[d].inode, op[d].kind = "setattr",
                      i \notin torn', i \notin lost'
               PROVE  data'[i] <= op[d].size \/ BulkCovers(i)'
    BY DEF CutStays
<1>2. OpOK(op[d]) /\ i \in InodeId /\ data[i] \in Nat /\ op[d].size \in Nat
    BY <1>1 DEF OpsInv, OpOK, OpShape, NeverDir, StoreTypes
<1>3. data[i] <= op[d].size \/ BulkCovers(i)
    BY <1>1, <1>2 DEF OpOK
<1>4. data'[i] \in Nat /\ data'[i] <= data[i]
    BY <1>1, <1>2
<1>5. CASE data[i] <= op[d].size
    BY <1>2, <1>4, <1>5, AtMost
<1>6. CASE BulkCovers(i)
    <2>1. \A e \in Client : op[e].kind = "bulk" /\ op[e].inode = i =>
             /\ op[e].size \in Nat /\ op'[e].kind = "bulk"
             /\ op'[e].inode = i /\ op'[e].size = op[e].size
        BY <1>1 DEF OpsInv, OpOK, OpShape
    <2> QED
        BY <1>2, <1>4, <1>6, <2>1, CoverStays
<1> QED
    BY <1>3, <1>5, <1>6

\* What Stat reads: the stored node, of a file perhaps with a larger size.
LEMMA StatFacts ==
    ASSUME StoreTypes, FlushInv, NEW i \in DOMAIN node
    PROVE  /\ Stat(i) \in Inode /\ Stat(i).kind = node[i].kind
           /\ Stat(i).nlink = node[i].nlink /\ Stat(i).size >= node[i].size
           /\ IsDir(i) => Stat(i) = node[i]
<1>1. node[i] \in Inode /\ flush.end \in Nat /\ i \in InodeId
    BY DEF StoreTypes, FlushInv
<1>2. IsDir(i) => flush.inode # i
    BY SMTT(30), <1>1 DEF FlushInv, NeverDir, InodeId
<1> QED
    BY SMTT(30), <1>1, <1>2 DEF Stat, Inode, Larger

\* The beginning of a Setattr and of a bulk write.
Opened(o, pc, kind, locks, i, size) ==
    o = [Idle EXCEPT !.pc = pc, !.kind = kind, !.locks = locks, !.inode = i, !.size = size]

OpenedBulk(o, i, end) ==
    o = [Idle EXCEPT !.pc = "bulk", !.kind = "bulk", !.inode = i, !.size = end]

\* The operation of c goes on to its commit with this batch.
Fills(o, p, b, seen) ==
    o = [p EXCEPT !.pc = "commit", !.batch = b, !.seen = seen]

\* The batch of a writer that changes one file's size only.
Resizes(o, i, old, new) ==
    /\ o.batch = [EmptyBatch EXCEPT !.set = One(i, new)] /\ o.seen = One(i, old)
    /\ o.inode = i /\ old \in Inode /\ new \in Inode
    /\ new.kind = old.kind /\ new.nlink = old.nlink /\ old.kind # "dir"

\* The steps that write data and its size keep the invariant.
LEMMA DataKeepsInv ==
    ASSUME SetLaws
    PROVE  /\ \A c \in Client : Inv /\ Free(c) => Inv'
           /\ \A c \in Client, i \in InodeId, size \in Size :
                 Inv /\ Setattr(c, i, size) => Inv'
           /\ \A c \in Client, i \in InodeId, end \in Size :
                 Inv /\ BulkCommit(c, i, end) => Inv'
           /\ \A c \in Client : Inv /\ SetattrStat(c) => Inv'
           /\ \A c \in Client : Inv /\ BulkNode(c) => Inv'

\* The store stays sound when data comes that a bulk write answers for, and
\* goes that nobody needs.
<1>DataStore.
    ASSUME StoreInv, OpsInv, UNCHANGED <<node, dirent, next, known>>, torn' = torn,
           lost \subseteq lost', \A i \in lost' : NeverDir(i), data' \in [InodeId -> Nat],
           \A i \in InodeId : data'[i] > data[i] =>
               i \in DOMAIN node /\ NeverDir(i) /\ BulkCovers(i)',
           \A d \in Client : op[d].kind = "bulk" =>
               op'[d].kind = "bulk" /\ op'[d].inode = op[d].inode /\ op'[d].size = op[d].size,
           \A d \in Client : \A i \in {op[d].free, op[d].inode} :
               i \in InodeId => i \in {op'[d].free, op'[d].inode} \/ data'[i] = 0
    PROVE  StoreInv' /\ SameDirs
    <2> USE <1>DataStore
    <2>1. SameDirs
        BY DEF SameDirs, IsDir
    <2>2. \A i \in InodeId : data[i] \in Nat /\ data'[i] \in Nat
        BY DEF StoreInv, StoreTypes
    <2>3. \A i : NeverDir(i)' <=> NeverDir(i)
        BY DEF NeverDir, IsDir, InodeId
    <2>4. StoreTypes'
        <3>1. ASSUME NEW i \in InodeId, data'[i] > 0
              PROVE  NeverDir(i)'
            <4>1. data'[i] > data[i] \/ data[i] > 0
                BY SMTT(30), <2>2, <3>1
            <4> QED
                BY <2>3, <4>1 DEF StoreInv, StoreTypes
        <3>2. \A i \in lost' : NeverDir(i)'
            BY <2>3
        <3>3. StoreTypes /\ (IsDir(RootInode)' <=> IsDir(RootInode))
            BY DEF StoreInv, IsDir, RootInode
        <3>4. /\ next' \in Nat /\ next' > RootInode
              /\ \A i \in DOMAIN node' : i \in InodeId' /\ i < next' /\ node'[i] \in Inode'
              /\ IsFiniteSet(DOMAIN dirent')
              /\ \A k \in DOMAIN dirent' : k \in Key' /\ dirent'[k] \in InodeId' /\ dirent'[k] < next'
                                           /\ dirent'[k] # RootInode
              /\ \A i \in known' : i \in Nat /\ i < next'
            BY <3>3 DEF StoreTypes, InodeId, Key, Inode
        <3> QED
            BY <3>1, <3>2, <3>3, <3>4 DEF StoreTypes, InodeId
    <2>5. Names' /\ Acyclic' /\ Links'
        BY <2>1, SameDirsTree, SameDirsLinks DEF StoreInv
    <2>6. Sizes'
        <3>1. SUFFICES ASSUME NEW i \in DOMAIN node, i \notin torn, i \notin lost',
                              data'[i] > node[i].size
                       PROVE  BulkCovers(i)'
            BY DEF Sizes
        <3>2. i \in InodeId /\ node[i].size \in Nat
            BY DEF StoreInv, StoreTypes, Inode
        <3>3. CASE data'[i] > data[i]
            BY <3>2, <3>3
        <3>4. CASE data'[i] <= data[i]
            <4>1. data[i] > node[i].size
                BY SMTT(30), <2>2, <3>1, <3>2, <3>4
            <4>2. BulkCovers(i)
                BY <3>1, <4>1 DEF StoreInv, Sizes
            <4>3. \A d \in Client : op[d].kind = "bulk" /\ op[d].inode = i =>
                     /\ op[d].size \in Nat /\ op'[d].kind = "bulk"
                     /\ op'[d].inode = i /\ op'[d].size = op[d].size
                BY DEF OpsInv, OpOK, OpShape
            <4> QED
                BY <2>2, <3>2, <3>4, <4>2, <4>3, CoverStays
        <3>5. data'[i] > data[i] \/ data'[i] <= data[i]
            BY SMTT(30), <2>2, <3>2
        <3> QED
            BY <3>3, <3>4, <3>5
    <2>7. Owned'
        <3>1. SUFFICES ASSUME NEW i \in InodeId, i \notin torn, i \notin lost', data'[i] > 0
                       PROVE  i \in DOMAIN node
                              \/ \E d \in Client : i \in {op'[d].free, op'[d].inode}
            BY DEF Owned, InodeId
        <3>2. (data'[i] > data[i] \/ data[i] > 0) /\ data'[i] # 0
            BY SMTT(30), <2>2, <3>1
        <3>3. i \in DOMAIN node \/ \E d \in Client : i \in {op[d].free, op[d].inode}
            BY <3>1, <3>2 DEF StoreInv, Owned
        <3> QED
            BY <3>1, <3>2, <3>3
    <2> QED
        BY <2>1, <2>4, <2>5, <2>6, <2>7 DEF StoreInv

\* The other parts stay right when an operation takes a step that leaves the
\* names and directories alone, and takes no lock that is taken.
<1>StepInv.
    ASSUME Inv, StoreInv', SameDirs, flush' = flush, walk' = walk, NEW c \in Client,
           DOMAIN op' = Client, OpOK(op[c])', op'[c].batch.next = 0, op'[c].kind # "rename",
           \A d \in Client : d # c => /\ op'[d] = op[d] /\ CutStays(op[d])
                                      /\ op'[c].locks \cap op[d].locks = {}
    PROVE  Inv'
    <2> USE <1>StepInv
    <2>1. StoreTypes /\ StoreTypes' /\ OpsInv /\ FlushInv /\ WalkInv
        BY DEF Inv, StoreInv
    <2>2. \A e : Keeps(e)
        BY <2>1, SameDirsKeep
    <2>3. OpsInv'
        <3>1. \A d \in Client : d # c =>
                 /\ op'[d] = op[d] /\ Keeps(op[d]) /\ CutStays(op[d])
                 /\ op'[c].locks \cap op[d].locks = {}
                 /\ op'[c].batch.next = 0 \/ op[d].batch.next = 0
                 /\ op'[c].kind # "rename" \/ op[d].kind # "rename"
            BY <2>2
        <3> QED
            BY <2>1, <3>1, OpsStay
    <2>4. Walking => \A d \in Client : op'[d].kind # "rename"
        BY <2>1 DEF WalkInv
    <2>5. FlushInv' /\ WalkInv'
        BY <2>1, <2>4, SameDirsFlush, SameDirsWalk
    <2> QED
        BY <2>3, <2>5 DEF Inv

\* An operation that has freed its inode drops the data, and is done.
<1>FreeInv.
    ASSUME NEW c \in Client, Inv, Free(c)
    PROVE  Inv'
    <2> USE <1>FreeInv
    <2>1. /\ op[c].pc = "free" /\ UNCHANGED <<node, dirent, next, known>>
          /\ torn' = torn /\ lost' = lost /\ flush' = flush /\ walk' = walk
          /\ data' = [data EXCEPT ![op[c].free] = 0] /\ op' = [op EXCEPT ![c] = Idle]
        BY DEF Free, hist
    <2>2. StoreInv /\ OpsInv /\ StoreTypes
        BY DEF Inv, StoreInv
    <2>3. /\ DOMAIN op' = Client /\ op'[c] = Idle /\ \A d \in Client : d # c => op'[d] = op[d]
        BY <2>1, <2>2 DEF OpsInv
    <2>4. OpOK(op[c]) /\ op[c].free \in InodeId /\ op[c].kind # "bulk" /\ op[c].inode = 0
        BY <2>1, <2>2 DEF OpsInv, OpOK
    <2>5. data' \in [InodeId -> Nat] /\ data'[op[c].free] = 0
          /\ \A i \in InodeId : data'[i] \in Nat /\ data'[i] <= data[i] /\ ~(data'[i] > data[i])
        BY SMTT(30), <2>1, <2>2, <2>4 DEF StoreTypes
    <2>6. \A d \in Client : op[d].kind = "bulk" =>
              op'[d].kind = "bulk" /\ op'[d].inode = op[d].inode /\ op'[d].size = op[d].size
        BY <2>3, <2>4
    <2>7. ASSUME NEW d \in Client, NEW i \in {op[d].free, op[d].inode}, i \in InodeId
          PROVE  i \in {op'[d].free, op'[d].inode} \/ data'[i] = 0
        <3>1. CASE d = c
            <4>1. i = op[c].free
                <5>1. 0 \notin InodeId
                    BY SMTT(30) DEF InodeId
                <5> QED
                    BY <2>4, <2>7, <3>1, <5>1
            <4> QED
                BY <2>5, <4>1
        <3>2. CASE d # c
            BY <2>3, <2>7, <3>2
        <3> QED
            BY <3>1, <3>2
    <2>8. StoreInv' /\ SameDirs
        <3>1. \A i \in lost' : NeverDir(i)
            BY <2>1, <2>2 DEF StoreTypes
        <3> QED
            BY <2>1, <2>2, <2>5, <2>6, <2>7, <3>1, <1>DataStore
    <2>9. \A d \in Client : CutStays(op[d])
        BY <2>1, <2>2, <2>5, <2>6, CutsStay
    <2>10. OpOK(op[c])' /\ op'[c].batch.next = 0 /\ op'[c].kind # "rename" /\ op'[c].locks = {}
        <3>1. OpOK(op[c])'
            BY <2>3, IdleOK
        <3>2. Idle.kind # "rename"
            BY IdleOK
        <3> QED
            BY <2>3, <3>1, <3>2, IdleOK
    <2>11. \A d \in Client : op'[c].locks \cap op[d].locks = {}
        BY <2>10
    <2> QED
        BY <2>1, <2>3, <2>8, <2>9, <2>10, <2>11, <1>StepInv

\* Its parts.
<1>OpenedFacts.
    ASSUME NEW o, NEW pc, NEW kind, NEW locks, NEW i \in Nat, NEW size \in Nat,
           Opened(o, pc, kind, locks, i, size), pc \in {"stat", "bulk"}
    PROVE  /\ OpShape(o) /\ o.pc = pc /\ o.kind = kind /\ o.locks = locks /\ o.inode = i
           /\ o.size = size /\ o.free = 0 /\ o.batch.next = 0
    BY <1>OpenedFacts DEF Opened, Idle, EmptyBatch, OpShape

\* A bulk write holds no locks.
<1>OpenedBulkFacts.
    ASSUME NEW o, NEW i \in Nat, NEW end \in Nat, OpenedBulk(o, i, end)
    PROVE  /\ OpShape(o) /\ o.pc = "bulk" /\ o.kind = "bulk" /\ o.locks = {} /\ o.inode = i
           /\ o.size = end /\ o.free = 0 /\ o.batch.next = 0
    BY <1>OpenedBulkFacts DEF OpenedBulk, Idle, EmptyBatch, OpShape

\* A Setattr of a size drops the data behind it.
<1>SetattrInv.
    ASSUME NEW c \in Client, NEW i \in InodeId, NEW size \in Size, Inv, Setattr(c, i, size)
    PROVE  Inv'
    <2> USE <1>SetattrInv
    <2>1. /\ op[c].pc = "idle" /\ VfsFree({i}) /\ UNCHANGED <<node, dirent, next, known>>
          /\ torn' = torn /\ lost' = lost /\ flush' = flush /\ walk' = walk
          /\ i \in DOMAIN node /\ node[i].kind = "file"
          /\ data' = IF size < Stat(i).size THEN [data EXCEPT ![i] = Smaller(@, size)] ELSE data
        BY DEF Setattr, hist
    <2>2. StoreInv /\ OpsInv /\ StoreTypes /\ FlushInv
        BY DEF Inv, StoreInv
    <2>3. op[c] = Idle
        BY <2>1, <2>2 DEF OpsInv, OpOK
    <2>4. PICK o : Opened(o, "stat", "setattr", {i}, i, size)
        BY DEF Opened
    <2>5. op' = [op EXCEPT ![c] = o]
        BY <2>4 DEF Setattr, Opened
    <2>6. DOMAIN op' = Client /\ op'[c] = o /\ \A d \in Client : d # c => op'[d] = op[d]
        BY <2>2, <2>5 DEF OpsInv
    <2>7. i \in Nat /\ size \in Nat /\ "stat" \in {"stat", "bulk"}
        BY SMTT(30), NamespaceAssumption DEF InodeId, Size
    <2>8. /\ OpShape(o) /\ o.pc = "stat" /\ o.kind = "setattr" /\ o.locks = {i} /\ o.inode = i
          /\ o.size = size /\ o.free = 0 /\ o.batch.next = 0
        BY <2>4, <2>7, <1>OpenedFacts
    <2>9. data' \in [InodeId -> Nat]
          /\ \A j \in InodeId : data'[j] \in Nat /\ data'[j] <= data[j] /\ ~(data'[j] > data[j])
        BY SMTT(30), <2>1, <2>2, <2>7 DEF StoreTypes, Smaller
    <2>10. \A d \in Client : op[d].kind = "bulk" =>
               op'[d].kind = "bulk" /\ op'[d].inode = op[d].inode /\ op'[d].size = op[d].size
        <3>1. op[c].kind # "bulk"
            BY <2>3, IdleOK
        <3> QED
            BY <2>6, <3>1
    <2>11. ASSUME NEW d \in Client, NEW j \in {op[d].free, op[d].inode}, j \in InodeId
           PROVE  j \in {op'[d].free, op'[d].inode} \/ data'[j] = 0
        <3>1. d # c
            BY SMTT(30), <2>3, <2>11, IdleOK DEF InodeId
        <3> QED
            BY <2>6, <2>11, <3>1
    <2>12. StoreInv' /\ SameDirs
        <3>1. \A j \in lost' : NeverDir(j)
            BY <2>1, <2>2 DEF StoreTypes
        <3> QED
            BY <2>1, <2>2, <2>9, <2>10, <2>11, <3>1, <1>DataStore
    <2>13. \A d \in Client : CutStays(op[d])
        BY <2>1, <2>2, <2>9, <2>10, CutsStay
    <2>14. i \in torn \cup lost \/ data'[i] <= size \/ BulkCovers(i)'
        <3>1. Stat(i).size \in Nat /\ node[i].size \in Nat /\ Stat(i).size >= node[i].size
            BY <2>1, <2>2, StatFacts DEF Inode, StoreTypes
        <3>2. data[i] \in Nat
            BY <2>2 DEF StoreTypes
        <3>3. CASE size < Stat(i).size
            <4>1. data'[i] = Smaller(data[i], size)
                BY <2>1, <2>2, <3>3 DEF StoreTypes
            <4> QED
                BY SMTT(30), <2>7, <3>2, <4>1 DEF Smaller
        <3>4. CASE ~(size < Stat(i).size) /\ i \notin torn \cup lost /\ ~(data[i] <= size)
            <4>1. data[i] > node[i].size
                BY SMTT(30), <2>7, <3>1, <3>2, <3>4
            <4>2. BulkCovers(i)
                BY <2>1, <2>2, <3>4, <4>1 DEF StoreInv, Sizes
            <4>3. \A d \in Client : op[d].kind = "bulk" /\ op[d].inode = i =>
                     /\ op[d].size \in Nat /\ op'[d].kind = "bulk"
                     /\ op'[d].inode = i /\ op'[d].size = op[d].size
                BY <2>2, <2>10 DEF OpsInv, OpOK, OpShape
            <4> QED
                BY <2>9, <3>2, <4>2, <4>3, CoverStays
        <3>5. CASE ~(size < Stat(i).size) /\ data[i] <= size
            BY <2>1, <3>5
        <3> QED
            BY <3>3, <3>4, <3>5
    <2>15. NeverDir(i)'
        <3>1. i < next /\ ~IsDir(i)
            BY <2>1, <2>2 DEF StoreTypes, IsDir
        <3> QED
            BY <2>1, <3>1 DEF NeverDir, IsDir, InodeId
    <2>16. OpOK(o)'
        <3>1. OpShape(o)'
            BY <2>8 DEF OpShape, InodeId
        <3>2. \A j : j = i => /\ NeverDir(j)' /\ j \in DOMAIN node'
                              /\ j \in torn' \cup lost' \/ data'[j] <= o.size \/ BulkCovers(j)'
            BY <2>1, <2>8, <2>14, <2>15
        <3>3. o.pc # "idle" /\ o.pc # "bulk" /\ o.pc # "free" /\ o.pc # "commit" /\ o.kind # "bulk"
              /\ o.pc \in {"stat", "commit"} /\ o.kind \in {"setattr", "bulk"}
            BY <2>8
        <3> QED
            BY <2>8, <3>1, <3>2, <3>3 DEF OpOK
    <2>17. OpOK(op[c])' /\ op'[c].batch.next = 0 /\ op'[c].kind # "rename"
        <3>1. o.kind # "rename"
            BY <2>8
        <3> QED
            BY <2>6, <2>8, <2>16, <3>1
    <2>18. \A d \in Client : d # c => op'[c].locks \cap op[d].locks = {}
        <3>1. \A d \in Client : op[d].locks \cap {i} = {}
            BY <2>1 DEF VfsFree
        <3> QED
            BY <2>6, <2>8, <3>1
    <2> QED
        BY <2>1, <2>6, <2>12, <2>13, <2>17, <2>18, <1>StepInv

\* A bulk write stores its bytes.
<1>BulkCommitInv.
    ASSUME NEW c \in Client, NEW i \in InodeId, NEW end \in Size, Inv, BulkCommit(c, i, end)
    PROVE  Inv'
    <2> USE <1>BulkCommitInv
    <2>1. /\ op[c].pc = "idle" /\ UNCHANGED <<node, dirent, next, known>>
          /\ torn' = torn /\ flush' = flush /\ walk' = walk
          /\ i \in DOMAIN node /\ node[i].kind = "file"
          /\ data' = [data EXCEPT ![i] = Larger(@, end)] /\ lost' = lost \cup Meets(i)
        BY DEF BulkCommit
    <2>2. StoreInv /\ OpsInv /\ StoreTypes
        BY DEF Inv, StoreInv
    <2>3. op[c] = Idle
        BY <2>1, <2>2 DEF OpsInv, OpOK
    <2>4. PICK o : OpenedBulk(o, i, end)
        BY DEF OpenedBulk
    <2>5. op' = [op EXCEPT ![c] = o]
        BY <2>4 DEF BulkCommit, OpenedBulk
    <2>6. DOMAIN op' = Client /\ op'[c] = o /\ \A d \in Client : d # c => op'[d] = op[d]
        BY <2>2, <2>5 DEF OpsInv
    <2>7. i \in Nat /\ end \in Nat
        BY SMTT(30), NamespaceAssumption DEF InodeId, Size
    <2>8. /\ OpShape(o) /\ o.pc = "bulk" /\ o.kind = "bulk" /\ o.locks = {} /\ o.inode = i
          /\ o.size = end /\ o.free = 0 /\ o.batch.next = 0
        BY <2>4, <2>7, <1>OpenedBulkFacts
    <2>9. data' \in [InodeId -> Nat] /\ \A j \in InodeId : j # i => data'[j] = data[j]
        BY <2>1, <2>2, <2>7 DEF StoreTypes, Larger
    <2>10. data'[i] = Larger(data[i], end) /\ data[i] \in Nat
        BY <2>1, <2>2 DEF StoreTypes
    <2>11. NeverDir(i)
        BY <2>1, <2>2 DEF StoreTypes, IsDir, NeverDir
    <2>12. \A d \in Client : op[d].kind = "bulk" =>
               op'[d].kind = "bulk" /\ op'[d].inode = op[d].inode /\ op'[d].size = op[d].size
        <3>1. op[c].kind # "bulk"
            BY <2>3, IdleOK
        <3> QED
            BY <2>6, <3>1
    <2>13. ASSUME NEW d \in Client, NEW j \in {op[d].free, op[d].inode}, j \in InodeId
           PROVE  j \in {op'[d].free, op'[d].inode} \/ data'[j] = 0
        <3>1. d # c
            BY SMTT(30), <2>3, <2>13, IdleOK DEF InodeId
        <3> QED
            BY <2>6, <2>13, <3>1
    <2>14. ASSUME NEW j \in InodeId, data'[j] > data[j]
           PROVE  j \in DOMAIN node /\ NeverDir(j) /\ BulkCovers(j)'
        <3>1. j = i /\ data'[j] = end
            BY SMTT(30), <2>2, <2>7, <2>9, <2>10, <2>14 DEF Larger, StoreTypes
        <3>2. op'[c].size >= data'[j]
            BY SMTT(30), <2>6, <2>7, <2>8, <3>1
        <3> QED
            BY <2>1, <2>6, <2>8, <2>11, <3>1, <3>2 DEF BulkCovers
    <2>15. \A j \in lost' : NeverDir(j)
        BY <2>1, <2>2, <2>11 DEF StoreTypes, Meets
    <2>16. lost \subseteq lost'
        BY <2>1
    <2>17. StoreInv' /\ SameDirs
        BY <2>1, <2>2, <2>9, <2>12, <2>13, <2>14, <2>15, <2>16, <1>DataStore
    <2>18. ASSUME NEW d \in Client
           PROVE  CutStays(op[d])
        <3>1. ASSUME NEW j \in InodeId
              PROVE  /\ data'[j] \in Nat
                     /\ data'[j] <= data[j]
                        \/ (op[d].kind = "setattr" /\ j = op[d].inode => j \in lost')
            <4>1. data'[j] \in Nat /\ data[j] \in Nat
                BY <2>2, <2>9 DEF StoreTypes
            <4>2. CASE j = i
                BY <2>1, <4>1, <4>2 DEF Meets
            <4>3. CASE j # i
                BY SMTT(30), <2>9, <4>1, <4>3
            <4> QED
                BY <4>2, <4>3
        <3> QED
            BY <2>1, <2>2, <2>12, <2>16, <3>1, CutsStay
    <2>19. NeverDir(i)'
        BY <2>1, <2>11 DEF NeverDir, IsDir, InodeId
    <2>20. OpOK(o)'
        <3>1. OpShape(o)'
            BY <2>8 DEF OpShape, InodeId
        <3>2. o.pc # "idle" /\ o.pc # "stat" /\ o.pc # "free" /\ o.pc # "commit" /\ o.kind # "setattr"
              /\ o.pc \in {"bulk", "commit"} /\ o.kind \in {"setattr", "bulk"}
            BY <2>8
        <3>3. \A j : j = i => NeverDir(j)'
            BY <2>19
        <3> QED
            BY <2>8, <3>1, <3>2, <3>3 DEF OpOK
    <2>21. OpOK(op[c])' /\ op'[c].batch.next = 0 /\ op'[c].kind # "rename"
        <3>1. o.kind # "rename"
            BY <2>8
        <3> QED
            BY <2>6, <2>8, <2>20, <3>1
    <2>22. \A d \in Client : op'[c].locks \cap op[d].locks = {}
        BY <2>6, <2>8
    <2> QED
        BY <2>1, <2>6, <2>17, <2>18, <2>21, <2>22, <1>StepInv

\* Its parts.
<1>FillsFacts.
    ASSUME NEW o, NEW p, NEW b, NEW seen, OpShape(p), Fills(o, p, b, seen), b.next \in Nat
    PROVE  /\ OpShape(o) /\ o.pc = "commit" /\ o.kind = p.kind /\ o.locks = p.locks
           /\ o.free = p.free /\ o.inode = p.inode /\ o.size = p.size
           /\ o.batch = b /\ o.seen = seen
    <2> USE <1>FillsFacts
    <2>1. PICK k, l, f, i, s, q, t, u :
              /\ p = [pc |-> q, kind |-> k, locks |-> l, free |-> f,
                      batch |-> t, seen |-> u, inode |-> i, size |-> s]
              /\ k = p.kind /\ l = p.locks /\ f = p.free /\ i = p.inode /\ s = p.size
        BY DEF OpShape
    <2>2. o = [pc |-> "commit", kind |-> k, locks |-> l, free |-> f,
               batch |-> b, seen |-> seen, inode |-> i, size |-> s]
        BY <2>1 DEF Fills
    <2>3. /\ o.pc = "commit" /\ o.kind = k /\ o.locks = l /\ o.free = f /\ o.inode = i
          /\ o.size = s /\ o.batch = b /\ o.seen = seen
        BY <2>2
    <2>4. f \in InodeId \cup {0} /\ s \in Nat /\ i \in Nat
        BY <2>1 DEF OpShape
    <2>5. OpShape(o)
        BY <2>2, <2>3, <2>4 DEF OpShape
    <2> QED
        BY <2>1, <2>3, <2>5

\* Such a batch is right whenever it commits.
<1>ResizeOK.
    ASSUME NEW o, NEW i \in InodeId, NEW old, NEW new, Resizes(o, i, old, new), NeverDir(i),
           i \in o.locks \/ o.kind = "bulk",
           o.kind \in {"setattr", "bulk"},
           o.kind = "setattr" => new.size = o.size,
           o.kind = "bulk" => new.size >= old.size /\ new.size >= o.size
    PROVE  BatchOK(o)
    <2> USE <1>ResizeOK
    <2>1. PICK b, f, g : b = o.batch /\ f = One(i, new) /\ g = One(i, old) /\ o.seen = g
                         /\ b = [EmptyBatch EXCEPT !.set = f]
        BY DEF Resizes
    <2>2. b.set = f /\ b.del = {} /\ b.link = <<>> /\ b.unlink = {} /\ b.next = 0
        BY <2>1 DEF EmptyBatch
    <2>3. DOMAIN f = {i} /\ f[i] = new /\ DOMAIN g = {i} /\ g[i] = old
        BY <2>1, OneFacts
    <2>4. DOMAIN b.link = {}
        BY SMTT(30), <2>2
    <2>5. Touched(b) = {} /\ New(b) = {}
        BY <2>2, <2>4 DEF Touched, New
    <2>6. \A j : /\ Gained(b, j) = {} /\ Dropped(b, j) = {}
                 /\ GainedDirs(b, j) = {} /\ DroppedDirs(b, j) = {}
        BY <2>4, <2>5 DEF Gained, Dropped, GainedDirs, DroppedDirs
    <2>7. Cardinality({}) = 0
        BY DEF SetLaws, EmptyLaw
    <2>8. old \in Inode /\ new \in Inode /\ new.kind = old.kind /\ new.nlink = old.nlink
          /\ old.kind # "dir" /\ o.inode = i
        BY DEF Resizes
    <2>9. BatchTypes(o)
        BY <2>1, <2>2, <2>3, <2>4, <2>5, <2>8 DEF BatchTypes
    <2>10. BatchNodes(o)
        BY <2>1, <2>2, <2>3, <2>8 DEF BatchNodes
    <2>11. BatchNames(o)
        BY <2>1, <2>2, <2>4, <2>5 DEF BatchNames
    <2>12. BatchLinks(o)
        <3>1. old.nlink \in Int /\ new.nlink = old.nlink + 0 - 0
            BY SMTT(30), <2>8 DEF Inode
        <3>2. \A j : /\ Cardinality(Gained(b, j)) = 0 /\ Cardinality(Dropped(b, j)) = 0
                     /\ Cardinality(GainedDirs(b, j)) = 0 /\ Cardinality(DroppedDirs(b, j)) = 0
            BY <2>6, <2>7
        <3>3. \A j : IF j \in DOMAIN g /\ g[j].kind # "dir"
                    THEN b.set[j].nlink = g[j].nlink + Cardinality(Gained(b, j))
                                                     - Cardinality(Dropped(b, j))
                    ELSE Cardinality(Gained(b, j)) = Cardinality(Dropped(b, j))
            BY <2>2, <2>3, <2>8, <3>1, <3>2
        <3>4. \A j : IF j \in DOMAIN g /\ g[j].kind = "dir"
                    THEN b.set[j].nlink >= g[j].nlink + Cardinality(GainedDirs(b, j))
                                                      - Cardinality(DroppedDirs(b, j))
                    ELSE Cardinality(GainedDirs(b, j)) <= Cardinality(DroppedDirs(b, j))
            <4>1. \A j : ~(j \in DOMAIN g /\ g[j].kind = "dir")
                BY <2>3, <2>8
            <4>2. 0 <= 0
                BY SMTT(30)
            <4> QED
                BY <3>2, <4>1, <4>2
        <3> QED
            BY <2>1, <3>3, <3>4 DEF BatchLinks
    <2>13. BatchSizes(o)
        BY <2>1, <2>2, <2>3, <2>8 DEF BatchSizes
    <2> QED
        BY <2>9, <2>10, <2>11, <2>12, <2>13 DEF BatchOK

\* Filling the batch of a Setattr or of a bulk write keeps the invariant.
<1>FillInv.
    ASSUME NEW c \in Client, NEW o, NEW i, NEW old, NEW new, Inv,
           op' = [op EXCEPT ![c] = o], UNCHANGED <<store, flush, walk, known, lost, torn>>,
           i = op[c].inode, op[c].kind \in {"setattr", "bulk"}, i \in DOMAIN node,
           Fills(o, op[c], [EmptyBatch EXCEPT !.set = One(i, new)], One(i, old)),
           old \in Inode, new \in Inode,
           new.kind = old.kind, new.nlink = old.nlink, old.kind # "dir",
           op[c].kind = "setattr" => new.size = op[c].size,
           op[c].kind = "bulk" => new.size >= old.size /\ new.size >= op[c].size
    PROVE  Inv'
    <2> USE <1>FillInv
    <2>1. StoreInv /\ OpsInv /\ StoreTypes
        BY DEF Inv, StoreInv
    <2>2. OpOK(op[c]) /\ OpShape(op[c])
        BY <2>1 DEF OpsInv, OpOK
    <2>3. PICK b : b = [EmptyBatch EXCEPT !.set = One(i, new)]
        OBVIOUS
    <2>4. b.next = 0
        BY <2>3 DEF EmptyBatch
    <2>5. b.next \in Nat
        BY SMTT(30), <2>4
    <2>6. /\ OpShape(o) /\ o.pc = "commit" /\ o.kind = op[c].kind /\ o.locks = op[c].locks
          /\ o.free = op[c].free /\ o.inode = op[c].inode /\ o.size = op[c].size
          /\ o.batch = b /\ o.seen = One(i, old)
        <3>1. Fills(o, op[c], b, One(i, old))
            BY <2>3
        <3> QED
            BY SMTT(30), <2>2, <2>5, <3>1, <1>FillsFacts
    <2>7. DOMAIN op' = Client /\ op'[c] = o /\ \A d \in Client : d # c => op'[d] = op[d]
        BY <2>1 DEF OpsInv
    <2>8. \A d \in Client : /\ op'[d].kind = op[d].kind /\ op'[d].inode = op[d].inode
                            /\ op'[d].size = op[d].size /\ op'[d].free = op[d].free
        BY <2>6, <2>7
    <2>9. UNCHANGED <<node, dirent, next, data, known, lost>> /\ torn' = torn
          /\ flush' = flush /\ walk' = walk
        BY DEF store
    <2>10. StoreInv' /\ SameDirs
        <3>1. torn \subseteq torn'
            BY <2>9
        <3> QED
            BY <2>1, <2>8, <2>9, <3>1, QuietStore
    <2>11. \A d \in Client : CutStays(op[d])
        <3>1. \A j \in InodeId : data'[j] \in Nat /\ data'[j] <= data[j]
            BY SMTT(30), <2>1, <2>9 DEF StoreTypes
        <3>2. torn \subseteq torn' /\ lost \subseteq lost'
            BY <2>9
        <3> QED
            BY <2>1, <2>8, <3>1, <3>2, CutsStay
    <2>12. NeverDir(i)
        BY <2>2 DEF OpOK
    <2>13. i \in InodeId
        BY <2>12 DEF NeverDir
    <2>14. i \in o.locks \/ o.kind = "bulk"
        BY <2>2, <2>6 DEF OpOK
    <2>15. Resizes(o, i, old, new)
        BY <2>3, <2>6 DEF Resizes
    <2>16. BatchOK(o)
        BY <2>6, <2>12, <2>13, <2>14, <2>15, <1>ResizeOK
    <2>17. OpOK(o)
        <3>1. o.pc # "idle" /\ o.pc # "stat" /\ o.pc # "bulk" /\ o.pc # "free"
            BY <2>6
        <3>2. o.kind = "setattr" =>
                 /\ o.locks = {o.inode} /\ o.free = 0 /\ NeverDir(o.inode) /\ o.inode \in DOMAIN node
                 /\ o.inode \in torn \cup lost \/ data[o.inode] <= o.size \/ BulkCovers(o.inode)
            BY <2>2, <2>6 DEF OpOK
        <3>3. o.kind = "bulk" => NeverDir(o.inode) /\ o.free = 0
            BY <2>2, <2>6 DEF OpOK
        <3>4. o.pc \in {"stat", "commit"} /\ o.pc \in {"bulk", "commit"}
            BY <2>6
        <3> QED
            BY <2>6, <2>16, <3>1, <3>2, <3>3, <3>4 DEF OpOK
    <2>18. OpOK(op[c])'
        <3>1. StoreTypes'
            BY <2>10 DEF StoreInv
        <3>2. Keeps(o)
            BY <2>1, <2>10, <3>1, SameDirsKeep
        <3>3. CutStays(o)
            BY <2>6, <2>11 DEF CutStays
        <3>4. OpOK(o)'
            BY <2>1, <2>17, <3>1, <3>2, <3>3, OpStays
        <3> QED
            BY <2>7, <3>4
    <2>19. op'[c].kind # "rename" /\ op'[c].batch.next = 0
        <3>1. o.kind # "rename"
            BY <2>6
        <3> QED
            BY <2>4, <2>6, <2>7, <3>1
    <2>20. \A d \in Client : d # c => op'[c].locks \cap op[d].locks = {}
        BY <2>1, <2>6, <2>7 DEF OpsInv
    <2> QED
        BY <2>7, <2>9, <2>10, <2>11, <2>18, <2>19, <2>20, <1>StepInv

\* A Setattr reads the node and is to write it back with its size.
<1>SetattrStatInv.
    ASSUME NEW c \in Client, Inv, SetattrStat(c)
    PROVE  Inv'
    <2> USE <1>SetattrStatInv
    <2>1. StoreTypes /\ OpsInv /\ FlushInv
        BY DEF Inv, StoreInv
    <2>2. PICK i : i = op[c].inode
        OBVIOUS
    <2>3. op[c].kind = "setattr" /\ i \in DOMAIN node /\ NeverDir(i) /\ op[c].size \in Nat
        BY <2>1, <2>2 DEF OpsInv, OpOK, SetattrStat, OpShape
    <2>4. /\ Stat(i) \in Inode /\ Stat(i).kind = node[i].kind
          /\ Stat(i).nlink = node[i].nlink
        BY <2>1, <2>3, StatFacts
    <2>5. PICK old, new : old = Stat(i) /\ new = [Stat(i) EXCEPT !.size = op[c].size]
        OBVIOUS
    <2>6. new = [old EXCEPT !.size = op[c].size] /\ old \in Inode
        BY <2>4, <2>5
    <2>7. new \in Inode /\ new.kind = old.kind /\ new.nlink = old.nlink /\ new.size = op[c].size
        BY <2>3, <2>6 DEF Inode
    <2>8. node[i].kind # "dir"
        BY <2>3 DEF NeverDir, IsDir
    <2>9. old.kind # "dir"
        BY <2>4, <2>5, <2>8
    <2>10. PICK b : b = [EmptyBatch EXCEPT !.set = One(i, new)]
        OBVIOUS
    <2>11. Seen(b) = One(i, old)
        <3>1. b.set = One(i, new)
            BY <2>10 DEF EmptyBatch
        <3>2. DOMAIN b.set \cap DOMAIN node = {i}
            <4>1. DOMAIN b.set = {i}
                BY <3>1, OneFacts
            <4> QED
                BY <2>3, <4>1
        <3> QED
            BY <2>5, <3>2 DEF Seen, One
    <2>12. PICK o : Fills(o, op[c], b, Seen(b))
        BY DEF Fills
    <2>13. op' = [op EXCEPT ![c] = o] /\ UNCHANGED <<store, flush, walk, known, lost, torn>>
        <3>1. o = [op[c] EXCEPT !.pc = "commit",
                      !.batch = [EmptyBatch EXCEPT
                         !.set = One(op[c].inode, [Stat(op[c].inode) EXCEPT !.size = op[c].size])],
                      !.seen = Seen([EmptyBatch EXCEPT
                         !.set = One(op[c].inode, [Stat(op[c].inode) EXCEPT !.size = op[c].size])])]
            BY <2>2, <2>5, <2>10, <2>12 DEF Fills
        <3> QED
            BY <2>2, <2>3, <3>1 DEF SetattrStat, hist
    <2>14. Fills(o, op[c], [EmptyBatch EXCEPT !.set = One(i, new)], One(i, old))
        BY <2>10, <2>11, <2>12
    <2>15. op[c].kind # "bulk" /\ op[c].kind \in {"setattr", "bulk"}
        BY <2>3
    <2> QED
        BY <2>2, <2>3, <2>6, <2>7, <2>9, <2>13, <2>14, <2>15, <1>FillInv

\* A bulk write reads the node and is to write it back with its end, or finds
\* that the file is gone.
<1>BulkNodeInv.
    ASSUME NEW c \in Client, Inv, BulkNode(c)
    PROVE  Inv'
    <2> USE <1>BulkNodeInv
    <2>1. StoreTypes /\ OpsInv /\ FlushInv /\ StoreInv
        BY DEF Inv, StoreInv
    <2>2. PICK i : i = op[c].inode
        OBVIOUS
    <2>3. /\ op[c].kind = "bulk" /\ NeverDir(i) /\ op[c].size \in Nat /\ op[c].free = 0
          /\ op[c].pc = "bulk"
        BY <2>1, <2>2 DEF OpsInv, OpOK, BulkNode, OpShape
    <2>4. UNCHANGED <<node, dirent, next, data, known, lost>> /\ flush' = flush /\ walk' = walk
        BY DEF BulkNode, store
    <2>5. CASE i \in DOMAIN node
        <3>1. PICK old, new : old = node[i] /\ new = Grown(node[i], op[c].size)
            OBVIOUS
        <3>2. old \in Inode /\ old.size \in Nat
            BY <2>1, <2>5, <3>1 DEF StoreTypes, Inode
        <3>3. new = [old EXCEPT !.size = Larger(old.size, op[c].size)]
            BY <3>1, <3>2 DEF Grown, Inode
        <3>4. PICK s \in Nat : s = Larger(old.size, op[c].size)
                              /\ s >= old.size /\ s >= op[c].size
            BY SMTT(30), <2>3, <3>2 DEF Larger
        <3>5. /\ new \in Inode /\ new.kind = old.kind /\ new.nlink = old.nlink
              /\ new.size >= old.size /\ new.size >= op[c].size
            <4>1. new = [old EXCEPT !.size = s]
                BY <3>3, <3>4
            <4>2. new \in Inode /\ new.kind = old.kind /\ new.nlink = old.nlink /\ new.size = s
                BY <3>2, <3>4, <4>1 DEF Inode
            <4> QED
                BY <3>4, <4>2
        <3>6. old.kind # "dir"
            BY <2>3, <2>5, <3>1 DEF NeverDir, IsDir
        <3>7. PICK o : Fills(o, op[c], [EmptyBatch EXCEPT !.set = One(i, new)], One(i, old))
            BY DEF Fills
        <3>8. op' = [op EXCEPT ![c] = o] /\ torn' = torn
            BY <2>2, <2>5, <3>1, <3>7 DEF BulkNode, Fills
        <3>9. UNCHANGED <<store, flush, walk, known, lost, torn>>
            BY <2>4, <3>8 DEF store
        <3>10. op[c].kind # "setattr" /\ op[c].kind \in {"setattr", "bulk"}
            BY <2>3
        <3> QED
            BY <2>2, <2>5, <3>2, <3>5, <3>6, <3>7, <3>8, <3>9, <3>10, <1>FillInv
    <2>6. CASE i \notin DOMAIN node
        <3>1. op' = [op EXCEPT ![c] = Idle] /\ torn' = torn \cup {i}
            BY <2>2, <2>6 DEF BulkNode
        <3>2. DOMAIN op' = Client /\ op'[c] = Idle /\ \A d \in Client : d # c => op'[d] = op[d]
            BY <2>1, <3>1 DEF OpsInv
        <3>3. torn \subseteq torn' /\ i \in torn' /\ lost \subseteq lost'
            BY <2>4, <3>1
        <3>4. \A d \in Client : op[d].kind = "bulk" =>
                 \/ op'[d].kind = "bulk" /\ op'[d].inode = op[d].inode /\ op'[d].size = op[d].size
                 \/ op[d].inode \in torn'
            BY <2>2, <3>2, <3>3
        <3>5. \A d \in Client : \A j \in {op[d].free, op[d].inode} :
                 j \in InodeId => j \in {op'[d].free, op'[d].inode} \cup torn'
            <4>1. 0 \notin InodeId
                BY SMTT(30) DEF InodeId
            <4> QED
                BY <2>2, <2>3, <3>2, <3>3, <4>1
        <3>6. StoreInv' /\ SameDirs
            BY <2>1, <2>4, <3>3, <3>4, <3>5, QuietStore
        <3>7. \A d \in Client : CutStays(op[d])
            <4>1. \A j \in InodeId : data'[j] \in Nat /\ data'[j] <= data[j]
                BY SMTT(30), <2>1, <2>4 DEF StoreTypes
            <4> QED
                BY <2>1, <3>3, <3>4, <4>1, CutsStay
        <3>8. OpOK(op[c])' /\ op'[c].batch.next = 0
            BY <3>2, IdleOK
        <3>9. op'[c].kind # "rename" /\ \A d \in Client : op'[c].locks \cap op[d].locks = {}
            BY <3>2, IdleOK
        <3> QED
            BY <2>4, <3>2, <3>6, <3>7, <3>8, <3>9, <1>StepInv
    <2> QED
        BY <2>5, <2>6

<1> QED
    BY <1>FreeInv, <1>SetattrInv, <1>BulkCommitInv, <1>SetattrStatInv, <1>BulkNodeInv

-----------------------------------------------------------------------------
(* Flushes *)

\* The same when none of them changes.
LEMMA OpsAllStay ==
    ASSUME StoreTypes, StoreTypes', OpsInv, op' = op,
           \A d \in Client : Keeps(op[d]) /\ CutStays(op[d])
    PROVE  OpsInv'
<1>1. ASSUME NEW d \in Client
      PROVE  OpOK(op[d])'
    <2>1. PICK o : o = op[d]
        OBVIOUS
    <2>2. OpOK(o)'
        BY <2>1, OpStays DEF OpsInv
    <2>3. o = op'[d]
        BY <2>1
    <2> QED
        BY <2>2, <2>3
<1> QED
    BY <1>1 DEF OpsInv

\* A step that changes neither the store nor the operations leaves them right.
LEMMA QuietOps ==
    ASSUME Inv, op' = op, UNCHANGED <<node, dirent, next, data, known, lost, torn>>
    PROVE  StoreInv' /\ OpsInv' /\ SameDirs
<1>1. StoreInv /\ OpsInv /\ StoreTypes
    BY DEF Inv, StoreInv
<1>2. StoreInv' /\ SameDirs
    <2>1. torn \subseteq torn'
        OBVIOUS
    <2> QED
        BY <1>1, <2>1, QuietStore
<1>3. StoreTypes' /\ \A e : Keeps(e)
    BY <1>1, <1>2, SameDirsKeep DEF StoreInv
<1>4. \A d \in Client : CutStays(op[d])
    <2>1. \A i \in InodeId : data'[i] \in Nat /\ data'[i] <= data[i]
        BY SMTT(30), <1>1 DEF StoreTypes
    <2> QED
        BY <1>1, <2>1, CutsStay
<1> QED
    BY <1>1, <1>2, <1>3, <1>4, OpsAllStay

\* The node a flush writes.
Flushed(i, nn, end, new) ==
    /\ \A j : j \in DOMAIN node' <=> j \in DOMAIN node \/ j = i
    /\ \A j \in DOMAIN node' : node'[j] = IF j = i THEN new ELSE node[j]
    /\ new \in Inode /\ new.kind = nn.kind /\ new.nlink = nn.nlink
    /\ new.size >= nn.size /\ new.size >= end
    /\ i \notin lost' => i \in DOMAIN node /\ node[i] = nn

\* No flush is in flight.
LEMMA NoFlushOK ==
    ASSUME flush' = NoFlush
    PROVE  FlushInv'
<1>1. NoFlush.inode = 0 /\ NoFlush.end \in Nat /\ NoFlush.nn \in Inode
      /\ NoFlush.nn.kind # "dir"
      /\ NoFlush = [inode |-> NoFlush.inode, nn |-> NoFlush.nn, end |-> NoFlush.end]
    BY SMTT(30) DEF NoFlush, NewNode, Inode
<1> QED
    BY <1>1 DEF FlushInv, Inode

\* A flush and the size it writes to the node keep the invariant.
LEMMA FlushKeepsInv ==
    /\ \A i \in InodeId, end \in Size : Inv /\ FlushHook(i, end) => Inv'
    /\ Inv /\ FlushCommit => Inv'

\* A flush reads the node.
<1>FlushHookInv.
    ASSUME NEW i \in InodeId, NEW end \in Size, Inv, FlushHook(i, end)
    PROVE  Inv'
    <2> USE <1>FlushHookInv
    <2>1. /\ i \in DOMAIN node /\ node[i].kind = "file" /\ op' = op /\ walk' = walk
          /\ UNCHANGED <<node, dirent, next, data, known, lost, torn>>
        BY DEF FlushHook, store, hist
    <2>2. StoreTypes /\ WalkInv
        BY DEF Inv, StoreInv
    <2>3. StoreInv' /\ OpsInv' /\ SameDirs
        BY <2>1, QuietOps
    <2>4. WalkInv'
        <3>1. Walking => \A d \in Client : op'[d].kind # "rename"
            BY <2>1, <2>2 DEF WalkInv
        <3> QED
            BY <2>1, <2>2, <2>3, <3>1, SameDirsWalk
    <2>5. PICK nn : nn = node[i] /\ nn \in Inode
        BY <2>1, <2>2 DEF StoreTypes
    <2>6. flush' = [inode |-> i, nn |-> nn, end |-> end]
        BY <2>5 DEF FlushHook
    <2>7. flush'.inode = i /\ flush'.nn = nn /\ flush'.end = end
        BY <2>6
    <2>8. end \in Nat /\ nn.kind # "dir"
        BY SMTT(30), <2>1, <2>5, NamespaceAssumption DEF Size
    <2>9. NeverDir(i)'
        BY <2>1, <2>2 DEF NeverDir, IsDir, StoreTypes
    <2>10. NeverDir(flush.inode)'
        BY <2>7, <2>9
    <2>11. FlushInv'
        BY <2>5, <2>6, <2>7, <2>8, <2>10 DEF FlushInv, Inode
    <2> QED
        BY <2>3, <2>4, <2>11 DEF Inv

\* What a flush that commits does.
<1>FlushFacts.
    ASSUME Inv, FlushCommit
    PROVE  \E i \in InodeId, nn \in Inode, end \in Nat, new \in Inode :
              /\ Flushed(i, nn, end, new) /\ NeverDir(i) /\ nn.kind # "dir"
              /\ data' = [data EXCEPT ![i] = Larger(@, end)]
              /\ lost \subseteq lost' /\ Meets(i) \subseteq lost' /\ lost' \subseteq lost \cup {i}
    <2> USE <1>FlushFacts
    <2>1. StoreTypes /\ FlushInv
        BY DEF Inv, StoreInv
    <2>2. PICK i, nn, end : i = flush.inode /\ nn = flush.nn /\ end = flush.end
        OBVIOUS
    <2>3. NeverDir(i) /\ i \in InodeId /\ nn \in Inode /\ end \in Nat /\ nn.kind # "dir"
        BY <2>1, <2>2 DEF FlushInv, FlushCommit, NeverDir
    <2>4. PICK new : new = Grown(nn, end)
        OBVIOUS
    <2>5. nn.size \in Nat
        BY <2>3 DEF Inode
    <2>6. PICK s \in Nat : s = Larger(nn.size, end) /\ s >= nn.size /\ s >= end
        BY SMTT(30), <2>3, <2>5 DEF Larger
    <2>7. new \in Inode /\ new.kind = nn.kind /\ new.nlink = nn.nlink /\ new.size = s
        <3>1. new = [nn EXCEPT !.size = s]
            BY <2>3, <2>4, <2>6 DEF Grown, Inode
        <3> QED
            BY <2>3, <3>1 DEF Inode
    <2>8. PICK f, g : f = One(i, new) /\ g = One(i, nn)
        OBVIOUS
    <2>9. DOMAIN f = {i} /\ f[i] = new /\ DOMAIN g = {i} /\ g[i] = nn
        BY <2>8, OneFacts
    <2>10. node' = Merge(node, f, {}) /\ lost' = lost \cup Stale(g) \cup Meets(i)
        BY <2>2, <2>4, <2>8 DEF FlushCommit
    <2>11. /\ \A j : j \in DOMAIN node' <=> j \in DOMAIN node \/ j = i
           /\ \A j \in DOMAIN node' : node'[j] = IF j = i THEN new ELSE node[j]
        BY <2>9, <2>10 DEF Merge
    <2>12. i \notin lost' => i \in DOMAIN node /\ node[i] = nn
        BY <2>9, <2>10 DEF Stale
    <2>13. Flushed(i, nn, end, new)
        BY <2>3, <2>6, <2>7, <2>11, <2>12 DEF Flushed
    <2>14. lost \subseteq lost' /\ Meets(i) \subseteq lost' /\ lost' \subseteq lost \cup {i}
        BY <2>9, <2>10 DEF Stale, Meets
    <2>15. data' = [data EXCEPT ![i] = Larger(@, end)]
        BY <2>2 DEF FlushCommit
    <2> QED
        BY <2>3, <2>7, <2>13, <2>14, <2>15

\* One batch commits the fragments and the node.
<1>FlushCommitInv.
    ASSUME Inv, FlushCommit
    PROVE  Inv'
    <2> USE <1>FlushCommitInv
    <2>1. StoreInv /\ StoreTypes /\ Names /\ Acyclic /\ Links /\ OpsInv /\ FlushInv /\ WalkInv
        BY DEF Inv, StoreInv
    <2>2. PICK i \in InodeId, nn \in Inode, end \in Nat, new \in Inode :
             /\ Flushed(i, nn, end, new) /\ NeverDir(i) /\ nn.kind # "dir"
             /\ data' = [data EXCEPT ![i] = Larger(@, end)]
             /\ lost \subseteq lost' /\ Meets(i) \subseteq lost' /\ lost' \subseteq lost \cup {i}
        BY <1>FlushFacts
    <2>3. UNCHANGED <<dirent, next, known, torn>> /\ op' = op /\ walk' = walk /\ flush' = NoFlush
        BY DEF FlushCommit
    <2>4. /\ \A j : j \in DOMAIN node' <=> j \in DOMAIN node \/ j = i
          /\ \A j \in DOMAIN node' : j # i => node'[j] = node[j]
          /\ i \in DOMAIN node' /\ node'[i] = new /\ new.kind # "dir"
          /\ new.nlink = nn.nlink /\ new.size >= nn.size /\ new.size >= end
          /\ i \notin lost' => i \in DOMAIN node /\ node[i] = nn
        BY <2>2 DEF Flushed
    <2>5. ~IsDir(i) /\ i < next
        BY <2>2 DEF NeverDir
    <2>6. \A j : IsDir(j)' <=> IsDir(j)
        BY <2>4, <2>5 DEF IsDir
    <2>7. SameDirs
        <3>1. \A j : IsDir(j) => node'[j] = node[j]
            BY <2>4, <2>5 DEF IsDir
        <3>2. DOMAIN node \subseteq DOMAIN node'
            BY <2>4
        <3> QED
            BY <2>2, <2>3, <2>6, <3>1, <3>2 DEF SameDirs
    <2>8. data' \in [InodeId -> Nat] /\ \A j \in InodeId : j # i => data'[j] = data[j]
        BY <2>1, <2>2 DEF StoreTypes, Larger
    <2>9. data'[i] = Larger(data[i], end) /\ data[i] \in Nat
        BY <2>1, <2>2 DEF StoreTypes
    <2>10. \A j : NeverDir(j)' <=> NeverDir(j)
        BY <2>3, <2>6 DEF NeverDir, InodeId
    <2>11. StoreTypes'
        <3>1. \A j \in DOMAIN node' : j \in InodeId /\ j < next' /\ node'[j] \in Inode
            BY <2>1, <2>2, <2>3, <2>4, <2>5 DEF StoreTypes
        <3>2. \A j \in InodeId : data'[j] > 0 => NeverDir(j)'
            BY <2>1, <2>2, <2>8, <2>10 DEF StoreTypes
        <3>3. \A j \in lost' : NeverDir(j)'
            BY <2>1, <2>2, <2>10 DEF StoreTypes
        <3>4. IsDir(RootInode)'
            BY <2>1, <2>6 DEF StoreTypes, RootInode
        <3> QED
            BY <2>1, <2>3, <2>8, <3>1, <3>2, <3>3, <3>4
               DEF StoreTypes, InodeId, Key, Inode, RootInode
    <2>12. Names' /\ Acyclic'
        BY <2>1, <2>7, SameDirsTree
    <2>13. Links'
        <3>1. ASSUME NEW j \in DOMAIN node', j \notin lost', ~IsDir(j)
              PROVE  j \in DOMAIN node /\ node'[j].nlink = node[j].nlink
            <4>1. CASE j = i
                BY <2>4, <3>1, <4>1
            <4>2. CASE j # i
                BY <2>4, <3>1, <4>2
            <4> QED
                BY <4>1, <4>2
        <3> QED
            BY <2>1, <2>7, <3>1, SameDirsLinks
    <2>14. \A d \in Client : op[d].kind = "bulk" =>
               op'[d].kind = "bulk" /\ op'[d].inode = op[d].inode /\ op'[d].size = op[d].size
        BY <2>3
    <2>15. \A d \in Client : op[d].size \in Nat
        BY <2>1 DEF OpsInv, OpOK, OpShape
    <2>16. ASSUME NEW j \in DOMAIN node', j \notin torn', j \notin lost', data'[j] > node'[j].size
           PROVE  BulkCovers(j)'
        <3>1. j \in InodeId /\ j \notin torn /\ j \notin lost
            BY <2>2, <2>3, <2>11, <2>16 DEF StoreTypes, InodeId
        <3>2. j \in DOMAIN node /\ data[j] > node[j].size /\ data'[j] = data[j]
            <4>1. CASE j # i
                BY <2>4, <2>8, <2>16, <3>1, <4>1
            <4>2. CASE j = i
                <5>1. i \in DOMAIN node /\ node[i] = nn /\ node'[i] = new
                    BY <2>4, <2>16, <4>2
                <5>2. nn.size \in Nat /\ new.size \in Nat
                    BY <2>2 DEF Inode
                <5>3. new.size >= nn.size /\ new.size >= end /\ data'[i] > new.size
                    BY <2>4, <2>16, <4>2
                <5>4. data[i] > nn.size /\ data'[i] = data[i]
                    BY SMTT(30), <2>9, <5>2, <5>3 DEF Larger
                <5> QED
                    BY <4>2, <5>1, <5>4
            <4> QED
                BY <4>1, <4>2
        <3>3. BulkCovers(j)
            BY <2>1, <3>1, <3>2 DEF StoreInv, Sizes
        <3>4. data[j] \in Nat /\ data'[j] \in Nat /\ data'[j] <= data[j]
            BY SMTT(30), <2>1, <3>1, <3>2 DEF StoreTypes
        <3> QED
            BY <2>14, <2>15, <3>3, <3>4, CoverStays
    <2>17. Sizes'
        BY <2>16 DEF Sizes
    <2>18. Owned'
        <3>1. ASSUME NEW j \in InodeId, j \notin torn', j \notin lost', data'[j] > 0
              PROVE  j \in DOMAIN node' \/ \E d \in Client : j \in {op'[d].free, op'[d].inode}
            <4>1. CASE j = i
                BY <2>4, <4>1
            <4>2. CASE j # i
                <5>1. data[j] > 0 /\ j \notin torn /\ j \notin lost
                    BY <2>2, <2>3, <2>8, <3>1, <4>2
                <5> QED
                    BY <2>1, <2>3, <2>4, <5>1 DEF StoreInv, Owned
            <4> QED
                BY <4>1, <4>2
        <3> QED
            BY <3>1 DEF Owned, InodeId
    <2>19. StoreInv'
        BY <2>11, <2>12, <2>13, <2>17, <2>18 DEF StoreInv
    <2>20. ASSUME NEW d \in Client
           PROVE  CutStays(op[d])
        <3>1. ASSUME NEW j \in InodeId
              PROVE  /\ data'[j] \in Nat
                     /\ data'[j] <= data[j]
                        \/ (op[d].kind = "setattr" /\ j = op[d].inode => j \in lost')
            <4>1. data'[j] \in Nat /\ data[j] \in Nat
                BY <2>1, <2>8 DEF StoreTypes
            <4>2. CASE j = i
                BY <2>2, <4>1, <4>2 DEF Meets
            <4>3. CASE j # i
                BY SMTT(30), <2>8, <4>1, <4>3
            <4> QED
                BY <4>2, <4>3
        <3>2. torn \subseteq torn'
            BY <2>3
        <3> QED
            BY <2>1, <2>2, <2>14, <3>1, <3>2, CutsStay
    <2>21. OpsInv'
        <3>1. \A e : Keeps(e)
            BY <2>1, <2>7, <2>11, SameDirsKeep
        <3> QED
            BY <2>1, <2>3, <2>11, <2>20, <3>1, OpsAllStay
    <2>22. FlushInv'
        BY <2>3, NoFlushOK
    <2>23. WalkInv'
        <3>1. Walking => \A d \in Client : op'[d].kind # "rename"
            BY <2>1, <2>3 DEF WalkInv
        <3> QED
            BY <2>1, <2>3, <2>7, <3>1, SameDirsWalk
    <2> QED
        BY <2>19, <2>21, <2>22, <2>23 DEF Inv

<1> QED
    BY <1>FlushHookInv, <1>FlushCommitInv

-----------------------------------------------------------------------------
(* The walk *)

\* No walk is in flight.
LEMMA NoWalkOK ==
    ASSUME walk' = NoWalk
    PROVE  WalkInv'
<1>1. <<>> \in Seq(Name)
    BY SMTT(30)
<1>2. PICK e : e = <<>> /\ e \in Seq(Name)
    BY <1>1
<1>3. walk' = [done |-> e, left |-> e, cur |-> 0]
    BY <1>2 DEF NoWalk
<1>4. walk'.done = e /\ walk'.left = e /\ walk'.cur = 0
    BY SMTT(30), <1>3
<1> QED
    BY <1>2, <1>3, <1>4 DEF WalkInv, Walking

\* A path walk keeps the invariant.
LEMMA WalkKeepsInv ==
    /\ \A path \in [1 .. 2 -> Name] : Inv /\ LookupPath(path) => Inv'
    /\ Inv /\ Lookup => Inv'

\* A LookupPath starts at the root.
<1>LookupPathInv.
    ASSUME NEW path \in [1 .. 2 -> Name], Inv, LookupPath(path)
    PROVE  Inv'
    <2> USE <1>LookupPathInv
    <2>1. /\ op' = op /\ flush' = flush
          /\ UNCHANGED <<node, dirent, next, data, known, lost, torn>>
          /\ \A c \in Client : op[c].kind # "rename"
        BY DEF LookupPath, store, hist
    <2>2. StoreTypes /\ FlushInv
        BY DEF Inv, StoreInv
    <2>3. StoreInv' /\ OpsInv' /\ SameDirs
        BY <2>1, QuietOps
    <2>4. FlushInv'
        BY <2>1, <2>2, <2>3, SameDirsFlush
    <2>5. path \in Seq(Name) /\ <<>> \in Seq(Name) /\ Len(<<>>) = 0
        <3>1. path \in Seq(Name)
            <4>1. path[1] \in Name /\ path[2] \in Name
                BY SMTT(30)
            <4>2. path = <<path[1], path[2]>>
                BY SMTT(30)
            <4>3. <<path[1], path[2]>> \in Seq(Name)
                BY SMTT(30), <4>1
            <4> QED
                BY <4>2, <4>3
        <3>2. <<>> \in Seq(Name) /\ Len(<<>>) = 0
            BY SMTT(30)
        <3> QED
            BY <3>1, <3>2
    <2>6. PICK e : e = <<>> /\ e \in Seq(Name) /\ Len(e) = 0
        BY <2>5
    <2>7. walk' = [done |-> e, left |-> path, cur |-> RootInode]
        BY <2>6 DEF LookupPath
    <2>8. walk'.done = e /\ walk'.left = path /\ walk'.cur = RootInode
        BY <2>7
    <2>9. PICK a : a = [n \in 0 .. 0 |-> RootInode]
        OBVIOUS
    <2>10. RootInode \in InodeId /\ RootInode < next'
        BY SMTT(30), <2>1, <2>2, NamespaceAssumption DEF InodeId, RootInode, StoreTypes
    <2>11. a \in [0 .. Len(walk'.done) -> InodeId] /\ Trail(a)'
        <3>1. a \in [0 .. 0 -> InodeId] /\ a[0] = RootInode /\ (\A n \in 0 .. 0 : a[n] < next')
              /\ \A n \in 1 .. 0 : FALSE
            BY SMTT(30), <2>9, <2>10
        <3>2. Len(walk'.done) = 0 /\ InodeId' = InodeId
            BY <2>6, <2>8 DEF InodeId
        <3> QED
            BY <2>8, <3>1, <3>2 DEF Trail, RootInode
    <2>12. WalkInv'
        <3>1. \A c \in Client : op'[c].kind # "rename"
            BY <2>1
        <3> QED
            BY <2>5, <2>6, <2>7, <2>8, <2>11, <3>1 DEF WalkInv, InodeId
    <2> QED
        BY <2>3, <2>4, <2>12 DEF Inv

\* A name that resolves makes the trail longer.
<1>TrailGrows.
    ASSUME NEW a \in [0 .. Len(walk.done) -> InodeId], Trail(a), walk.done \in Seq(Name),
           NEW n \in Name, NEW to \in InodeId, to < next, SameDirs,
           <<walk.cur, n>> \in DOMAIN dirent, dirent[<<walk.cur, n>>] = to,
           walk'.done = Append(walk.done, n), walk'.cur = to
    PROVE  \E b \in [0 .. Len(walk'.done) -> InodeId] : Trail(b)'
    <2> USE <1>TrailGrows
    <2>1. PICK m, d : m = Len(walk.done) /\ d = walk.done /\ m \in Nat
        <3>1. Len(walk.done) \in Nat
            BY SMTT(30)
        <3> QED
            BY <3>1
    <2>2. PICK e : e = Append(walk.done, n)
        OBVIOUS
    <2>3. /\ Len(e) = m + 1 /\ e[m + 1] = n
          /\ \A j \in 1 .. m : e[j] = d[j]
        BY SMTT(30), <2>1, <2>2
    <2>4. DEFINE b == [j \in 0 .. m + 1 |-> IF j <= m THEN a[j] ELSE to]
    <2>5. /\ a \in [0 .. m -> InodeId] /\ a[0] = RootInode /\ a[m] = walk.cur
          /\ \A j \in 0 .. m : a[j] < next
          /\ \A j \in 1 .. m : IsDir(a[j]) => /\ <<a[j - 1], d[j]>> \in DOMAIN dirent
                                             /\ dirent[<<a[j - 1], d[j]>>] = a[j]
        BY <2>1 DEF Trail
    <2>6. b \in [0 .. m + 1 -> InodeId] /\ b[0] = RootInode /\ b[m + 1] = to
          /\ (\A j \in 0 .. m : b[j] = a[j]) /\ \A j \in 0 .. m + 1 : b[j] < next
        BY SMTT(30), <2>1, <2>5
    <2>7. ASSUME NEW j \in 1 .. m + 1, IsDir(b[j])
          PROVE  <<b[j - 1], e[j]>> \in DOMAIN dirent /\ dirent[<<b[j - 1], e[j]>>] = b[j]
        <3>1. CASE j = m + 1
            <4>1. b[j - 1] = walk.cur /\ e[j] = n /\ b[j] = to
                <5>1. j - 1 = m /\ m \in 0 .. m
                    BY SMTT(30), <2>1, <3>1
                <5>2. b[m] = walk.cur
                    BY <2>5, <2>6, <5>1
                <5> QED
                    BY <2>3, <2>6, <3>1, <5>1, <5>2
            <4> QED
                BY <4>1
        <3>2. CASE j # m + 1
            <4>1. j \in 1 .. m /\ b[j] = a[j] /\ b[j - 1] = a[j - 1] /\ e[j] = d[j]
                BY SMTT(30), <2>1, <2>3, <2>6, <3>2
            <4> QED
                BY <2>5, <2>7, <4>1
        <3> QED
            BY <3>1, <3>2
    <2>8. PICK f : f = b
        OBVIOUS
    <2>9. /\ f \in [0 .. m + 1 -> InodeId] /\ f[0] = RootInode /\ f[m + 1] = to
          /\ \A j \in 0 .. m + 1 : f[j] < next
          /\ \A j \in 1 .. m + 1 : IsDir(f[j]) => /\ <<f[j - 1], e[j]>> \in DOMAIN dirent
                                                 /\ dirent[<<f[j - 1], e[j]>>] = f[j]
        BY <2>6, <2>7, <2>8
    <2>10. walk'.done = e /\ Len(walk'.done) = m + 1 /\ InodeId' = InodeId
        BY <2>2, <2>3 DEF InodeId
    <2>11. dirent' = dirent /\ next' = next /\ \A i : IsDir(i)' <=> IsDir(i)
        BY DEF SameDirs
    <2>12. Trail(f)'
        BY <2>9, <2>10, <2>11 DEF Trail, RootInode
    <2> QED
        BY <2>9, <2>10, <2>12

\* The next name of a LookupPath.
<1>LookupInv.
    ASSUME Inv, Lookup
    PROVE  Inv'
    <2> USE <1>LookupInv
    <2>1. op' = op /\ flush' = flush /\ Walking
          /\ UNCHANGED <<node, dirent, next, data, known, lost, torn>>
        BY DEF Lookup, store, hist
    <2>2. StoreTypes /\ FlushInv /\ WalkInv
        BY DEF Inv, StoreInv
    <2>3. StoreInv' /\ OpsInv' /\ SameDirs
        BY <2>1, QuietOps
    <2>4. FlushInv'
        BY <2>1, <2>2, <2>3, SameDirsFlush
    <2>5. CASE walk' = NoWalk
        BY <2>3, <2>4, <2>5, NoWalkOK DEF Inv
    <2>6. CASE walk' # NoWalk
        <3>1. PICK h, k : h = Head(walk.left) /\ k = <<walk.cur, h>>
            OBVIOUS
        <3>2. /\ walk.left # <<>> /\ k \in DOMAIN dirent
              /\ walk' = [done |-> Append(walk.done, k[2]), left |-> Tail(walk.left),
                          cur |-> dirent[k]]
            BY <2>6, <3>1 DEF Lookup
        <3>3. walk.done \in Seq(Name) /\ walk.left \in Seq(Name)
            BY <2>2 DEF WalkInv
        <3>4. h \in Name /\ Tail(walk.left) \in Seq(Name) /\ k[2] = h
            BY SMTT(30), <3>1, <3>2, <3>3
        <3>5. PICK e, t, to : e = Append(walk.done, h) /\ t = Tail(walk.left) /\ to = dirent[k]
            OBVIOUS
        <3>6. e \in Seq(Name) /\ t \in Seq(Name)
            BY SMTT(30), <3>3, <3>4, <3>5
        <3>7. walk' = [done |-> e, left |-> t, cur |-> to]
            BY <3>2, <3>4, <3>5
        <3>8. walk'.done = e /\ walk'.left = t /\ walk'.cur = to
            BY <3>7
        <3>9. to \in InodeId /\ to < next
            BY <2>2, <3>2, <3>5 DEF StoreTypes
        <3>10. PICK a \in [0 .. Len(walk.done) -> InodeId] : Trail(a)
            BY <2>1, <2>2 DEF WalkInv
        <3>11. \E b \in [0 .. Len(walk'.done) -> InodeId] : Trail(b)'
            <4>1. /\ <<walk.cur, h>> \in DOMAIN dirent /\ dirent[<<walk.cur, h>>] = to
                  /\ walk'.done = Append(walk.done, h)
                BY <3>1, <3>2, <3>5, <3>8
            <4> QED
                BY <2>3, <3>3, <3>4, <3>8, <3>9, <3>10, <4>1, <1>TrailGrows
        <3>12. \A c \in Client : op'[c].kind # "rename"
            BY <2>1, <2>2 DEF WalkInv
        <3>13. WalkInv'
            BY <3>6, <3>7, <3>8, <3>11, <3>12 DEF WalkInv, InodeId
        <3> QED
            BY <2>3, <2>4, <3>13 DEF Inv
    <2> QED
        BY <2>5, <2>6

<1> QED
    BY <1>LookupPathInv, <1>LookupInv

\* A crash ends what is in flight; the counter is read back.
LEMMA CrashInv ==
    ASSUME Inv, Crash
    PROVE  Inv'
<1>1. StoreInv /\ StoreTypes /\ OpsInv
    BY DEF Inv, StoreInv
<1>2. next' = next
    <2>1. next' = OpenNext
        BY DEF Crash
    <2> QED
        BY SMTT(30), <1>1, <2>1 DEF OpenNext, Larger, RootInode, StoreTypes
<1>3. /\ UNCHANGED <<node, dirent, next, data, known, lost>>
      /\ flush' = NoFlush /\ walk' = NoWalk /\ op' = [c \in Client |-> Idle]
    BY <1>2 DEF Crash
<1>4. torn \subseteq torn' /\ \A d \in Client : op[d].free \in torn' /\ op[d].inode \in torn'
    BY DEF Crash
<1>5. StoreInv'
    BY <1>1, <1>3, <1>4, QuietStore
<1>6. DOMAIN op' = Client /\ \A c \in Client : op'[c] = Idle
    BY <1>3
<1>7. OpsInv'
    BY <1>6, IdleOK DEF OpsInv
<1> QED
    BY <1>3, <1>5, <1>7, NoFlushOK, NoWalkOK DEF Inv

\* A stuttering step.
LEMMA StutterInv ==
    ASSUME Inv, UNCHANGED vars
    PROVE  Inv'
<1>1. /\ op' = op /\ flush' = flush /\ walk' = walk
      /\ UNCHANGED <<node, dirent, next, data, known, lost, torn>>
    BY DEF vars, store, hist
<1>2. StoreTypes /\ FlushInv /\ WalkInv
    BY DEF Inv, StoreInv
<1>3. StoreInv' /\ OpsInv' /\ SameDirs
    BY <1>1, QuietOps
<1>4. Walking => \A d \in Client : op'[d].kind # "rename"
    BY <1>1, <1>2 DEF WalkInv
<1> QED
    BY <1>1, <1>2, <1>3, <1>4, SameDirsFlush, SameDirsWalk DEF Inv

\* A new store has a root.
LEMMA InitInv ==
    ASSUME SetLaws, Init
    PROVE  Inv
<1>1. DOMAIN node = {RootInode} /\ node[RootInode] = NewNode("dir", 2)
    BY OneFacts DEF Init
<1>2. NewNode("dir", 2) \in Inode /\ NewNode("dir", 2).kind = "dir"
      /\ NewNode("dir", 2).nlink = 2
    BY SMTT(30) DEF NewNode, Inode
<1>3. DOMAIN dirent = {}
    BY SMTT(30) DEF Init
<1>4. IsDir(RootInode) /\ RootInode \in InodeId /\ next \in Nat /\ RootInode < next
      /\ next > RootInode /\ RootInode \in Nat
    BY SMTT(30), <1>1, <1>2, NamespaceAssumption DEF Init, InodeId, RootInode, IsDir
<1>5. data \in [InodeId -> Nat] /\ \A i \in InodeId : data[i] = 0 /\ ~(data[i] > 0)
    BY SMTT(30) DEF Init
<1>6. lost = {} /\ known = {RootInode} /\ DOMAIN op = Client /\ \A c \in Client : op[c] = Idle
    BY DEF Init
<1>7. IsFiniteSet(DOMAIN dirent)
    BY <1>3 DEF SetLaws, EmptyLaw
<1>8. StoreTypes
    BY <1>1, <1>2, <1>3, <1>4, <1>5, <1>6, <1>7 DEF StoreTypes
<1>9. Names
    BY <1>1, <1>3 DEF Names
<1>10. Acyclic
    <2>1. ASSUME NEW S, S # {}
          PROVE  Rooted(S)
        <3>1. PICK i : i \in S
            BY <2>1
        <3>2. ~IsDir(i) \/ i = RootInode
            BY <1>1 DEF IsDir
        <3> QED
            BY <3>1, <3>2 DEF Rooted
    <2> QED
        BY <2>1 DEF Acyclic
<1>11. Links
    <2>1. SubDirs(RootInode) = {}
        BY <1>3 DEF SubDirs
    <2>2. Cardinality(SubDirs(RootInode)) = 0
        BY <2>1 DEF SetLaws, EmptyLaw
    <2>3. node[RootInode].nlink >= 2 + Cardinality(SubDirs(RootInode))
        BY SMTT(30), <1>1, <1>2, <2>2
    <2> QED
        BY <1>1, <1>4, <2>3 DEF Links
<1>12. Sizes /\ Owned
    <2>1. ~(data[RootInode] > node[RootInode].size)
        BY SMTT(30), <1>1, <1>4, <1>5 DEF NewNode
    <2> QED
        BY <1>1, <1>5, <2>1 DEF Sizes, Owned
<1>13. OpsInv
    BY <1>6, IdleOK DEF OpsInv
<1>14. FlushInv
    <2>1. NoFlush.inode = 0 /\ NoFlush.end \in Nat /\ NoFlush.nn \in Inode
          /\ NoFlush.nn.kind # "dir"
          /\ NoFlush = [inode |-> NoFlush.inode, nn |-> NoFlush.nn, end |-> NoFlush.end]
        BY SMTT(30) DEF NoFlush, NewNode, Inode
    <2> QED
        BY <2>1 DEF FlushInv, Init
<1>15. WalkInv
    <2>1. <<>> \in Seq(Name)
        BY SMTT(30)
    <2>2. PICK e : e = <<>> /\ e \in Seq(Name)
        BY <2>1
    <2>3. walk = [done |-> e, left |-> e, cur |-> 0]
        BY <2>2 DEF NoWalk, Init
    <2>4. walk.done = e /\ walk.left = e /\ walk.cur = 0
        BY <2>3
    <2> QED
        BY <2>2, <2>3, <2>4 DEF WalkInv, Walking
<1> QED
    BY <1>8, <1>9, <1>10, <1>11, <1>12, <1>13, <1>14, <1>15 DEF Inv, StoreInv

\* Once two operations were given the same inode, that stays so.
LEMMA ClashedStays ==
    ASSUME [Next]_vars, clashed
    PROVE  clashed'
<1>1. ASSUME NEW c \in Client, NEW p \in InodeId, NEW n \in Name,
             Create(c, p, n) \/ Symlink(c, p, n) \/ Mkdir(c, p, n)
      PROVE  clashed'
    BY <1>1 DEF Create, Symlink, Mkdir, NewInode
<1>2. ASSUME NEW c \in Client, NEW p \in InodeId, NEW n \in Name,
             \/ Unlink(c, p, n) \/ Rmdir(c, p, n)
             \/ \E i \in InodeId : Link(c, i, p, n)
             \/ \E np \in InodeId, nn \in Name : Rename(c, p, n, np, nn)
      PROVE  clashed'
    BY <1>2 DEF Unlink, Rmdir, Link, Rename
<1>3. ASSUME NEW c \in Client,
             \/ Commit(c) \/ Free(c) \/ SetattrStat(c) \/ BulkNode(c)
             \/ \E i \in InodeId, s \in Size : Setattr(c, i, s) \/ BulkCommit(c, i, s)
      PROVE  clashed'
    BY <1>3 DEF Commit, Free, SetattrStat, BulkNode, Setattr, BulkCommit, hist
<1>4. CASE \/ \E i \in InodeId, e \in Size : FlushHook(i, e)
           \/ FlushCommit
           \/ \E path \in [1 .. 2 -> Name] : LookupPath(path)
           \/ Lookup
           \/ Crash
    BY <1>4 DEF FlushHook, FlushCommit, LookupPath, Lookup, Crash, hist
<1>5. CASE UNCHANGED vars
    BY <1>5 DEF vars, hist
<1> QED
    BY <1>1, <1>2, <1>3, <1>4, <1>5 DEF Next

-----------------------------------------------------------------------------
(* Climbing *)

\* One step of the climb of isDescendant, and the climb from c as far as m.
Step(i) == IF i \in {0, RootInode} THEN 0 ELSE findParent(i)

Climbs(up, c, m) ==
    up = [n \in 0 .. m |-> IF n = 0 THEN c ELSE Step(up[n - 1])]

\* What WalkStaysInTree follows the resolved names with.
Follows(at) ==
    at = [n \in 0 .. Len(walk.done) |->
             IF n = 0 THEN RootInode
             ELSE IF <<at[n - 1], walk.done[n]>> \in DOMAIN dirent
                  THEN dirent[<<at[n - 1], walk.done[n]>>] ELSE 0]

\* Climbing from a directory ends at the root: the check of a rename finds
\* every directory below the one it moves, and a path walk stays in the tree.
LEMMA ClimbFacts ==
    ASSUME SetLaws
    PROVE  /\ \A np, src :
                 StoreTypes /\ Names /\ Acyclic /\ IsDir(np) /\ ~IntoSubtree(np, src)
                 => Apart(np, src)
           /\ \A c :
                 StoreTypes /\ Names /\ Acyclic /\ IsDir(c) /\ c # RootInode
                 => isDescendant(c, RootInode)
           /\ StoreTypes /\ Names /\ WalkInv => WalkStaysInTree

\* Induction over an interval.
<1>UpTo.
    ASSUME NEW m \in Nat, NEW S, 0 \in S, \A n \in 1 .. m : n - 1 \in S => n \in S
    PROVE  0 .. m \subseteq S
    <2> USE <1>UpTo
    <2> DEFINE T == {n \in 0 .. m : n \notin S}
    <2>1. SUFFICES ASSUME T # {} PROVE FALSE
        OBVIOUS
    <2>2. PICK x \in T : \A y \in T : x <= y
        <3>1. T \in SUBSET Nat
            BY SMTT(30)
        <3> HIDE DEF T
        <3> QED
            BY <2>1, <3>1 DEF SetLaws, LeastLaw
    <2>3. x \in 0 .. m /\ x \notin S /\ x # 0
        BY <2>2
    <2>4. x - 1 \in 0 .. m /\ x - 1 < x /\ x \in 1 .. m /\ x \in Nat /\ x - 1 \in Nat
        BY SMTT(30), <2>3
    <2>5. ~(x <= x - 1)
        BY SMTT(30), <2>4
    <2>6. x - 1 \notin T
        BY <2>2, <2>5
    <2> QED
        BY <2>3, <2>4, <2>6

\* The function isDescendant climbs with exists.
<1>ClimbExists.
    ASSUME NEW c
    PROVE  \E up : Climbs(up, c, MaxInode)
    <2> DEFINE S == {m \in 0 .. MaxInode : \E up : Climbs(up, c, m)}
    <2>1. 0 \in S
        <3>1. Climbs([n \in 0 .. 0 |-> c], c, 0)
            BY SMTT(30) DEF Climbs
        <3> QED
            BY SMTT(30), <3>1, NamespaceAssumption
    <2>2. ASSUME NEW m \in 1 .. MaxInode, m - 1 \in S
          PROVE  m \in S
        <3>1. PICK f : Climbs(f, c, m - 1)
            BY <2>2
        <3> DEFINE g == [n \in 0 .. m |-> IF n < m THEN f[n] ELSE Step(f[m - 1])]
        <3>2. m \in Nat /\ m >= 1 /\ m - 1 \in Nat
            BY SMTT(30), NamespaceAssumption
        <3>3. ASSUME NEW n \in 0 .. m
              PROVE  g[n] = IF n = 0 THEN c ELSE Step(g[n - 1])
            <4>1. CASE n < m
                <5>1. n \in 0 .. m - 1 /\ (n # 0 => n - 1 \in 0 .. m /\ n - 1 < m) /\ g[n] = f[n]
                    BY SMTT(30), <3>2, <4>1
                <5>2. f[n] = IF n = 0 THEN c ELSE Step(f[n - 1])
                    BY <3>1, <5>1 DEF Climbs
                <5>3. n # 0 => g[n - 1] = f[n - 1]
                    BY <5>1
                <5> QED
                    BY <5>1, <5>2, <5>3
            <4>2. CASE ~(n < m)
                <5>1. n = m /\ n # 0 /\ m - 1 \in 0 .. m /\ m - 1 < m /\ ~(m < m)
                    BY SMTT(30), <3>2, <4>2
                <5>2. g[n] = Step(f[m - 1])
                    BY <4>2
                <5>3. g[m - 1] = f[m - 1]
                    BY <5>1
                <5> QED
                    BY <5>1, <5>2, <5>3
            <4> QED
                BY <4>1, <4>2
        <3>4. DOMAIN g = 0 .. m /\ g = [n \in 0 .. m |-> g[n]]
            OBVIOUS
        <3>5. Climbs(g, c, m)
            <4> HIDE DEF g
            <4> QED
                BY <3>3, <3>4 DEF Climbs
        <3> QED
            BY SMTT(30), <3>5
    <2>3. MaxInode \in Nat /\ MaxInode \in 0 .. MaxInode
        BY SMTT(30), NamespaceAssumption
    <2>4. 0 .. MaxInode \subseteq S
        <3> HIDE DEF S
        <3> QED
            BY <2>1, <2>2, <2>3, <1>UpTo
    <2> QED
        BY <2>3, <2>4

\* isDescendant meets what such a climb meets.
<1>ClimbIs.
    ASSUME NEW c
    PROVE  \E up : /\ Climbs(up, c, MaxInode)
                   /\ \A r : isDescendant(c, r) <=> \E n \in 1 .. MaxInode : up[n] = r
    <2> DEFINE Up == CHOOSE up : up = [n \in 0 .. MaxInode |->
                                          IF n = 0 THEN c
                                          ELSE IF up[n - 1] \in {0, RootInode} THEN 0
                                          ELSE findParent(up[n - 1])]
    <2>1. Climbs(Up, c, MaxInode)
        BY <1>ClimbExists DEF Climbs, Step
    <2>2. \A r : isDescendant(c, r) <=> \E n \in 1 .. MaxInode : Up[n] = r
        BY DEF isDescendant
    <2> QED
        BY <2>1, <2>2

\* The parent of a directory other than the root is the directory of its name.
<1>ParentIs.
    ASSUME StoreTypes, Names, NEW i, IsDir(i), i # RootInode
    PROVE  \E k \in Dirents(i) : Step(i) = k[1] /\ IsDir(k[1]) /\ k[1] \in InodeId
    <2> USE <1>ParentIs
    <2>1. PICK k : Dirents(i) = {k}
        BY OneName
    <2>2. \A l : l \in DOMAIN dirent /\ dirent[l] = i <=> l = k
        BY <2>1 DEF Dirents
    <2>3. findParent(i) = k[1]
        BY <2>2 DEF findParent
    <2>4. k \in DOMAIN dirent /\ k \in Key /\ IsDir(k[1])
        BY <2>2 DEF Names, StoreTypes
    <2>5. i # 0 /\ k[1] \in InodeId
        BY SMTT(30), <2>4 DEF StoreTypes, IsDir, InodeId, Key
    <2>6. Step(i) = k[1]
        BY <2>3, <2>5 DEF Step
    <2> QED
        BY <2>1, <2>4, <2>5, <2>6

\* A climb from a directory meets only directories, until it has met the root.
<1>ClimbDirs.
    ASSUME StoreTypes, Names, NEW c, IsDir(c), NEW up, Climbs(up, c, MaxInode)
    PROVE  /\ up[0] = c /\ \A n \in 1 .. MaxInode : up[n] = Step(up[n - 1])
           /\ \A n \in 0 .. MaxInode : up[n] = 0 \/ IsDir(up[n])
    <2> USE <1>ClimbDirs
    <2>1. MaxInode \in Nat /\ 0 \in 0 .. MaxInode
          /\ \A n \in 1 .. MaxInode : n \in 0 .. MaxInode /\ n # 0
        BY SMTT(30), NamespaceAssumption
    <2>2. up[0] = c /\ \A n \in 1 .. MaxInode : up[n] = Step(up[n - 1])
        BY <2>1 DEF Climbs
    <2> DEFINE S == {n \in 0 .. MaxInode : up[n] = 0 \/ IsDir(up[n])}
    <2>3. ASSUME NEW n \in 1 .. MaxInode, n - 1 \in S
          PROVE  n \in S
        <3>1. up[n] = Step(up[n - 1])
            BY <2>2
        <3>2. CASE up[n - 1] \in {0, RootInode}
            BY <2>1, <3>1, <3>2 DEF Step
        <3>3. CASE up[n - 1] \notin {0, RootInode}
            <4>1. IsDir(up[n - 1]) /\ up[n - 1] # RootInode
                BY <2>3, <3>3
            <4>2. IsDir(Step(up[n - 1]))
                BY <4>1, <1>ParentIs
            <4> QED
                BY <2>1, <3>1, <4>2
        <3> QED
            BY <3>2, <3>3
    <2>4. 0 \in S
        BY <2>1, <2>2
    <2>5. 0 .. MaxInode \subseteq S
        <3> HIDE DEF S
        <3> QED
            BY <2>1, <2>3, <2>4, <1>UpTo
    <2> QED
        BY <2>2, <2>5

\* It has met the root by its last step: a longer one would go round.
<1>ClimbEnds.
    ASSUME StoreTypes, Names, Acyclic, NEW c, IsDir(c), NEW up, Climbs(up, c, MaxInode)
    PROVE  up[MaxInode] \in {0, RootInode}
    <2> USE <1>ClimbEnds
    <2>1. SUFFICES ASSUME up[MaxInode] \notin {0, RootInode} PROVE FALSE
        OBVIOUS
    <2>2. MaxInode \in Nat /\ MaxInode >= 1
        BY SMTT(30), NamespaceAssumption
    <2>3. /\ up[0] = c /\ \A n \in 1 .. MaxInode : up[n] = Step(up[n - 1])
          /\ \A n \in 0 .. MaxInode : up[n] = 0 \/ IsDir(up[n])
        BY <1>ClimbDirs
    <2>4. \A n \in 0 .. MaxInode : up[n] \notin {0, RootInode}
        <3> DEFINE S == {j \in 0 .. MaxInode : up[MaxInode - j] \notin {0, RootInode}}
        <3>1. 0 \in S
            BY SMTT(30), <2>1, <2>2
        <3>2. ASSUME NEW j \in 1 .. MaxInode, j - 1 \in S
              PROVE  j \in S
            <4>1. /\ MaxInode - (j - 1) \in 1 .. MaxInode /\ j \in 0 .. MaxInode
                  /\ (MaxInode - (j - 1)) - 1 = MaxInode - j
                BY SMTT(30), <2>2
            <4>2. up[MaxInode - (j - 1)] = Step(up[MaxInode - j])
                BY <2>3, <4>1
            <4>3. up[MaxInode - (j - 1)] # 0
                BY <3>2
            <4>4. up[MaxInode - j] \notin {0, RootInode}
                BY <4>2, <4>3 DEF Step
            <4> QED
                BY <4>1, <4>4
        <3>3. 0 .. MaxInode \subseteq S
            <4> HIDE DEF S
            <4> QED
                BY <2>2, <3>1, <3>2, <1>UpTo
        <3>4. ASSUME NEW n \in 0 .. MaxInode
              PROVE  up[n] \notin {0, RootInode}
            <4>1. MaxInode - n \in 0 .. MaxInode /\ MaxInode - (MaxInode - n) = n
                BY SMTT(30), <2>2
            <4>2. MaxInode - n \in S
                BY <3>3, <4>1
            <4> QED
                BY <4>1, <4>2
        <3> QED
            BY <3>4
    <2>5. \A n \in 0 .. MaxInode : IsDir(up[n]) /\ up[n] # RootInode /\ up[n] \in InodeId
        BY <2>3, <2>4 DEF IsDir, StoreTypes
    <2>6. PICK x, y \in 0 .. MaxInode : x < y /\ up[x] = up[y]
        <3>1. up \in [0 .. MaxInode -> InodeId]
            BY <2>5 DEF Climbs
        <3>2. IsFiniteSet(0 .. MaxInode) /\ Cardinality(0 .. MaxInode) = MaxInode + 1
            BY SMTT(30), <2>2 DEF SetLaws, IntervalLaw
        <3>3. IsFiniteSet(InodeId) /\ Cardinality(InodeId) = MaxInode
            BY SMTT(30), <2>2 DEF InodeId, SetLaws, IntervalLaw
        <3>4. Cardinality(InodeId) < Cardinality(0 .. MaxInode)
            BY SMTT(30), <2>2, <3>2, <3>3
        <3>5. \E x, y \in 0 .. MaxInode : x # y /\ up[x] = up[y]
            BY <3>1, <3>2, <3>3, <3>4 DEF SetLaws, PigeonLaw
        <3>6. \A x, y \in 0 .. MaxInode : x # y => x < y \/ y < x
            BY SMTT(30), <2>2
        <3> QED
            BY <3>5, <3>6
    <2> DEFINE S == {up[n] : n \in x .. y - 1}
    <2>7. \A n \in x .. y - 1 : n \in 0 .. MaxInode /\ n + 1 \in 1 .. MaxInode
                                /\ (n + 1) - 1 = n
                                /\ (n + 1 \in x .. y - 1 \/ n + 1 = y)
        BY SMTT(30), <2>2, <2>6
    <2>8. up[x] \in S
        BY SMTT(30), <2>6
    <2>9. ASSUME NEW i \in S
          PROVE  IsDir(i) /\ i # RootInode /\ i \in InodeId /\ \E k \in Dirents(i) : k[1] \in S
        <3>1. PICK n \in x .. y - 1 : i = up[n]
            OBVIOUS
        <3>2. IsDir(i) /\ i # RootInode /\ i \in InodeId
            BY <2>5, <2>7, <3>1
        <3>3. PICK k \in Dirents(i) : Step(i) = k[1]
            BY <3>2, <1>ParentIs
        <3>4. up[n + 1] = k[1]
            BY <2>3, <2>7, <3>1, <3>3
        <3>5. up[n + 1] \in S
            BY <2>6, <2>7, <2>8
        <3> QED
            BY <3>2, <3>3, <3>4, <3>5
    <2>10. S \in SUBSET InodeId /\ S # {}
        BY <2>8, <2>9
    <2>11. Rooted(S)
        <3> HIDE DEF S
        <3> QED
            BY <2>10 DEF Acyclic
    <2> HIDE DEF S
    <2> QED
        BY <2>9, <2>11 DEF Rooted

\* What Rename's check refuses to move below itself: a directory is moved
\* only to a place whose ancestors it is not among.
<1>ApartOK.
    ASSUME StoreTypes, Names, Acyclic, NEW np, IsDir(np), NEW src, ~IntoSubtree(np, src)
    PROVE  Apart(np, src)
    <2> USE <1>ApartOK
    <2>1. PICK up : /\ Climbs(up, np, MaxInode)
                    /\ \A r : isDescendant(np, r) <=> \E n \in 1 .. MaxInode : up[n] = r
        BY <1>ClimbIs
    <2>2. /\ up[0] = np /\ \A n \in 1 .. MaxInode : up[n] = Step(up[n - 1])
          /\ \A n \in 0 .. MaxInode : up[n] = 0 \/ IsDir(up[n])
        BY <2>1, <1>ClimbDirs
    <2>3. up[MaxInode] \in {0, RootInode}
        BY <2>1, <1>ClimbEnds
    <2> DEFINE A == {i \in InodeId : \E n \in 0 .. MaxInode : up[n] = i}
    <2>4. MaxInode \in Nat /\ 0 \in 0 .. MaxInode /\ 0 \notin InodeId
          /\ \A n \in 0 .. MaxInode : n \in 1 .. MaxInode \/ n = 0
        BY SMTT(30), NamespaceAssumption DEF InodeId
    <2>5. np \in A /\ src \notin A
        <3>1. np \in InodeId
            BY DEF IsDir, StoreTypes
        <3>2. src # np /\ \A n \in 1 .. MaxInode : up[n] # src
            BY <2>1 DEF IntoSubtree
        <3> QED
            BY <2>2, <2>4, <3>1, <3>2
    <2>6. ASSUME NEW i \in A, i # RootInode
          PROVE  \E k \in Dirents(i) : k[1] \in A
        <3>1. PICK n \in 0 .. MaxInode : up[n] = i
            OBVIOUS
        <3>2. IsDir(i) /\ i # 0
            BY <2>2, <2>4, <3>1
        <3>3. n # MaxInode
            BY <2>3, <2>6, <3>1, <3>2
        <3>4. n + 1 \in 1 .. MaxInode /\ n + 1 \in 0 .. MaxInode /\ (n + 1) - 1 = n
            BY SMTT(30), <2>4, <3>3
        <3>5. PICK k \in Dirents(i) : Step(i) = k[1] /\ k[1] \in InodeId
            BY <2>6, <3>2, <1>ParentIs
        <3>6. up[n + 1] = k[1]
            BY <2>2, <3>1, <3>4, <3>5
        <3> QED
            BY <3>4, <3>5, <3>6
    <2>7. \A i \in A : IsDir(i)
        BY <2>2, <2>4
    <2>8. A \in SUBSET InodeId
        OBVIOUS
    <2> HIDE DEF A
    <2> QED
        BY <2>5, <2>6, <2>7, <2>8 DEF Apart

\* Climbing from any directory reaches the root.
<1>ReachesRoot.
    ASSUME StoreTypes, Names, Acyclic, NEW c, IsDir(c), c # RootInode
    PROVE  isDescendant(c, RootInode)
    <2> USE <1>ReachesRoot
    <2>1. PICK up : /\ Climbs(up, c, MaxInode)
                    /\ \A r : isDescendant(c, r) <=> \E n \in 1 .. MaxInode : up[n] = r
        BY <1>ClimbIs
    <2>2. /\ up[0] = c /\ \A n \in 1 .. MaxInode : up[n] = Step(up[n - 1])
          /\ \A n \in 0 .. MaxInode : up[n] = 0 \/ IsDir(up[n])
        BY <2>1, <1>ClimbDirs
    <2>3. up[MaxInode] \in {0, RootInode}
        BY <2>1, <1>ClimbEnds
    <2>4. SUFFICES ASSUME \A n \in 1 .. MaxInode : up[n] # RootInode PROVE FALSE
        BY <2>1
    <2>5. MaxInode \in Nat /\ MaxInode \in 1 .. MaxInode /\ 0 \notin InodeId
          /\ \A n \in 1 .. MaxInode : n \in 0 .. MaxInode
        BY SMTT(30), NamespaceAssumption DEF InodeId
    <2>6. \A i : IsDir(i) => i # 0
        BY <2>5 DEF IsDir, StoreTypes
    <2> DEFINE S == {n \in 0 .. MaxInode : IsDir(up[n]) /\ up[n] # RootInode}
    <2>7. 0 \in S
        BY SMTT(30), <2>2, <2>5
    <2>8. ASSUME NEW n \in 1 .. MaxInode, n - 1 \in S
          PROVE  n \in S
        <3>1. IsDir(up[n - 1]) /\ up[n - 1] # RootInode
            BY <2>8
        <3>2. IsDir(up[n])
            <4>1. IsDir(Step(up[n - 1]))
                BY <3>1, <1>ParentIs
            <4> QED
                BY <2>2, <4>1
        <3> QED
            BY <2>4, <2>5, <3>2
    <2>9. 0 .. MaxInode \subseteq S
        <3> HIDE DEF S
        <3> QED
            BY <2>5, <2>7, <2>8, <1>UpTo
    <2>10. MaxInode \in S
        BY <2>5, <2>9
    <2> QED
        BY <2>3, <2>6, <2>10

\* If a walk has reached a directory, then all it came through are there.
<1>TrailDirs.
    ASSUME Names, NEW m \in Nat, m = Len(walk.done), NEW a \in [0 .. m -> InodeId], Trail(a),
           IsDir(walk.cur)
    PROVE  \A n \in 0 .. m : IsDir(a[n])
    <2> USE <1>TrailDirs
    <2> DEFINE S == {n \in 0 .. m : IsDir(a[m - n])}
    <2>1. 0 \in S
        <3>1. m - 0 = m /\ 0 \in 0 .. m
            BY SMTT(30)
        <3>2. a[m] = walk.cur
            BY DEF Trail
        <3> QED
            BY <3>1, <3>2
    <2>2. ASSUME NEW n \in 1 .. m, n - 1 \in S
          PROVE  n \in S
        <3>1. PICK j \in 1 .. m : j = m - (n - 1) /\ j - 1 = m - n
            <4>1. m - (n - 1) \in 1 .. m /\ (m - (n - 1)) - 1 = m - n
                BY SMTT(30)
            <4> QED
                BY <4>1
        <3>2. IsDir(a[j])
            BY <2>2, <3>1
        <3>3. <<a[j - 1], walk.done[j]>> \in DOMAIN dirent
            BY <3>2 DEF Trail
        <3>4. <<a[j - 1], walk.done[j]>>[1] = a[j - 1]
            OBVIOUS
        <3>5. IsDir(a[j - 1])
            BY <3>3, <3>4 DEF Names
        <3>6. n \in 0 .. m
            BY SMTT(30)
        <3> QED
            BY <3>1, <3>5, <3>6
    <2>3. 0 .. m \subseteq S
        <3> HIDE DEF S
        <3> QED
            BY <2>1, <2>2, <1>UpTo
    <2>4. ASSUME NEW n \in 0 .. m
          PROVE  IsDir(a[n])
        <3>1. PICK j \in 0 .. m : m - j = n
            <4>1. m - n \in 0 .. m /\ m - (m - n) = n
                BY SMTT(30)
            <4> QED
                BY <4>1
        <3> QED
            BY <2>3, <3>1
    <2> QED
        BY <2>4

\* Following the names from the root then leads to where the walk is.
<1>TrailFollows.
    ASSUME Names, NEW m \in Nat, m = Len(walk.done), NEW a \in [0 .. m -> InodeId], Trail(a),
           IsDir(walk.cur)
    PROVE  Follows(a) /\ \A at : Follows(at) => at[m] = walk.cur
    <2> USE <1>TrailFollows
    <2>1. \A n \in 0 .. m : IsDir(a[n])
        BY <1>TrailDirs
    <2>2. a[0] = RootInode /\ a[m] = walk.cur
          /\ \A n \in 1 .. m : /\ <<a[n - 1], walk.done[n]>> \in DOMAIN dirent
                               /\ dirent[<<a[n - 1], walk.done[n]>>] = a[n]
        <3>1. \A n \in 1 .. m : n \in 0 .. m
            BY SMTT(30)
        <3> QED
            BY <2>1, <3>1 DEF Trail
    <2>3. Follows(a)
        <3>1. \A n \in 0 .. m : n # 0 => n \in 1 .. m
            BY SMTT(30)
        <3>2. ASSUME NEW n \in 0 .. m
              PROVE  a[n] = IF n = 0 THEN RootInode
                            ELSE IF <<a[n - 1], walk.done[n]>> \in DOMAIN dirent
                                 THEN dirent[<<a[n - 1], walk.done[n]>>] ELSE 0
            BY <2>2, <3>1
        <3>3. a = [n \in 0 .. m |-> a[n]]
            OBVIOUS
        <3> QED
            BY <3>2, <3>3 DEF Follows
    <2>4. ASSUME NEW at, Follows(at)
          PROVE  at[m] = walk.cur
        <3> DEFINE S == {n \in 0 .. m : at[n] = a[n]}
        <3>1. \A n \in 0 .. m :
                 at[n] = IF n = 0 THEN RootInode
                         ELSE IF <<at[n - 1], walk.done[n]>> \in DOMAIN dirent
                              THEN dirent[<<at[n - 1], walk.done[n]>>] ELSE 0
            BY <2>4 DEF Follows
        <3>2. 0 \in S
            <4>1. 0 \in 0 .. m
                BY SMTT(30)
            <4> QED
                BY <2>2, <3>1, <4>1
        <3>3. ASSUME NEW n \in 1 .. m, n - 1 \in S
              PROVE  n \in S
            <4>1. n \in 0 .. m /\ n # 0
                BY SMTT(30)
            <4>2. at[n - 1] = a[n - 1]
                BY <3>3
            <4> QED
                BY <2>2, <3>1, <4>1, <4>2
        <3>4. 0 .. m \subseteq S
            <4> HIDE DEF S
            <4> QED
                BY <3>2, <3>3, <1>UpTo
        <3>5. m \in 0 .. m
            BY SMTT(30)
        <3> QED
            BY <2>2, <3>4, <3>5
    <2> QED
        BY <2>3, <2>4

\* The names a walk has resolved still lead to the directory it is in.
<1>WalkInTree.
    ASSUME StoreTypes, Names, WalkInv
    PROVE  WalkStaysInTree
    <2> USE <1>WalkInTree
    <2> DEFINE At == CHOOSE at : at = [n \in 0 .. Len(walk.done) |->
                                          IF n = 0 THEN RootInode
                                          ELSE IF <<at[n - 1], walk.done[n]>> \in DOMAIN dirent
                                               THEN dirent[<<at[n - 1], walk.done[n]>>] ELSE 0]
    <2>1. IsDir(walk.cur) => At[Len(walk.done)] = walk.cur
        <3>1. SUFFICES ASSUME IsDir(walk.cur) PROVE At[Len(walk.done)] = walk.cur
            OBVIOUS
        <3>2. Walking
            BY SMTT(30), <3>1 DEF Walking, IsDir, StoreTypes, InodeId
        <3>3. PICK a \in [0 .. Len(walk.done) -> InodeId] : Trail(a)
            BY <3>2 DEF WalkInv
        <3>4. walk.done \in Seq(Name)
            BY DEF WalkInv
        <3>5. PICK m : m = Len(walk.done) /\ m \in Nat
            <4>1. Len(walk.done) \in Nat
                BY SMTT(30), <3>4
            <4> QED
                BY <4>1
        <3>6. Follows(a) /\ \A at : Follows(at) => at[m] = walk.cur
            BY <3>1, <3>3, <3>5, <1>TrailFollows
        <3>7. Follows(At)
            BY <3>6 DEF Follows
        <3>8. \A at : Follows(at) => at[Len(walk.done)] = walk.cur
            BY <3>5, <3>6
        <3> HIDE DEF At
        <3> QED
            BY <3>7, <3>8
    <2> QED
        BY <2>1 DEF WalkStaysInTree

<1> QED
    BY <1>ApartOK, <1>ReachesRoot, <1>WalkInTree

-----------------------------------------------------------------------------
(* The operations *)

\* The batch of Create, Symlink and Mkdir: it makes an inode with the name k.
Makes(o, b, k) ==
    /\ o.batch = b /\ o.seen = Seen(b) /\ o.kind = "create" /\ o.locks = {k[1]}
    /\ o.free = 0 /\ o.inode = 0
    /\ b.del = {} /\ b.unlink = {} /\ b.link = One(k, next) /\ b.next = next + 1
    /\ next \in DOMAIN b.set /\ b.set[next] \in Inode
    /\ \/ DOMAIN b.set = {next} /\ b.set[next].kind # "dir" /\ b.set[next].nlink = 1
       \/ /\ DOMAIN b.set = {k[1], next} /\ b.set[k[1]] = Bump(k[1], 1)
          /\ b.set[next].kind = "dir" /\ b.set[next].nlink = 2

\* A batch that writes back the node i with n more links, and what it saw.
WritesBack(set, seen, i, n) ==
    /\ DOMAIN set = {i} /\ DOMAIN seen = {i} /\ i \in InodeId
    /\ set[i] \in Inode /\ seen[i] \in Inode
    /\ set[i].kind = node[i].kind /\ seen[i].kind = node[i].kind
    /\ seen[i].nlink \in Int /\ set[i].nlink = seen[i].nlink + n
    /\ seen[i].size \in Nat /\ set[i].size = seen[i].size
    /\ IsDir(i) => node[i] = seen[i]
    /\ ~IsDir(i) => NeverDir(i) /\ node[i].kind # "dir"

\* The parts of a batch that a flush, a bulk write, a Setattr and an operation
\* without a new inode have in common.
Plain(o, b, kind, locks) ==
    /\ o.batch = b /\ o.seen = Seen(b) /\ o.kind = kind /\ o.locks = locks /\ o.inode = 0
    /\ b.next = 0

\* The batch of Link: it adds the name k of the file i.
AddsLink(o, b, k, i) ==
    /\ Plain(o, b, "link", {i, k[1]}) /\ o.free = 0
    /\ b.del = {} /\ b.unlink = {} /\ b.link = One(k, i) /\ b.set = One(i, Bump(i, 1))

\* What goes with a file's last link, or is written back without it.
Releases(o, b, i) ==
    \/ /\ node[i].nlink = 1 /\ b.del = {i} /\ b.set = <<>> /\ o.free = i
    \/ /\ node[i].nlink # 1 /\ b.del = {} /\ b.set = One(i, Bump(i, -1)) /\ o.free = 0

\* Its node goes with it or counts the links right.
Released(o, b, i) ==
    /\ BatchNodes(o) /\ DOMAIN o.seen = DOMAIN b.set /\ b.del \subseteq {i}
    /\ DOMAIN b.set = {i} \ b.del
    /\ \A j \in DOMAIN o.seen :
          /\ j \in InodeId /\ b.set[j] \in Inode /\ o.seen[j] \in Inode
          /\ o.seen[j].kind = b.set[j].kind /\ o.seen[j].kind # "dir"
          /\ b.set[j].size >= o.seen[j].size
          /\ b.set[j].nlink = o.seen[j].nlink + Cardinality(Gained(b, j))
                              - Cardinality(Dropped(b, j))

\* The batch of an Unlink: it takes the name k from the file i.
TakesName(o, b, k, i) ==
    /\ o.batch = b /\ o.seen = Seen(b) /\ o.kind = "unlink" /\ o.locks = {i, k[1]}
    /\ o.inode = 0 /\ b.next = 0 /\ b.unlink = {k} /\ b.link = <<>>
    /\ Releases(o, b, i)

\* A batch that writes nothing back but directories under its locks.
DirsBack(o, b) ==
    /\ o.batch = b /\ o.seen = Seen(b) /\ o.inode = 0 /\ o.kind \in {"rmdir", "rename"}
    /\ b.next = 0
    /\ \A j \in DOMAIN b.set : /\ IsDir(j) /\ j \in o.locks
                               /\ b.set[j] = Bump(j, 1) \/ b.set[j] = Bump(j, -1)

\* The batch of a Rmdir: it removes the empty directory i and its name k.
TakesDir(o, b, k, i) ==
    /\ o.batch = b /\ o.seen = Seen(b) /\ o.kind = "rmdir" /\ o.locks = {i, k[1]}
    /\ o.inode = 0 /\ b.next = 0 /\ b.unlink = {k} /\ b.link = <<>> /\ b.del = {i}
    /\ b.set = One(k[1], Bump(k[1], -1))

\* The batch of a Rename: the inode src is named l instead of k.
Moves(o, b, k, l, src) ==
    /\ o.batch = b /\ o.seen = Seen(b) /\ o.kind = "rename" /\ o.inode = 0
    /\ {k[1], l[1]} \subseteq o.locks /\ b.next = 0 /\ b.unlink = {k} /\ b.link = One(l, src)
    /\ src = dirent[k]

\* What such a batch adds.
Gains(b, k, l, src) ==
    /\ DOMAIN b.link = {l} /\ b.link[l] = src /\ Touched(b) = {k, l}
    /\ Gained(b, src) = {l} /\ \A i : i # src => Gained(b, i) = {}
    /\ \A i : GainedDirs(b, i) = IF (IsDir(src) \/ MadeDir(b, src)) /\ i = l[1] THEN {l} ELSE {}

\* A batch that removes or replaces two names, of two inodes.
TouchesTwo(b, k, l) == Touched(b) = {k, l} /\ dirent[k] # dirent[l]

\* The two inodes lose them.
DropsTwo(b, k, l) ==
    /\ Dropped(b, dirent[k]) = {k} /\ Dropped(b, dirent[l]) = {l}
    /\ \A i : i # dirent[k] /\ i # dirent[l] => Dropped(b, i) = {}

\* If both are directories, their parents do.
DropsTwoDirs(b, k, l) ==
    /\ k[1] = l[1] => DroppedDirs(b, k[1]) = {k, l}
    /\ k[1] # l[1] => DroppedDirs(b, k[1]) = {k} /\ DroppedDirs(b, l[1]) = {l}
    /\ \A i : i # k[1] /\ i # l[1] => DroppedDirs(b, i) = {}

\* How the parents of a directory that moves from one to another are counted.
Reparents(b, p, np) ==
    IF p = np THEN DOMAIN b.set = {}
    ELSE DOMAIN b.set = {p, np} /\ b.set[np] = Bump(np, 1) /\ b.set[p] = Bump(p, -1)

\* How the parents are counted if the directory replaces another one.
Replaces(b, p, np) ==
    IF p = np THEN DOMAIN b.set = {np} /\ b.set[np] = Bump(np, -1)
    ELSE DOMAIN b.set = {p, np} /\ b.set[np] = Bump(np, 1) /\ b.set[p] = Bump(p, -1)

\* It removes that one, which had the name l.
RemovesDir(b, l, dst) == b.del = {dst} /\ dst = dirent[l]

\* The operation that holds a batch.
Holds(o, kind, locks, b, free) ==
    o = [pc |-> "commit", kind |-> kind, locks |-> locks, free |-> free,
         batch |-> b, seen |-> Seen(b), inode |-> 0, size |-> 0]

\* What NewInode stores of a new inode.
Fresh(set, p) ==
    /\ next \in DOMAIN set /\ set[next] \in Inode
    /\ \/ DOMAIN set = {next} /\ set[next].kind # "dir" /\ set[next].nlink = 1
       \/ /\ DOMAIN set = {p, next} /\ set[p] = Bump(p, 1)
          /\ set[next].kind = "dir" /\ set[next].nlink = 2

\* A batch with nothing but names, which an operation adds the link of i to
\* that it drops.
NamesOnly(b) ==
    b = [set |-> <<>>, del |-> {}, link |-> b.link, unlink |-> b.unlink, next |-> b.next]

Drops(o, d, b, i) == d = DropLink(b, i) /\ o.free = Freed(i)

\* A Rename reads the batch it builds from the names.
Moving(k, l, src) ==
    [EmptyBatch EXCEPT !.unlink = {k}, !.link = One(l, src)]

\* A batch that takes no number.
AsBatch(e, set, del, link, unlink) ==
    e = [set |-> set, del |-> del, link |-> link, unlink |-> unlink, next |-> 0]

\* Such a batch, with the parents p and np counted.
Reparented(b, e, src, p, np) == b = Reparent(e, src, p, np)

Counted(b, set, del, link, unlink, p, np) ==
    /\ b.del = del /\ b.link = link /\ b.unlink = unlink /\ b.next = 0
    /\ p = np => b.set = set
    /\ p # np => /\ DOMAIN b.set = {p, np} /\ b.set[np] = Bump(np, 1)
                 /\ b.set[p] = Bump(p, -1)

\* The names and inodes of a Rename.
Renames(k, l, src) ==
    /\ k \in DOMAIN dirent /\ l \in Key /\ IsDir(l[1]) /\ src = dirent[k]
    /\ src \in DOMAIN node
    /\ IsDir(src) => ~IntoSubtree(l[1], src)

\* Its batch, if the new name is free and if it is not.
MoveBatch(b, k, l, src) == b = Reparent(Moving(k, l, src), src, k[1], l[1])

ReplaceBatch(b, k, l, src, dst) ==
    b = Reparent(Replace(Moving(k, l, src), src, dst, l[1]), src, k[1], l[1])

\* The target of a Rename that replaces it.
Target(l, src, dst) ==
    /\ l \in DOMAIN dirent /\ dst = dirent[l] /\ dst # src /\ dst \in DOMAIN node
    /\ ~hasDirentChildren(dst)

\* The operations keep the invariant when they begin: the batch each fills
\* from what it reads is right whenever it is committed.
LEMMA OperationsKeepInv ==
    ASSUME SetLaws
    PROVE  /\ \A c \in Client, p \in InodeId, n \in Name :
                 Inv /\ ~clashed' /\ (Create(c, p, n) \/ Symlink(c, p, n)) => Inv'
           /\ \A c \in Client, p \in InodeId, n \in Name :
                 Inv /\ ~clashed' /\ Mkdir(c, p, n) => Inv'
           /\ \A c \in Client, i, p \in InodeId, n \in Name :
                 Inv /\ Link(c, i, p, n) => Inv'
           /\ \A c \in Client, p \in InodeId, n \in Name :
                 Inv /\ Unlink(c, p, n) => Inv'
           /\ \A c \in Client, p \in InodeId, n \in Name : Inv /\ Rmdir(c, p, n) => Inv'
           /\ \A c \in Client, p \in InodeId, n \in Name, np \in InodeId, nn \in Name :
                 Inv /\ Rename(c, p, n, np, nn) => Inv'

\* An operation that begins with a right batch disturbs nothing.
<1>BeginKeeps.
    ASSUME NEW c \in Client, NEW o, op[c] = Idle, op' = [op EXCEPT ![c] = o],
           UNCHANGED <<store, flush, walk, known, lost, torn>>,
           StoreInv, OpsInv, FlushInv, WalkInv, OpOK(o), VfsFree(o.locks),
           o.kind \notin {"setattr", "bulk"}, OpenMuFree(o.kind),
           o.batch.next # 0 => \A d \in Client : op[d].batch.next = 0
    PROVE  StoreInv' /\ OpsInv' /\ FlushInv' /\ WalkInv'
    <2> USE <1>BeginKeeps
    <2>1. DOMAIN op' = Client /\ op'[c] = o /\ \A d \in Client : d # c => op'[d] = op[d]
        BY DEF OpsInv
    <2>2. UNCHANGED <<node, dirent, next, data, known, lost>> /\ torn' = torn
        BY DEF store
    <2>3. \A d \in Client : op[d].kind = "bulk" => op'[d] = op[d]
        BY <2>1, IdleOK
    <2>4. ASSUME NEW d \in Client, NEW i \in {op[d].free, op[d].inode}, i \in InodeId
          PROVE  i \in {op'[d].free, op'[d].inode} \cup torn'
        <3>1. d # c
            <4>1. 0 \notin InodeId
                BY SMTT(30) DEF InodeId
            <4> QED
                BY <2>4, <4>1, IdleOK
        <3> QED
            BY <2>1, <2>4, <3>1
    <2>5. StoreInv' /\ SameDirs
        BY <2>2, <2>3, <2>4, QuietStore
    <2>6. StoreTypes /\ StoreTypes'
        BY <2>5 DEF StoreInv
    <2>7. \A e : Keeps(e)
        BY <2>5, <2>6, SameDirsKeep
    <2>8. \A d \in Client : CutStays(op[d])
        <3>1. \A i \in InodeId : data'[i] \in Nat /\ data'[i] <= data[i]
            BY SMTT(30), <2>2, <2>6 DEF StoreTypes
        <3> QED
            BY <2>2, <2>3, <2>6, <3>1, CutsStay
    <2>9. OpOK(op[c])'
        <3>1. CutStays(o)
            BY DEF CutStays
        <3>2. OpOK(o)'
            BY <2>6, <2>7, <3>1, OpStays
        <3> QED
            BY <2>1, <3>2
    <2>10. ASSUME NEW d \in Client, d # c
           PROVE  /\ op'[c].locks \cap op[d].locks = {}
                  /\ op'[c].batch.next = 0 \/ op[d].batch.next = 0
                  /\ op'[c].kind # "rename" \/ op[d].kind # "rename"
        <3>1. op[d].locks \cap o.locks = {}
            BY DEF VfsFree
        <3> QED
            BY <2>1, <3>1 DEF OpenMuFree
    <2>11. OpsInv'
        <3>1. \A d \in Client : d # c =>
                 /\ op'[d] = op[d] /\ Keeps(op[d]) /\ CutStays(op[d])
                 /\ op'[c].locks \cap op[d].locks = {}
                 /\ op'[c].batch.next = 0 \/ op[d].batch.next = 0
                 /\ op'[c].kind # "rename" \/ op[d].kind # "rename"
            BY <2>1, <2>7, <2>8, <2>10
        <3> QED
            BY <2>1, <2>6, <2>9, <3>1, OpsStay
    <2>12. Walking => \A d \in Client : op'[d].kind # "rename"
        BY <2>1 DEF WalkInv, OpenMuFree
    <2> QED
        BY <2>5, <2>11, <2>12, SameDirsFlush, SameDirsWalk

\* How an operation begins.
<1>Begun.
    ASSUME NEW c \in Client, NEW kind, NEW locks, NEW batch, NEW free,
           Begin(c, kind, locks, batch, free), OpsInv
    PROVE  /\ op[c] = Idle /\ VfsFree(locks) /\ OpenMuFree(kind)
           /\ UNCHANGED <<store, flush, walk, known, lost, torn>>
           /\ op' = [op EXCEPT ![c] =
                        [pc |-> "commit", kind |-> kind, locks |-> locks, free |-> free,
                         batch |-> batch, seen |-> Seen(batch), inode |-> 0, size |-> 0]]
    <2> USE <1>Begun
    <2>1. op[c] = Idle
        BY DEF Begin, OpsInv, OpOK
    <2>2. PICK o : o = [Idle EXCEPT !.pc = "commit", !.kind = kind, !.locks = locks,
                                    !.free = free, !.batch = batch, !.seen = Seen(batch)]
        OBVIOUS
    <2>3. PICK s : s = Seen(batch)
        OBVIOUS
    <2>4. o = [pc |-> "commit", kind |-> kind, locks |-> locks, free |-> free,
               batch |-> batch, seen |-> s, inode |-> 0, size |-> 0]
        <3>1. o = [Idle EXCEPT !.pc = "commit", !.kind = kind, !.locks = locks,
                               !.free = free, !.batch = batch, !.seen = s]
            BY <2>2, <2>3
        <3> QED
            BY <3>1 DEF Idle
    <2>5. op' = [op EXCEPT ![c] = o]
        BY <2>2 DEF Begin
    <2> QED
        BY <2>1, <2>3, <2>4, <2>5 DEF Begin

\* An operation that begins leaves everything right if its batch is right.
<1>BeginInv.
    ASSUME NEW c \in Client, NEW kind, NEW locks, NEW batch, NEW free, NEW o,
           Begin(c, kind, locks, batch, free), StoreInv, OpsInv, FlushInv, WalkInv,
           kind \notin {"setattr", "bulk"}, free \in InodeId \cup {0}, batch.next \in Nat,
           batch.next # 0 => \A d \in Client : op[d].batch.next = 0,
           o = [pc |-> "commit", kind |-> kind, locks |-> locks, free |-> free,
                batch |-> batch, seen |-> Seen(batch), inode |-> 0, size |-> 0],
           BatchOK(o)
    PROVE  StoreInv' /\ OpsInv' /\ FlushInv' /\ WalkInv'
    <2> USE <1>BeginInv
    <2>1. /\ op[c] = Idle /\ VfsFree(locks) /\ OpenMuFree(kind)
          /\ UNCHANGED <<store, flush, walk, known, lost, torn>>
          /\ op' = [op EXCEPT ![c] = o]
        BY SMTT(30), <1>Begun
    <2>2. o.pc = "commit" /\ o.kind = kind /\ o.locks = locks /\ o.batch = batch
          /\ o.inode = 0 /\ OpShape(o)
        BY DEF OpShape
    <2>3. OpOK(o)
        BY <2>2 DEF OpOK
    <2> QED
        BY <2>1, <2>2, <2>3, <1>BeginKeeps

\* Writing back a node with another link count.
<1>BumpFacts.
    ASSUME StoreTypes, FlushInv, NEW i \in DOMAIN node, NEW n \in Int
    PROVE  /\ Bump(i, n) \in Inode /\ Bump(i, n).kind = node[i].kind
           /\ Bump(i, n).nlink = node[i].nlink + n /\ Bump(i, n).size = Stat(i).size
    BY SMTT(30), <1>BumpFacts, StatFacts DEF Bump, Inode

\* What an operation saw of the nodes it is going to write.
<1>SeenFacts.
    ASSUME NEW batch
    PROVE  /\ DOMAIN Seen(batch) = DOMAIN batch.set \cap DOMAIN node
           /\ \A i \in DOMAIN Seen(batch) : Seen(batch)[i] = Stat(i)
    BY DEF Seen

\* Counting up to two.
<1>Counts.
           /\ Cardinality({}) = 0 /\ \A x : Cardinality({x}) = 1
           /\ \A x, y : x # y => Cardinality({x, y}) = 2
    <2>1. Cardinality({}) = 0 /\ \A x : Cardinality({x}) = 1 /\ IsFiniteSet({x})
        BY DEF SetLaws, EmptyLaw, SingletonLaw
    <2>2. ASSUME NEW x, NEW y, x # y
          PROVE  Cardinality({x, y}) = 2
        <3>1. {x, y} = {x} \cup {y} /\ y \notin {x}
            BY <2>2
        <3>2. Cardinality({x} \cup {y}) = Cardinality({x}) + 1
            BY <2>1, <3>1 DEF SetLaws, AddLaw
        <3>3. Cardinality({x, y}) = Cardinality({x}) + 1 /\ Cardinality({x}) = 1
            BY <2>1, <3>1, <3>2
        <3> QED
            BY SMTT(30), <3>3
    <2> QED
        BY <2>1, <2>2

\* How the counts of a rename compare.
<1>SmallCounts.
    /\ {0, 1, 2} \subseteq Nat /\ -1 \in Int /\ 1 \in Int /\ \A g \in Nat : g <= g
    /\ 0 <= 0 /\ 1 >= 1 - 0 /\ 1 >= 1 - 1 /\ -1 >= 0 - 1 /\ -1 >= 1 - 2
    BY SMTT(30)

\* A batch that adds no name.
<1>NoLink.
    ASSUME NEW b, b.link = <<>>
    PROVE  /\ DOMAIN b.link = {} /\ Touched(b) = b.unlink
           /\ \A i : Gained(b, i) = {} /\ GainedDirs(b, i) = {}
    <2> USE <1>NoLink
    <2>1. DOMAIN b.link = {}
        BY SMTT(30)
    <2> QED
        BY <2>1 DEF Touched, Gained, GainedDirs

\* A batch that adds one.
<1>OneLink.
    ASSUME NEW b, NEW k, NEW x, b.link = One(k, x)
    PROVE  DOMAIN b.link = {k} /\ b.link[k] = x /\ Touched(b) = b.unlink \cup {k}
    <2> USE <1>OneLink
    <2>1. DOMAIN b.link = {k} /\ b.link[k] = x
        BY OneFacts
    <2> QED
        BY <2>1 DEF Touched

\* It is a name of its inode, and of nothing else.
<1>OneGained.
    ASSUME NEW b, NEW k, NEW x, b.link = One(k, x)
    PROVE  Gained(b, x) = {k} /\ \A i : i # x => Gained(b, i) = {}
    <2> USE <1>OneGained
    <2>1. DOMAIN b.link = {k} /\ b.link[k] = x
        BY <1>OneLink
    <2>2. ASSUME NEW i, NEW l
          PROVE  l \in Gained(b, i) <=> l = k /\ i = x
        BY <2>1 DEF Gained
    <2> QED
        BY <2>2

\* It counts for the parent if that inode is a directory.
<1>OneGainedDir.
    ASSUME NEW b, NEW k, NEW x, b.link = One(k, x)
    PROVE  \A i : GainedDirs(b, i) = IF (IsDir(x) \/ MadeDir(b, x)) /\ i = k[1]
                                     THEN {k} ELSE {}
    <2> USE <1>OneGainedDir
    <2>1. DOMAIN b.link = {k} /\ b.link[k] = x
        BY <1>OneLink
    <2>2. ASSUME NEW i, NEW l
          PROVE  l \in GainedDirs(b, i)
                 <=> l = k /\ i = k[1] /\ (IsDir(x) \/ MadeDir(b, x))
        BY <2>1 DEF GainedDirs
    <2> QED
        BY <2>2

\* A batch that removes or replaces no name.
<1>NoDrop.
    ASSUME NEW b, \A k \in Touched(b) : k \notin DOMAIN dirent
    PROVE  \A i : Dropped(b, i) = {} /\ DroppedDirs(b, i) = {}
    BY <1>NoDrop DEF Dropped, DroppedDirs

\* A batch that removes or replaces one.
<1>OneDrop.
    ASSUME NEW b, NEW k \in DOMAIN dirent, k \in Touched(b),
           \A l \in Touched(b) : l \in DOMAIN dirent => l = k
    PROVE  /\ Dropped(b, dirent[k]) = {k} /\ \A i : i # dirent[k] => Dropped(b, i) = {}
           /\ IsDir(dirent[k]) => /\ DroppedDirs(b, k[1]) = {k}
                                  /\ \A i : i # k[1] => DroppedDirs(b, i) = {}
           /\ ~IsDir(dirent[k]) => \A i : DroppedDirs(b, i) = {}
    <2> USE <1>OneDrop
    <2>1. ASSUME NEW i, NEW l
          PROVE  /\ l \in Dropped(b, i) <=> l = k /\ i = dirent[k]
                 /\ l \in DroppedDirs(b, i) <=> l = k /\ i = k[1] /\ IsDir(dirent[k])
        BY DEF Dropped, DroppedDirs
    <2> QED
        BY <2>1

\* The batch of such an operation is right.
<1>NewInodeOK.
    ASSUME StoreTypes, FlushInv, next \in InodeId, NEW k \in Key, NEW p, p = k[1],
           IsDir(p), k \notin DOMAIN dirent, NEW o, NEW b, Makes(o, b, k)
    PROVE  BatchOK(o)
    <2> USE <1>NewInodeOK
    <2>1. next \notin DOMAIN node /\ ~IsDir(next) /\ next \in Nat /\ p \in DOMAIN node /\ p # next
        BY NewIsFresh DEF StoreTypes, IsDir
    <2>2. /\ o.batch = b /\ o.kind = "create" /\ o.locks = {p} /\ o.free = 0 /\ o.inode = 0
          /\ b.del = {} /\ b.unlink = {} /\ b.next = next + 1
          /\ next \in DOMAIN b.set /\ b.set[next] \in Inode
        BY DEF Makes
    <2>3. \/ DOMAIN b.set = {next} /\ b.set[next].kind # "dir" /\ b.set[next].nlink = 1
          \/ /\ DOMAIN b.set = {p, next} /\ b.set[p] = Bump(p, 1)
             /\ b.set[next].kind = "dir" /\ b.set[next].nlink = 2
        BY DEF Makes
    <2>4. New(b) = {next} /\ b.next # 0
        <3>1. b.next # 0
            BY SMTT(30), <2>1, <2>2
        <3> QED
            BY <3>1 DEF New
    <2>5. b.link = One(k, next)
        BY DEF Makes
    <2>6. /\ DOMAIN b.link = {k} /\ b.link[k] = next /\ Touched(b) = b.unlink \cup {k}
          /\ Gained(b, next) = {k} /\ \A i : i # next => Gained(b, i) = {}
        <3>1. DOMAIN b.link = {k} /\ b.link[k] = next /\ Touched(b) = b.unlink \cup {k}
            BY <2>5, <1>OneLink
        <3> QED
            BY <2>5, <3>1, <1>OneGained
    <2>7. Touched(b) = {k}
        BY <2>2, <2>6
    <2>8. \A i : Dropped(b, i) = {} /\ DroppedDirs(b, i) = {}
        BY <2>7, <1>NoDrop
    <2>9. /\ Stat(p) = node[p] /\ node[p] \in Inode /\ node[p].kind = "dir"
          /\ Bump(p, 1) \in Inode /\ Bump(p, 1).kind = "dir"
          /\ Bump(p, 1).nlink = node[p].nlink + 1 /\ Bump(p, 1).size = node[p].size
        <3>1. Stat(p) = node[p] /\ node[p] \in Inode /\ node[p].kind = "dir"
            BY <2>1, StatFacts DEF IsDir, StoreTypes
        <3> QED
            BY SMTT(30), <2>1, <3>1, <1>BumpFacts
    <2>10. DOMAIN o.seen = DOMAIN b.set \ {next}
           /\ \A i \in DOMAIN o.seen : i = p /\ o.seen[i] = node[p]
        <3>1. o.seen = Seen(b)
            BY DEF Makes
        <3>2. DOMAIN o.seen = DOMAIN b.set \cap DOMAIN node
              /\ \A i \in DOMAIN o.seen : o.seen[i] = Stat(i)
            BY <3>1, <1>SeenFacts
        <3>3. DOMAIN b.set \subseteq {p, next}
            BY <2>3
        <3> QED
            BY <2>1, <2>9, <3>2, <3>3
    <2>11. BatchTypes(o)
        <3>1. \A i \in DOMAIN b.set : i \in InodeId /\ b.set[i] \in Inode
            BY <2>1, <2>2, <2>3, <2>9 DEF StoreTypes
        <3>2. \A i \in DOMAIN o.seen : o.seen[i] \in Inode /\ o.seen[i].kind = b.set[i].kind
            BY <2>1, <2>3, <2>9, <2>10
        <3>3. b.del \subseteq InodeId /\ b.unlink \subseteq Key /\ DOMAIN b.link \subseteq Key
              /\ \A j, l \in DOMAIN b.link : j = l
            BY <2>2, <2>6
        <3>4. DOMAIN b.set \subseteq DOMAIN o.seen \cup New(b) /\ DOMAIN o.seen \subseteq DOMAIN b.set
            BY <2>4, <2>10
        <3> QED
            BY <2>2, <3>1, <3>2, <3>3, <3>4 DEF BatchTypes
    <2>12. BatchNodes(o)
        <3>1. Cardinality(Gained(b, next)) = 1
            BY <2>6, <1>Counts
        <3>2. b.set[next].nlink = IF b.set[next].kind = "dir" THEN 2 ELSE 1
            BY <2>3
        <3>3. \A i \in DOMAIN o.seen : i \in o.locks /\ i \in DOMAIN node /\ node[i] = o.seen[i]
                                       /\ o.seen[i].kind = "dir"
            BY <2>1, <2>2, <2>9, <2>10
        <3>4. next \in DOMAIN b.set \ DOMAIN o.seen
            BY <2>2, <2>10
        <3> QED
            BY <2>2, <3>1, <3>2, <3>3, <3>4 DEF BatchNodes
    <2>13. BatchNames(o)
        BY <2>2, <2>4, <2>6, <2>7 DEF BatchNames
    <2>14. BatchLinks(o)
        <3>1. ASSUME NEW i \in InodeId, i # next
              PROVE  /\ ~(i \in DOMAIN o.seen /\ o.seen[i].kind # "dir")
                     /\ Cardinality(Gained(b, i)) = Cardinality(Dropped(b, i))
            BY <2>6, <2>8, <2>9, <2>10, <3>1
        <3>2. ASSUME NEW i \in InodeId, i # next
              PROVE  IF i \in DOMAIN o.seen /\ o.seen[i].kind = "dir"
                     THEN b.set[i].nlink >= o.seen[i].nlink + Cardinality(GainedDirs(b, i))
                                            - Cardinality(DroppedDirs(b, i))
                     ELSE Cardinality(GainedDirs(b, i)) <= Cardinality(DroppedDirs(b, i))
            <4>1. Cardinality(DroppedDirs(b, i)) = 0
                BY <2>8, <1>Counts
            <4>2. CASE i \in DOMAIN o.seen
                <5>1. i = p /\ i \in DOMAIN b.set /\ o.seen[i] = node[p]
                    BY <2>10, <4>2
                <5>2. b.set[i].nlink = node[p].nlink + 1 /\ node[p].nlink \in Int
                    BY <2>1, <2>3, <2>9, <5>1 DEF Inode
                <5>3. GainedDirs(b, i) = {k} \/ GainedDirs(b, i) = {}
                    BY <2>5, <1>OneGainedDir
                <5>4. Cardinality(GainedDirs(b, i)) = 1 \/ Cardinality(GainedDirs(b, i)) = 0
                    BY <5>3, <1>Counts
                <5> QED
                    BY SMTT(30), <2>9, <4>1, <4>2, <5>1, <5>2, <5>4
            <4>3. CASE i \notin DOMAIN o.seen
                <5>1. i = p => ~MadeDir(b, next)
                    BY <2>1, <2>3, <2>10, <4>3 DEF MadeDir
                <5>2. GainedDirs(b, i) = {}
                    BY <2>1, <2>5, <5>1, <1>OneGainedDir
                <5>3. Cardinality(GainedDirs(b, i)) = 0
                    BY <5>2, <1>Counts
                <5> QED
                    BY SMTT(30), <4>1, <4>3, <5>3
            <4> QED
                BY <4>2, <4>3
        <3> QED
            BY <2>2, <2>4, <3>1, <3>2 DEF BatchLinks
    <2>15. BatchSizes(o)
        <3>1. ASSUME NEW i \in DOMAIN o.seen
              PROVE  b.set[i].size >= o.seen[i].size
            BY SMTT(30), <2>1, <2>3, <2>9, <2>10 DEF Inode
        <3> QED
            BY <2>2, <3>1 DEF BatchSizes
    <2> QED
        BY <2>11, <2>12, <2>13, <2>14, <2>15 DEF BatchOK

\* Writing one node back with another link count does that.
<1>OneSet.
    ASSUME StoreTypes, FlushInv, NEW i \in DOMAIN node, NEW n \in Int, NEW b,
           b.set = One(i, Bump(i, n))
    PROVE  WritesBack(b.set, Seen(b), i, n)
    <2> USE <1>OneSet
    <2>1. DOMAIN b.set = {i} /\ b.set[i] = Bump(i, n)
        BY OneFacts
    <2>2. DOMAIN Seen(b) = {i} /\ Seen(b)[i] = Stat(i)
        BY <2>1, <1>SeenFacts
    <2>3. i \in InodeId /\ i < next
        BY DEF StoreTypes
    <2>4. ~IsDir(i) => NeverDir(i) /\ node[i].kind # "dir"
        BY <2>3 DEF NeverDir, IsDir
    <2>5. PICK s : s = Stat(i)
        OBVIOUS
    <2>6. PICK t : t = Bump(i, n)
        OBVIOUS
    <2>7. s \in Inode /\ s.kind = node[i].kind /\ s.nlink = node[i].nlink
          /\ (IsDir(i) => s = node[i])
        BY <2>5, StatFacts
    <2>8. t \in Inode /\ t.kind = node[i].kind /\ t.nlink = node[i].nlink + n /\ t.size = s.size
        BY <2>5, <2>6, <1>BumpFacts
    <2>9. s.nlink \in Int /\ s.size \in Nat
        BY <2>7 DEF Inode
    <2>10. b.set[i] = t /\ Seen(b)[i] = s
        BY <2>1, <2>2, <2>5, <2>6
    <2> QED
        BY <2>1, <2>2, <2>3, <2>4, <2>7, <2>8, <2>9, <2>10 DEF WritesBack

\* A batch that writes no node.
<1>NoSet.
    ASSUME NEW b, b.set = <<>>
    PROVE  DOMAIN b.set = {} /\ DOMAIN Seen(b) = {}
    <2> USE <1>NoSet
    <2>1. DOMAIN b.set = {}
        BY SMTT(30)
    <2> QED
        BY <2>1, <1>SeenFacts

\* The batch of a Link is right.
<1>LinkOK.
    ASSUME StoreTypes, FlushInv, NEW k \in Key, IsDir(k[1]), k \notin DOMAIN dirent,
           NEW i \in DOMAIN node, ~IsDir(i), NEW o, NEW b, AddsLink(o, b, k, i)
    PROVE  BatchOK(o)
    <2> USE <1>LinkOK
    <2>1. /\ o.batch = b /\ o.seen = Seen(b) /\ o.kind = "link" /\ o.locks = {i, k[1]}
          /\ o.inode = 0 /\ b.next = 0 /\ b.del = {} /\ b.unlink = {} /\ o.free = 0
        BY DEF AddsLink, Plain
    <2>2. b.set = One(i, Bump(i, 1)) /\ b.link = One(k, i)
        BY DEF AddsLink
    <2>3. /\ DOMAIN b.set = {i} /\ DOMAIN o.seen = {i} /\ i \in InodeId
          /\ b.set[i] \in Inode /\ o.seen[i] \in Inode
          /\ b.set[i].kind = node[i].kind /\ o.seen[i].kind = node[i].kind
          /\ o.seen[i].nlink \in Int /\ b.set[i].nlink = o.seen[i].nlink + 1
          /\ o.seen[i].size \in Nat /\ b.set[i].size = o.seen[i].size
          /\ NeverDir(i) /\ node[i].kind # "dir"
        <3>1. WritesBack(b.set, o.seen, i, 1)
            BY SMTT(30), <2>1, <2>2, <1>OneSet
        <3> QED
            BY <3>1 DEF WritesBack
    <2>4. DOMAIN b.link = {k} /\ b.link[k] = i /\ Touched(b) = b.unlink \cup {k}
        BY <2>2, <1>OneLink
    <2>5. Gained(b, i) = {k} /\ \A j : j # i => Gained(b, j) = {}
        BY <2>2, <1>OneGained
    <2>6. ~MadeDir(b, i)
        BY <2>3 DEF MadeDir
    <2>7. \A j : GainedDirs(b, j) = {}
        BY <2>2, <2>6, <1>OneGainedDir
    <2>8. Touched(b) = {k}
        BY <2>1, <2>4
    <2>9. \A j : Dropped(b, j) = {} /\ DroppedDirs(b, j) = {}
        BY <2>8, <1>NoDrop
    <2>10. New(b) = {}
        BY <2>1 DEF New
    <2>11. BatchTypes(o)
        <3>1. \A j \in DOMAIN b.set : j \in InodeId /\ b.set[j] \in Inode
            BY <2>3
        <3>2. \A j \in DOMAIN o.seen : o.seen[j] \in Inode /\ o.seen[j].kind = b.set[j].kind
            BY <2>3
        <3>3. b.del \subseteq InodeId /\ b.unlink \subseteq Key /\ DOMAIN b.link \subseteq Key
              /\ \A j, l \in DOMAIN b.link : j = l
            BY <2>1, <2>4
        <3>4. DOMAIN b.set \subseteq DOMAIN o.seen \cup New(b) /\ DOMAIN o.seen \subseteq DOMAIN b.set
            BY <2>3
        <3> QED
            BY <2>1, <3>1, <3>2, <3>3, <3>4 DEF BatchTypes
    <2>12. BatchNodes(o)
        BY <2>1, <2>3 DEF BatchNodes
    <2>13. BatchNames(o)
        BY <2>1, <2>3, <2>4, <2>8 DEF BatchNames
    <2>14. BatchLinks(o)
        <3>1. ASSUME NEW j \in InodeId
              PROVE  IF j \in DOMAIN o.seen /\ o.seen[j].kind # "dir"
                     THEN b.set[j].nlink = o.seen[j].nlink + Cardinality(Gained(b, j))
                                           - Cardinality(Dropped(b, j))
                     ELSE Cardinality(Gained(b, j)) = Cardinality(Dropped(b, j))
            <4>1. CASE j = i
                <5>1. Cardinality(Gained(b, j)) = 1 /\ Cardinality(Dropped(b, j)) = 0
                    BY <2>5, <2>9, <4>1, <1>Counts
                <5> QED
                    BY SMTT(30), <2>3, <4>1, <5>1
            <4>2. CASE j # i
                BY <2>3, <2>5, <2>9, <4>2
            <4> QED
                BY <4>1, <4>2
        <3>2. ASSUME NEW j \in InodeId
              PROVE  /\ ~(j \in DOMAIN o.seen /\ o.seen[j].kind = "dir")
                     /\ Cardinality(GainedDirs(b, j)) <= Cardinality(DroppedDirs(b, j))
            <4>1. Cardinality(GainedDirs(b, j)) = 0 /\ Cardinality(DroppedDirs(b, j)) = 0
                BY <2>7, <2>9, <1>Counts
            <4> QED
                BY SMTT(30), <2>3, <4>1
        <3> QED
            BY <2>1, <3>1, <3>2 DEF BatchLinks
    <2>15. BatchSizes(o)
        BY SMTT(30), <2>1, <2>3 DEF BatchSizes
    <2> QED
        BY <2>11, <2>12, <2>13, <2>14, <2>15 DEF BatchOK

\* A batch that takes a file's name k from it leaves its nodes right.
<1>ReleaseOK.
    ASSUME StoreTypes, Names, Links, FlushInv, NEW k \in DOMAIN dirent,
           NEW i \in DOMAIN node, i = dirent[k], ~IsDir(i), NEW o, NEW b,
           o.batch = b, o.seen = Seen(b), b.next = 0, i \in o.locks,
           k \in Touched(b), Gained(b, i) = {}, Dropped(b, i) = {k}, Releases(o, b, i)
    PROVE  Released(o, b, i)
    <2> USE <1>ReleaseOK
    <2>1. CASE node[i].nlink = 1 /\ b.del = {i} /\ b.set = <<>> /\ o.free = i
        <3>1. DOMAIN b.set = {} /\ DOMAIN o.seen = {}
            BY <2>1, <1>NoSet
        <3>2. i # RootInode
            BY DEF StoreTypes
        <3>3. \A l \in DOMAIN dirent : l[1] # i
            BY DEF Names
        <3>4. ASSUME i \notin lost
              PROVE  Dirents(i) = Dropped(b, i)
            <4>1. Cardinality(Dirents(i)) = 1
                BY <2>1, <3>4 DEF Links
            <4>2. IsFiniteSet(Dirents(i))
                <5>1. Dirents(i) \subseteq DOMAIN dirent
                    BY DEF Dirents
                <5> QED
                    BY <5>1 DEF StoreTypes, SetLaws, SubsetLaw
            <4>3. PICK x : Dirents(i) = {x}
                BY <4>1, <4>2 DEF SetLaws, SingletonLaw
            <4>4. k \in Dirents(i)
                BY DEF Dirents
            <4> QED
                BY <4>3, <4>4
        <3>5. BatchNodes(o)
            BY <2>1, <3>1, <3>2, <3>3, <3>4 DEF BatchNodes
        <3>6. {} = {i} \ b.del
            BY <2>1
        <3> QED
            BY <2>1, <3>1, <3>5, <3>6 DEF Released
    <2>2. CASE b.del = {} /\ b.set = One(i, Bump(i, -1)) /\ o.free = 0
        <3>1. /\ DOMAIN b.set = {i} /\ DOMAIN o.seen = {i} /\ i \in InodeId
              /\ b.set[i] \in Inode /\ o.seen[i] \in Inode
              /\ b.set[i].kind = node[i].kind /\ o.seen[i].kind = node[i].kind
              /\ o.seen[i].nlink \in Int /\ b.set[i].nlink = o.seen[i].nlink + (-1)
              /\ o.seen[i].size \in Nat /\ b.set[i].size = o.seen[i].size
              /\ NeverDir(i) /\ node[i].kind # "dir"
            <4>1. -1 \in Int
                BY SMTT(30)
            <4>2. WritesBack(b.set, o.seen, i, -1)
                BY <2>2, <4>1, <1>OneSet
            <4> QED
                BY <4>2 DEF WritesBack
        <3>2. BatchNodes(o)
            BY <2>2, <3>1 DEF BatchNodes
        <3>3. Cardinality(Gained(b, i)) = 0 /\ Cardinality(Dropped(b, i)) = 1
            BY <1>Counts
        <3>4. b.set[i].nlink = o.seen[i].nlink + Cardinality(Gained(b, i))
                               - Cardinality(Dropped(b, i)) /\ b.set[i].size >= o.seen[i].size
            BY SMTT(30), <3>1, <3>3
        <3>5. {i} = {i} \ b.del /\ b.del \subseteq {i}
            BY <2>2
        <3> QED
            BY <2>2, <3>1, <3>2, <3>4, <3>5 DEF Released
    <2> QED
        BY <2>1, <2>2 DEF Releases

\* The batch of an Unlink is right.
<1>UnlinkOK.
    ASSUME StoreTypes, Names, Links, FlushInv, NEW k \in DOMAIN dirent,
           NEW i \in DOMAIN node, i = dirent[k], ~IsDir(i), NEW o, NEW b,
           TakesName(o, b, k, i)
    PROVE  BatchOK(o)
    <2> USE <1>UnlinkOK
    <2>1. /\ o.batch = b /\ o.seen = Seen(b) /\ o.kind = "unlink" /\ o.locks = {i, k[1]}
          /\ o.inode = 0 /\ b.next = 0 /\ b.unlink = {k} /\ b.link = <<>>
        BY DEF TakesName
    <2>2. DOMAIN b.link = {} /\ Touched(b) = {k} /\ \A j : Gained(b, j) = {} /\ GainedDirs(b, j) = {}
        BY <2>1, <1>NoLink
    <2>3. Dropped(b, i) = {k} /\ (\A j : j # i => Dropped(b, j) = {}) /\ \A j : DroppedDirs(b, j) = {}
        BY <2>2, <1>OneDrop
    <2>4. New(b) = {} /\ i \in InodeId /\ k \in Key
        BY <2>1 DEF New, StoreTypes
    <2>5. /\ BatchNodes(o) /\ DOMAIN o.seen = DOMAIN b.set /\ b.del \subseteq {i}
          /\ DOMAIN b.set = {i} \ b.del
          /\ \A j \in DOMAIN o.seen :
                /\ j \in InodeId /\ b.set[j] \in Inode /\ o.seen[j] \in Inode
                /\ o.seen[j].kind = b.set[j].kind /\ o.seen[j].kind # "dir"
                /\ b.set[j].size >= o.seen[j].size
                /\ b.set[j].nlink = o.seen[j].nlink + Cardinality(Gained(b, j))
                                    - Cardinality(Dropped(b, j))
        <3>1. Gained(b, i) = {} /\ k \in Touched(b) /\ i \in o.locks
            BY <2>1, <2>2
        <3>2. Releases(o, b, i)
            BY DEF TakesName
        <3>3. Released(o, b, i)
            BY <2>1, <2>3, <3>1, <3>2, <1>ReleaseOK
        <3> QED
            BY <3>3 DEF Released
    <2>6. BatchTypes(o)
        BY <2>1, <2>2, <2>4, <2>5 DEF BatchTypes
    <2>7. BatchNames(o)
        BY <2>1, <2>2 DEF BatchNames
    <2>8. BatchLinks(o)
        <3>1. ASSUME NEW j \in InodeId \ b.del
              PROVE  IF j \in DOMAIN o.seen /\ o.seen[j].kind # "dir"
                     THEN b.set[j].nlink = o.seen[j].nlink + Cardinality(Gained(b, j))
                                           - Cardinality(Dropped(b, j))
                     ELSE Cardinality(Gained(b, j)) = Cardinality(Dropped(b, j))
            <4>1. j \notin DOMAIN o.seen => j # i
                BY <2>5
            <4> QED
                BY <2>2, <2>3, <2>5, <4>1
        <3>2. ASSUME NEW j \in InodeId
              PROVE  /\ ~(j \in DOMAIN o.seen /\ o.seen[j].kind = "dir")
                     /\ Cardinality(GainedDirs(b, j)) <= Cardinality(DroppedDirs(b, j))
            <4>1. Cardinality(GainedDirs(b, j)) = 0 /\ Cardinality(DroppedDirs(b, j)) = 0
                BY <2>2, <2>3, <1>Counts
            <4>2. Cardinality(GainedDirs(b, j)) <= Cardinality(DroppedDirs(b, j))
                BY <4>1, <1>SmallCounts
            <4> QED
                BY <2>5, <4>2
        <3>3. InodeId \ (b.del \cup New(b)) = InodeId \ b.del
            BY <2>4
        <3> QED
            BY <2>1, <3>1, <3>2, <3>3 DEF BatchLinks
    <2>9. BatchSizes(o)
        BY <2>1, <2>5 DEF BatchSizes
    <2> QED
        BY <2>5, <2>6, <2>7, <2>8, <2>9 DEF BatchOK

\* It saw them as they are.
<1>DirsBackSeen.
    ASSUME StoreTypes, FlushInv, NEW o, NEW b, DirsBack(o, b)
    PROVE  /\ DOMAIN o.seen = DOMAIN b.set
           /\ \A j \in DOMAIN b.set :
                 /\ j \in InodeId /\ j \in DOMAIN node /\ o.seen[j] = node[j]
                 /\ node[j] \in Inode /\ node[j].kind = "dir" /\ node[j].nlink \in Int
                 /\ b.set[j] \in Inode /\ b.set[j].kind = "dir"
                 /\ b.set[j].size >= o.seen[j].size
    <2> USE <1>DirsBackSeen
    <2>1. \A j \in DOMAIN b.set : j \in DOMAIN node
        BY DEF DirsBack, IsDir
    <2>2. DOMAIN o.seen = DOMAIN b.set /\ \A j \in DOMAIN b.set : o.seen[j] = Stat(j)
        <3>1. o.seen = Seen(b)
            BY DEF DirsBack
        <3> QED
            BY <2>1, <3>1, <1>SeenFacts
    <2>3. ASSUME NEW j \in DOMAIN b.set
          PROVE  /\ j \in InodeId /\ j \in DOMAIN node /\ o.seen[j] = node[j]
                 /\ node[j] \in Inode /\ node[j].kind = "dir" /\ node[j].nlink \in Int
                 /\ b.set[j] \in Inode /\ b.set[j].kind = "dir"
                 /\ b.set[j].size >= o.seen[j].size
        <3>1. j \in DOMAIN node /\ j \in InodeId /\ node[j] \in Inode /\ node[j].kind = "dir"
            BY <2>1 DEF DirsBack, IsDir, StoreTypes
        <3>2. Stat(j) = node[j]
            BY <3>1, StatFacts DEF IsDir
        <3>3. \A n \in Int : /\ Bump(j, n) \in Inode /\ Bump(j, n).kind = node[j].kind
                             /\ Bump(j, n).nlink = node[j].nlink + n
                             /\ Bump(j, n).size = node[j].size
            BY <3>1, <3>2, <1>BumpFacts
        <3>4. PICK n \in Int : b.set[j] = Bump(j, n)
            <4>1. 1 \in Int /\ -1 \in Int
                BY SMTT(30)
            <4> QED
                BY <4>1 DEF DirsBack
        <3>5. node[j].size \in Nat /\ node[j].nlink \in Int
            BY <3>1 DEF Inode
        <3>6. b.set[j] \in Inode /\ b.set[j].kind = "dir" /\ b.set[j].size = node[j].size
            BY <3>1, <3>3, <3>4
        <3>7. b.set[j].size >= node[j].size
            BY SMTT(30), <3>5, <3>6
        <3> QED
            BY <2>2, <3>1, <3>2, <3>3, <3>5, <3>6, <3>7
    <2> QED
        BY <2>2, <2>3

\* Its types and sizes are right.
<1>DirsBackOK.
    ASSUME StoreTypes, FlushInv, NEW o, NEW b, DirsBack(o, b),
           b.del \subseteq InodeId, b.unlink \subseteq Key, DOMAIN b.link \subseteq Key,
           \A k, l \in DOMAIN b.link : k = l
    PROVE  BatchTypes(o) /\ BatchSizes(o) /\ New(b) = {}
    <2> USE <1>DirsBackOK
    <2>1. /\ o.batch = b /\ o.inode = 0 /\ o.kind # "setattr" /\ o.kind # "bulk" /\ b.next = 0
        BY DEF DirsBack
    <2>2. DOMAIN o.seen = DOMAIN b.set
        BY <1>DirsBackSeen
    <2>3. \A j \in DOMAIN b.set : /\ j \in InodeId /\ b.set[j] \in Inode /\ o.seen[j] \in Inode
                                   /\ o.seen[j].kind = b.set[j].kind
                                   /\ b.set[j].size >= o.seen[j].size
        BY <1>DirsBackSeen
    <2>4. BatchTypes(o)
        BY <2>1, <2>2, <2>3 DEF BatchTypes
    <2>5. BatchSizes(o)
        BY <2>1, <2>2, <2>3 DEF BatchSizes
    <2> QED
        BY <2>1, <2>4, <2>5 DEF New

\* Its nodes are right if the directory it removes, if any, is empty.
<1>DirsBackNodes.
    ASSUME StoreTypes, FlushInv, NEW o, NEW b, DirsBack(o, b),
           \A i \in b.del :
              /\ i \in o.locks /\ IsDir(i) /\ i \notin DOMAIN b.set /\ i # RootInode
              /\ \A k \in DOMAIN dirent : k[1] # i
              /\ Dirents(i) = Dropped(b, i) /\ Gained(b, i) = {}
    PROVE  BatchNodes(o)
    <2> USE <1>DirsBackNodes
    <2>1. o.batch = b /\ b.next = 0
        BY DEF DirsBack
    <2>2. \A j \in DOMAIN o.seen : /\ j \in DOMAIN node /\ node[j] = o.seen[j]
                                   /\ o.seen[j].kind = "dir" /\ j \in o.locks
        <3>1. DOMAIN o.seen = DOMAIN b.set
            BY <1>DirsBackSeen
        <3>2. \A j \in DOMAIN b.set : j \in DOMAIN node /\ o.seen[j] = node[j] /\ node[j].kind = "dir"
            BY <1>DirsBackSeen
        <3>3. \A j \in DOMAIN b.set : j \in o.locks
            BY DEF DirsBack
        <3> QED
            BY <3>1, <3>2, <3>3
    <2>3. \A i \in b.del : i \in DOMAIN node
        BY DEF IsDir
    <2> QED
        BY <2>1, <2>2, <2>3 DEF BatchNodes

\* Its links are right if every inode that stays gains as many names as it
\* loses and every directory counts its subdirectories.
<1>DirsBackLinks.
    ASSUME StoreTypes, FlushInv, NEW o, NEW b, DirsBack(o, b),
           \A i \in InodeId \ b.del : Cardinality(Gained(b, i)) = Cardinality(Dropped(b, i)),
           \A i \in InodeId \ b.del :
              \E g, d \in Nat :
                 /\ g = Cardinality(GainedDirs(b, i)) /\ d = Cardinality(DroppedDirs(b, i))
                 /\ i \in DOMAIN b.set => \E n \in Int : b.set[i] = Bump(i, n) /\ n >= g - d
                 /\ i \notin DOMAIN b.set => g <= d
    PROVE  BatchLinks(o)
    <2> USE <1>DirsBackLinks
    <2>1. o.batch = b /\ New(b) = {}
        BY DEF DirsBack, New
    <2>2. DOMAIN o.seen = DOMAIN b.set
        BY <1>DirsBackSeen
    <2>3. \A i \in DOMAIN o.seen : o.seen[i] = node[i] /\ o.seen[i].kind = "dir"
        <3>1. \A i \in DOMAIN b.set : o.seen[i] = node[i] /\ node[i].kind = "dir"
            BY <1>DirsBackSeen
        <3> QED
            BY <2>2, <3>1
    <2>4. ASSUME NEW i \in InodeId \ b.del
          PROVE  IF i \in DOMAIN o.seen /\ o.seen[i].kind = "dir"
                 THEN b.set[i].nlink >= o.seen[i].nlink + Cardinality(GainedDirs(b, i))
                                        - Cardinality(DroppedDirs(b, i))
                 ELSE Cardinality(GainedDirs(b, i)) <= Cardinality(DroppedDirs(b, i))
        <3>1. PICK g, d \in Nat :
                 /\ g = Cardinality(GainedDirs(b, i)) /\ d = Cardinality(DroppedDirs(b, i))
                 /\ i \in DOMAIN b.set => \E n \in Int : b.set[i] = Bump(i, n) /\ n >= g - d
                 /\ i \notin DOMAIN b.set => g <= d
            OBVIOUS
        <3>2. CASE i \in DOMAIN b.set
            <4>1. PICK n \in Int : b.set[i] = Bump(i, n) /\ n >= g - d
                BY <3>1, <3>2
            <4>2. b.set[i].nlink = node[i].nlink + n /\ node[i].nlink \in Int
                <5>1. i \in DOMAIN node
                    BY <3>2, <1>DirsBackSeen
                <5>2. node[i].nlink \in Int
                    BY <3>2, <1>DirsBackSeen
                <5>3. Bump(i, n).nlink = node[i].nlink + n
                    BY <3>2, <5>1, <1>BumpFacts
                <5> QED
                    BY <4>1, <5>2, <5>3
            <4>3. b.set[i].nlink >= node[i].nlink + g - d
                BY SMTT(30), <4>1, <4>2
            <4> QED
                BY <2>2, <2>3, <3>1, <3>2, <4>3
        <3>3. CASE i \notin DOMAIN b.set
            BY <2>2, <3>1, <3>3
        <3> QED
            BY <3>2, <3>3
    <2>5. InodeId \ (b.del \cup New(b)) = InodeId \ b.del
        BY <2>1
    <2> QED
        BY <2>1, <2>3, <2>4, <2>5 DEF BatchLinks

\* The batch of a Rmdir is right.
<1>RmdirOK.
    ASSUME StoreTypes, Names, FlushInv, NEW k \in DOMAIN dirent, NEW i, i = dirent[k],
           IsDir(i), ~hasDirentChildren(i), NEW o, NEW b, TakesDir(o, b, k, i)
    PROVE  BatchOK(o)
    <2> USE <1>RmdirOK
    <2>1. /\ o.batch = b /\ o.seen = Seen(b) /\ o.kind = "rmdir" /\ o.locks = {i, k[1]}
          /\ o.inode = 0 /\ b.next = 0 /\ b.unlink = {k} /\ b.link = <<>> /\ b.del = {i}
          /\ b.set = One(k[1], Bump(k[1], -1))
        BY DEF TakesDir
    <2>2. DOMAIN b.set = {k[1]} /\ b.set[k[1]] = Bump(k[1], -1)
        BY <2>1 DEF One
    <2>3. /\ IsDir(k[1]) /\ k[1] # i /\ i # RootInode /\ i \in InodeId /\ k \in Key
          /\ \A l \in DOMAIN dirent : l[1] # i
        BY DEF Names, StoreTypes, hasDirentChildren
    <2>4. DOMAIN b.link = {} /\ Touched(b) = {k} /\ \A j : Gained(b, j) = {} /\ GainedDirs(b, j) = {}
        BY <2>1, <1>NoLink
    <2>5. /\ Dropped(b, i) = {k} /\ \A j : j # i => Dropped(b, j) = {}
          /\ DroppedDirs(b, k[1]) = {k} /\ \A j : j # k[1] => DroppedDirs(b, j) = {}
        BY <2>4, <1>OneDrop
    <2>6. Dirents(i) = {k}
        <3>1. k \in Dirents(i)
            BY DEF Dirents
        <3> QED
            BY <2>3, <3>1, OneName
    <2>7. DirsBack(o, b)
        BY <2>1, <2>2, <2>3 DEF DirsBack
    <2>8. BatchTypes(o) /\ BatchSizes(o) /\ New(b) = {}
        <3>1. /\ b.del \subseteq InodeId /\ b.unlink \subseteq Key /\ DOMAIN b.link \subseteq Key
              /\ \A j, l \in DOMAIN b.link : j = l
            BY <2>1, <2>3, <2>4
        <3> QED
            BY <2>7, <3>1, <1>DirsBackOK
    <2>9. BatchNodes(o)
        <3>1. ASSUME NEW x \in b.del
              PROVE  /\ x \in o.locks /\ IsDir(x) /\ x \notin DOMAIN b.set /\ x # RootInode
                     /\ \A l \in DOMAIN dirent : l[1] # x
                     /\ Dirents(x) = Dropped(b, x) /\ Gained(b, x) = {}
            <4>1. x = i
                BY <2>1
            <4> QED
                BY <2>1, <2>2, <2>3, <2>4, <2>5, <2>6, <4>1
        <3> QED
            BY <2>7, <3>1, <1>DirsBackNodes
    <2>10. BatchNames(o)
        BY <2>1, <2>4 DEF BatchNames
    <2>11. BatchLinks(o)
        <3>1. ASSUME NEW j \in InodeId \ b.del
              PROVE  Cardinality(Gained(b, j)) = Cardinality(Dropped(b, j))
            BY <2>1, <2>4, <2>5
        <3>2. ASSUME NEW j \in InodeId \ b.del
              PROVE  \E g, d \in Nat :
                        /\ g = Cardinality(GainedDirs(b, j)) /\ d = Cardinality(DroppedDirs(b, j))
                        /\ j \in DOMAIN b.set => \E n \in Int : b.set[j] = Bump(j, n) /\ n >= g - d
                        /\ j \notin DOMAIN b.set => g <= d
            <4>1. Cardinality(GainedDirs(b, j)) = 0
                BY <2>4, <1>Counts
            <4>2. CASE j = k[1]
                <5>1. Cardinality(DroppedDirs(b, j)) = 1
                    BY <2>5, <4>2, <1>Counts
                <5> QED
                    BY SMTT(30), <2>2, <4>1, <4>2, <5>1
            <4>3. CASE j # k[1]
                <5>1. Cardinality(DroppedDirs(b, j)) = 0
                    BY <2>5, <4>3, <1>Counts
                <5> QED
                    BY SMTT(30), <2>2, <4>1, <4>3, <5>1
            <4> QED
                BY <4>2, <4>3
        <3> QED
            BY <2>7, <3>1, <3>2, <1>DirsBackLinks
    <2> QED
        BY <2>8, <2>9, <2>10, <2>11 DEF BatchOK

\* It adds the one name.
<1>MoveFacts.
    ASSUME NEW k, NEW l, NEW src, NEW o, NEW b, Moves(o, b, k, l, src)
    PROVE  Gains(b, k, l, src)
    <2> USE <1>MoveFacts
    <2>1. b.unlink = {k} /\ b.link = One(l, src)
        BY DEF Moves
    <2>2. DOMAIN b.link = {l} /\ b.link[l] = src /\ Touched(b) = b.unlink \cup {l}
        BY <2>1, <1>OneLink
    <2>3. Touched(b) = {k, l}
        BY <2>1, <2>2
    <2>4. Gained(b, src) = {l} /\ \A i : i # src => Gained(b, i) = {}
        BY <2>1, <1>OneGained
    <2>5. \A i : GainedDirs(b, i) = IF (IsDir(src) \/ MadeDir(b, src)) /\ i = l[1] THEN {l} ELSE {}
        BY <2>1, <1>OneGainedDir
    <2> QED
        BY <2>2, <2>3, <2>4, <2>5 DEF Gains

\* Its names are right if the target is not below the inode it moves.
<1>MoveNames.
    ASSUME NEW k \in DOMAIN dirent, NEW l, k # l, NEW src,
           IsDir(l[1]), NEW o, NEW b, Moves(o, b, k, l, src), l[1] \notin b.del,
           IsDir(src) => Apart(l[1], src)
    PROVE  BatchNames(o)
    <2> USE <1>MoveNames
    <2>1. b.unlink = {k} /\ b.link = One(l, src)
        BY DEF Moves
    <2>2. DOMAIN b.link = {l} /\ b.link[l] = src /\ Touched(b) = b.unlink \cup {l}
        BY <2>1, <1>OneLink
    <2>3. o.batch = b /\ o.kind = "rename" /\ k[1] \in o.locks /\ l[1] \in o.locks /\ src = dirent[k]
        BY DEF Moves
    <2> QED
        BY <2>1, <2>2, <2>3 DEF BatchNames

\* Removing two names takes one from each inode.
<1>TwoDrops.
    ASSUME NEW b, NEW k \in DOMAIN dirent, NEW l \in DOMAIN dirent, TouchesTwo(b, k, l)
    PROVE  DropsTwo(b, k, l)
    <2> USE <1>TwoDrops
    <2>1. ASSUME NEW i, NEW x
          PROVE  x \in Dropped(b, i) <=> (x = k /\ i = dirent[k]) \/ (x = l /\ i = dirent[l])
        BY DEF Dropped, TouchesTwo
    <2>2. ASSUME NEW i, NEW y, \A x : x \in Dropped(b, i) <=> x = y
          PROVE  Dropped(b, i) = {y}
        BY <2>2
    <2>3. Dropped(b, dirent[k]) = {k}
        BY <2>1, <2>2 DEF TouchesTwo
    <2>4. Dropped(b, dirent[l]) = {l}
        <3>1. \A x : x \in Dropped(b, dirent[l]) <=> x = l
            BY <2>1 DEF TouchesTwo
        <3> QED
            BY <2>2, <3>1
    <2> QED
        BY <2>1, <2>3, <2>4 DEF DropsTwo

\* Removing the names of two directories takes them from their parents.
<1>TwoDirs.
    ASSUME NEW b, NEW k \in DOMAIN dirent, NEW l \in DOMAIN dirent, TouchesTwo(b, k, l),
           IsDir(dirent[k]), IsDir(dirent[l])
    PROVE  DropsTwoDirs(b, k, l)
    <2> USE <1>TwoDirs
    <2>1. ASSUME NEW i, NEW x
          PROVE  x \in DroppedDirs(b, i) <=> (x = k /\ i = k[1]) \/ (x = l /\ i = l[1])
        BY DEF DroppedDirs, TouchesTwo
    <2>2. ASSUME NEW i, NEW y, \A x : x \in DroppedDirs(b, i) <=> x = y
          PROVE  DroppedDirs(b, i) = {y}
        BY <2>2
    <2>3. k[1] = l[1] => DroppedDirs(b, k[1]) = {k, l}
        BY <2>1
    <2>4. k[1] # l[1] => DroppedDirs(b, k[1]) = {k} /\ DroppedDirs(b, l[1]) = {l}
        BY <2>1, <2>2 DEF TouchesTwo
    <2> QED
        BY <2>1, <2>3, <2>4 DEF DropsTwoDirs

\* Moving a directory to a name that is free is right.
<1>MoveDirOK.
    ASSUME StoreTypes, Names, FlushInv, NEW k \in DOMAIN dirent, NEW l \in Key,
           l \notin DOMAIN dirent, NEW src, IsDir(src), IsDir(l[1]),
           Apart(l[1], src), NEW o, NEW b, Moves(o, b, k, l, src), b.del = {},
           Reparents(b, k[1], l[1])
    PROVE  BatchOK(o)
    <2> USE <1>MoveDirOK
    <2>1. k # l /\ k \in Key /\ IsDir(k[1]) /\ k \in DOMAIN dirent
        BY DEF Names, StoreTypes
    <2>2. /\ DOMAIN b.link = {l} /\ b.link[l] = src /\ Touched(b) = {k, l}
          /\ Gained(b, src) = {l} /\ \A i : i # src => Gained(b, i) = {}
          /\ GainedDirs(b, l[1]) = {l} /\ \A i : i # l[1] => GainedDirs(b, i) = {}
        <3>1. Gains(b, k, l, src)
            BY <1>MoveFacts
        <3> QED
            BY <3>1 DEF Gains
    <2>3. /\ Dropped(b, src) = {k} /\ \A j : j # src => Dropped(b, j) = {}
          /\ DroppedDirs(b, k[1]) = {k} /\ \A j : j # k[1] => DroppedDirs(b, j) = {}
        <3>1. k \in Touched(b) /\ \A x \in Touched(b) : x \in DOMAIN dirent => x = k
            BY <2>2
        <3>2. src = dirent[k]
            BY DEF Moves
        <3> QED
            BY <3>1, <3>2, <1>OneDrop
    <2>4. k[1] = l[1] => DOMAIN b.set = {}
        BY DEF Reparents
    <2>5. k[1] # l[1] => /\ DOMAIN b.set = {k[1], l[1]} /\ b.set[l[1]] = Bump(l[1], 1)
                         /\ b.set[k[1]] = Bump(k[1], -1)
        BY DEF Reparents
    <2>6. DirsBack(o, b)
        <3>1. /\ o.batch = b /\ o.seen = Seen(b) /\ o.inode = 0 /\ o.kind \in {"rmdir", "rename"}
              /\ b.next = 0 /\ k[1] \in o.locks /\ l[1] \in o.locks
            BY DEF Moves
        <3>2. ASSUME NEW j \in DOMAIN b.set
              PROVE  IsDir(j) /\ j \in o.locks /\ (b.set[j] = Bump(j, 1) \/ b.set[j] = Bump(j, -1))
            <4>1. j = k[1] \/ j = l[1]
                BY <2>4, <2>5
            <4> QED
                BY <2>1, <2>4, <2>5, <3>1, <4>1
        <3> QED
            BY <3>1, <3>2 DEF DirsBack
    <2>7. BatchTypes(o) /\ BatchSizes(o) /\ New(b) = {}
        <3>1. b.unlink = {k}
            BY DEF Moves
        <3>2. /\ b.del \subseteq InodeId /\ b.unlink \subseteq Key /\ DOMAIN b.link \subseteq Key
              /\ \A x, y \in DOMAIN b.link : x = y
            BY <2>1, <2>2, <3>1
        <3> QED
            BY <2>6, <3>2, <1>DirsBackOK
    <2>8. BatchNodes(o)
        BY <2>6, <1>DirsBackNodes
    <2>9. BatchNames(o)
        BY <2>1, <1>MoveNames
    <2>10. BatchLinks(o)
        <3>1. ASSUME NEW j \in InodeId \ b.del
              PROVE  Cardinality(Gained(b, j)) = Cardinality(Dropped(b, j))
            <4>1. CASE j = src
                BY <2>2, <2>3, <4>1, <1>Counts
            <4>2. CASE j # src
                BY <2>2, <2>3, <4>2
            <4> QED
                BY <4>1, <4>2
        <3>2. ASSUME NEW j \in InodeId \ b.del
              PROVE  \E g, d \in Nat :
                        /\ g = Cardinality(GainedDirs(b, j)) /\ d = Cardinality(DroppedDirs(b, j))
                        /\ j \in DOMAIN b.set => \E n \in Int : b.set[j] = Bump(j, n) /\ n >= g - d
                        /\ j \notin DOMAIN b.set => g <= d
            <4>1. Cardinality(GainedDirs(b, j)) = IF j = l[1] THEN 1 ELSE 0
                BY <2>2, <1>Counts
            <4>2. Cardinality(DroppedDirs(b, j)) = IF j = k[1] THEN 1 ELSE 0
                BY <2>3, <1>Counts
            <4>3. CASE k[1] = l[1]
                <5>1. \E g \in Nat : g = Cardinality(GainedDirs(b, j)) /\ g = Cardinality(DroppedDirs(b, j))
                    BY <4>1, <4>2, <4>3, <1>SmallCounts
                <5> QED
                    BY <2>4, <4>3, <5>1, <1>SmallCounts
            <4>4. CASE k[1] # l[1]
                <5>1. CASE j = l[1]
                    BY <2>5, <4>1, <4>2, <4>4, <5>1, <1>SmallCounts
                <5>2. CASE j = k[1]
                    BY <2>5, <4>1, <4>2, <4>4, <5>2, <1>SmallCounts
                <5>3. CASE j # l[1] /\ j # k[1]
                    BY <2>5, <4>1, <4>2, <4>4, <5>3, <1>SmallCounts
                <5> QED
                    BY <5>1, <5>2, <5>3
            <4> QED
                BY <4>3, <4>4
        <3> QED
            BY <2>6, <3>1, <3>2, <1>DirsBackLinks
    <2> QED
        BY <2>7, <2>8, <2>9, <2>10 DEF BatchOK

\* Moving a file to a name that is free is right.
<1>MoveFileOK.
    ASSUME StoreTypes, Names, FlushInv, NEW k \in DOMAIN dirent, NEW l \in Key,
           l \notin DOMAIN dirent, NEW src, ~IsDir(src), IsDir(l[1]),
           NEW o, NEW b, Moves(o, b, k, l, src), b.del = {}, DOMAIN b.set = {}
    PROVE  BatchOK(o)
    <2> USE <1>MoveFileOK
    <2>1. k # l /\ k \in Key /\ src = dirent[k]
        BY DEF StoreTypes, Moves
    <2>2. ~MadeDir(b, src)
        BY DEF MadeDir
    <2>3. /\ DOMAIN b.link = {l} /\ b.link[l] = src /\ Touched(b) = {k, l}
          /\ Gained(b, src) = {l} /\ \A i : i # src => Gained(b, i) = {}
          /\ \A i : GainedDirs(b, i) = {}
        <3>1. Gains(b, k, l, src)
            BY <1>MoveFacts
        <3> QED
            BY <2>2, <3>1 DEF Gains
    <2>4. /\ Dropped(b, src) = {k} /\ \A j : j # src => Dropped(b, j) = {}
          /\ \A j : DroppedDirs(b, j) = {}
        <3>1. k \in Touched(b) /\ \A x \in Touched(b) : x \in DOMAIN dirent => x = k
            BY <2>3
        <3> QED
            BY <2>1, <3>1, <1>OneDrop
    <2>5. DirsBack(o, b)
        <3>1. /\ o.batch = b /\ o.seen = Seen(b) /\ o.inode = 0 /\ o.kind \in {"rmdir", "rename"}
              /\ b.next = 0
            BY DEF Moves
        <3> QED
            BY <3>1 DEF DirsBack
    <2>6. BatchTypes(o) /\ BatchSizes(o) /\ New(b) = {}
        <3>1. b.unlink = {k}
            BY DEF Moves
        <3>2. /\ b.del \subseteq InodeId /\ b.unlink \subseteq Key /\ DOMAIN b.link \subseteq Key
              /\ \A x, y \in DOMAIN b.link : x = y
            BY <2>1, <2>3, <3>1
        <3> QED
            BY <2>5, <3>2, <1>DirsBackOK
    <2>7. BatchNodes(o)
        BY <2>5, <1>DirsBackNodes
    <2>8. BatchNames(o)
        <3>1. l[1] \notin b.del /\ (IsDir(src) => Apart(l[1], src))
            OBVIOUS
        <3> QED
            BY <2>1, <3>1, <1>MoveNames
    <2>9. BatchLinks(o)
        <3>1. ASSUME NEW j \in InodeId \ b.del
              PROVE  Cardinality(Gained(b, j)) = Cardinality(Dropped(b, j))
            <4>1. CASE j = src
                BY <2>3, <2>4, <4>1, <1>Counts
            <4>2. CASE j # src
                BY <2>3, <2>4, <4>2
            <4> QED
                BY <4>1, <4>2
        <3>2. ASSUME NEW j \in InodeId \ b.del
              PROVE  \E g, d \in Nat :
                        /\ g = Cardinality(GainedDirs(b, j)) /\ d = Cardinality(DroppedDirs(b, j))
                        /\ j \in DOMAIN b.set => \E n \in Int : b.set[j] = Bump(j, n) /\ n >= g - d
                        /\ j \notin DOMAIN b.set => g <= d
            <4>1. Cardinality(GainedDirs(b, j)) = 0 /\ Cardinality(DroppedDirs(b, j)) = 0
                BY <2>3, <2>4, <1>Counts
            <4> QED
                BY <4>1, <1>SmallCounts
        <3> QED
            BY <2>5, <3>1, <3>2, <1>DirsBackLinks
    <2> QED
        BY <2>6, <2>7, <2>8, <2>9 DEF BatchOK

\* Moving a directory onto an empty one is right.
<1>MoveOntoDirOK.
    ASSUME StoreTypes, Names, FlushInv, NEW k \in DOMAIN dirent, NEW l \in DOMAIN dirent,
           NEW src, IsDir(src), Apart(l[1], src), NEW dst, dst # src, IsDir(dst),
           ~hasDirentChildren(dst), NEW o, NEW b, Moves(o, b, k, l, src), dst \in o.locks,
           RemovesDir(b, l, dst), Replaces(b, k[1], l[1])
    PROVE  BatchOK(o)
    <2> USE <1>MoveOntoDirOK
    <2>1. /\ k \in Key /\ l \in Key /\ IsDir(k[1]) /\ IsDir(l[1])
          /\ src = dirent[k] /\ dst = dirent[l] /\ b.del = {dst}
          /\ dst \in InodeId /\ dst # RootInode
        BY DEF Names, StoreTypes, Moves, RemovesDir
    <2>2. k # l /\ k[1] # dst /\ l[1] # dst /\ \A x \in DOMAIN dirent : x[1] # dst
        BY <2>1 DEF hasDirentChildren
    <2>3. /\ DOMAIN b.link = {l} /\ b.link[l] = src /\ Touched(b) = {k, l}
          /\ Gained(b, src) = {l} /\ \A i : i # src => Gained(b, i) = {}
          /\ GainedDirs(b, l[1]) = {l} /\ \A i : i # l[1] => GainedDirs(b, i) = {}
        <3>1. Gains(b, k, l, src)
            BY <1>MoveFacts
        <3> QED
            BY <3>1 DEF Gains
    <2>4. /\ Dropped(b, src) = {k} /\ Dropped(b, dst) = {l}
          /\ \A j : j # src /\ j # dst => Dropped(b, j) = {}
        <3>1. TouchesTwo(b, k, l)
            BY <2>1, <2>3 DEF TouchesTwo
        <3>2. DropsTwo(b, k, l)
            BY <3>1, <1>TwoDrops
        <3> QED
            BY <2>1, <3>2 DEF DropsTwo
    <2>5. /\ k[1] = l[1] => DroppedDirs(b, k[1]) = {k, l}
          /\ k[1] # l[1] => DroppedDirs(b, k[1]) = {k} /\ DroppedDirs(b, l[1]) = {l}
          /\ \A i : i # k[1] /\ i # l[1] => DroppedDirs(b, i) = {}
        <3>1. TouchesTwo(b, k, l) /\ IsDir(dirent[k]) /\ IsDir(dirent[l])
            BY <2>1, <2>3 DEF TouchesTwo
        <3>2. DropsTwoDirs(b, k, l)
            BY <3>1, <1>TwoDirs
        <3> QED
            BY <3>2 DEF DropsTwoDirs
    <2>6. Dirents(dst) = {l}
        <3>1. l \in Dirents(dst)
            BY <2>1 DEF Dirents
        <3>2. PICK x : Dirents(dst) = {x}
            BY <2>1, OneName
        <3> QED
            BY <3>1, <3>2
    <2>7. k[1] = l[1] => DOMAIN b.set = {l[1]} /\ b.set[l[1]] = Bump(l[1], -1)
        BY DEF Replaces
    <2>8. k[1] # l[1] => /\ DOMAIN b.set = {k[1], l[1]} /\ b.set[l[1]] = Bump(l[1], 1)
                         /\ b.set[k[1]] = Bump(k[1], -1)
        BY DEF Replaces
    <2>9. DirsBack(o, b)
        <3>1. /\ o.batch = b /\ o.seen = Seen(b) /\ o.inode = 0 /\ o.kind \in {"rmdir", "rename"}
              /\ b.next = 0 /\ k[1] \in o.locks /\ l[1] \in o.locks
            BY DEF Moves
        <3>2. ASSUME NEW j \in DOMAIN b.set
              PROVE  IsDir(j) /\ j \in o.locks /\ (b.set[j] = Bump(j, 1) \/ b.set[j] = Bump(j, -1))
            <4>1. j = k[1] \/ j = l[1]
                BY <2>7, <2>8
            <4> QED
                BY <2>1, <2>7, <2>8, <3>1, <4>1
        <3> QED
            BY <3>1, <3>2 DEF DirsBack
    <2>10. BatchTypes(o) /\ BatchSizes(o) /\ New(b) = {}
        <3>1. b.unlink = {k}
            BY DEF Moves
        <3>2. /\ b.del \subseteq InodeId /\ b.unlink \subseteq Key /\ DOMAIN b.link \subseteq Key
              /\ \A x, y \in DOMAIN b.link : x = y
            BY <2>1, <2>3, <3>1
        <3> QED
            BY <2>9, <3>2, <1>DirsBackOK
    <2>11. BatchNodes(o)
        <3>1. dst \notin DOMAIN b.set
            BY <2>2, <2>7, <2>8
        <3>2. ASSUME NEW x \in b.del
              PROVE  /\ x \in o.locks /\ IsDir(x) /\ x \notin DOMAIN b.set /\ x # RootInode
                     /\ \A y \in DOMAIN dirent : y[1] # x
                     /\ Dirents(x) = Dropped(b, x) /\ Gained(b, x) = {}
            <4>1. x = dst
                BY <2>1
            <4>2. Dirents(dst) = Dropped(b, dst) /\ Gained(b, dst) = {}
                BY <2>3, <2>4, <2>6
            <4> QED
                BY <2>1, <2>2, <3>1, <4>1, <4>2
        <3> QED
            BY <2>9, <3>2, <1>DirsBackNodes
    <2>12. BatchNames(o)
        <3>1. l[1] \notin b.del
            BY <2>1, <2>2
        <3> QED
            BY <2>1, <2>2, <3>1, <1>MoveNames
    <2>13. BatchLinks(o)
        <3>1. ASSUME NEW j \in InodeId \ b.del
              PROVE  Cardinality(Gained(b, j)) = Cardinality(Dropped(b, j))
            <4>1. CASE j = src
                <5>1. Gained(b, j) = {l} /\ Dropped(b, j) = {k}
                    BY <2>3, <2>4, <4>1
                <5> QED
                    BY <5>1, <1>Counts
            <4>2. CASE j # src
                <5>1. j # dst
                    BY <2>1
                <5> QED
                    BY <2>3, <2>4, <4>2, <5>1
            <4> QED
                BY <4>1, <4>2
        <3>2. ASSUME NEW j \in InodeId \ b.del
              PROVE  \E g, d \in Nat :
                        /\ g = Cardinality(GainedDirs(b, j)) /\ d = Cardinality(DroppedDirs(b, j))
                        /\ j \in DOMAIN b.set => \E n \in Int : b.set[j] = Bump(j, n) /\ n >= g - d
                        /\ j \notin DOMAIN b.set => g <= d
            <4>1. /\ Cardinality({}) = 0 /\ Cardinality({k}) = 1 /\ Cardinality({l}) = 1
                  /\ Cardinality({k, l}) = 2
                BY <2>2, <1>Counts
            <4>2. CASE k[1] = l[1]
                <5>1. CASE j = l[1]
                    <6>1. GainedDirs(b, j) = {l} /\ DroppedDirs(b, j) = {k, l}
                        BY <2>3, <2>5, <4>2, <5>1
                    <6>2. j \in DOMAIN b.set /\ b.set[j] = Bump(j, -1)
                        BY <2>7, <4>2, <5>1
                    <6> QED
                        BY <4>1, <6>1, <6>2, <1>SmallCounts
                <5>2. CASE j # l[1]
                    <6>1. GainedDirs(b, j) = {} /\ DroppedDirs(b, j) = {}
                        BY <2>3, <2>5, <4>2, <5>2
                    <6>2. j \notin DOMAIN b.set
                        BY <2>7, <4>2, <5>2
                    <6> QED
                        BY <4>1, <6>1, <6>2, <1>SmallCounts
                <5> QED
                    BY <5>1, <5>2
            <4>3. CASE k[1] # l[1]
                <5>1. CASE j = l[1]
                    <6>1. GainedDirs(b, j) = {l} /\ DroppedDirs(b, j) = {l}
                        BY <2>3, <2>5, <4>3, <5>1
                    <6>2. j \in DOMAIN b.set /\ b.set[j] = Bump(j, 1)
                        BY <2>8, <4>3, <5>1
                    <6> QED
                        BY <4>1, <6>1, <6>2, <1>SmallCounts
                <5>2. CASE j = k[1]
                    <6>1. GainedDirs(b, j) = {} /\ DroppedDirs(b, j) = {k}
                        BY <2>3, <2>5, <4>3, <5>2
                    <6>2. j \in DOMAIN b.set /\ b.set[j] = Bump(j, -1)
                        BY <2>8, <4>3, <5>2
                    <6> QED
                        BY <4>1, <6>1, <6>2, <1>SmallCounts
                <5>3. CASE j # l[1] /\ j # k[1]
                    <6>1. GainedDirs(b, j) = {} /\ DroppedDirs(b, j) = {}
                        BY <2>3, <2>5, <5>3
                    <6>2. j \notin DOMAIN b.set
                        BY <2>8, <4>3, <5>3
                    <6> QED
                        BY <4>1, <6>1, <6>2, <1>SmallCounts
                <5> QED
                    BY <5>1, <5>2, <5>3
            <4> QED
                BY <4>2, <4>3
        <3> QED
            BY <2>9, <3>1, <3>2, <1>DirsBackLinks
    <2> QED
        BY <2>10, <2>11, <2>12, <2>13 DEF BatchOK

\* Moving a file onto another one is right.
<1>MoveOntoFileOK.
    ASSUME StoreTypes, Names, Links, FlushInv, NEW k \in DOMAIN dirent,
           NEW l \in DOMAIN dirent, NEW src, ~IsDir(src), NEW dst \in DOMAIN node,
           dirent[l] = dst, dst # src, ~IsDir(dst), NEW o, NEW b, Moves(o, b, k, l, src),
           dst \in o.locks, Releases(o, b, dst)
    PROVE  BatchOK(o)
    <2> USE <1>MoveOntoFileOK
    <2>1. /\ k \in Key /\ l \in Key /\ IsDir(l[1]) /\ src = dirent[k] /\ k # l
        BY DEF Names, StoreTypes, Moves
    <2>2. /\ o.batch = b /\ o.seen = Seen(b) /\ o.inode = 0 /\ o.kind = "rename"
          /\ b.next = 0 /\ b.unlink = {k} /\ New(b) = {}
        BY DEF Moves, New
    <2>3. DOMAIN b.link = {l} /\ b.link[l] = src /\ Touched(b) = {k, l}
          /\ Gained(b, src) = {l} /\ \A i : i # src => Gained(b, i) = {}
        <3>1. Gains(b, k, l, src)
            BY <1>MoveFacts
        <3> QED
            BY <3>1 DEF Gains
    <2>4. /\ Dropped(b, src) = {k} /\ Dropped(b, dst) = {l}
          /\ \A j : j # src /\ j # dst => Dropped(b, j) = {}
        <3>1. TouchesTwo(b, k, l)
            BY <2>1, <2>3 DEF TouchesTwo
        <3>2. DropsTwo(b, k, l)
            BY <3>1, <1>TwoDrops
        <3> QED
            BY <2>1, <3>2 DEF DropsTwo
    <2>5. Released(o, b, dst)
        <3>1. Gained(b, dst) = {} /\ l \in Touched(b) /\ dst = dirent[l]
            BY <2>3
        <3> QED
            BY <2>2, <2>4, <3>1, <1>ReleaseOK
    <2>6. /\ BatchNodes(o) /\ DOMAIN o.seen = DOMAIN b.set /\ b.del \subseteq {dst}
          /\ DOMAIN b.set = {dst} \ b.del
          /\ \A j \in DOMAIN o.seen :
                /\ j \in InodeId /\ b.set[j] \in Inode /\ o.seen[j] \in Inode
                /\ o.seen[j].kind = b.set[j].kind /\ o.seen[j].kind # "dir"
                /\ b.set[j].size >= o.seen[j].size
                /\ b.set[j].nlink = o.seen[j].nlink + Cardinality(Gained(b, j))
                                    - Cardinality(Dropped(b, j))
        BY <2>5 DEF Released
    <2>7. dst \in InodeId
        BY DEF StoreTypes
    <2>8. BatchTypes(o)
        BY <2>1, <2>2, <2>3, <2>6, <2>7 DEF BatchTypes
    <2>9. BatchNames(o)
        <3>1. l[1] # dst
            BY <2>1
        <3>2. l[1] \notin b.del /\ (IsDir(src) => Apart(l[1], src))
            BY <2>6, <3>1
        <3> QED
            BY <2>1, <3>2, <1>MoveNames
    <2>10. \A j : GainedDirs(b, j) = {} /\ DroppedDirs(b, j) = {}
        <3>1. ~MadeDir(b, src)
            BY <2>6 DEF MadeDir
        <3>2. \A j : GainedDirs(b, j) = {}
            BY <2>3, <3>1 DEF GainedDirs
        <3>3. \A j : DroppedDirs(b, j) = {}
            BY <2>1, <2>3 DEF DroppedDirs
        <3> QED
            BY <3>2, <3>3
    <2>11. BatchLinks(o)
        <3>1. ASSUME NEW j \in InodeId \ b.del
              PROVE  IF j \in DOMAIN o.seen /\ o.seen[j].kind # "dir"
                     THEN b.set[j].nlink = o.seen[j].nlink + Cardinality(Gained(b, j))
                                           - Cardinality(Dropped(b, j))
                     ELSE Cardinality(Gained(b, j)) = Cardinality(Dropped(b, j))
            <4>1. ASSUME j \notin DOMAIN o.seen
                  PROVE  Cardinality(Gained(b, j)) = Cardinality(Dropped(b, j))
                <5>1. j # dst
                    BY <2>6, <4>1
                <5>2. CASE j = src
                    <6>1. Gained(b, j) = {l} /\ Dropped(b, j) = {k}
                        BY <2>3, <2>4, <5>2
                    <6> QED
                        BY <6>1, <1>Counts
                <5>3. CASE j # src
                    BY <2>3, <2>4, <5>1, <5>3
                <5> QED
                    BY <5>2, <5>3
            <4> QED
                BY <2>6, <4>1
        <3>2. ASSUME NEW j \in InodeId
              PROVE  /\ ~(j \in DOMAIN o.seen /\ o.seen[j].kind = "dir")
                     /\ Cardinality(GainedDirs(b, j)) <= Cardinality(DroppedDirs(b, j))
            <4>1. Cardinality(GainedDirs(b, j)) = 0 /\ Cardinality(DroppedDirs(b, j)) = 0
                BY <2>10, <1>Counts
            <4>2. Cardinality(GainedDirs(b, j)) <= Cardinality(DroppedDirs(b, j))
                BY <4>1, <1>SmallCounts
            <4> QED
                BY <2>6, <4>2
        <3>3. InodeId \ (b.del \cup New(b)) = InodeId \ b.del
            BY <2>2
        <3> QED
            BY <2>2, <3>1, <3>2, <3>3 DEF BatchLinks
    <2>12. BatchSizes(o)
        BY <2>2, <2>6 DEF BatchSizes
    <2> QED
        BY <2>6, <2>8, <2>9, <2>11, <2>12 DEF BatchOK

\* Its parts.
<1>HoldsFacts.
    ASSUME NEW o, NEW kind, NEW locks, NEW b, NEW free, Holds(o, kind, locks, b, free)
    PROVE  /\ o.kind = kind /\ o.locks = locks /\ o.free = free /\ o.batch = b
           /\ o.seen = Seen(b) /\ o.inode = 0
    <2> USE <1>HoldsFacts
    <2>1. PICK s : s = Seen(b)
        OBVIOUS
    <2>2. o = [pc |-> "commit", kind |-> kind, locks |-> locks, free |-> free,
               batch |-> b, seen |-> s, inode |-> 0, size |-> 0]
        BY <2>1 DEF Holds
    <2>3. o.kind = kind /\ o.locks = locks /\ o.free = free /\ o.batch = b
          /\ o.seen = s /\ o.inode = 0
        BY <2>2
    <2> QED
        BY <2>1, <2>3

\* BeginInv for it.
<1>HoldsInv.
    ASSUME NEW c \in Client, NEW kind, NEW locks, NEW b, NEW free, NEW o, Inv,
           Begin(c, kind, locks, b, free), Holds(o, kind, locks, b, free),
           kind \in {"create", "link", "unlink", "rmdir", "rename"},
           free \in InodeId \cup {0}, b.next \in Nat,
           b.next # 0 => \A d \in Client : op[d].batch.next = 0, BatchOK(o)
    PROVE  Inv'
    <2> USE <1>HoldsInv
    <2>1. kind \notin {"setattr", "bulk"}
        OBVIOUS
    <2>2. StoreInv /\ OpsInv /\ FlushInv /\ WalkInv
        BY DEF Inv
    <2>3. StoreInv' /\ OpsInv' /\ FlushInv' /\ WalkInv'
        BY <2>1, <2>2, <1>BeginInv DEF Holds
    <2> QED
        BY <2>3 DEF Inv

\* What the operations find in the store.
<1>InvFacts.
    ASSUME Inv
    PROVE  StoreTypes /\ Names /\ Acyclic /\ Links /\ FlushInv
    BY <1>InvFacts DEF Inv, StoreInv

\* Creating an inode keeps the invariant if nobody else is creating one.
<1>NewInodeInv.
    ASSUME NEW c \in Client, NEW p \in InodeId, NEW n \in Name, NEW set, Inv, IsDir(p),
           NewInode(c, "create", p, n, set), ~clashed', Fresh(set, p)
    PROVE  Inv'
    <2> USE <1>NewInodeInv
    <2>1. PICK k : k = <<p, n>>
        OBVIOUS
    <2>2. k \in Key /\ k[1] = p
        BY <2>1 DEF Key
    <2>3. PICK b : b = [EmptyBatch EXCEPT !.set = set, !.next = next + 1, !.link = One(k, next)]
        OBVIOUS
    <2>4. PICK f : f = One(k, next)
        OBVIOUS
    <2>5. b.set = set /\ b.del = {} /\ b.unlink = {} /\ b.link = f /\ b.next = next + 1
        <3>1. b = [EmptyBatch EXCEPT !.set = set, !.next = next + 1, !.link = f]
            BY <2>3, <2>4
        <3> QED
            BY <3>1 DEF EmptyBatch
    <2>6. /\ next \in InodeId /\ k \notin DOMAIN dirent /\ Begin(c, "create", {p}, b, 0)
        BY <2>1, <2>3 DEF NewInode
    <2>7. \A d \in Client : op[d].batch.next = 0
        BY DEF NewInode
    <2>8. PICK o : Holds(o, "create", {p}, b, 0)
        BY DEF Holds
    <2>9. StoreTypes /\ FlushInv /\ b.next \in Nat
        <3>1. StoreTypes /\ FlushInv
            BY <1>InvFacts
        <3> QED
            BY SMTT(30), <2>5, <3>1 DEF StoreTypes
    <2>10. Makes(o, b, k)
        <3>1. /\ o.batch = b /\ o.seen = Seen(b) /\ o.kind = "create" /\ o.locks = {p}
              /\ o.free = 0 /\ o.inode = 0
            BY <2>8, <1>HoldsFacts
        <3> QED
            BY <2>2, <2>4, <2>5, <3>1 DEF Makes, Fresh
    <2>11. BatchOK(o)
        BY <2>2, <2>6, <2>9, <2>10, <1>NewInodeOK
    <2>12. "create" \in {"create", "link", "unlink", "rmdir", "rename"} /\ 0 \in InodeId \cup {0}
        OBVIOUS
    <2> QED
        BY <2>6, <2>7, <2>8, <2>9, <2>11, <2>12, <1>HoldsInv

\* Create and Symlink keep it.
<1>CreateInv.
    ASSUME NEW c \in Client, NEW p \in InodeId, NEW n \in Name, Inv, ~clashed',
           Create(c, p, n) \/ Symlink(c, p, n)
    PROVE  Inv'
    <2> USE <1>CreateInv
    <2>1. PICK kind \in {"file", "symlink"} :
             IsDir(p) /\ NewInode(c, "create", p, n, One(next, NewNode(kind, 1)))
        BY DEF Create, Symlink
    <2>2. Fresh(One(next, NewNode(kind, 1)), p)
        <3>1. NewNode(kind, 1) \in Inode /\ NewNode(kind, 1).kind # "dir"
              /\ NewNode(kind, 1).nlink = 1
            BY SMTT(30) DEF NewNode, Inode
        <3>2. /\ DOMAIN One(next, NewNode(kind, 1)) = {next}
              /\ One(next, NewNode(kind, 1))[next] = NewNode(kind, 1)
            BY OneFacts
        <3> QED
            BY <3>1, <3>2 DEF Fresh
    <2> QED
        BY <2>1, <2>2, <1>NewInodeInv

\* So does Mkdir.
<1>MkdirInv.
    ASSUME NEW c \in Client, NEW p \in InodeId, NEW n \in Name, Inv, ~clashed', Mkdir(c, p, n)
    PROVE  Inv'
    <2> USE <1>MkdirInv
    <2>1. PICK set : set = Merge(One(p, Bump(p, 1)), One(next, NewNode("dir", 2)), {})
        OBVIOUS
    <2>2. IsDir(p) /\ NewInode(c, "create", p, n, set)
        BY <2>1 DEF Mkdir
    <2>3. p # next
        <3>1. StoreTypes
            BY <1>InvFacts
        <3> QED
            BY <2>2, <3>1, NewIsFresh
    <2>4. DOMAIN set = {p, next} /\ set[p] = Bump(p, 1) /\ set[next] = NewNode("dir", 2)
        <3>1. PICK v, w : v = Bump(p, 1) /\ w = NewNode("dir", 2)
            OBVIOUS
        <3>2. set = Merge(One(p, v), One(next, w), {})
            BY <2>1, <3>1
        <3>3. DOMAIN set = {p, next} /\ set[p] = v /\ set[next] = w
            BY <2>3, <3>2 DEF Merge, One
        <3> QED
            BY <3>1, <3>3
    <2>5. NewNode("dir", 2) \in Inode /\ NewNode("dir", 2).kind = "dir"
          /\ NewNode("dir", 2).nlink = 2
        BY SMTT(30) DEF NewNode, Inode
    <2>6. Fresh(set, p)
        BY <2>4, <2>5 DEF Fresh
    <2> QED
        BY <2>2, <2>6, <1>NewInodeInv

\* So does Link.
<1>LinkInv.
    ASSUME NEW c \in Client, NEW i \in InodeId, NEW p \in InodeId, NEW n \in Name, Inv,
           Link(c, i, p, n)
    PROVE  Inv'
    <2> USE <1>LinkInv
    <2>1. PICK k : k = <<p, n>>
        OBVIOUS
    <2>2. k \in Key /\ k[1] = p
        BY <2>1 DEF Key
    <2>3. PICK f, g : f = One(k, i) /\ g = One(i, Bump(i, 1))
        OBVIOUS
    <2>4. PICK b : b = [EmptyBatch EXCEPT !.set = g, !.link = f]
        OBVIOUS
    <2>5. b.set = g /\ b.del = {} /\ b.unlink = {} /\ b.link = f /\ b.next = 0
        BY <2>4 DEF EmptyBatch
    <2>6. /\ i \in DOMAIN node /\ ~IsDir(i) /\ IsDir(p) /\ k \notin DOMAIN dirent
          /\ Begin(c, "link", {i, p}, b, 0)
        BY <2>1, <2>3, <2>4 DEF Link
    <2>7. PICK o : Holds(o, "link", {i, p}, b, 0)
        BY DEF Holds
    <2>8. AddsLink(o, b, k, i)
        <3>1. /\ o.batch = b /\ o.seen = Seen(b) /\ o.kind = "link" /\ o.locks = {i, p}
              /\ o.free = 0 /\ o.inode = 0
            BY <2>7, <1>HoldsFacts
        <3> QED
            BY <2>2, <2>3, <2>5, <3>1 DEF AddsLink, Plain
    <2>9. BatchOK(o)
        <3>1. StoreTypes /\ FlushInv
            BY <1>InvFacts
        <3> QED
            BY <2>2, <2>6, <2>8, <3>1, <1>LinkOK
    <2>10. "link" \in {"create", "link", "unlink", "rmdir", "rename"} /\ 0 \in InodeId \cup {0}
           /\ b.next \in Nat /\ ~(b.next # 0)
        BY SMTT(30), <2>5
    <2> QED
        BY <2>6, <2>7, <2>9, <2>10, <1>HoldsInv

\* It releases i.
<1>DropFacts.
    ASSUME NEW i, NEW b, NamesOnly(b), NEW d, NEW o, Drops(o, d, b, i)
    PROVE  /\ Releases(o, d, i) /\ d.link = b.link /\ d.unlink = b.unlink
           /\ d.next = b.next
    <2> USE <1>DropFacts
    <2>1. PICK g : g = One(i, Bump(i, -1))
        OBVIOUS
    <2>2. CASE node[i].nlink = 1
        <3>1. d = [b EXCEPT !.del = {i}] /\ o.free = i
            BY <2>2 DEF DropLink, Freed, Drops
        <3>2. d.del = {i} /\ d.set = <<>> /\ d.link = b.link /\ d.unlink = b.unlink /\ d.next = b.next
            BY SMTT(30), <3>1 DEF NamesOnly
        <3> QED
            BY <2>2, <3>1, <3>2 DEF Releases
    <2>3. CASE node[i].nlink # 1
        <3>1. d = [b EXCEPT !.set = g] /\ o.free = 0
            BY <2>1, <2>3 DEF DropLink, Freed, Drops
        <3>2. d.del = {} /\ d.set = g /\ d.link = b.link /\ d.unlink = b.unlink /\ d.next = b.next
            BY SMTT(30), <3>1 DEF NamesOnly
        <3> QED
            BY <2>1, <2>3, <3>1, <3>2 DEF Releases
    <2> QED
        BY <2>2, <2>3

\* Unlink keeps the invariant.
<1>UnlinkInv.
    ASSUME NEW c \in Client, NEW p \in InodeId, NEW n \in Name, Inv, Unlink(c, p, n)
    PROVE  Inv'
    <2> USE <1>UnlinkInv
    <2>1. PICK k : k = <<p, n>>
        OBVIOUS
    <2>2. k[1] = p
        BY <2>1
    <2>3. PICK e : e = [EmptyBatch EXCEPT !.unlink = {k}]
        OBVIOUS
    <2>4. e = [set |-> <<>>, del |-> {}, link |-> <<>>, unlink |-> {k}, next |-> 0]
        BY <2>3 DEF EmptyBatch
    <2>5. PICK i : i = dirent[k]
        OBVIOUS
    <2>6. PICK b : b = DropLink(e, i)
        OBVIOUS
    <2>7. /\ k \in DOMAIN dirent /\ i \in DOMAIN node /\ ~IsDir(i)
          /\ Begin(c, "unlink", {i, p}, b, Freed(i))
        BY <2>1, <2>3, <2>5, <2>6 DEF Unlink
    <2>8. PICK o : Holds(o, "unlink", {i, p}, b, Freed(i))
        BY DEF Holds
    <2>9. /\ o.batch = b /\ o.seen = Seen(b) /\ o.kind = "unlink" /\ o.locks = {i, p}
          /\ o.free = Freed(i) /\ o.inode = 0
        BY <2>8, <1>HoldsFacts
    <2>10. Releases(o, b, i) /\ b.link = <<>> /\ b.unlink = {k} /\ b.next = 0
        <3>1. NamesOnly(e) /\ e.link = <<>> /\ e.unlink = {k} /\ e.next = 0
            BY <2>4 DEF NamesOnly
        <3>2. Drops(o, b, e, i)
            BY <2>6, <2>9 DEF Drops
        <3>3. /\ Releases(o, b, i) /\ b.link = e.link /\ b.unlink = e.unlink /\ b.next = e.next
            BY <3>1, <3>2, <1>DropFacts
        <3> QED
            BY <3>1, <3>3
    <2>11. TakesName(o, b, k, i)
        BY <2>2, <2>9, <2>10 DEF TakesName
    <2>12. StoreTypes /\ Names /\ Links /\ FlushInv
        BY <1>InvFacts
    <2>13. BatchOK(o)
        BY <2>5, <2>7, <2>11, <2>12, <1>UnlinkOK
    <2>14. "unlink" \in {"create", "link", "unlink", "rmdir", "rename"} /\ b.next \in Nat
           /\ ~(b.next # 0)
        BY SMTT(30), <2>10
    <2>15. Freed(i) \in InodeId \cup {0}
        BY <2>7, <2>12 DEF Freed, StoreTypes
    <2> QED
        BY <2>7, <2>8, <2>13, <2>14, <2>15, <1>HoldsInv

\* Rmdir keeps the invariant.
<1>RmdirInv.
    ASSUME NEW c \in Client, NEW p \in InodeId, NEW n \in Name, Inv, Rmdir(c, p, n)
    PROVE  Inv'
    <2> USE <1>RmdirInv
    <2>1. PICK k : k = <<p, n>>
        OBVIOUS
    <2>2. k[1] = p
        BY <2>1
    <2>3. PICK i : i = dirent[k]
        OBVIOUS
    <2>4. PICK g : g = One(p, Bump(p, -1))
        OBVIOUS
    <2>5. PICK b : b = [EmptyBatch EXCEPT !.unlink = {k}, !.del = {i}, !.set = g]
        OBVIOUS
    <2>6. b.set = g /\ b.del = {i} /\ b.link = <<>> /\ b.unlink = {k} /\ b.next = 0
        BY <2>5 DEF EmptyBatch
    <2>7. /\ k \in DOMAIN dirent /\ IsDir(i) /\ ~hasDirentChildren(i)
          /\ Begin(c, "rmdir", {i, p}, b, 0)
        BY <2>1, <2>3, <2>4, <2>5 DEF Rmdir
    <2>8. PICK o : Holds(o, "rmdir", {i, p}, b, 0)
        BY DEF Holds
    <2>9. /\ o.batch = b /\ o.seen = Seen(b) /\ o.kind = "rmdir" /\ o.locks = {i, p}
          /\ o.free = 0 /\ o.inode = 0
        BY <2>8, <1>HoldsFacts
    <2>10. TakesDir(o, b, k, i)
        BY <2>2, <2>4, <2>6, <2>9 DEF TakesDir
    <2>11. BatchOK(o)
        <3>1. StoreTypes /\ Names /\ FlushInv
            BY <1>InvFacts
        <3> QED
            BY <2>3, <2>7, <2>10, <3>1, <1>RmdirOK
    <2>12. "rmdir" \in {"create", "link", "unlink", "rmdir", "rename"} /\ 0 \in InodeId \cup {0}
           /\ b.next \in Nat /\ ~(b.next # 0)
        BY SMTT(30), <2>6
    <2> QED
        BY <2>7, <2>8, <2>11, <2>12, <1>HoldsInv

\* Of a file, that is all it writes.
<1>MovingFacts.
    ASSUME NEW k, NEW l, NEW src
    PROVE  /\ NamesOnly(Moving(k, l, src)) /\ Moving(k, l, src).link = One(l, src)
           /\ Moving(k, l, src).unlink = {k} /\ Moving(k, l, src).next = 0
           /\ Moving(k, l, src) = [set |-> <<>>, del |-> {}, link |-> One(l, src),
                                   unlink |-> {k}, next |-> 0]
    <2> DEFINE b == Moving(k, l, src)
    <2>1. PICK f : f = One(l, src)
        OBVIOUS
    <2>2. b = [EmptyBatch EXCEPT !.unlink = {k}, !.link = f]
        BY <2>1 DEF Moving
    <2>3. b = [set |-> <<>>, del |-> {}, link |-> f, unlink |-> {k}, next |-> 0]
        BY <2>2 DEF EmptyBatch
    <2> HIDE DEF b
    <2>4. NamesOnly(b) /\ b.link = f /\ b.unlink = {k} /\ b.next = 0
        BY <2>3 DEF NamesOnly
    <2> QED
        BY <2>1, <2>3, <2>4 DEF b

\* It has the parts it is made of.
<1>AsBatchFacts.
    ASSUME NEW e, NEW set, NEW del, NEW link, NEW unlink, AsBatch(e, set, del, link, unlink)
    PROVE  e.set = set /\ e.del = del /\ e.link = link /\ e.unlink = unlink /\ e.next = 0
    BY <1>AsBatchFacts DEF AsBatch

\* Of a directory, a Rename counts the parents.
<1>ReparentFacts.
    ASSUME NEW e, NEW set, NEW del, NEW link, NEW unlink,
           AsBatch(e, set, del, link, unlink),
           NEW src, IsDir(src), NEW p, NEW np, DOMAIN set \subseteq {np},
           NEW b, Reparented(b, e, src, p, np)
    PROVE  Counted(b, set, del, link, unlink, p, np)
    <2> USE <1>ReparentFacts
    <2>1. CASE p = np
        <3>1. b = e
            BY <2>1 DEF Reparent, Reparented
        <3>2. b.set = set /\ b.del = del /\ b.link = link /\ b.unlink = unlink /\ b.next = 0
            BY <3>1, <1>AsBatchFacts
        <3> QED
            BY <2>1, <3>2 DEF Counted
    <2>2. CASE p # np
        <3>1. PICK v, w : v = Bump(p, -1) /\ w = Bump(np, 1)
            OBVIOUS
        <3>2. PICK s : s = Merge(Merge(set, One(p, v), {}), One(np, w), {})
            OBVIOUS
        <3>3. b = [e EXCEPT !.set = s]
            <4>1. e.set = set
                BY <1>AsBatchFacts
            <4>2. b = [e EXCEPT !.set = Merge(Merge(@, One(p, Bump(p, -1)), {}),
                                               One(np, Bump(np, 1)), {})]
                BY <2>2 DEF Reparent, Reparented
            <4> QED
                BY <3>1, <3>2, <4>1, <4>2
        <3>4. b.set = s /\ b.del = del /\ b.link = link /\ b.unlink = unlink /\ b.next = 0
            BY <3>3 DEF AsBatch
        <3>5. DOMAIN s = {p, np} /\ s[np] = w /\ s[p] = v
            BY <2>2, <3>2 DEF Merge, One
        <3> QED
            BY <2>2, <3>1, <3>4, <3>5 DEF Counted
    <2> QED
        BY <2>1, <2>2

\* A Rename that holds a right batch keeps the invariant.
<1>RenameHolds.
    ASSUME NEW c \in Client, NEW locks, NEW b, NEW free, NEW o, Inv, BatchOK(o),
           Begin(c, "rename", locks, b, free), Holds(o, "rename", locks, b, free),
           free \in InodeId \cup {0}, b.next = 0
    PROVE  Inv'
    <2> USE <1>RenameHolds
    <2>1. "rename" \in {"create", "link", "unlink", "rmdir", "rename"}
          /\ b.next \in Nat /\ ~(b.next # 0)
        BY SMTT(30)
    <2> QED
        BY <2>1, <1>HoldsInv

\* A Rename of a directory to a free name.
<1>RenameDir.
    ASSUME NEW c \in Client, NEW k, NEW l, NEW src, Inv, Renames(k, l, src), IsDir(src),
           l \notin DOMAIN dirent, NEW b, MoveBatch(b, k, l, src),
           Begin(c, "rename", {k[1], l[1]}, b, 0)
    PROVE  Inv'
    <2> USE <1>RenameDir
    <2>1. PICK e : e = Moving(k, l, src)
        OBVIOUS
    <2>2. AsBatch(e, <<>>, {}, One(l, src), {k})
        BY <2>1, <1>MovingFacts DEF AsBatch
    <2>3. /\ b.del = {} /\ b.link = One(l, src) /\ b.unlink = {k} /\ b.next = 0
          /\ Reparents(b, k[1], l[1])
        <3>1. DOMAIN <<>> \subseteq {l[1]} /\ DOMAIN <<>> = {}
            BY SMTT(30)
        <3>2. Reparented(b, e, src, k[1], l[1])
            BY <2>1 DEF MoveBatch, Reparented
        <3>3. Counted(b, <<>>, {}, One(l, src), {k}, k[1], l[1])
            BY <2>2, <3>1, <3>2, <1>ReparentFacts
        <3> QED
            BY <3>1, <3>3 DEF Counted, Reparents
    <2>4. PICK o : Holds(o, "rename", {k[1], l[1]}, b, 0)
        BY DEF Holds
    <2>5. k \in DOMAIN dirent /\ l \in Key /\ IsDir(l[1]) /\ src = dirent[k]
          /\ ~IntoSubtree(l[1], src)
        BY DEF Renames
    <2>6. Moves(o, b, k, l, src)
        <3>1. /\ o.batch = b /\ o.seen = Seen(b) /\ o.kind = "rename" /\ o.locks = {k[1], l[1]}
              /\ o.inode = 0
            BY SMTT(30), <2>4, <1>HoldsFacts
        <3> QED
            BY <2>3, <2>5, <3>1 DEF Moves
    <2>7. StoreTypes /\ Names /\ Acyclic /\ FlushInv
        BY <1>InvFacts
    <2>8. Apart(l[1], src)
        BY <2>5, <2>7, ClimbFacts
    <2>9. BatchOK(o)
        BY <2>3, <2>5, <2>6, <2>7, <2>8, <1>MoveDirOK
    <2>10. 0 \in InodeId \cup {0}
        OBVIOUS
    <2> QED
        BY <2>3, <2>4, <2>9, <2>10, <1>RenameHolds

\* A Rename of a file to a free name.
<1>RenameFile.
    ASSUME NEW c \in Client, NEW k, NEW l, NEW src, Inv, Renames(k, l, src), ~IsDir(src),
           l \notin DOMAIN dirent, NEW b, MoveBatch(b, k, l, src),
           Begin(c, "rename", {k[1], l[1]}, b, 0)
    PROVE  Inv'
    <2> USE <1>RenameFile
    <2>1. b = Moving(k, l, src)
        BY DEF Reparent, MoveBatch
    <2>2. AsBatch(b, <<>>, {}, One(l, src), {k})
        BY <2>1, <1>MovingFacts DEF AsBatch
    <2>3. b.del = {} /\ b.link = One(l, src) /\ b.unlink = {k} /\ b.next = 0 /\ DOMAIN b.set = {}
        <3>1. DOMAIN <<>> = {}
            BY SMTT(30)
        <3> QED
            BY <2>2, <3>1, <1>AsBatchFacts
    <2>4. PICK o : Holds(o, "rename", {k[1], l[1]}, b, 0)
        BY DEF Holds
    <2>5. k \in DOMAIN dirent /\ l \in Key /\ IsDir(l[1]) /\ src = dirent[k]
        BY DEF Renames
    <2>6. Moves(o, b, k, l, src)
        <3>1. /\ o.batch = b /\ o.seen = Seen(b) /\ o.kind = "rename" /\ o.locks = {k[1], l[1]}
              /\ o.inode = 0
            BY SMTT(30), <2>4, <1>HoldsFacts
        <3> QED
            BY <2>3, <2>5, <3>1 DEF Moves
    <2>7. StoreTypes /\ Names /\ FlushInv
        BY <1>InvFacts
    <2>8. BatchOK(o)
        BY <2>3, <2>5, <2>6, <2>7, <1>MoveFileOK
    <2>9. 0 \in InodeId \cup {0}
        OBVIOUS
    <2> QED
        BY <2>3, <2>4, <2>8, <2>9, <1>RenameHolds

\* A Rename of a directory onto an empty one.
<1>RenameOntoDir.
    ASSUME NEW c \in Client, NEW k, NEW l, NEW src, Inv, Renames(k, l, src), IsDir(src),
           NEW dst, Target(l, src, dst), IsDir(dst), NEW b,
           ReplaceBatch(b, k, l, src, dst),
           Begin(c, "rename", {k[1], l[1], dst}, b, 0)
    PROVE  Inv'
    <2> USE <1>RenameOntoDir
    <2>1. PICK e : e = Moving(k, l, src)
        OBVIOUS
    <2>2. PICK f, g : f = One(l, src) /\ g = One(l[1], Bump(l[1], -1))
        OBVIOUS
    <2>3. PICK r : r = Replace(e, src, dst, l[1])
        OBVIOUS
    <2>4. AsBatch(r, g, {dst}, f, {k})
        <3>1. e = [set |-> <<>>, del |-> {}, link |-> One(l, src), unlink |-> {k}, next |-> 0]
            BY <2>1, <1>MovingFacts
        <3>2. e = [set |-> <<>>, del |-> {}, link |-> f, unlink |-> {k}, next |-> 0]
            BY <2>2, <3>1
        <3>3. r = [e EXCEPT !.del = {dst}, !.set = g]
            BY <2>2, <2>3 DEF Replace
        <3> QED
            BY <3>2, <3>3 DEF AsBatch
    <2>5. DOMAIN g = {l[1]} /\ g[l[1]] = Bump(l[1], -1)
        BY <2>2 DEF One
    <2>6. /\ b.del = {dst} /\ b.link = f /\ b.unlink = {k} /\ b.next = 0
          /\ Replaces(b, k[1], l[1])
        <3>1. Reparented(b, r, src, k[1], l[1])
            BY <2>1, <2>3 DEF ReplaceBatch, Reparented
        <3>2. DOMAIN g \subseteq {l[1]}
            BY <2>5
        <3>3. Counted(b, g, {dst}, f, {k}, k[1], l[1])
            BY <2>4, <3>1, <3>2, <1>ReparentFacts
        <3> QED
            BY <2>5, <3>3 DEF Counted, Replaces
    <2>7. PICK o : Holds(o, "rename", {k[1], l[1], dst}, b, 0)
        BY DEF Holds
    <2>8. k \in DOMAIN dirent /\ l \in Key /\ IsDir(l[1]) /\ src = dirent[k]
          /\ ~IntoSubtree(l[1], src)
        BY DEF Renames
    <2>9. l \in DOMAIN dirent /\ dst = dirent[l] /\ dst # src /\ ~hasDirentChildren(dst)
        BY DEF Target
    <2>10. Moves(o, b, k, l, src) /\ dst \in o.locks
        <3>1. /\ o.batch = b /\ o.seen = Seen(b) /\ o.kind = "rename"
              /\ o.locks = {k[1], l[1], dst} /\ o.inode = 0
            BY SMTT(30), <2>7, <1>HoldsFacts
        <3> QED
            BY <2>2, <2>6, <2>8, <3>1 DEF Moves
    <2>11. StoreTypes /\ Names /\ Acyclic /\ FlushInv
        BY <1>InvFacts
    <2>12. Apart(l[1], src)
        BY <2>8, <2>11, ClimbFacts
    <2>13. RemovesDir(b, l, dst)
        BY <2>6, <2>9 DEF RemovesDir
    <2>14. BatchOK(o)
        BY <2>6, <2>8, <2>9, <2>10, <2>11, <2>12, <2>13, <1>MoveOntoDirOK
    <2>15. 0 \in InodeId \cup {0}
        OBVIOUS
    <2> QED
        BY <2>6, <2>7, <2>14, <2>15, <1>RenameHolds

\* A Rename of a file onto another one.
<1>RenameOntoFile.
    ASSUME NEW c \in Client, NEW k, NEW l, NEW src, Inv, Renames(k, l, src), ~IsDir(src),
           NEW dst, Target(l, src, dst), ~IsDir(dst), NEW b,
           ReplaceBatch(b, k, l, src, dst),
           Begin(c, "rename", {k[1], l[1], dst}, b, Freed(dst))
    PROVE  Inv'
    <2> USE <1>RenameOntoFile
    <2>1. PICK e : e = Moving(k, l, src)
        OBVIOUS
    <2>2. b = DropLink(e, dst)
        BY <2>1 DEF Reparent, Replace, ReplaceBatch
    <2>3. PICK o : Holds(o, "rename", {k[1], l[1], dst}, b, Freed(dst))
        BY DEF Holds
    <2>4. /\ o.batch = b /\ o.seen = Seen(b) /\ o.kind = "rename"
          /\ o.locks = {k[1], l[1], dst} /\ o.inode = 0 /\ o.free = Freed(dst)
        BY <2>3, <1>HoldsFacts
    <2>5. Releases(o, b, dst) /\ b.link = One(l, src) /\ b.unlink = {k} /\ b.next = 0
        <3>1. NamesOnly(e) /\ e.link = One(l, src) /\ e.unlink = {k} /\ e.next = 0
            BY SMTT(30), <2>1, <1>MovingFacts
        <3>2. Drops(o, b, e, dst)
            BY <2>2, <2>4 DEF Drops
        <3>3. /\ Releases(o, b, dst) /\ b.link = e.link /\ b.unlink = e.unlink
              /\ b.next = e.next
            BY <3>1, <3>2, <1>DropFacts
        <3> QED
            BY <3>1, <3>3
    <2>6. k \in DOMAIN dirent /\ l \in Key /\ IsDir(l[1]) /\ src = dirent[k]
        BY DEF Renames
    <2>7. l \in DOMAIN dirent /\ dirent[l] = dst /\ dst # src /\ dst \in DOMAIN node
        BY DEF Target
    <2>8. Moves(o, b, k, l, src) /\ dst \in o.locks
        BY <2>4, <2>5, <2>6 DEF Moves
    <2>9. StoreTypes /\ Names /\ Links /\ FlushInv
        BY <1>InvFacts
    <2>10. BatchOK(o)
        BY <2>5, <2>6, <2>7, <2>8, <2>9, <1>MoveOntoFileOK
    <2>11. Freed(dst) \in InodeId \cup {0}
        BY <2>7, <2>9 DEF Freed, StoreTypes
    <2> QED
        BY <2>3, <2>5, <2>10, <2>11, <1>RenameHolds

\* Rename keeps the invariant.
<1>RenameInv.
    ASSUME NEW c \in Client, NEW p \in InodeId, NEW n \in Name, NEW np \in InodeId,
           NEW nn \in Name, Inv, Rename(c, p, n, np, nn)
    PROVE  Inv'
    <2> USE <1>RenameInv
    <2>1. PICK k, l : k = <<p, n>> /\ l = <<np, nn>>
        OBVIOUS
    <2>2. k[1] = p /\ l[1] = np /\ l \in Key
        BY <2>1 DEF Key
    <2>3. PICK src : src = dirent[k]
        OBVIOUS
    <2>4. Renames(k, l, src)
        BY <2>1, <2>2, <2>3 DEF Rename, Renames
    <2>5. CASE l \notin DOMAIN dirent
        <3>1. PICK b : MoveBatch(b, k, l, src)
            BY DEF MoveBatch
        <3>2. Begin(c, "rename", {k[1], l[1]}, b, 0)
            BY <2>1, <2>2, <2>3, <2>5, <3>1 DEF Rename, Moving, MoveBatch
        <3>3. CASE IsDir(src)
            BY <2>4, <2>5, <3>1, <3>2, <3>3, <1>RenameDir
        <3>4. CASE ~IsDir(src)
            BY <2>4, <2>5, <3>1, <3>2, <3>4, <1>RenameFile
        <3> QED
            BY <3>3, <3>4
    <2>6. CASE l \in DOMAIN dirent
        <3>1. PICK dst : dst = dirent[l]
            OBVIOUS
        <3>2. PICK b : ReplaceBatch(b, k, l, src, dst)
            BY DEF ReplaceBatch
        <3>3. /\ Target(l, src, dst) /\ (IsDir(src) <=> IsDir(dst))
              /\ Begin(c, "rename", {k[1], l[1], dst}, b, IF IsDir(dst) THEN 0 ELSE Freed(dst))
            BY <2>1, <2>2, <2>3, <2>6, <3>1, <3>2 DEF Rename, Moving, Target, ReplaceBatch
        <3>4. CASE IsDir(src)
            <4>1. IsDir(dst) /\ Begin(c, "rename", {k[1], l[1], dst}, b, 0)
                BY <3>3, <3>4
            <4> QED
                BY <2>4, <3>2, <3>3, <3>4, <4>1, <1>RenameOntoDir
        <3>5. CASE ~IsDir(src)
            <4>1. ~IsDir(dst) /\ Begin(c, "rename", {k[1], l[1], dst}, b, Freed(dst))
                BY <3>3, <3>5
            <4> QED
                BY <2>4, <3>2, <3>3, <3>5, <4>1, <1>RenameOntoFile
        <3> QED
            BY <3>4, <3>5
    <2> QED
        BY <2>5, <2>6

<1> QED
    BY <1>CreateInv, <1>MkdirInv, <1>LinkInv, <1>UnlinkInv, <1>RmdirInv, <1>RenameInv

-----------------------------------------------------------------------------
(* Every step *)

\* Every step keeps the invariant, unless an inode is given out twice.
LEMMA NextInv ==
    ASSUME SetLaws, Inv, [Next]_vars, ~clashed'
    PROVE  Inv'
<1>1. ASSUME NEW c \in Client, NEW p \in InodeId, NEW n \in Name,
             Create(c, p, n) \/ Symlink(c, p, n) \/ Mkdir(c, p, n)
      PROVE  Inv'
    BY <1>1, OperationsKeepInv, OperationsKeepInv
<1>2. ASSUME NEW c \in Client, NEW p \in InodeId, NEW n \in Name,
             \/ Unlink(c, p, n) \/ Rmdir(c, p, n)
             \/ \E i \in InodeId : Link(c, i, p, n)
             \/ \E np \in InodeId, nn \in Name : Rename(c, p, n, np, nn)
      PROVE  Inv'
    BY <1>2, OperationsKeepInv, OperationsKeepInv, OperationsKeepInv, OperationsKeepInv
<1>3. ASSUME NEW c \in Client,
             \/ Commit(c) \/ Free(c) \/ SetattrStat(c) \/ BulkNode(c)
             \/ \E i \in InodeId, s \in Size : Setattr(c, i, s) \/ BulkCommit(c, i, s)
      PROVE  Inv'
    BY <1>3, CommitKeepsInv, DataKeepsInv, DataKeepsInv, DataKeepsInv, DataKeepsInv, DataKeepsInv
<1>4. CASE \/ \E i \in InodeId, e \in Size : FlushHook(i, e)
           \/ FlushCommit
           \/ \E path \in [1 .. 2 -> Name] : LookupPath(path)
           \/ Lookup
           \/ Crash
    BY <1>4, FlushKeepsInv, FlushKeepsInv, WalkKeepsInv, WalkKeepsInv, CrashInv
<1>5. CASE UNCHANGED vars
    BY <1>5, StutterInv
<1> QED
    BY <1>1, <1>2, <1>3, <1>4, <1>5 DEF Next

-----------------------------------------------------------------------------
(* The laws, from the library *)

INSTANCE FiniteSetTheorems

\* The laws of finite sets that the lemmas assume hold.
LEMMA SetLawsHold == SetLaws
<1>1. SizeLaw /\ EmptyLaw /\ SingletonLaw
    BY FS_CardinalityType, FS_EmptySet, FS_Singleton DEF SizeLaw, EmptyLaw, SingletonLaw
<1>2. AddLaw
    BY FS_AddElement DEF AddLaw
<1>3. RemoveLaw
    BY FS_RemoveElement DEF RemoveLaw
<1>4. SubsetLaw
    BY FS_Subset DEF SubsetLaw
<1>5. IntervalLaw
    BY FS_Interval DEF IntervalLaw
<1>6. UnionLaw
    BY FS_Union DEF UnionLaw
<1>7. MeetLaw
    BY FS_Intersection DEF MeetLaw
<1>8. DifferenceLaw
    BY FS_Difference DEF DifferenceLaw
<1>9. FamilyLaw
    BY FS_UNION DEF FamilyLaw
<1>10. SurjectionLaw
    <2>1. ASSUME NEW S, NEW T, NEW f \in [S -> T], IsFiniteSet(S),
                 \A t \in T : \E s \in S : f[s] = t
          PROVE  IsFiniteSet(T) /\ Cardinality(T) <= Cardinality(S)
        <3>1. f \in Surjection(S, T)
            BY <2>1 DEF Surjection
        <3> QED
            BY <2>1, <3>1, FS_Surjection
    <2> QED
        BY <2>1 DEF SurjectionLaw
<1>11. InjectionLaw
    BY FS_Injection DEF InjectionLaw, Injection, IsInjective
<1>12. PigeonLaw
    BY FS_PigeonHole DEF PigeonLaw
<1>13. LeastLaw
    <2>1. SUFFICES ASSUME NEW S \in SUBSET Nat, S # {}
                   PROVE  \E x \in S : \A y \in S : x <= y
        BY DEF LeastLaw
    <2>2. PICK x \in S : \A y \in S : ~(<<y, x>> \in OpToRel(<, Nat))
        <3>1. S \subseteq Nat
            OBVIOUS
        <3> QED
            BY <2>1, <3>1, NatLessThanWellFounded, WFMin
    <2>3. ASSUME NEW y \in S PROVE x <= y
        <3>1. x \in Nat /\ y \in Nat
            OBVIOUS
        <3>2. ~(y < x)
            BY <2>2, <3>1 DEF OpToRel
        <3> QED
            BY SMTT(30), <3>1, <3>2
    <2> QED
        BY <2>3
<1> QED
    BY <1>1, <1>2, <1>3, <1>4, <1>5, <1>6, <1>7, <1>8, <1>9, <1>10, <1>11, <1>12, <1>13
    DEF SetLaws

-----------------------------------------------------------------------------
(* Theorems *)

\* In every reachable state the store is sound and every batch in flight can
\* be committed, or two operations were given the same inode (store.go:199).
THEOREM NamespaceInvariant == Spec => []NamespaceInv
<1>1. Init => NamespaceInv
    BY InitInv, SetLawsHold DEF NamespaceInv, Inv
<1>2. NamespaceInv /\ [Next]_vars => NamespaceInv'
    BY NextInv, ClashedStays, SetLawsHold DEF NamespaceInv, Inv
<1> QED
    BY <1>1, <1>2, PTL DEF Spec

\* Every dirent lies in a directory that exists and names an inode that has a
\* node, whatever unlinks, renames and crashes run beside each other.
THEOREM NothingDangles == Spec => []NoDangling
<1>1. NamespaceInv => NoDangling
    BY DEF NamespaceInv, NoDangling, StoreInv, Names
<1> QED
    BY <1>1, NamespaceInvariant, PTL

\* A file's nlink is the number of its names, so that Unlink and Rename drop
\* its node and data with the last of them and not before.
THEOREM LinksAreNames == Spec => []FileLinks
<1>1. NamespaceInv => FileLinks
    BY DEF NamespaceInv, FileLinks, StoreInv, Links
<1> QED
    BY <1>1, NamespaceInvariant, PTL

\* Each directory has one name and isDescendant's climb from it reaches the
\* root: no interleaving of renames and rmdirs makes a cycle or an orphan.
THEOREM DirectoriesFormTree == Spec => []DirsFormTree
<1>1. ASSUME NamespaceInv, ~clashed, NEW i \in DOMAIN node \ {RootInode}, IsDir(i)
      PROVE  Cardinality(Dirents(i)) = 1 /\ isDescendant(i, RootInode)
    <2>1. StoreTypes /\ Names /\ Acyclic
        BY <1>1 DEF NamespaceInv, StoreInv
    <2>2. i # RootInode /\ i \in DOMAIN node
        OBVIOUS
    <2> QED
        BY <1>1, <2>1, <2>2, ClimbFacts, SetLawsHold DEF Names
<1>2. NamespaceInv => DirsFormTree
    BY <1>1 DEF DirsFormTree
<1> QED
    BY <1>2, NamespaceInvariant, PTL

\* A directory's nlink never falls below 2 plus its subdirectories, although
\* Rename counts both parents from the store and not from its batch.
THEOREM DirLinksNeverShort == Spec => []DirLinksSuffice
<1>1. NamespaceInv => DirLinksSuffice
    BY DEF NamespaceInv, DirLinksSuffice, StoreInv, Links
<1> QED
    BY <1>1, NamespaceInvariant, PTL

\* Fragments belong to an inode that has a node or that an operation in
\* flight answers for, unless an operation ended between its two commits.
THEOREM DataHasOwner == Spec => []NoOrphanData
<1>1. NamespaceInv => NoOrphanData
    BY DEF NamespaceInv, NoOrphanData, StoreInv, Owned
<1> QED
    BY <1>1, NamespaceInvariant, PTL

\* No fragment lies past the size in the node, except between the two batches
\* of BulkWriter.Commit and after a crash there.
THEOREM SizesCoverData == Spec => []SizeCoversData
<1>1. NamespaceInv => SizeCoversData
    BY DEF NamespaceInv, SizeCoversData, StoreInv, Sizes, BulkCovers
<1> QED
    BY <1>1, NamespaceInvariant, PTL

\* An inode number is never given to a second file, not even after a restart.
THEOREM InodesAreFresh == Spec => []FreshInodes
<1>1. ASSUME NamespaceInv, ~clashed, NEW c \in Client, op[c].batch.next # 0
      PROVE  op[c].batch.next - 1 \notin known
    <2>1. StoreTypes /\ OpOK(op[c])
        BY <1>1 DEF NamespaceInv, StoreInv, OpsInv
    <2>2. op[c].batch.next = next + 1
        BY <1>1, <2>1 DEF OpOK, BatchOK, BatchNodes
    <2> QED
        BY SMTT(30), <2>1, <2>2 DEF StoreTypes
<1>2. NamespaceInv => FreshInodes
    BY <1>1 DEF FreshInodes
<1> QED
    BY <1>2, NamespaceInvariant, PTL

\* As long as the directory a LookupPath has reached exists, the names it has
\* resolved still lead there: openMu keeps renames out of a walk.
THEOREM PathsResolveAsOne == Spec => []WalkStaysInTree
<1>1. NamespaceInv => WalkStaysInTree
    <2>1. CASE clashed
        BY <2>1 DEF WalkStaysInTree
    <2>2. CASE ~clashed
        BY <2>2, ClimbFacts, SetLawsHold DEF NamespaceInv, StoreInv
    <2> QED
        BY <2>1, <2>2
<1> QED
    BY <1>1, NamespaceInvariant, PTL

=============================================================================
