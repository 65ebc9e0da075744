------------------------------ MODULE Namespace ------------------------------
(***************************************************************************)
(* The namespace half of store/store.go: Create, Mkdir, Symlink, Link,     *)
(* Unlink, Rmdir, Rename, Setattr and LookupPath, with the two writers     *)
(* that update a file's node beside them: the coalescer's flush and        *)
(* BulkWriter.  Every operation reads nodes and dirents, fills one         *)
(* kv.Batch from what it read, and commits the batch blindly; nothing in   *)
(* the store keeps another operation from committing between the two.  On  *)
(* a mount the kernel holds the inode locks of the directories and files   *)
(* involved; that is the guard VfsFree.  Flushes and bulk writes hold no   *)
(* such lock.                                                              *)
(***************************************************************************)
EXTENDS Integers, Sequences, FiniteSets

CONSTANTS Client,
          Name,
          MaxInode,       \* bound: inode ids are 1 .. MaxInode
          MaxSize,        \* bound: files have at most MaxSize bytes
          Workload        \* bound: budgets, how often each event happens

Event == {"op", "flush", "bulk", "setattr", "walk", "crash"}

ASSUME NamespaceAssumption ==
    MaxInode \in Nat \ {0} /\ MaxSize \in Nat /\ Workload \subseteq [Event -> Nat]

VARIABLES
    node,     \* NodeKey(i) -> [kind, nlink, size]
    dirent,   \* DirentKey(parent, name) -> inode
    next,     \* StoreNextInodeKey
    data,     \* where the fragments of each inode end in the index
    op,       \* operations in flight
    flush,    \* the flush in flight: inode, node its hook read, end of its batch
    walk,     \* the LookupPath in flight: names resolved and left, and where it is
    budget,   \* the events that may still happen
    known,    \* history: inode numbers that entries were answered with
    clashed,  \* history: two operations were given the same inode
    lost,     \* history: inodes whose node was overwritten with a stale one,
              \* or that were written to in the middle of a Setattr
    torn      \* history: inodes whose operation ended between two commits

store == <<node, dirent, next, data>>
hist  == <<clashed, lost, torn>>
vars  == <<store, op, flush, walk, budget, known, hist>>

RootInode == 1
InodeId   == 1 .. MaxInode
Key       == InodeId \X Name
Size      == 0 .. MaxSize

Spend(event) ==
    /\ budget[event] > 0
    /\ budget' = [budget EXCEPT ![event] = @ - 1]

Larger(a, b)  == IF a > b THEN a ELSE b
Smaller(a, b) == IF a < b THEN a ELSE b

\* The function with one argument, as the batches are built from them.
One(x, y) == [z \in {x} |-> y]

Merge(f, g, gone) ==
    [x \in (DOMAIN f \cup DOMAIN g) \ gone |->
        IF x \in DOMAIN g THEN g[x] ELSE f[x]]

NewNode(kind, nlink) == [kind |-> kind, nlink |-> nlink, size |-> 0]

EmptyBatch == [set |-> <<>>, del |-> {}, link |-> <<>>, unlink |-> {},
               next |-> 0]

\* seen: the nodes its batch overwrites, as the operation read them.
Idle == [pc |-> "idle", kind |-> "none", locks |-> {}, free |-> 0,
         batch |-> EmptyBatch, seen |-> <<>>, inode |-> 0, size |-> 0]

NoFlush == [inode |-> 0, nn |-> NewNode("file", 0), end |-> 0]
NoWalk  == [done |-> <<>>, left |-> <<>>, cur |-> 0]

Init ==
    /\ node = One(RootInode, NewNode("dir", 2))
    /\ dirent = <<>>
    /\ next = RootInode + 1
    /\ data = [i \in InodeId |-> 0]
    /\ op = [c \in Client |-> Idle] /\ flush = NoFlush /\ walk = NoWalk
    /\ budget \in Workload
    /\ known = {RootInode} /\ clashed = FALSE /\ lost = {} /\ torn = {}

-----------------------------------------------------------------------------
(* Reads *)

IsDir(i) == i \in DOMAIN node /\ node[i].kind = "dir"

\* Stat: the stored node, with the size of what is being flushed.
Stat(i) == IF flush.inode = i THEN [node[i] EXCEPT !.size = Larger(@, flush.end)]
           ELSE node[i]

Bump(i, n) == [Stat(i) EXCEPT !.nlink = @ + n]

\* MUTANT: every directory counts as empty.
hasNoChildren(i) == FALSE

hasDirentChildren(i) == \E k \in DOMAIN dirent : k[1] = i

\* The parent findParent meets, 0 when no dirent names the inode.
findParent(i) ==
    IF \E k \in DOMAIN dirent : dirent[k] = i
    THEN (CHOOSE k \in DOMAIN dirent : dirent[k] = i)[1] ELSE 0

\* isDescendant climbs from candidate; it never climbs past the root.
isDescendant(candidate, root) ==
    LET up[n \in 0 .. MaxInode] ==
            IF n = 0 THEN candidate
            ELSE IF up[n - 1] \in {0, RootInode} THEN 0
            ELSE findParent(up[n - 1])
    IN  \E n \in 1 .. MaxInode : up[n] = root

\* MUTANT: only the directory itself is refused.
IntoItself(np, src) == np = src

IntoSubtree(np, src) == np = src \/ isDescendant(np, src)

-----------------------------------------------------------------------------
(* Batches *)

\* The kernel holds its inode locks until the operation returns; Rename
\* also holds openMu.
VfsFree(locks) == \A d \in Client : op[d].locks \cap locks = {}

Walking == walk.cur # 0

\* MUTANT: LookupPath takes no lock.
OpenMuFreeOfRenames(kind) ==
    kind = "rename" => \A d \in Client : op[d].kind # "rename"

\* Rename takes openMu, LookupPath shares it.
OpenMuFree(kind) ==
    kind = "rename" => ~Walking /\ \A d \in Client : op[d].kind # "rename"

Seen(batch) == [i \in DOMAIN batch.set \cap DOMAIN node |-> Stat(i)]

\* The operation has read what it needs and holds its batch.
Begin(c, kind, locks, batch, free) ==
    /\ op[c].pc = "idle" /\ Spend("op")
    /\ VfsFree(locks) /\ OpenMuFree(kind)
    /\ op' = [op EXCEPT ![c] = [Idle EXCEPT !.pc = "commit", !.kind = kind,
                                            !.locks = locks, !.free = free,
                                            !.batch = batch,
                                            !.seen = Seen(batch)]]
    /\ UNCHANGED <<store, flush, walk, known, lost, torn>>

\* The inode whose Setattr a flush or a bulk write falls into.
Meets(i) == {op[c].inode : c \in {d \in Client : op[d].kind = "setattr"}} \cap {i}

\* The inodes of seen that somebody else has changed or removed since.
Stale(seen) ==
    {i \in DOMAIN seen : IF i \in DOMAIN node THEN node[i] # seen[i] ELSE TRUE}

\* The entries a FUSE handler answers with: NewInode and stableAttr.
Entries(c) == IF op[c].kind = "rename" THEN {}
              ELSE {op[c].batch.link[k] : k \in DOMAIN op[c].batch.link}

Commit(c) ==
    LET b == op[c].batch
    IN  /\ op[c].pc = "commit"
        /\ node' = Merge(node, b.set, b.del)
        /\ dirent' = Merge(dirent, b.link, b.unlink \ DOMAIN b.link)
        /\ next' = IF b.next = 0 THEN next ELSE b.next
        /\ op' = [op EXCEPT ![c] = IF op[c].free = 0 THEN Idle
                                   ELSE [@ EXCEPT !.pc = "free"]]
        /\ known' = known \cup Entries(c)
        /\ lost' = lost \cup Stale(op[c].seen)
                        \cup (IF op[c].kind = "bulk" THEN Meets(op[c].inode) ELSE {})
        /\ UNCHANGED <<data, flush, walk, budget, clashed, torn>>

\* coalescer.Drop and idx.DeleteInode after the commit that freed the inode.
Free(c) ==
    /\ op[c].pc = "free"
    /\ data' = [data EXCEPT ![op[c].free] = 0]
    /\ op' = [op EXCEPT ![c] = Idle]
    /\ UNCHANGED <<node, dirent, next, flush, walk, budget, known, hist>>

-----------------------------------------------------------------------------
(* Operations *)

\* allocInode reads the counter and leaves the bump to the batch.
NewInode(c, kind, p, n, set) ==
    /\ next \in InodeId
    /\ <<p, n>> \notin DOMAIN dirent
    /\ clashed' = (clashed \/ \E d \in Client : op[d].batch.next # 0)
    /\ Begin(c, kind, {p},
             [EmptyBatch EXCEPT !.set = set, !.next = next + 1,
                                !.link = One(<<p, n>>, next)], 0)

Create(c, p, n) ==
    IsDir(p) /\ NewInode(c, "create", p, n,
                         One(next, NewNode("file", 1)))

Symlink(c, p, n) ==
    IsDir(p) /\ NewInode(c, "create", p, n,
                         One(next, NewNode("symlink", 1)))

\* The new directory, and one more link of the parent.
Mkdir(c, p, n) ==
    IsDir(p) /\ NewInode(c, "create", p, n,
                         Merge(One(p, Bump(p, 1)),
                               One(next, NewNode("dir", 2)), {}))

Link(c, i, p, n) ==
    /\ i \in DOMAIN node /\ ~IsDir(i) /\ IsDir(p)
    /\ <<p, n>> \notin DOMAIN dirent
    /\ Begin(c, "link", {i, p},
             [EmptyBatch EXCEPT !.set = One(i, Bump(i, 1)),
                                !.link = One(<<p, n>>, i)], 0)
    /\ UNCHANGED clashed

\* One link less of a non-directory, whose node goes with its last link.
DropLink(b, i) ==
    IF node[i].nlink = 1 THEN [b EXCEPT !.del = {i}]
    ELSE [b EXCEPT !.set = One(i, Bump(i, -1))]

\* MUTANT: the data of the freed inode is forgotten.
FreedNever(i) == 0

Freed(i) == IF node[i].nlink = 1 THEN i ELSE 0

Unlink(c, p, n) ==
    /\ <<p, n>> \in DOMAIN dirent
    /\ LET i == dirent[<<p, n>>]
       IN  /\ i \in DOMAIN node /\ ~IsDir(i)
           /\ Begin(c, "unlink", {i, p},
                    DropLink([EmptyBatch EXCEPT !.unlink = {<<p, n>>}], i),
                    Freed(i))
    /\ UNCHANGED clashed

Rmdir(c, p, n) ==
    /\ <<p, n>> \in DOMAIN dirent
    /\ LET i == dirent[<<p, n>>]
       IN  /\ IsDir(i) /\ ~hasDirentChildren(i) /\ p \in DOMAIN node
           /\ Begin(c, "rmdir", {i, p},
                    [EmptyBatch EXCEPT !.unlink = {<<p, n>>}, !.del = {i},
                                       !.set = One(p, Bump(p, -1))], 0)
    /\ UNCHANGED clashed

\* MUTANT: a replaced file keeps its link.
ReplaceLeaks(b, src, dst, np) ==
    IF IsDir(src) THEN [b EXCEPT !.del = {dst}, !.set = One(np, Bump(np, -1))]
    ELSE b

\* Replacing an existing target: an empty directory, or a link.
Replace(b, src, dst, np) ==
    IF IsDir(src) THEN [b EXCEPT !.del = {dst}, !.set = One(np, Bump(np, -1))]
    ELSE DropLink(b, dst)

\* MUTANT: the new parent is not counted up.
ReparentOldOnly(b, src, op_, np) ==
    IF IsDir(src) /\ op_ # np
    THEN [b EXCEPT !.set = Merge(@, One(op_, Bump(op_, -1)), {})] ELSE b

\* A directory that changes parents.  Both counts are read from the store,
\* not from the batch: a decrement Replace queued for np is overwritten.
Reparent(b, src, op_, np) ==
    IF IsDir(src) /\ op_ # np
    THEN [b EXCEPT !.set = Merge(Merge(@, One(op_, Bump(op_, -1)), {}),
                                   One(np, Bump(np, 1)), {})]
    ELSE b

Rename(c, p, n, np, nn) ==
    /\ <<p, n>> \in DOMAIN dirent /\ IsDir(np)
    /\ LET src == dirent[<<p, n>>]
           move == [EmptyBatch EXCEPT !.unlink = {<<p, n>>},
                                      !.link = One(<<np, nn>>, src)]
       IN  /\ src \in DOMAIN node
           /\ IsDir(src) => ~IntoSubtree(np, src)
           /\ \/ /\ <<np, nn>> \notin DOMAIN dirent
                 /\ Begin(c, "rename", {p, np}, Reparent(move, src, p, np), 0)
              \/ /\ <<np, nn>> \in DOMAIN dirent
                 /\ LET dst == dirent[<<np, nn>>]
                    IN  /\ dst # src /\ dst \in DOMAIN node
                        /\ IsDir(src) <=> IsDir(dst)
                        /\ ~hasDirentChildren(dst)
                        /\ Begin(c, "rename", {p, np, dst},
                                 Reparent(Replace(move, src, dst, np),
                                          src, p, np),
                                 IF IsDir(dst) THEN 0 ELSE Freed(dst))
    /\ UNCHANGED clashed

-----------------------------------------------------------------------------
(* Setattr of a size, the flush of a file and BulkWriter.Commit *)

\* Setattr drops the fragments past a smaller size before anything else.
Setattr(c, i, size) ==
    /\ op[c].pc = "idle" /\ VfsFree({i}) /\ Spend("setattr")
    /\ i \in DOMAIN node /\ node[i].kind = "file"
    /\ data' = IF size < Stat(i).size THEN [data EXCEPT ![i] = Smaller(@, size)]
               ELSE data
    /\ op' = [op EXCEPT ![c] = [Idle EXCEPT !.pc = "stat", !.kind = "setattr",
                                            !.locks = {i}, !.inode = i,
                                            !.size = size]]
    /\ UNCHANGED <<node, dirent, next, flush, walk, known, hist>>

\* It then reads the node again.
SetattrStat(c) ==
    LET i == op[c].inode
        b == [EmptyBatch EXCEPT !.set = One(i, [Stat(i) EXCEPT !.size = op[c].size])]
    IN  /\ op[c].pc = "stat"
        /\ op' = [op EXCEPT ![c] = IF i \notin DOMAIN node THEN Idle
                                   ELSE [@ EXCEPT !.pc = "commit", !.batch = b,
                                                  !.seen = Seen(b)]]
        /\ UNCHANGED <<store, flush, walk, budget, known, hist>>

\* MUTANT: the size becomes the end of the batch.
GrownExact(n, end) == [n EXCEPT !.size = end]

Grown(n, end) == [n EXCEPT !.size = Larger(@, end)]

\* The flush's hook reads the node; without one the flush fails.
FlushHook(i, end) ==
    /\ flush.inode = 0 /\ Spend("flush")
    /\ i \in DOMAIN node /\ node[i].kind = "file"
    /\ flush' = [inode |-> i, nn |-> node[i], end |-> end]
    /\ UNCHANGED <<store, op, walk, known, hist>>

\* One batch commits the fragments and the node.
FlushCommit ==
    LET i == flush.inode
    IN  /\ i # 0
        /\ data' = [data EXCEPT ![i] = Larger(@, flush.end)]
        /\ node' = Merge(node, One(i, Grown(flush.nn, flush.end)), {})
        /\ lost' = lost \cup Stale(One(i, flush.nn)) \cup Meets(i)
        /\ flush' = NoFlush
        /\ UNCHANGED <<dirent, next, op, walk, budget, known, clashed, torn>>

\* BulkWriter.Commit: the session's fragments are committed first ...
BulkCommit(c, i, end) ==
    /\ op[c].pc = "idle" /\ Spend("bulk")
    /\ i \in DOMAIN node /\ node[i].kind = "file"
    /\ data' = [data EXCEPT ![i] = Larger(@, end)]
    /\ lost' = lost \cup Meets(i)
    /\ op' = [op EXCEPT ![c] = [Idle EXCEPT !.pc = "bulk", !.kind = "bulk",
                                            !.inode = i, !.size = end]]
    /\ UNCHANGED <<node, dirent, next, flush, walk, known, clashed, torn>>

\* ... then the node is read, and written in a batch of its own.
BulkNode(c) ==
    LET i == op[c].inode
        b == [EmptyBatch EXCEPT !.set = One(i, Grown(node[i], op[c].size))]
    IN  /\ op[c].pc = "bulk"
        /\ op' = [op EXCEPT ![c] = IF i \notin DOMAIN node THEN Idle
                                   ELSE [@ EXCEPT !.pc = "commit", !.batch = b,
                                                  !.seen = One(i, node[i])]]
        /\ torn' = IF i \notin DOMAIN node THEN torn \cup {i} ELSE torn
        /\ UNCHANGED <<store, flush, walk, budget, known, clashed, lost>>

-----------------------------------------------------------------------------
(* LookupPath *)

LookupPath(path) ==
    /\ ~Walking /\ Spend("walk")
    /\ \A c \in Client : op[c].kind # "rename"
    /\ walk' = [done |-> <<>>, left |-> path, cur |-> RootInode]
    /\ UNCHANGED <<store, op, flush, known, hist>>

\* Lookup of the next name; the walk ends at the leaf or with an error.
Lookup ==
    LET k == <<walk.cur, Head(walk.left)>>
    IN  /\ Walking
        /\ walk' = IF walk.left = <<>> THEN NoWalk
                   ELSE IF ~IsDir(walk.cur) \/ k \notin DOMAIN dirent THEN NoWalk
                   ELSE IF dirent[k] \notin DOMAIN node THEN NoWalk
                   ELSE [done |-> Append(walk.done, k[2]),
                         left |-> Tail(walk.left), cur |-> dirent[k]]
        /\ UNCHANGED <<store, op, flush, budget, known, hist>>

-----------------------------------------------------------------------------
\* MUTANT: a start begins to number inodes anew.
OpenReseeds == RootInode + 1

\* store.Open seeds the allocator with the stored counter.
OpenNext == Larger(next, RootInode + 1)

\* Batches are committed with a WAL sync; operations in flight are lost.
Crash ==
    /\ Spend("crash")
    /\ op' = [c \in Client |-> Idle] /\ flush' = NoFlush /\ walk' = NoWalk
    /\ next' = OpenNext
    /\ torn' = torn \cup {op[c].free : c \in Client}
                    \cup {op[c].inode : c \in Client}
    /\ UNCHANGED <<node, dirent, data, known, clashed, lost>>

Next ==
    \/ \E c \in Client, p \in InodeId, n \in Name :
          \/ Create(c, p, n) \/ Symlink(c, p, n) \/ Mkdir(c, p, n)
          \/ Unlink(c, p, n) \/ Rmdir(c, p, n)
          \/ \E i \in InodeId : Link(c, i, p, n)
          \/ \E np \in InodeId, nn \in Name : Rename(c, p, n, np, nn)
    \/ \E c \in Client : \/ Commit(c) \/ Free(c) \/ SetattrStat(c) \/ BulkNode(c)
                         \/ \E i \in InodeId, s \in Size :
                               Setattr(c, i, s) \/ BulkCommit(c, i, s)
    \/ \E i \in InodeId, e \in Size : FlushHook(i, e)
    \/ FlushCommit
    \/ \E path \in [1 .. 2 -> Name] : LookupPath(path)
    \/ Lookup
    \/ Crash

Spec == Init /\ [][Next]_vars

-----------------------------------------------------------------------------
(* Properties *)

Dirents(i) == {k \in DOMAIN dirent : dirent[k] = i}

SubDirs(i) == {k \in DOMAIN dirent : k[1] = i /\ IsDir(dirent[k])}

\* allocInode reads the counter long before the batch that bumps it commits,
\* so creates in two directories can be given the same inode
\* (store.go:199).  Nothing is claimed of the namespace after that.
\* A flush or a bulk write that reads a node, and writes it back after a link
\* was added or removed, undoes that; nothing is claimed of the inodes whose
\* node was lost in this way (coalescer.go:721, handle.go:243).

TypeOK ==
    /\ DOMAIN node \subseteq InodeId /\ RootInode \in DOMAIN node
    /\ \A i \in DOMAIN node : /\ node[i].kind \in {"dir", "file", "symlink"}
                              /\ clashed \/ i \in lost \/ node[i].nlink > 0
    /\ DOMAIN dirent \subseteq Key
    /\ \A c \in Client : op[c].pc \in {"idle", "stat", "bulk", "commit", "free"}

\* Every dirent names an inode that has a node, so that no Stat meets a
\* "dangling dirent", and lies in a directory that exists.
NoDangling ==
    clashed \/ \A k \in DOMAIN dirent :
                   /\ dirent[k] \in DOMAIN node \cup lost
                   /\ IsDir(k[1])

\* A file's nlink is the number of its dirents: Unlink and Rename drop the
\* node, and its data, with the last name and not before.
FileLinks ==
    clashed \/ \A i \in DOMAIN node \ lost :
                   ~IsDir(i) => node[i].nlink = Cardinality(Dirents(i))

\* The directories form a tree under the root: each has one name, and
\* climbing from it reaches the root.  Rename's cycle check sees to that.
DirsFormTree ==
    clashed \/ \A i \in DOMAIN node \ {RootInode} :
        IsDir(i) => Cardinality(Dirents(i)) = 1 /\ isDescendant(i, RootInode)

\* A directory's nlink never falls below 2 plus its subdirectories.  (It can
\* stay above: Rename onto an empty directory of another parent overwrites
\* the decrement it queued for that parent, store.go:808-815.)
DirLinksSuffice ==
    clashed \/ \A i \in DOMAIN node :
                   IsDir(i) => node[i].nlink >= 2 + Cardinality(SubDirs(i))

\* "If nlink hits zero, the inode's node entry is dropped and L2 fragments
\* are deleted" (store.go:562-563): fragments belong to an inode that has a
\* node, or that an operation is about to clear or to give up.  Exempt are
\* inodes whose operation ended between its two commits.
NoOrphanData ==
    clashed \/ \A i \in InodeId \ (torn \cup lost) :
        data[i] > 0 => i \in DOMAIN node
                       \/ \E c \in Client : i \in {op[c].free, op[c].inode}

\* No fragment lies past the size in the node, where no read would reach it,
\* whatever truncates, flushes and bulk writes do to one file - except
\* between the two batches of BulkWriter.Commit ("in one tx",
\* handle.go:236-237) and after a crash there.
SizeCoversData ==
    clashed \/ \A i \in DOMAIN node \ (torn \cup lost) :
        data[i] > node[i].size =>
            \E c \in Client : op[c].kind = "bulk" /\ op[c].inode = i

\* An inode number is never given to a second file, not even after a restart:
\* stableAttr tells go-fuse that all numbers are of generation 1.
FreshInodes ==
    clashed \/ \A c \in Client :
        op[c].batch.next # 0 => op[c].batch.next - 1 \notin known

\* A path resolves as one: as long as the directory a LookupPath has reached
\* exists, the names it has resolved still lead there.
WalkStaysInTree ==
    LET at[n \in 0 .. Len(walk.done)] ==
            IF n = 0 THEN RootInode
            ELSE LET k == <<at[n - 1], walk.done[n]>>
                 IN  IF k \in DOMAIN dirent THEN dirent[k] ELSE 0
    IN  clashed \/ (IsDir(walk.cur) => at[Len(walk.done)] = walk.cur)

=============================================================================
