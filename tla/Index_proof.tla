---------------------------- MODULE Index_proof -----------------------------
(***************************************************************************)
(* What holds of the index for any number of goroutines, inodes, stripes,  *)
(* segments and events: a committed fragment points at durable bytes of    *)
(* its write, the newest write of a stripe wins, and a read that finds its *)
(* segment gets the bytes it planned for.                                  *)
(*                                                                         *)
(* The inductive invariant has two halves.  PlaceInv is about where        *)
(* records are: how segment files are framed, and where the fragments of   *)
(* the index, of the writers in flight and of the reader point.  OrderInv  *)
(* is about seqs: which committed fragment of a stripe a write in flight   *)
(* will supersede.                                                         *)
(***************************************************************************)
EXTENDS Index, FiniteLaws, TLAPS

\* A leaf that names no prover is Zenon's.
USE ZenonT(60)

Pc     == {"idle", "rlock", "read", "active", "write", "lock", "sync", "commit"}
Unit   == {"hdr", "data"} \X Nat
File   == [units : Seq(Unit), durable : Nat]
Extent == [stripe : Stripe, seq : Nat]
Frag   == [inode : Inode, stripe : Stripe, seq : Nat, tier : Tier, seg : SegId,
           off : Nat, wid : Nat]
Writer == [pc : Pc, kind : {"append", "bulk", "move"}, inode : Inode \cup {None},
           wid : Nat, tier : Tier, todo : SUBSET Extent,
           seg : SegId \cup {None}, content : Nat, old : SUBSET Frag,
           frags : SUBSET Frag]

Busy(p)    == proc[p].pc # "idle"
Moving(p)  == proc[p].kind = "move" /\ Busy(p)
Writing(p) == proc[p].kind # "move" /\ Busy(p)

-----------------------------------------------------------------------------
(* Structure *)

\* The segment sets: open segments are files, the active one is open, and ids
\* are below nextID.  A file that is not open is one whose unlink failed.
Disk ==
    /\ DOMAIN files = Tier /\ DOMAIN size = Tier
    /\ active \in [Tier -> SegId \cup {None}] /\ nextID \in [Tier -> Nat]
    /\ \A t \in Tier :
          /\ DOMAIN size[t] \subseteq DOMAIN files[t] /\ DOMAIN files[t] \subseteq SegId
          /\ active[t] # None => active[t] \in DOMAIN size[t]
          /\ \A id \in DOMAIN size[t] : size[t][id] \in Nat
          /\ \A id \in DOMAIN files[t] :
                /\ id < nextID[t] /\ files[t][id] \in File
                /\ files[t][id].durable <= Len(files[t][id].units)

Shapes ==
    /\ proc \in [Proc -> Writer]
    /\ db \subseteq Frag /\ seq \in Nat /\ \A f \in db : f.seq <= seq
    /\ gc \in [pc : {"idle", "active", "list", "remove"}, tier : Tier,
               refs : SUBSET (Tier \X (SegId \cup {None})),
               drop : SUBSET (Tier \X SegId)]
    /\ rd \in [pc : {"idle", "planned"}, frag : SUBSET Frag,
               result : {"none", "ok", "missing", "wrong"}]
    /\ done \in [Inode \X Stripe -> SUBSET Nat] /\ before \in Seq(SUBSET Nat)

\* What writer q has in its hands, when segment ids are below `next' and seqs
\* at most `top'.
CallOK(q, next, top) ==
    /\ q.pc = "idle" => q.frags = {}
    /\ q.pc # "idle" => q.inode \in Inode
    /\ q.pc = "write" => q.seg \in SegId /\ q.seg < next[q.tier]
    /\ q.pc \in {"rlock", "read", "active", "write"} => q.todo # {}
    /\ q.pc \in {"lock", "sync", "commit"} => q.frags # {}
    /\ q.kind # "move" => q.old = {} /\ q.pc # "read"
    /\ q.kind # "append" => q.pc # "rlock"
    /\ q.kind # "bulk" => /\ q.pc # "lock"
                          /\ \A e \in q.todo : e.seq <= top
                          /\ \A f \in q.frags : f.seq <= top
    /\ \A f \in q.frags : f.inode = q.inode /\ f.wid = q.wid /\ f.tier = q.tier

Calls == \A p \in Proc : CallOK(proc[p], nextID, seq)

\* writeMu is a readers-writer lock.
Exclusive ==
    \A p, r \in Proc : p # r /\ Locked(p) => ~Locked(r) /\ ~RLocked(r)

\* The fragments of a stripe among those of D.
Of(D, i, s) == {f \in D : f.inode = i /\ f.stripe = s}

\* A move holds the lock, so its snapshot stays the stripe's fragments.
MoveOK(q, D) ==
    \E s \in Stripe :
        /\ q.old = Of(D, q.inode, s) /\ q.old # {}
        /\ q.wid = Newest(q.old).wid
        /\ \A e \in q.todo : e.stripe = s
        /\ \A f \in q.frags : f.stripe = s

Moves == \A p \in Proc : Moving(p) => MoveOK(proc[p], db)

Struct == Disk /\ Shapes /\ Calls /\ Exclusive /\ Moves

-----------------------------------------------------------------------------
(* Steps of one writer *)

\* Writer p goes to q and nobody else moves.
Becomes(p, q) == proc' = [proc EXCEPT ![p] = q]

\* p's new state, and everybody else's.
LEMMA BecomesEffect ==
    ASSUME Shapes, NEW p \in Proc, NEW q \in Writer, Becomes(p, q)
    PROVE  /\ proc' \in [Proc -> Writer] /\ proc'[p] = q
           /\ \A r \in Proc : r # p => proc'[r] = proc[r]
BY DEF Shapes, Becomes

\* Idle is the state between two calls.
LEMMA IdleWriter ==
    /\ Idle \in Writer /\ Idle.pc = "idle" /\ Idle.frags = {} /\ Idle.todo = {}
    /\ Idle.kind = "append" /\ Idle.old = {}
BY DEF Idle, Writer, Pc, Tier, None

\* r is where a write that is at q may be next, other than at its end: the
\* same call, with extents turned into fragments.
Continues(q, r) ==
    /\ q.pc # "idle" /\ r.kind = q.kind /\ r.wid = q.wid /\ r.inode = q.inode
    /\ r.tier = q.tier /\ r.old = q.old /\ r.todo \subseteq q.todo
    /\ \A f \in r.frags :
          f \in q.frags \/ \E e \in q.todo : f.seq = e.seq /\ f.stripe = e.stripe

\* writeMu is taken only when it is free.
TakesLock(p) ==
    /\ Locked(p)' => Locked(p) \/ LockFree
    /\ RLocked(p)' => RLocked(p) \/ RLockFree

\* Ids and seqs only grow under a writer.
LEMMA CallOKLater ==
    ASSUME NEW q \in Writer,
           NEW n1 \in [Tier -> Nat], NEW n2 \in [Tier -> Nat],
           NEW s1 \in Nat, NEW s2 \in Nat,
           \A t \in Tier : n1[t] <= n2[t], s1 <= s2, CallOK(q, n1, s1)
    PROVE  CallOK(q, n2, s2)
<1>1. q.tier \in Tier /\ q.seg \in SegId \cup {None}
    BY DEF Writer
<1>2. q.pc = "write" => q.seg \in SegId /\ q.seg < n2[q.tier]
    BY SMTT(30), <1>1, IndexAssumption DEF CallOK, SegId
<1>3. q.kind # "bulk" => (\A e \in q.todo : e.seq <= s2) /\ (\A f \in q.frags : f.seq <= s2)
    BY SMTT(30) DEF CallOK, Writer, Extent, Frag
<1> QED
    BY <1>2, <1>3 DEF CallOK

\* A step of p that leaves its call in order keeps everybody's in order.
LEMMA CallsStep ==
    ASSUME Struct, NEW p \in Proc, NEW q \in Writer, Becomes(p, q),
           nextID' \in [Tier -> Nat], \A t \in Tier : nextID[t] <= nextID'[t],
           seq' \in Nat, seq <= seq', CallOK(q, nextID', seq')
    PROVE  Calls'
<1>1. /\ proc'[p] = q
      /\ \A r \in Proc : r # p => proc'[r] = proc[r]
    BY BecomesEffect DEF Struct
<1>2. ASSUME NEW r \in Proc PROVE CallOK(proc'[r], nextID', seq')
    <2>1. CASE r = p
        BY <1>1, <2>1
    <2>2. CASE r # p
        <3>1. proc[r] \in Writer /\ CallOK(proc[r], nextID, seq)
            BY DEF Struct, Shapes, Calls
        <3>2. nextID \in [Tier -> Nat] /\ seq \in Nat
            BY DEF Struct, Shapes, Disk
        <3>3. CallOK(proc[r], nextID', seq')
            BY <3>1, <3>2, CallOKLater
        <3> QED
            BY <1>1, <2>2, <3>3
    <2> QED
        BY <2>1, <2>2
<1> QED
    BY <1>2 DEF Calls

\* Taking the lock only when it is free keeps it exclusive.
LEMMA ExclusiveStep ==
    ASSUME Struct, NEW p \in Proc, TakesLock(p),
           \A r \in Proc : r # p => proc'[r] = proc[r]
    PROVE  Exclusive'
<1>1. \A r \in Proc : r # p => (Locked(r)' <=> Locked(r)) /\ (RLocked(r)' <=> RLocked(r))
    BY DEF Locked, RLocked
<1>2. \A a, b \in Proc : a # b /\ Locked(a) => ~Locked(b) /\ ~RLocked(b)
    BY DEF Struct, Exclusive
<1>3. \A r \in Proc : r # p /\ Locked(r) => ~Locked(p)' /\ ~RLocked(p)'
    BY <1>2 DEF TakesLock, LockFree, RLockFree
<1>4. Locked(p)' => \A r \in Proc : r # p => ~Locked(r) /\ ~RLocked(r)
    BY <1>2 DEF TakesLock, LockFree
<1>5. \A a, b \in Proc : a # b /\ Locked(a)' => ~Locked(b)' /\ ~RLocked(b)'
    BY <1>1, <1>2, <1>3, <1>4
<1> QED
    BY <1>5 DEF Exclusive

\* The calls and moves in flight after a writer's step that commits nothing.
LEMMA AdvanceStruct ==
    ASSUME Struct, NEW p \in Proc, NEW q \in Writer, Becomes(p, q),
           q = Idle \/ Continues(proc[p], q), TakesLock(p),
           UNCHANGED <<db, seq, gc, rd, done, before>>, Disk',
           \A t \in Tier : nextID[t] <= nextID'[t], CallOK(q, nextID', seq)
    PROVE  Struct'
<1>1. /\ proc' \in [Proc -> Writer] /\ proc'[p] = q
      /\ \A r \in Proc : r # p => proc'[r] = proc[r]
    BY BecomesEffect DEF Struct
<1>2. Shapes'
    BY <1>1 DEF Struct, Shapes
<1>3. Calls'
    <2>1. nextID' \in [Tier -> Nat] /\ seq' = seq /\ seq \in Nat
        BY DEF Disk, Struct, Shapes
    <2> QED
        BY SMTT(30), <2>1, CallsStep
<1>4. Exclusive'
    BY <1>1, ExclusiveStep
<1>5. ASSUME NEW r \in Proc, Moving(r)' PROVE MoveOK(proc'[r], db)
    <2>1. CASE r # p
        BY <1>1, <1>5, <2>1 DEF Moving, Busy, Struct, Moves
    <2>2. CASE r = p
        <3>1. Continues(proc[p], q) /\ q.kind = "move"
            BY <1>1, <1>5, <2>2, IdleWriter DEF Moving, Busy
        <3>2. MoveOK(proc[p], db)
            BY <3>1 DEF Continues, Struct, Moves, Moving, Busy
        <3>3. MoveOK(q, db)
            BY <3>1, <3>2 DEF Continues, MoveOK
        <3> QED
            BY <1>1, <2>2, <3>3
    <2> QED
        BY <2>1, <2>2
<1>6. Moves'
    BY <1>5 DEF Moves
<1> QED
    BY <1>2, <1>3, <1>4, <1>6 DEF Struct

-----------------------------------------------------------------------------
(* Steps of the segment files *)

\* v is u with more at its end.
Extends(u, v) == Len(u) <= Len(v) /\ \A n \in 1 .. Len(u) : v[n] = u[n]

\* Nothing was appended.
LEMMA SameExtends ==
    ASSUME NEW u, Len(u) \in Nat PROVE Extends(u, u)
BY SMTT(30) DEF Extends

\* Every record of u is whole.
Whole(u) ==
    \A k \in 1 .. Len(u) :
        2 * k <= Len(u) => /\ u[2 * k - 1] = <<"hdr", u[2 * k][2]>>
                           /\ u[2 * k][1] = "data"

\* What the concatenation of two sequences is.
LEMMA Concatenation ==
    ASSUME NEW S, NEW u \in Seq(S), NEW w \in Seq(S)
    PROVE  /\ u \o w \in Seq(S) /\ Len(u \o w) = Len(u) + Len(w)
           /\ \A i \in 1 .. Len(u) + Len(w) :
                 (u \o w)[i] = IF i <= Len(u) THEN u[i] ELSE w[i - Len(u)]
BY SMTT(30)

\* Appending a framed record.
LEMMA FramedRecord ==
    ASSUME NEW u \in Seq(Unit), NEW c \in Nat
    PROVE  /\ u \o Framed(c) \in Seq(Unit) /\ Len(u \o Framed(c)) = Len(u) + 2
           /\ Extends(u, u \o Framed(c))
           /\ (u \o Framed(c))[Len(u) + 1] = <<"hdr", c>>
           /\ (u \o Framed(c))[Len(u) + 2] = <<"data", c>>
           /\ Whole(u) /\ Len(u) % 2 = 0 => Whole(u \o Framed(c))
<1> DEFINE w == Framed(c)
           v == u \o w
<1>1. w \in Seq(Unit) /\ Len(w) = 2
    BY SMTT(30) DEF Framed, Unit
<1>2. w[1] = <<"hdr", c>> /\ w[2] = <<"data", c>>
    BY DEF Framed
<1> HIDE DEF w
<1>c. /\ v \in Seq(Unit) /\ Len(v) = Len(u) + Len(w)
      /\ \A i \in 1 .. Len(u) + Len(w) :
            v[i] = IF i <= Len(u) THEN u[i] ELSE w[i - Len(u)]
    BY <1>1, Concatenation
<1> HIDE DEF v
<1>3. v \in Seq(Unit) /\ Len(v) = Len(u) + 2
    BY <1>1, <1>c
<1>4. \A n \in 1 .. Len(u) : v[n] = u[n]
    BY SMTT(30), <1>1, <1>c
<1>5. v[Len(u) + 1] = <<"hdr", c>> /\ v[Len(u) + 2] = <<"data", c>>
    <2>1. v[Len(u) + 1] = w[1]
        BY SMTT(30), <1>1, <1>c
    <2>2. v[Len(u) + 2] = w[2]
        BY SMTT(30), <1>1, <1>c
    <2> QED
        BY <1>2, <2>1, <2>2
<1>6. ASSUME Whole(u), Len(u) % 2 = 0, NEW k \in 1 .. Len(v), 2 * k <= Len(v)
      PROVE  v[2 * k - 1] = <<"hdr", v[2 * k][2]>> /\ v[2 * k][1] = "data"
    <2>1. CASE 2 * k <= Len(u)
        <3>1. k \in 1 .. Len(u) /\ 2 * k - 1 \in 1 .. Len(u) /\ 2 * k \in 1 .. Len(u)
            BY SMTT(30), <2>1
        <3> QED
            BY <1>4, <1>6, <2>1, <3>1 DEF Whole
    <2>2. CASE 2 * k > Len(u)
        <3>1. 2 * k = Len(u) + 2 /\ 2 * k - 1 = Len(u) + 1
            BY SMTT(30), <1>3, <1>6, <2>2
        <3> QED
            BY SMTT(30), <1>5, <3>1
    <2> QED
        BY SMTT(30), <2>1, <2>2
<1>7. Whole(u) /\ Len(u) % 2 = 0 => Whole(v)
    BY <1>6 DEF Whole
<1>8. Extends(u, v)
    BY SMTT(30), <1>3, <1>4 DEF Extends
<1> QED
    BY <1>3, <1>5, <1>7, <1>8 DEF v, w

\* No file loses a unit and no id below nextID is given to another file:
\* every step but a crash.
Keeps ==
    /\ \A t \in Tier : nextID[t] <= nextID'[t]
    /\ \A t \in Tier : \A id \in DOMAIN files'[t] :
          id < nextID[t] => /\ id \in DOMAIN files[t]
                            /\ Extends(files[t][id].units, files'[t][id].units)

\* No open segment is closed and no file goes away or loses its durable part:
\* every step but GC's.
Persists ==
    \A t \in Tier :
        /\ \A id \in DOMAIN size[t] : id \in DOMAIN size'[t]
        /\ \A id \in DOMAIN files[t] :
              /\ id \in DOMAIN files'[t]
              /\ files[t][id].durable <= files'[t][id].durable

\* A sync changes no unit, and makes the segments it is for durable.
LEMMA SyncedFile ==
    ASSUME Disk, NEW t \in Tier, NEW ids, NEW id \in DOMAIN files[t]
    PROVE  LET g == Synced(t, ids)[id]
           IN  /\ g \in File /\ g.units = files[t][id].units
               /\ files[t][id].durable <= g.durable /\ g.durable <= Len(g.units)
               /\ id \in ids /\ id \in DOMAIN size[t] => g.durable = Len(g.units)
<1> DEFINE f == files[t][id]
<1>1. /\ f \in File /\ f.durable <= Len(f.units)
    BY DEF Disk
<1>2. Synced(t, ids)[id] = IF id \in ids \cap DOMAIN size[t]
                           THEN [f EXCEPT !.durable = Len(f.units)] ELSE f
    BY DEF Synced
<1> HIDE DEF f
<1>3. Len(f.units) \in Nat /\ f.durable \in Nat
    BY SMTT(30), <1>1 DEF File
<1>4. [f EXCEPT !.durable = Len(f.units)] \in File
    BY <1>1, <1>3 DEF File
<1>5. /\ [f EXCEPT !.durable = Len(f.units)].units = f.units
      /\ [f EXCEPT !.durable = Len(f.units)].durable = Len(f.units)
    BY <1>1 DEF File
<1> QED
    BY SMTT(30), <1>1, <1>2, <1>3, <1>4, <1>5 DEF f

\* ActiveSegment's second case.
Rotates(t) ==
    /\ nextID[t] \in SegId
    /\ files' = [files EXCEPT ![t] = With(Synced(t, {active[t]}), nextID[t],
                                         [units |-> <<>>, durable |-> 0])]
    /\ size' = [size EXCEPT ![t] = With(@, nextID[t], 0)]
    /\ active' = [active EXCEPT ![t] = nextID[t]]
    /\ nextID' = [nextID EXCEPT ![t] = @ + 1]

\* A rotation adds an empty file and syncs the one it leaves.
LEMMA RotateEffect ==
    ASSUME Disk, NEW t \in Tier, Rotates(t)
    PROVE  /\ Disk' /\ Keeps /\ Persists
           /\ nextID[t] \in DOMAIN size'[t] /\ nextID[t] < nextID'[t]
           /\ active'[t] = nextID[t] /\ size'[t][nextID[t]] = 0
           /\ files'[t][nextID[t]].units = <<>>
           /\ \A s \in Tier : s # t => active'[s] = active[s]
           /\ \A s \in Tier : \A id \in DOMAIN files'[s] :
                 (s = t /\ id = nextID[t]) \/
                 (id \in DOMAIN files[s] /\ files'[s][id].units = files[s][id].units)
           /\ \A s \in Tier : \A id \in DOMAIN size'[s] :
                 (s = t /\ id = nextID[t]) \/
                 (id \in DOMAIN size[s] /\ size'[s][id] = size[s][id])
<1> DEFINE new == nextID[t]
           empty == [units |-> <<>>, durable |-> 0]
           g == Synced(t, {active[t]})
<1>1. /\ DOMAIN files = Tier /\ DOMAIN size = Tier /\ nextID \in [Tier -> Nat]
      /\ active \in [Tier -> SegId \cup {None}]
      /\ DOMAIN size[t] \subseteq DOMAIN files[t] /\ DOMAIN g = DOMAIN files[t]
      /\ \A id \in DOMAIN files[t] : id < new /\ id \in SegId
    BY DEF Disk, Synced
<1>2. /\ DOMAIN files' = Tier /\ DOMAIN size' = Tier
      /\ files'[t] = With(g, new, empty) /\ size'[t] = With(size[t], new, 0)
      /\ \A s \in Tier : s # t => files'[s] = files[s] /\ size'[s] = size[s]
    BY <1>1 DEF Rotates
<1>3. /\ nextID' \in [Tier -> Nat] /\ nextID'[t] = new + 1 /\ new \in Nat
      /\ \A s \in Tier : s # t => nextID'[s] = nextID[s]
      /\ active' \in [Tier -> SegId \cup {None}] /\ active'[t] = new
      /\ \A s \in Tier : s # t => active'[s] = active[s]
    BY SMTT(30), <1>1 DEF Rotates
<1>4. /\ DOMAIN files'[t] = DOMAIN files[t] \cup {new}
      /\ DOMAIN size'[t] = DOMAIN size[t] \cup {new}
      /\ files'[t][new] = empty /\ size'[t][new] = 0
      /\ \A id \in DOMAIN files[t] : id # new => files'[t][id] = g[id]
      /\ \A id \in DOMAIN size[t] : id # new => size'[t][id] = size[t][id]
    BY <1>1, <1>2 DEF With
<1>5. \A id \in DOMAIN files[t] : id # new
    BY SMTT(30), <1>1, <1>3, IndexAssumption DEF SegId
<1>6. \A id \in DOMAIN files[t] :
         /\ files'[t][id] \in File /\ files'[t][id].units = files[t][id].units
         /\ files[t][id].durable <= files'[t][id].durable
         /\ files'[t][id].durable <= Len(files'[t][id].units)
    <2> TAKE id \in DOMAIN files[t]
    <2>1. /\ g[id] \in File /\ g[id].units = files[t][id].units
          /\ files[t][id].durable <= g[id].durable /\ g[id].durable <= Len(g[id].units)
        BY SyncedFile
    <2>2. files'[t][id] = g[id]
        BY <1>4, <1>5
    <2> QED
        BY <2>1, <2>2
<1>7. empty \in File /\ empty.units = <<>> /\ empty.durable = 0 /\ Len(empty.units) = 0
    BY SMTT(30) DEF File
<1> HIDE DEF new, empty, g
<1>8. ASSUME NEW s \in Tier
      PROVE  /\ DOMAIN size'[s] \subseteq DOMAIN files'[s] /\ DOMAIN files'[s] \subseteq SegId
             /\ active'[s] # None => active'[s] \in DOMAIN size'[s]
             /\ \A id \in DOMAIN size'[s] : size'[s][id] \in Nat
             /\ \A id \in DOMAIN files'[s] :
                   /\ id < nextID'[s] /\ files'[s][id] \in File
                   /\ files'[s][id].durable <= Len(files'[s][id].units)
    <2>1. CASE s # t
        BY <1>2, <1>3, <2>1 DEF Disk
    <2>2. CASE s = t
        <3>1. new \in SegId
            BY DEF new, Rotates
        <3>2. \A id \in DOMAIN files[t] : id < new + 1
            BY SMTT(30), <1>1, <1>3, IndexAssumption DEF SegId
        <3>3. DOMAIN size'[t] \subseteq DOMAIN files'[t] /\ DOMAIN files'[t] \subseteq SegId
            BY <1>1, <1>4, <3>1
        <3>4. active'[t] \in DOMAIN size'[t]
            BY <1>3, <1>4
        <3>6. \A id \in DOMAIN size'[t] : size'[t][id] \in Nat
            <4>1. 0 \in Nat /\ \A id \in DOMAIN size[t] : size[t][id] \in Nat
                BY SMTT(30) DEF Disk
            <4> QED
                BY <1>4, <4>1
        <3>5. ASSUME NEW id \in DOMAIN files'[t]
              PROVE  /\ id < nextID'[t] /\ files'[t][id] \in File
                     /\ files'[t][id].durable <= Len(files'[t][id].units)
            <4>1. CASE id = new
                <5>1. files'[t][id] = empty /\ new < nextID'[t]
                    BY SMTT(30), <1>3, <1>4, <4>1
                <5> QED
                    BY SMTT(30), <1>7, <4>1, <5>1
            <4>2. CASE id \in DOMAIN files[t]
                BY <1>3, <1>6, <3>2, <4>2
            <4> QED
                BY <1>4, <4>1, <4>2
        <3> QED
            BY <2>2, <3>3, <3>4, <3>5, <3>6
    <2> QED
        BY <2>1, <2>2
<1>9. Disk'
    BY <1>2, <1>3, <1>8 DEF Disk
<1>10. \A s \in Tier : \A id \in DOMAIN files'[s] :
          (s = t /\ id = new) \/
          (id \in DOMAIN files[s] /\ files'[s][id].units = files[s][id].units)
    <2> TAKE s \in Tier
    <2> TAKE id \in DOMAIN files'[s]
    <2>1. CASE s # t
        BY <1>2, <2>1
    <2>2. CASE s = t
        BY <1>4, <1>6, <2>2
    <2> QED
        BY <2>1, <2>2
<1>11. \A s \in Tier : \A id \in DOMAIN files[s] : Len(files[s][id].units) \in Nat
    BY SMTT(30) DEF Disk, File
<1>12. \A s \in Tier : nextID[s] <= nextID'[s]
    BY SMTT(30), <1>1, <1>3 DEF new
<1>13. Keeps
    <2>1. ~(new < nextID[t])
        BY SMTT(30), <1>3 DEF new
    <2>2. ASSUME NEW s \in Tier, NEW id \in DOMAIN files'[s], id < nextID[s]
          PROVE  id \in DOMAIN files[s] /\ Extends(files[s][id].units, files'[s][id].units)
        <3>1. id \in DOMAIN files[s] /\ files'[s][id].units = files[s][id].units
            BY <1>10, <2>1, <2>2
        <3> QED
            BY <1>11, <3>1, SameExtends
    <2> QED
        BY <1>12, <2>2 DEF Keeps
<1>14. \A s \in Tier : \A id \in DOMAIN files[s] :
           files[s][id].durable \in Nat
    BY DEF Disk, File
<1>15. Persists
    <2>1. ASSUME NEW s \in Tier, NEW id \in DOMAIN files[s]
          PROVE  id \in DOMAIN files'[s] /\ files[s][id].durable <= files'[s][id].durable
        <3>1. CASE s # t
            BY SMTT(30), <1>2, <1>14, <3>1
        <3>2. CASE s = t
            BY <1>4, <1>6, <3>2
        <3> QED
            BY <3>1, <3>2
    <2>2. \A s \in Tier : \A id \in DOMAIN size[s] : id \in DOMAIN size'[s]
        BY <1>2, <1>4
    <2> QED
        BY <2>1, <2>2 DEF Persists
<1>16. new < nextID'[t]
    BY SMTT(30), <1>3
<1>17. \A s \in Tier : \A id \in DOMAIN size'[s] :
          (s = t /\ id = new) \/ (id \in DOMAIN size[s] /\ size'[s][id] = size[s][id])
    <2>1. \A id \in DOMAIN size'[t] :
             id = new \/ (id \in DOMAIN size[t] /\ size'[t][id] = size[t][id])
        BY <1>4
    <2>2. \A s \in Tier : s # t => size'[s] = size[s]
        BY <1>2
    <2> QED
        BY <2>1, <2>2
<1> QED
    BY <1>3, <1>4, <1>7, <1>9, <1>10, <1>13, <1>15, <1>16, <1>17 DEF new

\* f.Write: file id of t becomes v; Segment.size may follow.
Overwrites(t, id, v) ==
    /\ files' = [files EXCEPT ![t][id].units = v]
    /\ DOMAIN size' = Tier
    /\ \A s \in Tier : DOMAIN size'[s] = DOMAIN size[s]
    /\ \A s \in Tier : \A i \in DOMAIN size[s] : size'[s][i] \in Nat
    /\ UNCHANGED <<active, nextID>>

\* Appending to a file keeps everything that was there.
LEMMA OverwriteEffect ==
    ASSUME Disk, NEW t \in Tier, NEW id \in DOMAIN files[t], NEW v \in Seq(Unit),
           Extends(files[t][id].units, v), Overwrites(t, id, v)
    PROVE  /\ Disk' /\ Keeps /\ Persists
           /\ files'[t][id].units = v
           /\ \A s \in Tier : DOMAIN files'[s] = DOMAIN files[s]
           /\ \A s \in Tier : \A i \in DOMAIN files[s] :
                 s # t \/ i # id => files'[s][i] = files[s][i]
<1> DEFINE f == files[t][id]
           g == [f EXCEPT !.units = v]
<1>1. /\ DOMAIN files = Tier /\ f \in File /\ f.durable <= Len(f.units)
      /\ \A s \in Tier : \A i \in DOMAIN files[s] :
            files[s][i].durable \in Nat /\ Len(files[s][i].units) \in Nat
    BY SMTT(30) DEF Disk, File
<1>2. g \in File /\ g.units = v /\ g.durable = f.durable
    BY <1>1 DEF File
<1>3. g.durable <= Len(v) /\ g.durable \in Nat
    BY SMTT(30), <1>1, <1>2 DEF Extends, File
<1>4. files' = [files EXCEPT ![t] = [files[t] EXCEPT ![id] = g]]
    BY DEF Overwrites
<1> HIDE DEF g
<1>5. /\ DOMAIN files' = Tier
      /\ \A s \in Tier : DOMAIN files'[s] = DOMAIN files[s]
      /\ files'[t][id] = g
      /\ \A s \in Tier : \A i \in DOMAIN files[s] :
            s # t \/ i # id => files'[s][i] = files[s][i]
    BY <1>1, <1>4
<1>6. ASSUME NEW s \in Tier, NEW i \in DOMAIN files[s]
      PROVE  /\ files'[s][i] \in File
             /\ files'[s][i].durable <= Len(files'[s][i].units)
             /\ files[s][i].durable <= files'[s][i].durable
             /\ Extends(files[s][i].units, files'[s][i].units)
    <2>1. CASE s = t /\ i = id
        <3>1. files'[s][i] = g /\ files[s][i] = f
            BY <1>5, <2>1
        <3>2. f.durable <= g.durable
            BY SMTT(30), <1>1, <1>2, <1>3
        <3> QED
            BY <1>2, <1>3, <3>1, <3>2
    <2>2. CASE ~(s = t /\ i = id)
        <3>1. files'[s][i] = files[s][i]
            BY <1>5, <2>2
        <3>2. files[s][i] \in File /\ files[s][i].durable <= Len(files[s][i].units)
            BY DEF Disk
        <3> QED
            BY SMTT(30), <1>1, <3>1, <3>2, SameExtends
    <2> QED
        BY <2>1, <2>2
<1>7. Disk'
    <2>1. active' = active /\ nextID' = nextID /\ DOMAIN size' = Tier
        BY DEF Overwrites
    <2>2. ASSUME NEW s \in Tier
          PROVE  /\ DOMAIN size'[s] \subseteq DOMAIN files'[s] /\ DOMAIN files'[s] \subseteq SegId
                 /\ active'[s] # None => active'[s] \in DOMAIN size'[s]
                 /\ \A i \in DOMAIN size'[s] : size'[s][i] \in Nat
                 /\ \A i \in DOMAIN files'[s] : i < nextID'[s]
        BY <1>5, <2>1 DEF Disk, Overwrites
    <2> QED
        BY <1>5, <1>6, <2>1, <2>2 DEF Disk
<1>8. Keeps
    <2>1. nextID' = nextID /\ \A s \in Tier : nextID[s] <= nextID[s]
        BY SMTT(30) DEF Disk, Overwrites
    <2> QED
        BY <1>5, <1>6, <2>1 DEF Keeps
<1>9. Persists
    BY <1>5, <1>6 DEF Persists, Overwrites
<1> QED
    BY <1>2, <1>5, <1>7, <1>8, <1>9

\* A framed record of content c goes to the end of file id of t.
Appends(t, id, c) ==
    /\ files' = [files EXCEPT ![t][id].units = @ \o Framed(c)]
    /\ size' = [size EXCEPT ![t][id] = @ + 2] /\ UNCHANGED <<active, nextID>>

\* Segment.AppendCtx.
LEMMA AppendEffect ==
    ASSUME Disk, NEW t \in Tier, NEW id \in DOMAIN size[t], NEW c \in Nat,
           Appends(t, id, c)
    PROVE  /\ Disk' /\ Keeps /\ Persists
           /\ files'[t][id].units = files[t][id].units \o Framed(c)
           /\ size'[t][id] = size[t][id] + 2 /\ size[t][id] \in Nat
           /\ \A s \in Tier : DOMAIN files'[s] = DOMAIN files[s] /\ DOMAIN size'[s] = DOMAIN size[s]
           /\ \A s \in Tier : \A i \in DOMAIN files[s] :
                 s # t \/ i # id => files'[s][i] = files[s][i]
           /\ \A s \in Tier : \A i \in DOMAIN size[s] :
                 s # t \/ i # id => size'[s][i] = size[s][i]
<1> DEFINE v == files[t][id].units \o Framed(c)
<1>1. id \in DOMAIN files[t] /\ files[t][id].units \in Seq(Unit)
    BY DEF Disk, File
<1>2. v \in Seq(Unit) /\ Extends(files[t][id].units, v)
    BY <1>1, FramedRecord
<1>3. /\ DOMAIN size = Tier
      /\ \A s \in Tier : \A i \in DOMAIN size[s] : size[s][i] \in Nat
    BY DEF Disk
<1>4. /\ DOMAIN size' = Tier /\ \A s \in Tier : DOMAIN size'[s] = DOMAIN size[s]
      /\ size'[t][id] = size[t][id] + 2
      /\ \A s \in Tier : \A i \in DOMAIN size[s] :
                 s # t \/ i # id => size'[s][i] = size[s][i]
    BY <1>3 DEF Appends
<1>5. \A s \in Tier : \A i \in DOMAIN size[s] : size'[s][i] \in Nat
    BY SMTT(30), <1>3, <1>4
<1>6. Overwrites(t, id, v)
    BY <1>4, <1>5 DEF Overwrites, Appends
<1> HIDE DEF v
<1>7. /\ Disk' /\ Keeps /\ Persists /\ files'[t][id].units = v
      /\ \A s \in Tier : DOMAIN files'[s] = DOMAIN files[s]
      /\ \A s \in Tier : \A i \in DOMAIN files[s] :
            s # t \/ i # id => files'[s][i] = files[s][i]
    BY <1>1, <1>2, <1>6, OverwriteEffect
<1>8. size'[t][id] = size[t][id] + 2 /\ size[t][id] \in Nat
    BY <1>3, <1>4
<1> QED
    BY <1>4, <1>7, <1>8 DEF v

\* Without short writes Segment.size is the length of the file, and records
\* are appended to whole records only.
Framing ==
    "short" \notin met =>
        /\ \A t \in Tier : \A id \in DOMAIN files[t] : Whole(files[t][id].units)
        /\ \A t \in Tier : \A id \in DOMAIN size[t] : size[t][id] = Len(files[t][id].units)
        /\ \A t \in Tier : active[t] # None => size[t][active[t]] % 2 = 0
        /\ \A p \in Proc :
              LET q == proc[p]
              IN  q.pc = "write" /\ q.seg \in DOMAIN size[q.tier]
                      => size[q.tier][q.seg] % 2 = 0

\* No segment of a tier.
NoSegment == <<"none", None>>

\* Files and open segments may go, and what stays is as it was: GC's steps on
\* the segment files.  Every open segment but x stays open.
Shrinks(x) ==
    /\ DOMAIN files' = Tier /\ DOMAIN size' = Tier /\ nextID' = nextID
    /\ active' \in [Tier -> SegId \cup {None}]
    /\ \A s \in Tier :
          /\ DOMAIN size'[s] \subseteq DOMAIN files'[s]
          /\ active'[s] # None => active'[s] = active[s] /\ active'[s] \in DOMAIN size'[s]
          /\ \A i \in DOMAIN files'[s] : i \in DOMAIN files[s] /\ files'[s][i] = files[s][i]
          /\ \A i \in DOMAIN size'[s] : i \in DOMAIN size[s] /\ size'[s][i] = size[s][i]
          /\ \A i \in DOMAIN size[s] : <<s, i>> # x => i \in DOMAIN size'[s]

\* What a step leaves behind that touches no file.
LEMMA SameDisk ==
    ASSUME Disk, UNCHANGED disk PROVE Disk' /\ Keeps /\ Persists
<1>1. files' = files /\ size' = size /\ active' = active /\ nextID' = nextID
    BY DEF disk
<1>2. Disk'
    BY <1>1 DEF Disk
<1>3. /\ \A t \in Tier : nextID[t] \in Nat
      /\ \A t \in Tier : \A id \in DOMAIN files[t] :
            Len(files[t][id].units) \in Nat /\ files[t][id].durable \in Nat
    BY SMTT(30) DEF Disk, File
<1>4. Keeps
    BY SMTT(30), <1>1, <1>3, SameExtends DEF Keeps
<1>5. Persists
    BY SMTT(30), <1>1, <1>3 DEF Persists
<1> QED
    BY <1>2, <1>4, <1>5

\* The writer that is at q when its call is in order.
LEMMA WriterFacts ==
    ASSUME Struct, NEW p \in Proc
    PROVE  /\ proc[p] \in Writer /\ CallOK(proc[p], nextID, seq)
           /\ proc[p].tier \in Tier /\ proc[p].wid \in Nat /\ proc[p].content \in Nat
           /\ proc[p].todo \subseteq Extent /\ proc[p].frags \subseteq Frag
<1>1. proc[p] \in Writer /\ CallOK(proc[p], nextID, seq)
    BY DEF Struct, Shapes, Calls
<1> QED
    BY <1>1 DEF Writer

\* Idle is in order.
LEMMA IdleOK ==
    ASSUME NEW n, NEW s PROVE CallOK(Idle, n, s)
BY IdleWriter DEF CallOK

\* A call that fails, or returns.
LEMMA ReturnStruct ==
    ASSUME Struct, NEW p \in Proc, Return(p), UNCHANGED <<db, seq, gc, rd, done, before>>,
           Disk', \A t \in Tier : nextID[t] <= nextID'[t]
    PROVE  Struct'
<1>1. Idle \in Writer /\ Becomes(p, Idle)
    BY IdleWriter DEF Return, Becomes
<1>2. proc'[p] = Idle
    BY <1>1, BecomesEffect DEF Struct
<1>3. TakesLock(p)
    BY <1>2, IdleWriter DEF TakesLock, Locked, RLocked
<1>4. CallOK(Idle, nextID', seq)
    BY IdleOK
<1> QED
    BY <1>1, <1>3, <1>4, AdvanceStruct

\* A call goes on to q with the files changed and the index not.
LEMMA AdvanceTo ==
    ASSUME Struct, NEW p \in Proc, NEW q \in Writer, Becomes(p, q),
           proc[p].pc \in {"active", "write", "read"},
           q.pc \in {"active", "write", "lock", "sync"},
           q.pc = "lock" => q.kind = "bulk", q.pc = "sync" => q.kind # "bulk",
           Continues(proc[p], q), UNCHANGED <<db, seq, gc, rd, done, before>>, Disk',
           \A t \in Tier : nextID[t] <= nextID'[t], CallOK(q, nextID', seq)
    PROVE  Struct'
<1>1. proc'[p] = q /\ q.kind = proc[p].kind
    BY BecomesEffect DEF Struct, Continues
<1>2. proc[p].pc = "read" => proc[p].kind = "move"
    BY WriterFacts DEF CallOK
<1>3. TakesLock(p)
    BY <1>1, <1>2 DEF TakesLock, Locked, RLocked
<1> QED
    BY <1>3, AdvanceStruct

\* Set.ActiveCtx.
LEMMA ActiveStruct ==
    ASSUME Struct, NEW p \in Proc, ActiveSegment(p)
    PROVE  /\ Struct' /\ Keeps /\ Persists /\ UNCHANGED <<db, seq, gc, rd, hist>>
           /\ \E q \in Writer :
                 /\ Becomes(p, q) /\ Continues(proc[p], q) /\ q.pc = "write"
                 /\ q.frags = proc[p].frags /\ q.content = proc[p].content
                 /\ \/ UNCHANGED disk /\ active[q.tier] # None /\ q.seg = active[q.tier]
                    \/ Rotates(q.tier) /\ q.seg = nextID[q.tier]
<1> DEFINE t == proc[p].tier
<1>1. /\ proc[p] \in Writer /\ CallOK(proc[p], nextID, seq) /\ t \in Tier
    BY WriterFacts
<1>2. PICK id \in SegId :
         /\ proc' = [proc EXCEPT ![p].pc = "write", ![p].seg = id]
         /\ \/ UNCHANGED disk /\ active[t] # None /\ id = active[t]
            \/ Rotates(t) /\ id = nextID[t]
    BY <1>1 DEF ActiveSegment, Fits, Rotates, Struct, Disk
<1>3. proc[p].pc = "active" /\ UNCHANGED <<db, seq, gc, rd, hist>>
    BY DEF ActiveSegment
<1> DEFINE q == [proc[p] EXCEPT !.pc = "write", !.seg = id]
<1>4. Becomes(p, q)
    BY <1>2 DEF Becomes
<1>5. /\ q \in Writer /\ q.pc = "write" /\ q.seg = id /\ q.kind = proc[p].kind
      /\ q.wid = proc[p].wid /\ q.inode = proc[p].inode /\ q.tier = t
      /\ q.todo = proc[p].todo /\ q.old = proc[p].old /\ q.frags = proc[p].frags
      /\ q.content = proc[p].content
    BY <1>1 DEF Writer, Pc
<1> HIDE DEF q
<1>6. Continues(proc[p], q)
    BY <1>3, <1>5 DEF Continues
<1>7. Disk' /\ Keeps /\ Persists /\ id < nextID'[t]
    <2>1. CASE UNCHANGED disk /\ active[t] # None /\ id = active[t]
        <3>1. id < nextID[t] /\ nextID' = nextID
            BY <1>1, <2>1 DEF Struct, Disk, disk
        <3> QED
            BY <2>1, <3>1, SameDisk DEF Struct
    <2>2. CASE Rotates(t) /\ id = nextID[t]
        BY <1>1, <2>2, RotateEffect DEF Struct
    <2> QED
        BY <1>2, <2>1, <2>2
<1>8. \A s \in Tier : nextID[s] <= nextID'[s]
    BY <1>7 DEF Keeps
<1>9. CallOK(q, nextID', seq)
    <2>1. proc[p].todo # {}
        BY <1>1, <1>3 DEF CallOK
    <2> QED
        BY <1>1, <1>3, <1>5, <1>7, <2>1 DEF CallOK
<1>10. Struct'
    BY <1>3, <1>4, <1>5, <1>6, <1>7, <1>8, <1>9, AdvanceTo DEF hist
<1> QED
    BY <1>2, <1>3, <1>4, <1>5, <1>6, <1>7, <1>10

\* The content of the record p is about to write.
Content(q) == IF q.kind = "move" THEN q.content ELSE q.wid

\* Segment.AppendCtx, when it succeeds: the record is at the end of the file
\* and one extent has become a fragment.
LEMMA RecordStruct ==
    ASSUME Struct, NEW p \in Proc, AppendRecord(p),
           proc[p].seg \in DOMAIN size[proc[p].tier],
           First(proc[p].todo) \in proc[p].todo
    PROVE  /\ Struct' /\ Keeps /\ Persists /\ UNCHANGED <<db, seq, gc, rd, hist>>
           /\ proc[p].tier \in Tier /\ proc[p].seg \in SegId
           /\ proc[p].seg \in DOMAIN files[proc[p].tier]
           /\ Appends(proc[p].tier, proc[p].seg, Content(proc[p]))
           /\ Content(proc[p]) \in Nat /\ proc[p].pc = "write"
           /\ \E q \in Writer :
                 /\ Becomes(p, q) /\ Continues(proc[p], q) /\ q.pc # "write"
                 /\ q.content = proc[p].content /\ q.pc # "commit" /\ q.pc # "idle"
                 /\ \A f \in q.frags :
                       \/ f \in proc[p].frags
                       \/ /\ f.tier = proc[p].tier /\ f.seg = proc[p].seg
                          /\ f.wid = proc[p].wid
                          /\ f.off = size[proc[p].tier][proc[p].seg] + 2
<1> DEFINE a == proc[p]
           t == a.tier
           e == First(a.todo)
           off == size[t][a.seg] + 2
           frag == [inode |-> a.inode, stripe |-> e.stripe, seq |-> e.seq,
                    tier |-> t, seg |-> a.seg, off |-> off, wid |-> a.wid]
           next == IF a.todo # {e} THEN "active"
                   ELSE IF a.kind = "bulk" THEN "lock" ELSE "sync"
           q == [a EXCEPT !.pc = next, !.todo = @ \ {e}, !.frags = @ \cup {frag}]
<1>1. /\ a \in Writer /\ CallOK(a, nextID, seq) /\ t \in Tier /\ a.wid \in Nat
      /\ a.content \in Nat /\ a.todo \subseteq Extent /\ a.frags \subseteq Frag
    BY WriterFacts
<1>2. a.pc = "write" /\ UNCHANGED <<db, seq, gc, rd, hist>>
    BY DEF AppendRecord
<1>3. a.seg \in SegId /\ a.seg < nextID[t] /\ a.todo # {} /\ a.inode \in Inode
    BY <1>1, <1>2 DEF CallOK
<1>4. a.seg \in DOMAIN files[t] /\ size[t][a.seg] \in Nat
    BY <1>1 DEF Struct, Disk
<1>5. Content(a) \in Nat /\ Appends(t, a.seg, Content(a))
    BY <1>1 DEF AppendRecord, Appends, Content
<1>6. Becomes(p, q)
    BY DEF AppendRecord, Becomes, PayloadOff
<1>7. e \in a.todo /\ e \in Extent
    BY <1>1
<1> HIDE DEF e
<1>8. frag \in Frag
    BY SMTT(30), <1>1, <1>3, <1>4, <1>7 DEF Frag, Extent
<1>9. /\ frag.inode = a.inode /\ frag.stripe = e.stripe /\ frag.seq = e.seq
      /\ frag.tier = t /\ frag.seg = a.seg /\ frag.off = off /\ frag.wid = a.wid
    OBVIOUS
<1>10. next \in {"active", "lock", "sync"} /\ (next = "lock" => a.kind = "bulk")
       /\ (next = "sync" => a.kind # "bulk") /\ (next = "active" => a.todo \ {e} # {})
       /\ next \in Pc
    BY <1>7 DEF Pc
<1> HIDE DEF frag, next
<1>11. /\ q \in Writer /\ q.pc = next /\ q.kind = a.kind /\ q.wid = a.wid
       /\ q.inode = a.inode /\ q.tier = t /\ q.todo = a.todo \ {e} /\ q.old = a.old
       /\ q.frags = a.frags \cup {frag} /\ q.content = a.content
    BY <1>1, <1>8, <1>10 DEF Writer
<1> HIDE DEF q
<1>12. Continues(a, q)
    BY <1>2, <1>7, <1>9, <1>11 DEF Continues
<1>13. Disk' /\ Keeps /\ Persists /\ nextID' = nextID
    <2>1. nextID' = nextID
        BY <1>5 DEF Appends
    <2> QED
        BY <1>1, <1>4, <1>5, <2>1, AppendEffect DEF Struct
<1>14. CallOK(q, nextID', seq)
    <2>1. q.kind # "bulk" => (\A d \in q.todo : d.seq <= seq) /\ (\A f \in q.frags : f.seq <= seq)
        BY <1>1, <1>7, <1>9, <1>11 DEF CallOK
    <2>2. \A f \in q.frags : f.inode = q.inode /\ f.wid = q.wid /\ f.tier = q.tier
        BY <1>1, <1>9, <1>11 DEF CallOK
    <2>3. q.frags # {}
        BY <1>11
    <2> QED
        BY <1>1, <1>3, <1>10, <1>11, <2>1, <2>2, <2>3 DEF CallOK
<1>15. Struct'
    <2>1. \A s \in Tier : nextID[s] <= nextID'[s]
        BY <1>13 DEF Keeps
    <2> QED
        BY <1>2, <1>6, <1>10, <1>11, <1>12, <1>13, <1>14, <2>1, AdvanceTo DEF hist
<1>16. \A f \in q.frags : f \in a.frags \/ (f.tier = t /\ f.seg = a.seg /\ f.wid = a.wid /\ f.off = off)
    BY <1>9, <1>11
<1> QED
    BY <1>1, <1>2, <1>3, <1>4, <1>5, <1>6, <1>10, <1>11, <1>12, <1>13, <1>15, <1>16

\* A failed AppendCtx: the call returns.
LEMMA RecordFailsStruct ==
    ASSUME Struct, NEW p \in Proc, AppendRecord(p),
           proc[p].seg \notin DOMAIN size[proc[p].tier]
    PROVE  /\ Struct' /\ Keeps /\ Persists /\ UNCHANGED disk
           /\ UNCHANGED <<db, seq, gc, rd, hist>> /\ Becomes(p, Idle)
<1>1. Return(p) /\ UNCHANGED disk /\ UNCHANGED <<db, seq, gc, rd, hist>>
    BY DEF AppendRecord, disk
<1>2. Disk' /\ Keeps /\ Persists
    BY <1>1, SameDisk DEF Struct
<1>3. Struct'
    BY <1>1, <1>2, ReturnStruct DEF Keeps, hist
<1> QED
    BY <1>1, <1>2, <1>3 DEF Return, Becomes

\* f.Write stops half way.
LEMMA ShortStruct ==
    ASSUME Struct, NEW p \in Proc, ShortWrite(p)
    PROVE  /\ Struct' /\ Keeps /\ Persists /\ Becomes(p, Idle) /\ met' = met \cup {"short"}
           /\ UNCHANGED <<db, seq, gc, rd, done, before>>
<1> DEFINE a == proc[p]
           t == a.tier
           u == files[t][a.seg].units
           v == Append(u, <<"hdr", Content(a)>>)
<1>1. a.tier \in Tier /\ Content(a) \in Nat
    BY WriterFacts DEF Content
<1>2. /\ files' = [files EXCEPT ![t][a.seg].units = v] /\ Return(p)
      /\ UNCHANGED <<size, active, nextID, db, seq, gc, rd, done, before>>
      /\ a.seg \in DOMAIN size[t] /\ met' = met \cup {"short"}
    BY DEF ShortWrite, Meets, Content
<1>3. a.seg \in DOMAIN files[t] /\ u \in Seq(Unit)
    BY <1>1, <1>2 DEF Struct, Disk, File
<1> HIDE DEF u
<1>4. v \in Seq(Unit) /\ Extends(u, v)
    BY SMTT(30), <1>1, <1>3 DEF Unit, Extends
<1>5. Overwrites(t, a.seg, v)
    BY <1>2 DEF Overwrites, Struct, Disk
<1> HIDE DEF v
<1>6. Disk' /\ Keeps /\ Persists
    BY <1>1, <1>3, <1>4, <1>5, OverwriteEffect DEF u, Struct
<1>7. Struct'
    BY <1>2, <1>6, ReturnStruct DEF Keeps
<1> QED
    BY <1>2, <1>6, <1>7 DEF Return, Becomes

\* g is f at its place in the index.
SameRecord(f, g) ==
    /\ g.inode = f.inode /\ g.stripe = f.stripe /\ g.tier = f.tier
    /\ g.seg = f.seg /\ g.off = f.off /\ g.wid = f.wid

\* A bulk session's fragments are stamped above every seq of the index, the
\* others keep their seqs.
LEMMA StampedFrags ==
    ASSUME Struct, NEW p \in Proc, NEW top \in Nat,
           top = IF proc[p].kind = "bulk" THEN seq + NumStripes ELSE seq
    PROVE  /\ Stamped(p) \subseteq Frag /\ \A g \in Stamped(p) : g.seq <= top
           /\ \A g \in Stamped(p) : \E f \in proc[p].frags :
                 /\ SameRecord(f, g)
                 /\ IF proc[p].kind = "bulk" THEN seq < g.seq ELSE g = f
           /\ \A f \in proc[p].frags : \E g \in Stamped(p) : SameRecord(f, g)
<1>1. CallOK(proc[p], nextID, seq) /\ proc[p].frags \subseteq Frag
    BY WriterFacts
<1>2. seq \in Nat
    BY DEF Struct, Shapes
<1>3. CASE proc[p].kind # "bulk"
    <2>1. Stamped(p) = proc[p].frags
        BY <1>3 DEF Stamped
    <2>2. \A f \in proc[p].frags : f.seq <= seq
        BY <1>1, <1>3 DEF CallOK
    <2> QED
        BY <1>1, <1>3, <2>1, <2>2 DEF SameRecord
<1>4. CASE proc[p].kind = "bulk"
    <2> DEFINE st(f) == [f EXCEPT !.seq = seq + f.stripe + 1]
    <2>1. Stamped(p) = {st(f) : f \in proc[p].frags}
        BY <1>4 DEF Stamped
    <2>2. ASSUME NEW f \in proc[p].frags
          PROVE  st(f) \in Frag /\ SameRecord(f, st(f)) /\ seq < st(f).seq /\ st(f).seq <= top
        <3>1. f \in Frag /\ f.stripe \in Nat /\ f.stripe + 1 <= NumStripes
            BY SMTT(30), <1>1, IndexAssumption DEF Frag, Stripe
        <3>2. st(f) \in Frag /\ SameRecord(f, st(f)) /\ st(f).seq = seq + f.stripe + 1
            BY SMTT(30), <1>2, <3>1 DEF Frag, SameRecord
        <3> HIDE DEF st
        <3> QED
            BY SMTT(30), <1>2, <1>4, <3>1, <3>2, IndexAssumption
    <2> HIDE DEF st
    <2> QED
        BY <1>4, <2>1, <2>2
<1> QED
    BY <1>3, <1>4

\* A commit holds the lock: no move of another goroutine is in flight.
LEMMA CommitAlone ==
    ASSUME Struct, NEW p \in Proc, proc[p].pc = "commit", NEW r \in Proc, r # p
    PROVE  ~Moving(r)
<1>1. Locked(p) \/ RLocked(p)
    BY WriterFacts DEF Writer, Locked, RLocked
<1>2. Moving(r) => Locked(r)
    BY DEF Moving, Busy, Locked
<1> QED
    BY <1>1, <1>2 DEF Struct, Exclusive

\* The pebble batch.
LEMMA CommitStruct ==
    ASSUME Struct, NEW p \in Proc, Commit(p)
    PROVE  /\ Struct' /\ Keeps /\ Persists /\ Becomes(p, Idle)
           /\ UNCHANGED <<disk, gc, rd, before, met>>
<1> DEFINE a == proc[p]
<1>1. /\ a.pc = "commit" /\ db' = (db \ a.old) \cup Stamped(p)
      /\ seq' = IF a.kind = "bulk" THEN seq + NumStripes ELSE seq
      /\ Return(p) /\ UNCHANGED <<disk, gc, rd, before, met>>
    BY DEF Commit
<1>2. Disk' /\ Keeps /\ Persists
    BY <1>1, SameDisk DEF Struct
<1>3. seq \in Nat /\ seq' \in Nat /\ seq <= seq'
    BY SMTT(30), <1>1, IndexAssumption DEF Struct, Shapes
<1>4. Becomes(p, Idle) /\ Idle \in Writer
    BY <1>1, IdleWriter DEF Return, Becomes
<1>5. /\ proc' \in [Proc -> Writer] /\ proc'[p] = Idle
      /\ \A r \in Proc : r # p => proc'[r] = proc[r]
    BY <1>4, BecomesEffect DEF Struct
<1>6. done' \in [Inode \X Stripe -> SUBSET Nat]
    <2>1. done \in [Inode \X Stripe -> SUBSET Nat] /\ a.wid \in Nat
        BY WriterFacts DEF Struct, Shapes
    <2>2. PICK K : done' = [k \in DOMAIN done |-> IF k \in K /\ a.kind # "move"
                                                 THEN done[k] \cup {a.wid} ELSE done[k]]
        BY DEF Commit
    <2> QED
        BY <2>1, <2>2
<1>7. Shapes'
    <2>1. Stamped(p) \subseteq Frag /\ \A g \in Stamped(p) : g.seq <= seq'
        BY <1>1, <1>3, StampedFrags
    <2>2. db \subseteq Frag /\ \A f \in db : f.seq <= seq'
        BY SMTT(30), <1>3 DEF Struct, Shapes, Frag
    <2>3. db' \subseteq Frag /\ \A f \in db' : f.seq <= seq'
        BY <1>1, <2>1, <2>2
    <2> QED
        BY <1>1, <1>3, <1>5, <1>6, <2>3 DEF Struct, Shapes
<1>8. Calls'
    <2>1. nextID' \in [Tier -> Nat] /\ \A t \in Tier : nextID[t] <= nextID'[t]
        BY <1>2 DEF Disk, Keeps
    <2> QED
        BY <1>3, <1>4, <2>1, IdleOK, CallsStep
<1>9. Exclusive'
    <2>1. TakesLock(p)
        BY <1>5, IdleWriter DEF TakesLock, Locked, RLocked
    <2> QED
        BY <1>5, <2>1, ExclusiveStep
<1>10. Moves'
    <2>1. \A r \in Proc : ~Moving(r)'
        BY <1>1, <1>5, CommitAlone, IdleWriter DEF Moving, Busy
    <2> QED
        BY <2>1 DEF Moves
<1> QED
    BY <1>1, <1>2, <1>4, <1>7, <1>8, <1>9, <1>10 DEF Struct

\* A GC pass.
GcRecord == [pc : {"idle", "active", "list", "remove"}, tier : Tier,
             refs : SUBSET (Tier \X (SegId \cup {None})),
             drop : SUBSET (Tier \X SegId)]

\* The pass after a step on the segment files: what it holds is still what it
\* found, or it is over.
Winds ==
    /\ gc' \in GcRecord /\ gc.pc = "remove" /\ gc'.drop \subseteq gc.drop
    /\ \/ gc' = NoGC
       \/ gc'.refs = gc.refs /\ gc'.pc # "idle" /\ (gc'.pc = "remove" \/ gc'.drop = {})

\* Fragment f names a segment that was given out, and while that segment is
\* there f's bytes are where f says.
At(f, fs, next) ==
    /\ f.seg < next[f.tier]
    /\ f.seg \in DOMAIN fs[f.tier] =>
          LET u == fs[f.tier][f.seg].units
          IN  f.off \in 1 .. Len(u) /\ u[f.off] = <<"data", f.wid>>

\* The fragments of the index, of the reader and of the writers in flight.
Known == db \cup rd.frag \cup UNION {proc[p].frags : p \in Proc}

\* No read has got, and no move has carried, other bytes than it should.
Located ==
    met \cap {"short", "reseeded"} = {} =>
        /\ \A f \in Known : At(f, files, nextID)
        /\ \A p \in Proc :
              Moving(p) /\ proc[p].pc \in {"active", "write"}
                  => proc[p].content = proc[p].wid
        /\ rd.result # "wrong"

\* f's segment is open, and f ends at a record's end.
Kept(f, sz) == f.seg \in DOMAIN sz[f.tier] /\ f.off % 2 = 0

\* f's bytes are durable.
Safe(f, fs, sz) == Kept(f, sz) /\ f.off <= fs[f.tier][f.seg].durable

\* What the commit relies on: the bytes of the index are durable, those of a
\* write in flight are when it commits, and a GC pass that is running knows
\* every segment the index needs.
Sound ==
    /\ \A f \in db : Safe(f, files, size)
    /\ \A p \in Proc : \A f \in proc[p].frags :
          Kept(f, size) /\ (proc[p].pc = "commit" => Safe(f, files, size))
    /\ \A p \in Proc :
          proc[p].pc = "write" => proc[p].seg \in DOMAIN size[proc[p].tier]
    /\ gc.pc # "idle" => /\ \A p \in Proc : ~Busy(p)
                         /\ \A f \in db : <<f.tier, f.seg>> \in gc.refs

\* It holds as long as no pass has met a writer.
Durable ==
    /\ "reseeded" \in met => "collected" \in met
    /\ gc.drop \cap gc.refs = {}
    /\ gc.pc # "remove" => gc.drop = {}
    /\ met \cap {"short", "collected"} = {} => Sound

PlaceInv == Struct /\ Framing /\ Located /\ Durable

\* A fragment that is where it says reads as its write's bytes.
LEMMA AtContent ==
    ASSUME NEW f, At(f, files, nextID), f.seg \in DOMAIN files[f.tier],
           files[f.tier][f.seg].units \in Seq(Unit)
    PROVE  ContentAt(f) = f.wid
<1> DEFINE u == files[f.tier][f.seg].units
<1>1. f.off \in 1 .. Len(u) /\ u[f.off] = <<"data", f.wid>>
    BY DEF At
<1>2. ContentAt(f) = IF f.off \in DOMAIN u /\ u[f.off][1] = "data" THEN u[f.off][2] ELSE 0
    BY DEF ContentAt
<1>3. DOMAIN u = 1 .. Len(u)
    BY SMTT(30)
<1> HIDE DEF u
<1> QED
    BY SMTT(30), <1>1, <1>2, <1>3

\* A non-empty set of naturals has a least element.
LEMMA LeastOf ==
    ASSUME SetLaws, NEW S, S \subseteq Nat, S # {}
    PROVE  \E x \in S : \A y \in S : x <= y
<1>1. S \in SUBSET Nat
    OBVIOUS
<1> QED
    BY <1>1 DEF SetLaws, LeastLaw

\* A bounded one has a greatest element.
LEMMA GreatestOf ==
    ASSUME SetLaws, NEW S, S \subseteq Nat, S # {}, NEW n \in Nat, \A s \in S : s <= n
    PROVE  \E x \in S : \A y \in S : y <= x
<1> DEFINE T == {k \in Nat : k <= n /\ n - k \in S}
<1>1. T \subseteq Nat
    OBVIOUS
<1>2. T # {}
    <2>1. PICK s \in S : TRUE
        OBVIOUS
    <2>2. n - s \in T
        BY SMTT(30), <2>1
    <2> QED
        BY <2>2
<1>3. PICK x \in T : \A y \in T : x <= y
    <2> HIDE DEF T
    <2> QED
        BY <1>1, <1>2, LeastOf
<1>4. n - x \in S /\ x \in Nat
    OBVIOUS
<1>5. ASSUME NEW y \in S PROVE y <= n - x
    <2>1. n - y \in T
        BY SMTT(30)
    <2>2. x <= n - y
        BY <1>3, <2>1
    <2> QED
        BY SMTT(30), <1>4, <2>2
<1> QED
    BY <1>4, <1>5

\* The newest fragment is one of the fragments, and none is newer.
LEMMA NewestIsNewest ==
    ASSUME SetLaws, NEW F, F \subseteq Frag, F # {}, NEW n \in Nat, \A f \in F : f.seq <= n
    PROVE  Newest(F) \in F /\ \A g \in F : g.seq <= Newest(F).seq
<1> DEFINE S == {f.seq : f \in F}
<1>1. S \subseteq Nat /\ S # {} /\ \A s \in S : s <= n
    BY DEF Frag
<1>2. PICK x \in S : \A y \in S : y <= x
    <2> HIDE DEF S
    <2> QED
        BY <1>1, GreatestOf
<1>3. \E f \in F : \A g \in F : g.seq <= f.seq
    BY <1>2
<1> QED
    BY <1>3 DEF Newest

\* The extents of a write get seqs of their own, after `first'.
LEMMA ExtentsNumbered ==
    ASSUME SetLaws, NEW S \in SUBSET Stripe, S # {}, NEW first \in Nat
    PROVE  /\ Cardinality(S) \in Nat
           /\ Extents(S, first) \subseteq Extent /\ Extents(S, first) # {}
           /\ \A e \in Extents(S, first) :
                  first < e.seq /\ e.seq <= first + Cardinality(S)
<1>1. IsFiniteSet(S) /\ Cardinality(S) \in Nat
    <2>1. IsFiniteSet(Stripe)
        BY SMTT(30), IndexAssumption DEF Stripe, SetLaws, IntervalLaw
    <2>2. IsFiniteSet(S)
        BY <2>1 DEF SetLaws, SubsetLaw
    <2> QED
        BY <2>2 DEF SetLaws, SizeLaw
<1>2. ASSUME NEW s \in S
      PROVE  /\ Cardinality({r \in S : r <= s}) \in Nat
             /\ 0 < Cardinality({r \in S : r <= s})
             /\ Cardinality({r \in S : r <= s}) <= Cardinality(S)
    <2> DEFINE T == {r \in S : r <= s}
    <2>1. T \in SUBSET S /\ s \in T
        BY SMTT(30), IndexAssumption DEF Stripe
    <2> HIDE DEF T
    <2>2. IsFiniteSet(T) /\ Cardinality(T) <= Cardinality(S)
        BY <1>1, <2>1 DEF SetLaws, SubsetLaw
    <2>3. Cardinality(T) \in Nat /\ Cardinality(T) # 0
        BY <2>1, <2>2 DEF SetLaws, SizeLaw, EmptyLaw
    <2> QED
        BY SMTT(30), <2>2, <2>3 DEF T
<1>3. ASSUME NEW e \in Extents(S, first)
      PROVE  e \in Extent /\ first < e.seq /\ e.seq <= first + Cardinality(S)
    <2>1. PICK s \in S :
             e = [stripe |-> s, seq |-> first + Cardinality({r \in S : r <= s})]
        BY DEF Extents
    <2> DEFINE c == Cardinality({r \in S : r <= s})
    <2>2. c \in Nat /\ 0 < c /\ c <= Cardinality(S)
        BY <1>2
    <2>3. e = [stripe |-> s, seq |-> first + c]
        BY <2>1
    <2> HIDE DEF c
    <2> QED
        BY SMTT(30), <1>1, <2>2, <2>3 DEF Extent
<1>4. Extents(S, first) # {}
    BY DEF Extents
<1> QED
    BY <1>1, <1>3, <1>4

\* Max is what HighestID and RestartSeq take it for.
LEMMA MaxIsGreatest ==
    ASSUME SetLaws, NEW S, S \subseteq Nat, S # {}, NEW n \in Nat, \A s \in S : s <= n
    PROVE  Max(S) \in S /\ \A s \in S : s <= Max(S)
<1>1. PICK x \in S : \A y \in S : y <= x
    BY GreatestOf
<1>2. \E m \in S : \A y \in S : m >= y
    BY <1>1
<1> QED
    BY <1>2 DEF Max

\* What a crash leaves of the segment files, and where the allocators start
\* again.
LEMMA CrashRecovers ==
    ASSUME SetLaws
    PROVE  Disk /\ Crash
           => /\ Disk'
              /\ \A t \in Tier : DOMAIN files'[t] = DOMAIN files[t] /\ DOMAIN size'[t] = DOMAIN files[t]
              /\ \A t \in Tier : \A id \in DOMAIN files[t] :
                    LET f == files[t][id]
                        g == files'[t][id]
                    IN  /\ g.durable = Len(g.units) /\ size'[t][id] = Len(g.units)
                        /\ Len(g.units) <= Len(f.units)
                        /\ \A k \in 1 .. Len(g.units) : g.units[k] = f.units[k]
                        /\ id = active'[t] => size'[t][id] % 2 = 0
                        /\ Whole(f.units) => Whole(g.units)
                        /\ Whole(f.units) =>
                             \A m \in Nat : m % 2 = 0 /\ m <= f.durable => m <= g.durable

\* The front of a file.
<1>Front.
    ASSUME NEW u \in Seq(Unit), NEW n \in 0 .. Len(u)
    PROVE  LET v == SubSeq(u, 1, n)
           IN  /\ v \in Seq(Unit) /\ Len(v) = n /\ \A k \in 1 .. n : v[k] = u[k]
               /\ Whole(u) => Whole(v)
    <2> DEFINE v == SubSeq(u, 1, n)
    <2>1. n \in Nat /\ Len(u) \in Nat /\ n <= Len(u)
        BY SMTT(30)
    <2>2. v \in Seq(Unit) /\ Len(v) = n /\ \A k \in 1 .. n : v[k] = u[k]
        BY SMTT(30), <2>1
    <2> HIDE DEF v
    <2>3. ASSUME Whole(u), NEW k \in 1 .. Len(v), 2 * k <= Len(v)
          PROVE  v[2 * k - 1] = <<"hdr", v[2 * k][2]>> /\ v[2 * k][1] = "data"
        <3>1. k \in 1 .. Len(u) /\ 2 * k <= Len(u)
            BY SMTT(30), <2>1, <2>2, <2>3
        <3>2. u[2 * k - 1] = <<"hdr", u[2 * k][2]>> /\ u[2 * k][1] = "data"
            BY <2>3, <3>1 DEF Whole
        <3>3. 2 * k \in 1 .. n /\ 2 * k - 1 \in 1 .. n
            BY SMTT(30), <2>1, <2>2, <2>3
        <3>4. v[2 * k] = u[2 * k] /\ v[2 * k - 1] = u[2 * k - 1]
            BY <2>2, <3>3
        <3> QED
            BY <3>2, <3>4
    <2>4. Whole(u) => Whole(v)
        BY <2>3 DEF Whole
    <2> QED
        BY <2>2, <2>4 DEF v

\* Segment.Scan of any file stops at an even offset; of a file of whole
\* records it stops less than a record before the end.
<1>ScanEndStops.
    ASSUME NEW u \in Seq(Unit)
    PROVE  /\ ScanEnd(u) \in 0 .. Len(u) /\ ScanEnd(u) % 2 = 0
           /\ Whole(u) => ScanEnd(u) + 2 > Len(u)
    <2> DEFINE Rec(k) == u[2 * k - 1] = <<"hdr", u[2 * k][2]>> /\ u[2 * k][1] = "data"
               Good(n) == n % 2 = 0 /\ \A k \in 1 .. n \div 2 : Rec(k)
               Stop(n) == \/ n + 2 > Len(u)
                          \/ u[n + 1][1] # "hdr" \/ u[n + 2] # <<"data", u[n + 1][2]>>
               G == {n \in 0 .. Len(u) : Good(n)}
    <2>1. Len(u) \in Nat /\ \A n \in 1 .. Len(u) : u[n] \in Unit
        BY SMTT(30)
    <2>2. 0 \in G
        BY SMTT(30), <2>1
    <2>3. PICK m \in G : \A n \in G : n <= m
        <3>1. G \subseteq Nat /\ \A n \in G : n <= Len(u)
            BY SMTT(30), <2>1
        <3> HIDE DEF G
        <3> QED
            BY <2>1, <2>2, <3>1, GreatestOf
    <2>4. m \in 0 .. Len(u) /\ m \in Nat /\ Good(m)
        <3> HIDE DEF Good
        <3> QED
            BY SMTT(30), <2>1
    <2>5. Stop(m)
        <3>1. SUFFICES ASSUME m + 2 <= Len(u), u[m + 1][1] = "hdr",
                              u[m + 2] = <<"data", u[m + 1][2]>>
                       PROVE  FALSE
            BY SMTT(30), <2>1, <2>4
        <3>2. u[m + 1] = <<"hdr", u[m + 2][2]>> /\ u[m + 2][1] = "data"
            BY SMTT(30), <2>1, <2>4, <3>1 DEF Unit
        <3>3. (m + 2) % 2 = 0 /\ (m + 2) \div 2 = m \div 2 + 1 /\ m \div 2 \in Nat
              /\ 2 * (m \div 2 + 1) = m + 2
            BY SMTT(30), <2>4
        <3>4. ASSUME NEW k \in 1 .. (m + 2) \div 2 PROVE Rec(k)
            <4>1. CASE k \in 1 .. m \div 2
                BY <2>4, <4>1
            <4>2. CASE k = m \div 2 + 1
                <5>1. 2 * k = m + 2 /\ 2 * k - 1 = m + 1
                    BY SMTT(30), <2>4, <3>3, <4>2
                <5> QED
                    BY <3>2, <5>1
            <4> QED
                BY SMTT(30), <3>3, <4>1, <4>2
        <3>5. m + 2 \in G
            BY SMTT(30), <2>4, <3>1, <3>3, <3>4
        <3> HIDE DEF G, Good
        <3>6. m + 2 <= m
            BY <2>3, <3>5
        <3> QED
            BY SMTT(30), <2>4, <3>6
    <2>6. ScanEnd(u) \in 0 .. Len(u) /\ Good(ScanEnd(u)) /\ Stop(ScanEnd(u))
        <3>1. ScanEnd(u) = CHOOSE n \in 0 .. Len(u) : Good(n) /\ Stop(n)
            BY DEF ScanEnd
        <3>2. \E n \in 0 .. Len(u) : Good(n) /\ Stop(n)
            BY <2>4, <2>5
        <3> HIDE DEF Good, Stop
        <3> QED
            BY <3>1, <3>2
    <2>7. ASSUME NEW n \in 0 .. Len(u), n % 2 = 0, Whole(u), Stop(n) PROVE n + 2 > Len(u)
        <3>1. SUFFICES ASSUME n + 2 <= Len(u) PROVE ~Stop(n)
            BY SMTT(30), <2>1, <2>7
        <3> DEFINE k == n \div 2 + 1
        <3>2. k \in 1 .. Len(u) /\ 2 * k = n + 2 /\ 2 * k - 1 = n + 1
            BY SMTT(30), <2>1, <2>7, <3>1
        <3> HIDE DEF k
        <3>3. u[2 * k - 1] = <<"hdr", u[2 * k][2]>> /\ u[2 * k][1] = "data"
            BY <2>7, <3>1, <3>2 DEF Whole
        <3>4. u[n + 1] = <<"hdr", u[n + 2][2]>> /\ u[n + 2][1] = "data"
            BY <3>2, <3>3
        <3>5. u[n + 2] \in Unit
            BY SMTT(30), <2>1, <3>1
        <3> QED
            BY SMTT(30), <2>1, <3>1, <3>4, <3>5 DEF Unit
    <2> HIDE DEF Stop
    <2> QED
        BY <2>6, <2>7

\* The highest id of the files of a tier.
<1>HighestOfFiles.
    ASSUME Disk, NEW t \in Tier
    PROVE  /\ HighestID(t) \in SegId \cup {None}
           /\ HighestID(t) # None => HighestID(t) \in DOMAIN files[t]
           /\ HighestID(t) + 1 \in Nat
           /\ \A id \in DOMAIN files[t] : id < HighestID(t) + 1
    <2> USE <1>HighestOfFiles
    <2>1. DOMAIN files[t] \subseteq Nat /\ \A id \in DOMAIN files[t] : id <= MaxSeg /\ id \in SegId
        BY SMTT(30), IndexAssumption DEF Disk, SegId
    <2>2. CASE DOMAIN files[t] = {}
        BY SMTT(30), <2>2 DEF HighestID, None
    <2>3. CASE DOMAIN files[t] # {}
        <3> DEFINE h == Max(DOMAIN files[t])
        <3>1. h \in DOMAIN files[t] /\ \A id \in DOMAIN files[t] : id <= h
            BY <2>1, <2>3, IndexAssumption, MaxIsGreatest
        <3>2. HighestID(t) = h
            BY <2>3 DEF HighestID
        <3> HIDE DEF h
        <3>3. h \in Nat /\ h \in SegId /\ \A id \in DOMAIN files[t] : id \in Nat
            BY <2>1, <3>1
        <3> QED
            BY SMTT(30), <3>1, <3>2, <3>3
    <2> QED
        BY <2>2, <2>3

\* What is left of a file is a front of it; of whole records, whole records,
\* and all those that were durable.
<1>RecoveredFront.
    ASSUME Disk, NEW t \in Tier, NEW id \in DOMAIN files[t], NEW lost \in Nat,
           lost <= Unsynced(<<t, id>>)
    PROVE  LET f == files[t][id]
               v == Recovered(t, id, lost)
           IN  /\ v \in Seq(Unit) /\ Len(v) <= Len(f.units)
               /\ \A k \in 1 .. Len(v) : v[k] = f.units[k]
               /\ id = HighestID(t) => Len(v) % 2 = 0
               /\ Whole(f.units) => Whole(v)
               /\ Whole(f.units) =>
                      \A m \in Nat : m % 2 = 0 /\ m <= f.durable => m <= Len(v)
    <2> USE <1>RecoveredFront
    <2> DEFINE f == files[t][id]
               n == Len(f.units) - lost
               left == SubSeq(f.units, 1, n)
               v == Recovered(t, id, lost)
    <2>1. /\ f \in File /\ f.durable <= Len(f.units) /\ f.durable \in Nat
          /\ f.units \in Seq(Unit) /\ Len(f.units) \in Nat
        BY SMTT(30) DEF Disk, File
    <2>2. n \in 0 .. Len(f.units) /\ f.durable <= n
        BY SMTT(30), <2>1 DEF Unsynced
    <2>3. v = IF id = HighestID(t) THEN SubSeq(left, 1, ScanEnd(left)) ELSE left
        BY DEF Recovered
    <2> HIDE DEF f, n, v
    <2>4. /\ left \in Seq(Unit) /\ Len(left) = n /\ \A k \in 1 .. n : left[k] = f.units[k]
          /\ Whole(f.units) => Whole(left)
        BY <2>1, <2>2, <1>Front
    <2> HIDE DEF left
    <2>5. CASE id # HighestID(t)
        <3>1. v = left
            BY <2>3, <2>5
        <3>2. n <= Len(f.units) /\ \A m \in Nat : m <= f.durable => m <= n
            BY SMTT(30), <2>1, <2>2
        <3> QED
            BY <2>4, <2>5, <3>1, <3>2 DEF f, v
    <2>6. CASE id = HighestID(t)
        <3> DEFINE m == ScanEnd(left)
        <3>1. m \in 0 .. Len(left) /\ m % 2 = 0 /\ (Whole(left) => m + 2 > Len(left))
            BY <2>4, <1>ScanEndStops
        <3>2. v = SubSeq(left, 1, m)
            BY <2>3, <2>6
        <3> HIDE DEF m
        <3>3. /\ v \in Seq(Unit) /\ Len(v) = m /\ \A k \in 1 .. m : v[k] = left[k]
              /\ Whole(left) => Whole(v)
            BY <2>4, <3>1, <3>2, <1>Front
        <3>4. m <= Len(f.units) /\ \A k \in 1 .. m : v[k] = f.units[k]
            <4>1. m <= Len(f.units) /\ \A k \in 1 .. m : k \in 1 .. n
                BY SMTT(30), <2>1, <2>2, <2>4, <3>1
            <4> QED
                BY <2>4, <3>3, <4>1
        <3>5. Whole(f.units) => \A j \in Nat : j % 2 = 0 /\ j <= f.durable => j <= m
            <4>1. Whole(f.units) => m + 2 > n /\ m \in Nat /\ n \in Nat
                BY SMTT(30), <2>2, <2>4, <3>1
            <4>2. \A j \in Nat : j <= f.durable => j <= n
                BY SMTT(30), <2>1, <2>2
            <4>3. m % 2 = 0
                BY <3>1
            <4> QED
                BY SMTT(30), <4>1, <4>2, <4>3
        <3> QED
            BY <2>4, <3>1, <3>3, <3>4, <3>5 DEF f, v
    <2> QED
        BY <2>5, <2>6

\* Open after a crash.
<1>CrashEffect.
    ASSUME Disk, Crash
    PROVE  /\ Disk'
           /\ \A t \in Tier : DOMAIN files'[t] = DOMAIN files[t] /\ DOMAIN size'[t] = DOMAIN files[t]
           /\ \A t \in Tier : \A id \in DOMAIN files[t] :
                 LET f == files[t][id]
                     g == files'[t][id]
                 IN  /\ g.durable = Len(g.units) /\ size'[t][id] = Len(g.units)
                     /\ Len(g.units) <= Len(f.units)
                     /\ \A k \in 1 .. Len(g.units) : g.units[k] = f.units[k]
                     /\ id = active'[t] => size'[t][id] % 2 = 0
                     /\ Whole(f.units) => Whole(g.units)
                     /\ Whole(f.units) =>
                          \A m \in Nat : m % 2 = 0 /\ m <= f.durable => m <= g.durable
    <2> USE <1>CrashEffect
    <2> DEFINE Lost(l, t, id) == IF <<t, id>> \in Dirty THEN l[<<t, id>>] ELSE 0
    <2>1. PICK l \in Losses :
             files' = [t \in Tier |-> [id \in DOMAIN files[t] |->
                 LET u == Recovered(t, id, Lost(l, t, id))
                 IN  [units |-> u, durable |-> Len(u)]]]
        BY DEF Crash
    <2>2. ASSUME NEW t \in Tier, NEW id \in DOMAIN files[t]
          PROVE  Lost(l, t, id) \in Nat /\ Lost(l, t, id) <= Unsynced(<<t, id>>)
        <3>1. Unsynced(<<t, id>>) \in Nat
            BY SMTT(30) DEF Disk, File, Unsynced
        <3>2. CASE <<t, id>> \notin Dirty
            BY SMTT(30), <3>1, <3>2
        <3>3. CASE <<t, id>> \in Dirty
            <4>1. /\ l \in [Dirty -> UNION {0 .. Unsynced(x) : x \in Dirty}]
                  /\ \A x \in Dirty : l[x] <= Unsynced(x)
                BY DEF Losses
            <4>2. PICK x \in Dirty : l[<<t, id>>] \in 0 .. Unsynced(x)
                BY <3>3, <4>1
            <4>3. Unsynced(x) \in Int
                BY SMTT(30) DEF Disk, File, Unsynced, Dirty
            <4> QED
                BY SMTT(30), <3>3, <4>1, <4>2, <4>3
        <3> QED
            BY <3>2, <3>3
    <2> HIDE DEF Lost
    <2>3. /\ DOMAIN files' = Tier /\ \A t \in Tier : DOMAIN files'[t] = DOMAIN files[t]
          /\ \A t \in Tier : \A id \in DOMAIN files[t] :
                /\ files'[t][id].units = Recovered(t, id, Lost(l, t, id))
                /\ files'[t][id].durable = Len(Recovered(t, id, Lost(l, t, id)))
                /\ DOMAIN files'[t][id] = {"units", "durable"}
                /\ files'[t][id] = [units |-> Recovered(t, id, Lost(l, t, id)),
                                    durable |-> Len(Recovered(t, id, Lost(l, t, id)))]
        BY <2>1
    <2>4. /\ size' = [t \in Tier |-> [id \in DOMAIN files[t] |-> Len(files'[t][id].units)]]
          /\ active' = [t \in Tier |-> HighestID(t)]
          /\ nextID' = [t \in Tier |-> HighestID(t) + 1]
        BY DEF Crash
    <2>5. /\ DOMAIN size' = Tier /\ \A t \in Tier : DOMAIN size'[t] = DOMAIN files[t]
          /\ \A t \in Tier : \A id \in DOMAIN files[t] : size'[t][id] = Len(files'[t][id].units)
          /\ \A t \in Tier : active'[t] = HighestID(t) /\ nextID'[t] = HighestID(t) + 1
        BY <2>4
    <2>6. ASSUME NEW t \in Tier, NEW id \in DOMAIN files[t]
          PROVE  LET f == files[t][id]
                     g == files'[t][id]
                 IN  /\ g \in File /\ g.durable = Len(g.units) /\ Len(g.units) \in Nat
                     /\ Len(g.units) <= Len(f.units)
                     /\ \A k \in 1 .. Len(g.units) : g.units[k] = f.units[k]
                     /\ id = active'[t] => Len(g.units) % 2 = 0
                     /\ Whole(f.units) => Whole(g.units)
                     /\ Whole(f.units) =>
                          \A m \in Nat : m % 2 = 0 /\ m <= f.durable => m <= g.durable
        <3> DEFINE f == files[t][id]
                   v == Recovered(t, id, Lost(l, t, id))
                   n == Lost(l, t, id)
        <3>1. files'[t][id] = [units |-> v, durable |-> Len(v)] /\ active'[t] = HighestID(t)
            BY <2>3, <2>5
        <3>2. n \in Nat /\ n <= Unsynced(<<t, id>>)
            BY <2>2
        <3>3. /\ v \in Seq(Unit) /\ Len(v) <= Len(f.units)
              /\ \A k \in 1 .. Len(v) : v[k] = f.units[k]
              /\ id = HighestID(t) => Len(v) % 2 = 0
              /\ Whole(f.units) => Whole(v)
              /\ Whole(f.units) =>
                     \A m \in Nat : m % 2 = 0 /\ m <= f.durable => m <= Len(v)
            BY <3>2, <1>RecoveredFront
        <3> HIDE DEF v
        <3>4. Len(v) \in Nat /\ [units |-> v, durable |-> Len(v)] \in File
            BY SMTT(30), <3>3 DEF File
        <3> HIDE DEF f
        <3> QED
            BY SMTT(30), <3>1, <3>3, <3>4 DEF f
    <2>7. Disk'
        <3>1. active' \in [Tier -> SegId \cup {None}] /\ nextID' \in [Tier -> Nat]
            BY <2>4, <1>HighestOfFiles
        <3>2. ASSUME NEW t \in Tier
              PROVE  /\ DOMAIN size'[t] = DOMAIN files'[t] /\ DOMAIN files'[t] \subseteq SegId
                     /\ active'[t] # None => active'[t] \in DOMAIN size'[t]
                     /\ \A id \in DOMAIN files'[t] : id < nextID'[t]
            BY SMTT(30), <2>3, <2>5, <1>HighestOfFiles DEF Disk
        <3>3. ASSUME NEW t \in Tier, NEW id \in DOMAIN files'[t]
              PROVE  /\ files'[t][id] \in File /\ size'[t][id] \in Nat
                     /\ files'[t][id].durable <= Len(files'[t][id].units)
            <4>1. id \in DOMAIN files[t]
                BY <2>3
            <4>2. /\ files'[t][id] \in File /\ Len(files'[t][id].units) \in Nat
                  /\ files'[t][id].durable = Len(files'[t][id].units)
                BY <2>6, <4>1
            <4> QED
                BY SMTT(30), <2>5, <4>1, <4>2
        <3> QED
            BY <2>3, <2>5, <3>1, <3>2, <3>3 DEF Disk
    <2>8. /\ \A t \in Tier : DOMAIN files'[t] = DOMAIN files[t] /\ DOMAIN size'[t] = DOMAIN files[t]
          /\ \A t \in Tier : \A id \in DOMAIN files[t] : size'[t][id] = Len(files'[t][id].units)
        BY <2>3, <2>5
    <2>9. ASSUME NEW t \in Tier, NEW id \in DOMAIN files[t]
          PROVE  /\ size'[t][id] = Len(files'[t][id].units)
                 /\ id = active'[t] => size'[t][id] % 2 = 0
        <3>1. id = active'[t] => Len(files'[t][id].units) % 2 = 0
            BY <2>6
        <3>2. size'[t][id] = Len(files'[t][id].units)
            BY <2>8
        <3> QED
            BY <3>1, <3>2
    <2> QED
        BY <2>6, <2>7, <2>8, <2>9

<1> QED
    BY <1>CrashEffect

\* The extent a write appends next is one of its extents.
LEMMA FirstIsFirst ==
    ASSUME SetLaws, NEW T, T \subseteq Extent, T # {}
    PROVE  First(T) \in T
<1> DEFINE S == {e.stripe : e \in T}
<1>1. S \subseteq Nat /\ S # {}
    BY SMTT(30), IndexAssumption DEF Extent, Stripe
<1>2. PICK x \in S : \A y \in S : x <= y
    <2> HIDE DEF S
    <2> QED
        BY <1>1, LeastOf
<1>3. \E e \in T : \A d \in T : e.stripe <= d.stripe
    BY <1>2
<1> QED
    BY <1>3 DEF First

\* A record is of one of the extents still to be written.
LEMMA NextExtent ==
    ASSUME SetLaws, Struct, NEW p \in Proc, AppendRecord(p)
    PROVE  First(proc[p].todo) \in proc[p].todo
<1>1. CallOK(proc[p], nextID, seq) /\ proc[p].todo \subseteq Extent
    BY WriterFacts
<1>2. proc[p].todo # {}
    BY <1>1 DEF AppendRecord, CallOK
<1> QED
    BY <1>1, <1>2, FirstIsFirst

\* The newest fragment of a stripe that has fragments.
LEMMA NewestOfStripe ==
    ASSUME SetLaws, Struct, NEW i \in Inode, NEW s \in Stripe, StripeFrags(i, s) # {}
    PROVE  LET f == Newest(StripeFrags(i, s))
           IN  /\ StripeFrags(i, s) = Of(db, i, s)
               /\ f \in db /\ f \in Frag /\ f.inode = i /\ f.stripe = s
               /\ \A g \in StripeFrags(i, s) : g.seq <= f.seq
<1> DEFINE F == StripeFrags(i, s)
           f == Newest(F)
<1>1. F = Of(db, i, s) /\ F \subseteq db /\ \A g \in F : g.inode = i /\ g.stripe = s
    BY DEF StripeFrags, Of
<1>2. db \subseteq Frag /\ seq \in Nat /\ \A g \in db : g.seq <= seq
    BY DEF Struct, Shapes
<1>3. F # {}
    OBVIOUS
<1> HIDE DEF F
<1>4. f \in F /\ \A g \in F : g.seq <= f.seq
    BY <1>1, <1>2, <1>3, NewestIsNewest
<1> HIDE DEF f
<1> QED
    BY <1>1, <1>2, <1>4 DEF F, f

\* The snapshot of a move, under the lock.
LEMMA MoveBeginStruct ==
    ASSUME SetLaws, Struct, NEW p \in Proc, NEW i \in Inode, NEW s \in Stripe, NEW t \in Tier,
           MoveBegin(p, i, s, t)
    PROVE  /\ Struct' /\ Keeps /\ Persists /\ UNCHANGED <<disk, db, gc, rd, done, before>>
           /\ LockFree /\ met \subseteq met'
           /\ gc.pc # "idle" => "collected" \in met'
           /\ (\E r \in Proc : proc[r].pc = "rlock") => "overtaken" \in met'
           /\ \E q \in Writer :
                 /\ Becomes(p, q) /\ q.kind = "move" /\ q.pc \in {"read", "commit"}
                 /\ \A g \in q.frags : \E f \in db : SameRecord(f, g)
<1> DEFINE F == StripeFrags(i, s)
           f == Newest(F)
           b == [Idle EXCEPT !.kind = "move", !.inode = i, !.wid = f.wid, !.tier = t, !.old = F]
           g == [f EXCEPT !.seq = seq + 1]
           e == [stripe |-> s, seq |-> seq + 1]
           q == IF f.tier = t
                THEN [b EXCEPT !.pc = "commit", !.frags = {g}]
                ELSE [b EXCEPT !.pc = "read", !.todo = {e}]
<1>1. /\ proc[p].pc = "idle" /\ LockFree /\ F # {} /\ seq' = seq + 1 /\ Becomes(p, q)
      /\ UNCHANGED <<disk, db, gc, rd, done, before>>
    BY DEF MoveBegin, Becomes
<1>2. /\ met \subseteq met' /\ (gc.pc # "idle" => "collected" \in met')
      /\ (\E r \in Proc : proc[r].pc = "rlock") => "overtaken" \in met'
    BY DEF MoveBegin, Meets, BesideGC
<1>3. F = Of(db, i, s) /\ f \in db /\ f \in Frag /\ f.inode = i /\ f.stripe = s
    BY <1>1, NewestOfStripe
<1>4. seq \in Nat /\ F \subseteq Frag
    BY DEF Struct, Shapes, StripeFrags
<1> HIDE DEF F, f
<1>5. /\ g \in Frag /\ SameRecord(f, g) /\ g.seq = seq + 1
    BY SMTT(30), <1>3, <1>4 DEF Frag, SameRecord
<1>6. e \in Extent /\ e.stripe = s /\ e.seq = seq + 1
    BY SMTT(30), <1>4 DEF Extent
<1>7. /\ b \in Writer /\ b.kind = "move" /\ b.inode = i /\ b.wid = f.wid /\ b.tier = t
      /\ b.old = F /\ b.todo = {} /\ b.frags = {}
    BY <1>3, <1>4 DEF Idle, Writer, Pc, None, Frag
<1> HIDE DEF b, g, e
<1>8. /\ q \in Writer /\ q.kind = "move" /\ q.inode = i /\ q.wid = f.wid /\ q.tier = t
      /\ q.old = F
      /\ \/ q.pc = "commit" /\ q.todo = {} /\ q.frags = {g} /\ f.tier = t
         \/ q.pc = "read" /\ q.todo = {e} /\ q.frags = {}
    BY <1>5, <1>6, <1>7 DEF Writer, Pc
<1> HIDE DEF q
<1>9. /\ proc' \in [Proc -> Writer] /\ proc'[p] = q
      /\ \A r \in Proc : r # p => proc'[r] = proc[r]
    BY <1>1, <1>8, BecomesEffect DEF Struct
<1>10. Disk' /\ Keeps /\ Persists
    BY <1>1, SameDisk DEF Struct
<1>11. Shapes'
    <2>1. \A h \in db : h.seq <= seq'
        BY SMTT(30), <1>1, <1>4 DEF Struct, Shapes, Frag
    <2> QED
        BY SMTT(30), <1>1, <1>4, <1>9, <2>1 DEF Struct, Shapes
<1>12. Calls'
    <2>1. nextID' \in [Tier -> Nat] /\ \A x \in Tier : nextID[x] <= nextID'[x]
        BY <1>10 DEF Disk, Keeps
    <2>2. seq' \in Nat /\ seq <= seq' /\ g.seq <= seq' /\ e.seq <= seq'
        BY SMTT(30), <1>1, <1>4, <1>5, <1>6
    <2>3. f.tier = t => g.inode = i /\ g.wid = f.wid /\ g.tier = t
        BY <1>3, <1>5 DEF SameRecord
    <2>4. CallOK(q, nextID', seq')
        BY <1>8, <2>2, <2>3 DEF CallOK
    <2> QED
        BY <1>1, <1>8, <2>1, <2>2, <2>4, CallsStep
<1>13. Exclusive'
    <2>1. TakesLock(p)
        BY <1>1, <1>8, <1>9 DEF TakesLock, RLocked
    <2> QED
        BY <1>9, <2>1, ExclusiveStep
<1>14. MoveOK(q, db')
    <2>1. g.stripe = s
        BY <1>3, <1>5 DEF SameRecord
    <2> QED
        BY <1>1, <1>3, <1>6, <1>8, <2>1 DEF MoveOK, f
<1>15. Moves'
    <2>1. \A r \in Proc : r # p => ~Moving(r)'
        BY <1>1, <1>9 DEF Moving, Busy, LockFree, Locked
    <2> QED
        BY <1>9, <1>14, <2>1 DEF Moves
<1>16. \A h \in q.frags : \E k \in db : SameRecord(k, h)
    BY <1>3, <1>5, <1>8
<1> QED
    BY <1>1, <1>2, <1>8, <1>10, <1>11, <1>12, <1>13, <1>15, <1>16 DEF Struct

\* Set.Get and Segment.ReadAt of the source of a move.
LEMMA MoveReadStruct ==
    ASSUME SetLaws, Struct, NEW p \in Proc, MoveRead(p)
    PROVE  /\ Struct' /\ Keeps /\ Persists /\ UNCHANGED <<db, seq, gc, rd, hist>>
           /\ UNCHANGED disk
           /\ \/ Becomes(p, Idle)
              \/ \E q \in Writer :
                    /\ Becomes(p, q) /\ Continues(proc[p], q) /\ q.pc = "active"
                    /\ q.frags = proc[p].frags
                    /\ LET f == Newest(proc[p].old)
                       IN  f.seg \in DOMAIN size[f.tier] /\ q.content = ContentAt(f)
<1>1. proc[p].pc = "read" /\ UNCHANGED disk /\ UNCHANGED <<db, seq, gc, rd, hist>>
    BY DEF MoveRead
<1>2. Disk' /\ Keeps /\ Persists
    BY <1>1, SameDisk DEF Struct
<1>3. \A t \in Tier : nextID[t] <= nextID'[t]
    BY <1>2 DEF Keeps
<1> DEFINE f == Newest(proc[p].old)
<1>4. CASE f.seg \notin DOMAIN size[f.tier]
    <2>1. Return(p)
        BY <1>4 DEF MoveRead
    <2>2. Struct'
        BY <1>1, <1>2, <1>3, <2>1, ReturnStruct DEF hist
    <2> QED
        BY <1>1, <1>2, <2>1, <2>2 DEF Return, Becomes
<1>5. CASE f.seg \in DOMAIN size[f.tier]
    <2> DEFINE a == proc[p]
               c == ContentAt(f)
               q == [a EXCEPT !.pc = "active", !.content = c]
    <2>1. Becomes(p, q)
        BY <1>5 DEF MoveRead, Becomes
    <2>2. /\ a \in Writer /\ CallOK(a, nextID, seq) /\ a.kind = "move"
        BY <1>1, WriterFacts DEF CallOK
    <2>3. PICK s \in Stripe : a.old = Of(db, a.inode, s) /\ a.old # {}
        BY <1>1, <2>2 DEF Struct, Moves, Moving, Busy, MoveOK
    <2>4. f \in db /\ f \in Frag
        <3>1. a.old \subseteq db
            BY <2>3 DEF Of
        <3>2. db \subseteq Frag /\ seq \in Nat /\ \A g \in db : g.seq <= seq
            BY DEF Struct, Shapes
        <3> QED
            BY <2>3, <3>1, <3>2, NewestIsNewest
    <2>5. c \in Nat
        <3>1. f.tier \in Tier /\ f.seg \in DOMAIN files[f.tier]
            BY <1>5, <2>4 DEF Frag, Struct, Disk
        <3> DEFINE u == files[f.tier][f.seg].units
        <3>2. u \in Seq(Unit)
            BY <3>1 DEF Struct, Disk, File
        <3>4. c = IF f.off \in DOMAIN u /\ u[f.off][1] = "data" THEN u[f.off][2] ELSE 0
            BY DEF ContentAt
        <3> HIDE DEF u, c
        <3>3. \A n \in DOMAIN u : u[n] \in Unit
            BY SMTT(30), <3>2
        <3>5. f.off \in DOMAIN u => u[f.off][2] \in Nat
            BY <3>3 DEF Unit
        <3> QED
            BY <3>4, <3>5
    <2> HIDE DEF f, c
    <2>6. /\ q \in Writer /\ q.pc = "active" /\ q.kind = a.kind /\ q.wid = a.wid
          /\ q.inode = a.inode /\ q.tier = a.tier /\ q.todo = a.todo /\ q.old = a.old
          /\ q.frags = a.frags /\ q.content = c
        BY <2>2, <2>5 DEF Writer, Pc
    <2> HIDE DEF q
    <2>7. Continues(a, q)
        BY <1>1, <2>6 DEF Continues
    <2>8. a.todo # {}
        BY <1>1, <2>2 DEF CallOK
    <2>9. CallOK(q, nextID', seq)
        <3>1. /\ q.pc = "active" /\ q.kind = "move" /\ q.todo # {}
              /\ q.inode = a.inode /\ a.inode \in Inode
            BY <1>1, <2>2, <2>6, <2>8 DEF CallOK
        <3>2. (\A e \in q.todo : e.seq <= seq) /\ (\A g \in q.frags : g.seq <= seq)
            BY <2>2, <2>6 DEF CallOK
        <3>3. \A g \in q.frags : g.inode = q.inode /\ g.wid = q.wid /\ g.tier = q.tier
            BY <2>2, <2>6 DEF CallOK
        <3> QED
            BY <3>1, <3>2, <3>3 DEF CallOK
    <2>10. Struct'
        BY <1>1, <1>2, <1>3, <2>1, <2>2, <2>6, <2>7, <2>9, AdvanceTo DEF hist
    <2> QED
        BY <1>1, <1>2, <1>5, <2>1, <2>6, <2>7, <2>10 DEF c, f
<1> QED
    BY <1>4, <1>5

\* The seq a restart begins with is above every committed one.
LEMMA RestartAbove ==
    ASSUME SetLaws, Struct, NEW clock \in Nat
    PROVE  RestartSeq(clock) \in Nat /\ \A f \in db : f.seq <= RestartSeq(clock)
<1> DEFINE S == {0} \cup {f.seq : f \in db}
<1>1. /\ S \subseteq Nat /\ S # {} /\ seq \in Nat /\ \A s \in S : s <= seq
      /\ \A f \in db : f.seq \in S
    BY SMTT(30) DEF Struct, Shapes, Frag
<1>2. RestartSeq(clock) = IF clock > Max(S) \/ Max(S) = 0 THEN clock ELSE Max(S) + 1
    BY DEF RestartSeq
<1> HIDE DEF S
<1>3. Max(S) \in S /\ \A s \in S : s <= Max(S)
    BY <1>1, MaxIsGreatest
<1> DEFINE m == Max(S)
<1>4. m \in Nat /\ \A f \in db : f.seq \in Nat /\ f.seq <= m
    BY <1>1, <1>3
<1>5. RestartSeq(clock) = IF clock > m \/ m = 0 THEN clock ELSE m + 1
    BY <1>2
<1> HIDE DEF m
<1> QED
    BY SMTT(30), <1>4, <1>5

\* A crash, and Open.
LEMMA CrashStruct ==
    ASSUME SetLaws, Struct, Crash
    PROVE  /\ Struct' /\ UNCHANGED <<db, done, before>> /\ gc' = NoGC /\ rd' = NoRead
           /\ met' = met \cup Reseeds /\ \A p \in Proc : proc'[p] = Idle
<1>1. /\ UNCHANGED <<db, done, before>> /\ gc' = NoGC /\ rd' = NoRead
      /\ proc' = [p \in Proc |-> Idle] /\ met' = met \cup Reseeds
    BY DEF Crash, Meets
<1>2. Disk'
    BY CrashRecovers DEF Struct
<1>3. seq' \in Nat /\ \A f \in db : f.seq <= seq'
    <2>1. PICK clock \in {0, seq} : seq' = RestartSeq(clock)
        BY DEF Crash
    <2>2. clock \in Nat
        BY SMTT(30) DEF Struct, Shapes
    <2> QED
        BY <2>1, <2>2, RestartAbove
<1>4. proc' \in [Proc -> Writer] /\ \A p \in Proc : proc'[p] = Idle
    BY <1>1, IdleWriter
<1>5. Shapes'
    BY <1>1, <1>3, <1>4 DEF Struct, Shapes, NoGC, NoRead, Tier
<1>6. Calls'
    BY <1>4, IdleOK DEF Calls
<1>7. Exclusive' /\ Moves'
    BY <1>4, IdleWriter DEF Exclusive, Locked, Moves, Moving, Busy
<1> QED
    BY <1>1, <1>2, <1>4, <1>5, <1>6, <1>7 DEF Struct

\* Every step keeps PlaceInv.
LEMMA PlaceKept ==
    ASSUME SetLaws
    PROVE  PlaceInv /\ [Next]_vars => PlaceInv'

\* The units of a file are a sequence.
<1>FileUnits.
    ASSUME NEW r \in File
    PROVE  r.units \in Seq(Unit) /\ Len(r.units) \in Nat
    BY SMTT(30) DEF File

\* One fsync per segment of ids.
<1>SyncEffect.
    ASSUME Disk, NEW t \in Tier, NEW ids,
           files' = [files EXCEPT ![t] = Synced(t, ids)],
           UNCHANGED <<size, active, nextID>>
    PROVE  /\ Disk' /\ Keeps /\ Persists
           /\ \A s \in Tier : DOMAIN files'[s] = DOMAIN files[s]
           /\ \A s \in Tier : \A i \in DOMAIN files[s] :
                 files'[s][i].units = files[s][i].units
           /\ \A i \in ids \cap DOMAIN size[t] :
                 files'[t][i].durable = Len(files[t][i].units)
    <2> USE <1>SyncEffect
    <2>1. DOMAIN files = Tier /\ DOMAIN Synced(t, ids) = DOMAIN files[t]
        BY DEF Disk, Synced
    <2>2. /\ DOMAIN files' = Tier /\ files'[t] = Synced(t, ids)
          /\ \A s \in Tier : s # t => files'[s] = files[s]
        BY <2>1
    <2>3. \A s \in Tier : DOMAIN files'[s] = DOMAIN files[s]
        BY <2>1, <2>2
    <2>4. ASSUME NEW s \in Tier, NEW i \in DOMAIN files[s]
          PROVE  /\ files'[s][i] \in File /\ files'[s][i].units = files[s][i].units
                 /\ files'[s][i].durable <= Len(files'[s][i].units)
                 /\ files[s][i].durable <= files'[s][i].durable
                 /\ s = t /\ i \in ids /\ i \in DOMAIN size[t] => files'[s][i].durable = Len(files[s][i].units)
        <3>1. CASE s = t
            <4> DEFINE g == Synced(t, ids)[i]
            <4>1. /\ g \in File /\ g.units = files[t][i].units
                  /\ files[t][i].durable <= g.durable /\ g.durable <= Len(g.units)
                  /\ i \in ids /\ i \in DOMAIN size[t] => g.durable = Len(g.units)
                BY <3>1, SyncedFile
            <4>2. files'[t][i] = g
                BY <2>2
            <4> HIDE DEF g
            <4> QED
                BY <3>1, <4>1, <4>2
        <3>2. CASE s # t
            <4>1. /\ files[s][i] \in File /\ files[s][i].durable <= Len(files[s][i].units)
                  /\ files[s][i].durable \in Nat
                BY DEF Disk, File
            <4>2. files'[s][i] = files[s][i]
                BY <2>2, <3>2
            <4> QED
                BY SMTT(30), <3>2, <4>1, <4>2
        <3> QED
            BY <3>1, <3>2
    <2>5. Disk'
        BY <2>2, <2>3, <2>4 DEF Disk
    <2>6. Keeps
        <3>1. \A s \in Tier : nextID[s] <= nextID'[s]
            BY SMTT(30) DEF Disk
        <3>2. \A s \in Tier : \A i \in DOMAIN files[s] : Len(files[s][i].units) \in Nat
            BY SMTT(30) DEF Disk, File
        <3> QED
            BY SMTT(30), <2>3, <2>4, <3>1, <3>2, SameExtends DEF Keeps
    <2>7. Persists
        BY <2>3, <2>4 DEF Persists
    <2>8. DOMAIN size[t] \subseteq DOMAIN files[t]
        BY DEF Disk
    <2> QED
        BY <2>3, <2>4, <2>5, <2>6, <2>7, <2>8

\* The segment sets keep their structure.
<1>ShrinkEffect.
    ASSUME Disk, NEW x, Shrinks(x)
    PROVE  Disk' /\ Keeps
    <2> USE <1>ShrinkEffect
    <2>1. \A s \in Tier : \A i \in DOMAIN files'[s] :
             i \in DOMAIN files[s] /\ files'[s][i] = files[s][i]
        BY DEF Shrinks
    <2>2. Disk'
        <3>1. ASSUME NEW s \in Tier, NEW i \in DOMAIN files'[s]
              PROVE  /\ i \in SegId /\ i < nextID'[s] /\ files'[s][i] \in File
                     /\ files'[s][i].durable <= Len(files'[s][i].units)
            <4>1. i \in DOMAIN files[s] /\ files'[s][i] = files[s][i] /\ nextID'[s] = nextID[s]
                BY <2>1 DEF Shrinks
            <4>2. /\ i \in SegId /\ i < nextID[s] /\ files[s][i] \in File
                  /\ files[s][i].durable <= Len(files[s][i].units)
                BY <4>1 DEF Disk
            <4> QED
                BY <4>1, <4>2
        <3>2. ASSUME NEW s \in Tier
              PROVE  /\ DOMAIN size'[s] \subseteq DOMAIN files'[s] /\ DOMAIN files'[s] \subseteq SegId
                     /\ active'[s] # None => active'[s] \in DOMAIN size'[s]
                     /\ \A i \in DOMAIN size'[s] : size'[s][i] \in Nat
                     /\ \A i \in DOMAIN files'[s] :
                           /\ i < nextID'[s] /\ files'[s][i] \in File
                           /\ files'[s][i].durable <= Len(files'[s][i].units)
            <4>1. \A i \in DOMAIN size'[s] : size'[s][i] \in Nat
                BY DEF Disk, Shrinks
            <4>2. /\ DOMAIN size'[s] \subseteq DOMAIN files'[s]
                  /\ active'[s] # None => active'[s] \in DOMAIN size'[s]
                BY DEF Shrinks
            <4> QED
                BY <3>1, <4>1, <4>2
        <3>3. /\ DOMAIN files' = Tier /\ DOMAIN size' = Tier
              /\ active' \in [Tier -> SegId \cup {None}] /\ nextID' \in [Tier -> Nat]
            BY DEF Disk, Shrinks
        <3> QED
            BY <3>2, <3>3 DEF Disk
    <2>3. Keeps
        <3>1. nextID' = nextID /\ nextID \in [Tier -> Nat]
            BY DEF Disk, Shrinks
        <3>2. \A s \in Tier : nextID[s] <= nextID'[s]
            BY SMTT(30), <3>1
        <3>3. \A s \in Tier : \A i \in DOMAIN files[s] : Len(files[s][i].units) \in Nat
            BY SMTT(30) DEF Disk, File
        <3> QED
            BY <2>1, <3>2, <3>3, SameExtends DEF Keeps
    <2> QED
        BY <2>2, <2>3

\* Set.Remove of one segment, whether the unlink succeeds or not.
<1>RemoveEffect.
    ASSUME Disk, NEW x \in Tier \X SegId, GcRemove(x) \/ GcRemoveFails(x)
    PROVE  Shrinks(x)
    <2> USE <1>RemoveEffect
    <2>1. PICK t \in Tier, id \in SegId : x = <<t, id>>
        BY SMTT(30)
    <2>2. /\ DOMAIN files = Tier /\ DOMAIN size = Tier
          /\ active \in [Tier -> SegId \cup {None}]
          /\ \A s \in Tier : /\ DOMAIN size[s] \subseteq DOMAIN files[s]
                             /\ active[s] # None => active[s] \in DOMAIN size[s]
        BY DEF Disk
    <2>3. /\ files' = files \/ files' = [files EXCEPT ![t] = Without(@, {id})]
          /\ size' = [size EXCEPT ![t] = Without(@, {id})]
          /\ active' = [active EXCEPT ![t] = IF @ = id THEN None ELSE @]
          /\ nextID' = nextID
        BY <2>1 DEF GcRemove, GcRemoveFails
    <2>4. /\ DOMAIN files' = Tier /\ DOMAIN size' = Tier
          /\ \A s \in Tier : s # t => files'[s] = files[s] /\ size'[s] = size[s]
          /\ files'[t] = files[t] \/ files'[t] = Without(files[t], {id})
          /\ size'[t] = Without(size[t], {id})
        BY <2>2, <2>3
    <2>5. /\ active' \in [Tier -> SegId \cup {None}]
          /\ \A s \in Tier : active'[s] # None => active'[s] = active[s] /\ (s # t \/ active[s] # id)
        BY <2>2, <2>3
    <2>6. /\ DOMAIN files'[t] = DOMAIN files[t] \/ DOMAIN files'[t] = DOMAIN files[t] \ {id}
          /\ \A i \in DOMAIN files'[t] : files'[t][i] = files[t][i]
          /\ DOMAIN size'[t] = DOMAIN size[t] \ {id}
          /\ \A i \in DOMAIN size'[t] : size'[t][i] = size[t][i]
        BY <2>2, <2>4 DEF Without
    <2>7. ASSUME NEW s \in Tier
          PROVE  /\ DOMAIN size'[s] \subseteq DOMAIN files'[s]
                 /\ \A i \in DOMAIN files'[s] : i \in DOMAIN files[s] /\ files'[s][i] = files[s][i]
                 /\ \A i \in DOMAIN size'[s] : i \in DOMAIN size[s] /\ size'[s][i] = size[s][i]
                 /\ \A i \in DOMAIN size[s] : s # t \/ i # id => i \in DOMAIN size'[s]
        <3>1. CASE s = t
            BY <2>2, <2>6, <3>1
        <3>2. CASE s # t
            BY <2>2, <2>4, <3>2
        <3> QED
            BY <3>1, <3>2
    <2>8. \A s \in Tier : active'[s] # None =>
             active'[s] = active[s] /\ active'[s] \in DOMAIN size'[s]
        BY <2>2, <2>5, <2>7
    <2> QED
        BY <2>1, <2>3, <2>4, <2>5, <2>7, <2>8 DEF Shrinks

\* The sweep of the directory takes no open segment.
<1>SweepEffect.
    ASSUME Disk, gc.tier \in Tier, GcSweep
    PROVE  Shrinks(NoSegment)
    <2> USE <1>SweepEffect
    <2> DEFINE t == gc.tier
               stray == {id \in DOMAIN files[t] \ DOMAIN size[t] : <<t, id>> \notin gc.refs}
    <2>1. /\ DOMAIN files = Tier /\ DOMAIN size = Tier
          /\ active \in [Tier -> SegId \cup {None}]
          /\ \A s \in Tier : /\ DOMAIN size[s] \subseteq DOMAIN files[s]
                             /\ active[s] # None => active[s] \in DOMAIN size[s]
        BY DEF Disk
    <2>2. /\ files' = [files EXCEPT ![t] = Without(@, stray)]
          /\ UNCHANGED <<size, active, nextID>>
        BY DEF GcSweep
    <2>3. stray \cap DOMAIN size[t] = {}
        OBVIOUS
    <2> HIDE DEF stray
    <2>4. /\ DOMAIN files' = Tier /\ \A s \in Tier : s # t => files'[s] = files[s]
          /\ files'[t] = Without(files[t], stray)
        BY <2>1, <2>2
    <2>5. /\ DOMAIN files'[t] = DOMAIN files[t] \ stray
          /\ \A i \in DOMAIN files'[t] : files'[t][i] = files[t][i]
        BY <2>4 DEF Without
    <2>6. ASSUME NEW s \in Tier
          PROVE  /\ DOMAIN size[s] \subseteq DOMAIN files'[s]
                 /\ \A i \in DOMAIN files'[s] : i \in DOMAIN files[s] /\ files'[s][i] = files[s][i]
        <3>1. CASE s = t
            BY <2>1, <2>3, <2>5, <3>1
        <3>2. CASE s # t
            BY <2>1, <2>4, <3>2
        <3> QED
            BY <3>1, <3>2
    <2> QED
        BY <2>1, <2>2, <2>4, <2>6 DEF Shrinks

\* A step that only moves a call on.
<1>GotoStruct.
    ASSUME Struct, NEW p \in Proc, NEW c \in Pc, Goto(p, c),
           UNCHANGED <<db, seq, gc, rd, done, before>>, Disk', nextID' = nextID,
           proc[p].pc # "idle",
           \/ c = "active" /\ proc[p].pc = "rlock" /\ RLockFree
           \/ c = "sync" /\ proc[p].pc = "lock" /\ LockFree
           \/ c = "commit" /\ proc[p].pc = "sync"
    PROVE  Struct'
    <2> USE <1>GotoStruct
    <2> DEFINE q == [proc[p] EXCEPT !.pc = c]
    <2>1. proc[p] \in Writer /\ CallOK(proc[p], nextID, seq)
        BY WriterFacts
    <2>2. /\ q \in Writer /\ q.pc = c /\ q.kind = proc[p].kind /\ q.wid = proc[p].wid
          /\ q.inode = proc[p].inode /\ q.tier = proc[p].tier /\ q.todo = proc[p].todo
          /\ q.seg = proc[p].seg /\ q.old = proc[p].old /\ q.frags = proc[p].frags
        BY <2>1 DEF Writer
    <2>3. Becomes(p, q)
        BY DEF Goto, Becomes
    <2> HIDE DEF q
    <2>4. proc'[p] = q
        BY <2>2, <2>3, BecomesEffect DEF Struct
    <2>5. Continues(proc[p], q)
        BY <2>2 DEF Continues
    <2>6. CallOK(q, nextID', seq)
        BY <2>1, <2>2 DEF CallOK
    <2>7. proc[p].pc = "lock" => proc[p].kind = "bulk"
        BY <2>1 DEF CallOK
    <2>8. proc[p].pc = "rlock" => proc[p].kind = "append"
        BY <2>1 DEF CallOK
    <2>9. TakesLock(p)
        BY <2>2, <2>4, <2>7, <2>8 DEF TakesLock, Locked, RLocked
    <2>10. \A t \in Tier : nextID[t] <= nextID'[t]
        BY SMTT(30) DEF Struct, Disk
    <2> QED
        BY <2>2, <2>3, <2>5, <2>6, <2>9, <2>10, AdvanceStruct

\* One fsync per touched segment.
<1>SyncStruct.
    ASSUME Struct, NEW p \in Proc, SyncTouched(p)
    PROVE  /\ Struct' /\ Keeps /\ Persists /\ UNCHANGED <<db, seq, gc, rd, hist>>
           /\ proc'[p] = [proc[p] EXCEPT !.pc = "commit"]
           /\ \A r \in Proc : r # p => proc'[r] = proc[r]
    <2> USE <1>SyncStruct
    <2>1. /\ proc[p].pc = "sync" /\ Goto(p, "commit") /\ UNCHANGED <<size, active, nextID>>
          /\ UNCHANGED <<db, seq, gc, rd, hist>>
          /\ files' = [files EXCEPT ![proc[p].tier] = Synced(proc[p].tier, Touched(p))]
        BY DEF SyncTouched
    <2>2. Disk' /\ Keeps /\ Persists
        BY <2>1, WriterFacts, <1>SyncEffect DEF Struct
    <2>3. Struct'
        <3>1. "commit" \in Pc
            BY DEF Pc
        <3> QED
            BY <2>1, <2>2, <3>1, <1>GotoStruct DEF hist
    <2>4. /\ proc'[p] = [proc[p] EXCEPT !.pc = "commit"]
          /\ \A r \in Proc : r # p => proc'[r] = proc[r]
        BY <2>1 DEF Goto, Struct, Shapes
    <2> QED
        BY <2>1, <2>2, <2>3, <2>4

\* A step beside the writers: nobody's call changes.
<1>BesideStruct.
    ASSUME Struct, Disk', Shapes', UNCHANGED <<db, seq, proc>>,
           \A t \in Tier : nextID[t] <= nextID'[t]
    PROVE  Struct'
    <2> USE <1>BesideStruct
    <2>1. Calls'
        <3>1. ASSUME NEW r \in Proc PROVE CallOK(proc'[r], nextID', seq')
            <4>1. proc[r] \in Writer /\ CallOK(proc[r], nextID, seq)
                BY WriterFacts
            <4>2. nextID \in [Tier -> Nat] /\ nextID' \in [Tier -> Nat] /\ seq \in Nat /\ seq <= seq
                BY SMTT(30) DEF Struct, Shapes, Disk
            <4>3. CallOK(proc[r], nextID', seq)
                BY <4>1, <4>2, CallOKLater
            <4> QED
                BY <4>3
        <3> QED
            BY <3>1 DEF Calls
    <2>2. Exclusive'
        BY DEF Struct, Exclusive, Locked, RLocked
    <2>3. Moves'
        BY DEF Struct, Moves, Moving, Busy
    <2> QED
        BY <2>1, <2>2, <2>3 DEF Struct

\* Truncate and DeleteInode.
<1>DropStruct.
    ASSUME Struct, NEW gone, Drop(gone)
    PROVE  Struct' /\ Keeps /\ Persists /\ UNCHANGED <<disk, proc, gc, rd, before, met>>
    <2> USE <1>DropStruct
    <2>1. /\ LockFree /\ db' \subseteq db
          /\ UNCHANGED <<disk, seq, proc, gc, rd, before, met>>
          /\ done' = [k \in DOMAIN done |-> IF k \in gone THEN {} ELSE done[k]]
        BY DEF Drop
    <2>2. Disk' /\ Keeps /\ Persists
        BY <2>1, SameDisk DEF Struct
    <2>3. Shapes'
        BY <2>1 DEF Struct, Shapes
    <2>4. Calls'
        BY <2>1 DEF Struct, Calls, disk
    <2>5. Exclusive'
        BY <2>1 DEF Struct, Exclusive, Locked, RLocked
    <2>6. Moves'
        <3>1. \A r \in Proc : ~Moving(r)'
            BY <2>1 DEF Moving, Busy, LockFree, Locked
        <3> QED
            BY <3>1 DEF Moves
    <2> QED
        BY <2>1, <2>2, <2>3, <2>4, <2>5, <2>6 DEF Struct

\* The scan, ActiveID and All.
<1>GcStruct.
    ASSUME Struct, GcScan \/ GcActive \/ GcList
    PROVE  Struct' /\ Keeps /\ Persists /\ UNCHANGED <<disk, db, seq, proc, rd, done, before>>
    <2> USE <1>GcStruct
    <2>1. UNCHANGED <<disk, db, seq, proc, rd, done, before>>
        BY DEF GcScan, GcActive, GcList, hist
    <2>2. Disk' /\ Keeps /\ Persists
        BY <2>1, SameDisk DEF Struct
    <2>3. gc \in GcRecord /\ db \subseteq Frag /\ gc.tier \in Tier
        BY DEF Struct, Shapes, GcRecord
    <2>4. gc' \in GcRecord
        <3>1. CASE GcScan
            <4> DEFINE R == {<<f.tier, f.seg>> : f \in db}
            <4>1. R \subseteq Tier \X (SegId \cup {None})
                BY SMTT(30), <2>3 DEF Frag
            <4>2. gc' = [pc |-> "active", tier |-> "hot", refs |-> R, drop |-> {}]
                BY <3>1 DEF GcScan, NoGC
            <4> HIDE DEF R
            <4> QED
                BY <4>1, <4>2 DEF GcRecord, Tier
        <3>2. CASE GcActive
            <4> DEFINE R == {<<gc.tier, active[gc.tier]>>}
                       c == IF gc.tier = "hot" THEN "active" ELSE "list"
                       t == IF gc.tier = "hot" THEN "cold" ELSE "hot"
            <4>1. R \subseteq Tier \X (SegId \cup {None})
                BY SMTT(30), <2>3 DEF Struct, Disk
            <4>2. gc' = [gc EXCEPT !.pc = c, !.tier = t, !.refs = @ \cup R]
                BY <3>2 DEF GcActive
            <4>3. c \in {"active", "list"} /\ t \in Tier
                BY DEF Tier
            <4> HIDE DEF R, c, t
            <4> QED
                BY <2>3, <4>1, <4>2, <4>3 DEF GcRecord
        <3>3. CASE GcList
            <4> DEFINE D == ({gc.tier} \X DOMAIN size[gc.tier]) \ gc.refs
            <4>1. D \subseteq Tier \X SegId
                BY SMTT(30), <2>3 DEF Struct, Disk
            <4>2. gc' = [gc EXCEPT !.pc = "remove", !.drop = D]
                BY <3>3 DEF GcList
            <4> HIDE DEF D
            <4> QED
                BY <2>3, <4>1, <4>2 DEF GcRecord
        <3> QED
            BY <3>1, <3>2, <3>3
    <2>5. Shapes'
        BY <2>1, <2>4 DEF Struct, Shapes, GcRecord
    <2>6. Struct'
        BY <2>1, <2>2, <2>5, <1>BesideStruct DEF Keeps
    <2> QED
        BY <2>1, <2>2, <2>6

\* Set.Remove and the sweep.
<1>CollectStruct.
    ASSUME Struct, GcSweep \/ \E x \in gc.drop : GcRemove(x) \/ GcRemoveFails(x)
    PROVE  /\ Struct' /\ Keeps /\ UNCHANGED <<db, seq, proc, rd, hist>>
           /\ \E x \in gc.drop \cup {NoSegment} : Shrinks(x) /\ Winds
    <2> USE <1>CollectStruct
    <2>1. gc \in GcRecord /\ gc.tier \in Tier /\ gc.drop \subseteq Tier \X SegId /\ Disk
        BY DEF Struct, Shapes, GcRecord
    <2>2. UNCHANGED <<db, seq, proc, rd, hist>>
        BY DEF GcRemove, GcRemoveFails, GcSweep
    <2>3. NoGC \in GcRecord /\ NoGC.drop = {}
        BY DEF GcRecord, NoGC, Tier
    <2>4. \E x \in gc.drop \cup {NoSegment} : Shrinks(x) /\ Winds
        <3>1. CASE GcSweep
            <4>1. Shrinks(NoSegment)
                BY <2>1, <3>1, <1>SweepEffect
            <4>2. /\ gc.pc = "remove" /\ gc.drop = {}
                  /\ gc' = NoGC \/ gc' = [gc EXCEPT !.pc = "list", !.tier = "cold"]
                BY <3>1 DEF GcSweep
            <4>3. Winds
                <5>1. CASE gc' = NoGC
                    BY <2>3, <4>2, <5>1 DEF Winds
                <5>2. CASE gc' = [gc EXCEPT !.pc = "list", !.tier = "cold"]
                    <6>1. /\ gc' \in GcRecord /\ gc'.drop = gc.drop /\ gc'.refs = gc.refs
                          /\ gc'.pc = "list"
                        BY <2>1, <5>2 DEF GcRecord, Tier
                    <6> QED
                        BY <4>2, <6>1 DEF Winds
                <5> QED
                    BY <4>2, <5>1, <5>2
            <4> QED
                BY <4>1, <4>3
        <3>2. ASSUME NEW x \in gc.drop, GcRemove(x) \/ GcRemoveFails(x)
              PROVE  Shrinks(x) /\ Winds
            <4>1. Shrinks(x)
                BY <2>1, <3>2, <1>RemoveEffect
            <4>2. CASE GcRemoveFails(x)
                <5>1. gc.pc = "remove" /\ gc' = NoGC
                    BY <4>2 DEF GcRemoveFails
                <5>2. NoGC.drop \subseteq gc.drop
                    BY <2>3
                <5> QED
                    BY <2>3, <4>1, <5>1, <5>2 DEF Winds
            <4>3. CASE GcRemove(x)
                <5>1. gc.pc = "remove" /\ gc' = [gc EXCEPT !.drop = @ \ {x}]
                    BY <4>3 DEF GcRemove
                <5>2. /\ gc' \in GcRecord /\ gc'.drop = gc.drop \ {x} /\ gc'.refs = gc.refs
                      /\ gc'.pc = "remove"
                    BY <2>1, <5>1 DEF GcRecord
                <5>3. gc'.drop \subseteq gc.drop /\ gc'.pc # "idle"
                    BY <5>2
                <5> QED
                    BY <4>1, <5>1, <5>2, <5>3 DEF Winds
            <4> QED
                BY <3>2, <4>1, <4>2, <4>3
        <3> QED
            BY <3>1, <3>2
    <2>5. Disk' /\ Keeps
        BY <2>1, <2>4, <1>ShrinkEffect
    <2>6. Shapes'
        <3>1. gc' \in GcRecord
            BY <2>4 DEF Winds
        <3> QED
            BY <2>2, <3>1 DEF Struct, Shapes, GcRecord, hist
    <2>7. Struct'
        BY <2>2, <2>5, <2>6, <1>BesideStruct DEF Keeps
    <2> QED
        BY <2>2, <2>4, <2>5, <2>7

\* The fragments are fragments.
<1>KnownFrags.
    ASSUME Struct PROVE Known \subseteq Frag
    BY SMTT(30), <1>KnownFrags DEF Struct, Shapes, Known, Writer

\* A fragment's bytes stay where they are.
<1>AtKept.
    ASSUME Disk, Disk', Keeps, NEW f \in Frag, At(f, files, nextID)
    PROVE  At(f, files', nextID')
    <2> USE <1>AtKept
    <2>1. f.tier \in Tier /\ f.seg \in Nat /\ f.off \in Nat
        BY SMTT(30), IndexAssumption DEF Frag, SegId
    <2>2. f.seg < nextID'[f.tier]
        <3>1. /\ nextID[f.tier] \in Nat /\ nextID'[f.tier] \in Nat
              /\ nextID[f.tier] <= nextID'[f.tier] /\ f.seg < nextID[f.tier]
            BY <2>1 DEF Disk, Keeps, At
        <3> QED
            BY SMTT(30), <2>1, <3>1
    <2>3. ASSUME f.seg \in DOMAIN files'[f.tier]
          PROVE  /\ f.off \in 1 .. Len(files'[f.tier][f.seg].units)
                 /\ files'[f.tier][f.seg].units[f.off] = <<"data", f.wid>>
        <3> DEFINE u == files[f.tier][f.seg].units
                   v == files'[f.tier][f.seg].units
        <3>1. f.seg \in DOMAIN files[f.tier] /\ Extends(u, v)
            BY <2>1, <2>3 DEF Keeps, At
        <3>2. f.off \in 1 .. Len(u) /\ u[f.off] = <<"data", f.wid>>
            BY <3>1 DEF At
        <3>a. files[f.tier][f.seg] \in File /\ files'[f.tier][f.seg] \in File
            BY <2>1, <2>3, <3>1 DEF Disk
        <3>3. Len(u) \in Nat /\ Len(v) \in Nat
            BY <3>a, <1>FileUnits
        <3> HIDE DEF u, v
        <3>4. f.off \in 1 .. Len(v) /\ v[f.off] = <<"data", f.wid>>
            BY SMTT(30), <3>1, <3>2, <3>3 DEF Extends
        <3> QED
            BY <3>4 DEF v
    <2> QED
        BY <2>2, <2>3 DEF At

\* The same record, committed or re-emitted, is at the same place.
<1>SameRecordAt.
    ASSUME NEW f, NEW g, SameRecord(f, g), NEW fs, NEW next, At(f, fs, next)
    PROVE  At(g, fs, next)
    BY <1>SameRecordAt DEF SameRecord, At

\* Every step but a crash.
<1>LocatedStep.
    ASSUME Struct, Struct', Keeps, Located, met \subseteq met',
           \A g \in Known' :
               At(g, files', nextID') \/ \E f \in Known : SameRecord(f, g),
           \A p \in Proc :
               Moving(p)' /\ proc'[p].pc \in {"active", "write"}
                   /\ met' \cap {"short", "reseeded"} = {}
                   => proc'[p].content = proc'[p].wid,
           met' \cap {"short", "reseeded"} = {} => rd'.result # "wrong"
    PROVE  Located'
    <2> USE <1>LocatedStep
    <2>1. SUFFICES ASSUME met' \cap {"short", "reseeded"} = {}
                   PROVE  \A g \in Known' : At(g, files', nextID')
        BY DEF Located
    <2>2. \A f \in Known : At(f, files, nextID) /\ f \in Frag
        BY <2>1, <1>KnownFrags DEF Located
    <2>3. Disk /\ Disk'
        BY DEF Struct
    <2>4. \A f \in Known : At(f, files', nextID')
        BY <2>2, <2>3, <1>AtKept
    <2> QED
        BY <2>4, <1>SameRecordAt

\* A step of writer p in which the index and the reader stay as they are.
<1>LocatedBecomes.
    ASSUME Struct, Struct', Keeps, Located, met \subseteq met', db' = db, rd' = rd,
           NEW p \in Proc, NEW q \in Writer, Becomes(p, q),
           \A g \in q.frags :
               \/ g \in proc[p].frags
               \/ met' \cap {"short", "reseeded"} = {} => At(g, files', nextID')
               \/ \E f \in Known : SameRecord(f, g),
           q.kind = "move" /\ q.pc \in {"active", "write"}
               /\ met' \cap {"short", "reseeded"} = {} => q.content = q.wid
    PROVE  Located'
    <2> USE <1>LocatedBecomes
    <2>1. /\ proc'[p] = q /\ \A r \in Proc : r # p => proc'[r] = proc[r]
        BY BecomesEffect DEF Struct
    <2>2. SUFFICES ASSUME met' \cap {"short", "reseeded"} = {} PROVE Located'
        BY DEF Located
    <2>3. \A f \in Known : SameRecord(f, f)
        BY DEF SameRecord
    <2>4. ASSUME NEW g \in Known'
          PROVE  At(g, files', nextID') \/ \E f \in Known : SameRecord(f, g)
        <3>1. CASE g \in db' \cup rd'.frag
            BY <2>3, <3>1 DEF Known
        <3>2. ASSUME NEW r \in Proc, g \in proc'[r].frags, r # p
              PROVE  \E f \in Known : SameRecord(f, g)
            <4>1. g \in proc[r].frags
                BY <2>1, <3>2
            <4> QED
                BY <2>3, <4>1 DEF Known
        <3>3. CASE g \in proc'[p].frags
            <4>1. g \in q.frags
                BY <2>1, <3>3
            <4>2. g \in proc[p].frags => g \in Known
                BY DEF Known
            <4> QED
                BY <2>2, <2>3, <4>1, <4>2
        <3> QED
            BY <3>1, <3>2, <3>3 DEF Known
    <2>5. ASSUME NEW r \in Proc, Moving(r)', proc'[r].pc \in {"active", "write"}
          PROVE  proc'[r].content = proc'[r].wid
        <3>1. CASE r = p
            BY <2>1, <2>2, <2>5, <3>1 DEF Moving
        <3>2. CASE r # p
            BY <2>1, <2>2, <2>5, <3>2 DEF Moving, Busy, Located
        <3> QED
            BY <3>1, <3>2
    <2>6. rd'.result # "wrong"
        BY <2>2 DEF Located
    <2>7. \A g \in Known' :
             At(g, files', nextID') \/ \E f \in Known : SameRecord(f, g)
        BY <2>4
    <2>8. \A r \in Proc :
             Moving(r)' /\ proc'[r].pc \in {"active", "write"}
                 /\ met' \cap {"short", "reseeded"} = {}
                 => proc'[r].content = proc'[r].wid
        BY <2>5
    <2>9. met' \cap {"short", "reseeded"} = {} => rd'.result # "wrong"
        BY <2>6
    <2> QED
        BY <2>7, <2>8, <2>9, <1>LocatedStep

\* Durable bytes stay durable under every step but GC's Remove and a crash.
<1>SafePersists.
    ASSUME Disk, Disk', Persists, NEW f \in Frag
    PROVE  (Kept(f, size) => Kept(f, size')) /\ (Safe(f, files, size) => Safe(f, files', size'))
    <2> USE <1>SafePersists
    <2>1. f.tier \in Tier /\ f.off \in Nat
        BY DEF Frag
    <2>2. Kept(f, size) => Kept(f, size')
        BY <2>1 DEF Kept, Persists
    <2>3. ASSUME Safe(f, files, size) PROVE f.off <= files'[f.tier][f.seg].durable
        <3> DEFINE d == files[f.tier][f.seg].durable
                   e == files'[f.tier][f.seg].durable
        <3>1. f.seg \in DOMAIN files[f.tier] /\ f.off <= d
            BY <2>1, <2>3 DEF Safe, Kept, Disk
        <3>2. f.seg \in DOMAIN files'[f.tier] /\ d <= e
            BY <2>1, <3>1 DEF Persists
        <3>3. d \in Nat /\ e \in Nat
            BY <2>1, <3>1, <3>2 DEF Disk, File
        <3> QED
            BY SMTT(30), <2>1, <3>1, <3>2, <3>3
    <2> QED
        BY <2>2, <2>3 DEF Safe

\* The same record is as safe.
<1>SameRecordSafe.
    ASSUME NEW f, NEW g, SameRecord(f, g), NEW fs, NEW sz
    PROVE  (Kept(f, sz) => Kept(g, sz)) /\ (Safe(f, fs, sz) => Safe(g, fs, sz))
    BY <1>SameRecordSafe DEF SameRecord, Kept, Safe

\* A step of p that is beside no GC pass.
<1>SoundBecomes.
    ASSUME Struct, Struct', Sound, Persists, gc' = gc, gc.pc = "idle",
           NEW p \in Proc, NEW q \in Writer, Becomes(p, q),
           \A g \in db' : g \in db \/ \E f \in proc[p].frags :
                              SameRecord(f, g) /\ proc[p].pc = "commit",
           \A g \in q.frags :
               \/ g \in proc[p].frags /\ (q.pc = "commit" => Safe(g, files', size'))
               \/ Kept(g, size') /\ (q.pc = "commit" => Safe(g, files', size')),
           q.pc = "write" => q.seg \in DOMAIN size'[q.tier]
    PROVE  Sound'
    <2> USE <1>SoundBecomes
    <2>1. /\ proc'[p] = q /\ \A r \in Proc : r # p => proc'[r] = proc[r]
        BY BecomesEffect DEF Struct
    <2>2. Disk /\ Disk' /\ db \subseteq Frag
        BY DEF Struct, Shapes
    <2>3. ASSUME NEW g \in db' PROVE Safe(g, files', size')
        <3>1. CASE g \in db
            BY <2>2, <3>1, <1>SafePersists DEF Sound
        <3>2. CASE g \notin db
            <4>1. PICK f \in proc[p].frags : SameRecord(f, g) /\ proc[p].pc = "commit"
                BY <3>2
            <4>2. f \in Frag /\ Safe(f, files, size)
                BY <4>1, WriterFacts DEF Sound
            <4>3. Safe(f, files', size')
                BY <2>2, <4>2, <1>SafePersists
            <4> QED
                BY <4>1, <4>3, <1>SameRecordSafe
        <3> QED
            BY <3>1, <3>2
    <2>4. ASSUME NEW r \in Proc, NEW f \in proc[r].frags
          PROVE  Kept(f, size') /\ (proc[r].pc = "commit" => Safe(f, files', size'))
        <3>1. f \in Frag /\ Kept(f, size) /\ (proc[r].pc = "commit" => Safe(f, files, size))
            BY WriterFacts DEF Sound
        <3> QED
            BY <2>2, <3>1, <1>SafePersists
    <2>5. ASSUME NEW r \in Proc, NEW f \in proc'[r].frags
          PROVE  Kept(f, size') /\ (proc'[r].pc = "commit" => Safe(f, files', size'))
        <3>1. CASE r = p
            BY <2>1, <2>4, <3>1
        <3>2. CASE r # p
            BY <2>1, <2>4, <3>2
        <3> QED
            BY <3>1, <3>2
    <2>6. ASSUME NEW r \in Proc, proc'[r].pc = "write"
          PROVE  proc'[r].seg \in DOMAIN size'[proc'[r].tier]
        <3>1. CASE r = p
            BY <2>1, <2>6, <3>1
        <3>2. CASE r # p
            <4>1. proc'[r] = proc[r] /\ proc[r].tier \in Tier
                BY <2>1, <3>2, WriterFacts
            <4>2. proc[r].seg \in DOMAIN size[proc[r].tier]
                BY <2>6, <4>1 DEF Sound
            <4> QED
                BY <4>1, <4>2 DEF Persists
        <3> QED
            BY <3>1, <3>2
    <2> QED
        BY <2>3, <2>5, <2>6 DEF Sound

\* The rest of Durable, in steps that leave the GC pass alone.
<1>DurableStep.
    ASSUME Struct, Struct', Durable, gc' = gc, met \subseteq met',
           "reseeded" \in met' => "reseeded" \in met,
           met' \cap {"short", "collected"} = {} /\ Sound => Sound'
    PROVE  Durable'
    <2> USE <1>DurableStep
    <2>1. "reseeded" \in met' => "collected" \in met'
        BY DEF Durable
    <2>2. met' \cap {"short", "collected"} = {} => met \cap {"short", "collected"} = {}
        OBVIOUS
    <2>3. met \cap {"short", "collected"} = {} => Sound
        BY DEF Durable
    <2>4. met' \cap {"short", "collected"} = {} => Sound'
        BY <2>2, <2>3
    <2>5. /\ gc'.drop \cap gc'.refs = {} /\ (gc'.pc # "remove" => gc'.drop = {})
        BY DEF Durable
    <2> QED
        BY <2>1, <2>4, <2>5 DEF Durable

\* A writer is in flight, so no pass is, or it has met the writer.
<1>NoPassBesideWriter.
    ASSUME Sound, NEW p \in Proc, Busy(p) PROVE gc.pc = "idle"
    BY <1>NoPassBesideWriter DEF Sound

\* Framing, when no file and no open segment changes but by a sync or a
\* Remove.
<1>FramingSame.
    ASSUME Struct, Struct', Framing, met \subseteq met',
           \A t \in Tier : \A id \in DOMAIN files'[t] :
               id \in DOMAIN files[t] /\ files'[t][id].units = files[t][id].units,
           \A t \in Tier : \A id \in DOMAIN size'[t] :
               id \in DOMAIN size[t] /\ size'[t][id] = size[t][id],
           \A t \in Tier : active'[t] # None => active'[t] = active[t],
           \A r \in Proc : proc'[r].pc = "write" => proc'[r] = proc[r]
    PROVE  Framing'
    <2> USE <1>FramingSame
    <2>1. SUFFICES ASSUME "short" \notin met' PROVE Framing'
        BY DEF Framing
    <2>2. "short" \notin met
        BY <2>1
    <2>3. \A t \in Tier : \A id \in DOMAIN files'[t] : Whole(files'[t][id].units)
        BY <2>2 DEF Framing
    <2>4. ASSUME NEW t \in Tier, NEW id \in DOMAIN size'[t]
          PROVE  size'[t][id] = Len(files'[t][id].units)
        <3>1. id \in DOMAIN files'[t] /\ id \in DOMAIN size[t] /\ size'[t][id] = size[t][id]
            BY DEF Struct, Disk
        <3>2. files'[t][id].units = files[t][id].units /\ size[t][id] = Len(files[t][id].units)
            BY <2>2, <3>1 DEF Framing
        <3> QED
            BY <3>1, <3>2
    <2>5. ASSUME NEW t \in Tier, active'[t] # None PROVE size'[t][active'[t]] % 2 = 0
        <3>1. active'[t] \in DOMAIN size'[t] /\ active'[t] = active[t]
            BY <2>5 DEF Struct, Disk
        <3>2. size'[t][active'[t]] = size[t][active'[t]]
            BY <3>1
        <3>3. size[t][active[t]] % 2 = 0
            BY <2>2, <2>5, <3>1 DEF Framing
        <3> QED
            BY <3>1, <3>2, <3>3
    <2>6. ASSUME NEW r \in Proc, proc'[r].pc = "write",
                 proc'[r].seg \in DOMAIN size'[proc'[r].tier]
          PROVE  size'[proc'[r].tier][proc'[r].seg] % 2 = 0
        <3> DEFINE t == proc[r].tier
                   id == proc[r].seg
        <3>1. proc'[r] = proc[r] /\ t \in Tier
            BY <2>6, WriterFacts
        <3>2. proc'[r].tier = t /\ proc'[r].seg = id /\ proc[r].pc = "write"
            BY <2>6, <3>1
        <3>3. id \in DOMAIN size[t] => size[t][id] % 2 = 0
            BY <2>2, <3>1, <3>2 DEF Framing
        <3> HIDE DEF t, id
        <3>4. id \in DOMAIN size'[t]
            BY <2>6, <3>2
        <3>5. id \in DOMAIN size[t] /\ size'[t][id] = size[t][id]
            BY <3>1, <3>4
        <3> QED
            BY <3>2, <3>3, <3>5
    <2> QED
        BY <2>3, <2>4, <2>5, <2>6 DEF Framing

\* The same when the files do not change at all.
<1>FramingSameDisk.
    ASSUME Struct, Struct', Framing, met \subseteq met', UNCHANGED disk,
           \A r \in Proc : proc'[r].pc = "write" => proc'[r] = proc[r]
    PROVE  Framing'
    <2> USE <1>FramingSameDisk
    <2>1. /\ \A t \in Tier : \A id \in DOMAIN files'[t] :
                id \in DOMAIN files[t] /\ files'[t][id].units = files[t][id].units
          /\ \A t \in Tier : \A id \in DOMAIN size'[t] :
                id \in DOMAIN size[t] /\ size'[t][id] = size[t][id]
          /\ \A t \in Tier : active'[t] # None => active'[t] = active[t]
        BY DEF disk
    <2> QED
        BY <2>1, <1>FramingSame

\* A step of p that touches no file and stages nothing.
<1>PlaceQuiet.
    ASSUME PlaceInv, Struct', Keeps, Persists, UNCHANGED <<disk, db, gc, rd>>,
           met \subseteq met', "reseeded" \in met' => "reseeded" \in met,
           NEW p \in Proc, NEW q \in Writer, Becomes(p, q), q.pc # "write",
           q.frags \subseteq proc[p].frags, q.pc = "commit" => q.frags = {},
           q.kind = "move" => q.pc # "active",
           Busy(p) \/ (gc.pc # "idle" => "collected" \in met')
    PROVE  PlaceInv'
    <2> USE <1>PlaceQuiet
    <2>1. Struct /\ Framing /\ Located /\ Durable
        BY DEF PlaceInv
    <2>2. /\ proc'[p] = q /\ \A r \in Proc : r # p => proc'[r] = proc[r]
        BY <2>1, BecomesEffect DEF Struct
    <2>3. Framing'
        <3>1. \A r \in Proc : proc'[r].pc = "write" => proc'[r] = proc[r]
            BY <2>2
        <3> QED
            BY <2>1, <3>1, <1>FramingSameDisk
    <2>4. Located'
        <3>1. q.kind = "move" /\ q.pc \in {"active", "write"}
                   /\ met' \cap {"short", "reseeded"} = {} => q.content = q.wid
            OBVIOUS
        <3>2. \A g \in q.frags : g \in proc[p].frags
            OBVIOUS
        <3> QED
            BY <2>1, <3>1, <3>2, <1>LocatedBecomes
    <2>5. ASSUME met' \cap {"short", "collected"} = {}, Sound PROVE Sound'
        <3>1. gc.pc = "idle"
            BY <2>5, <1>NoPassBesideWriter
        <3>2. \A g \in q.frags :
                   \/ g \in proc[p].frags /\ (q.pc = "commit" => Safe(g, files', size'))
                   \/ Kept(g, size') /\ (q.pc = "commit" => Safe(g, files', size'))
            OBVIOUS
        <3>3. \A g \in db' : g \in db
            OBVIOUS
        <3> QED
            BY <2>1, <2>5, <3>1, <3>2, <3>3, <1>SoundBecomes
    <2>6. Durable'
        BY <2>1, <2>5, <1>DurableStep
    <2> QED
        BY <2>3, <2>4, <2>6 DEF PlaceInv

\* A call that ends without a commit.
<1>ReturnPlace.
    ASSUME PlaceInv, Struct', NEW p \in Proc, Busy(p), Becomes(p, Idle),
           Keeps, Persists, UNCHANGED <<disk, db, gc, rd, met>>
    PROVE  PlaceInv'
    BY <1>ReturnPlace, IdleWriter, <1>PlaceQuiet

\* AppendLock, BulkLock, BulkAbort and WriteFails.
<1>LockPlace.
    ASSUME PlaceInv, NEW p \in Proc,
           AppendLock(p) \/ BulkLock(p) \/ BulkAbort(p) \/ WriteFails(p)
    PROVE  PlaceInv'
    <2> USE <1>LockPlace
    <2>1. UNCHANGED <<disk, db, seq, gc, rd, hist>> /\ Busy(p) /\ Struct
        BY DEF AppendLock, BulkLock, BulkAbort, WriteFails, Busy, PlaceInv
    <2>2. Disk' /\ Keeps /\ Persists /\ nextID' = nextID
        BY <2>1, SameDisk DEF Struct, disk
    <2>3. CASE BulkAbort(p) \/ WriteFails(p)
        <3>1. Return(p)
            BY <2>3 DEF BulkAbort, WriteFails
        <3>2. Struct'
            BY <2>1, <2>2, <3>1, ReturnStruct DEF hist, Keeps
        <3> QED
            BY <2>1, <2>2, <3>1, <3>2, <1>ReturnPlace DEF Return, Becomes, hist
    <2>4. ASSUME NEW c \in {"active", "sync"}, Goto(p, c),
                 \/ c = "active" /\ proc[p].pc = "rlock" /\ RLockFree
                 \/ c = "sync" /\ proc[p].pc = "lock" /\ LockFree
          PROVE  PlaceInv'
        <3>1. c \in Pc /\ proc[p].pc # "idle" /\ UNCHANGED <<db, seq, gc, rd, done, before>>
            BY <2>1, <2>4 DEF Pc, hist
        <3>2. Struct'
            BY <2>1, <2>2, <2>4, <3>1, <1>GotoStruct
        <3> DEFINE q == [proc[p] EXCEPT !.pc = c]
        <3>3. proc[p] \in Writer /\ CallOK(proc[p], nextID, seq)
            BY <2>1, WriterFacts
        <3>4. q \in Writer /\ q.pc = c /\ q.kind = proc[p].kind /\ q.frags = proc[p].frags
            BY <3>1, <3>3 DEF Writer
        <3>5. Becomes(p, q)
            BY <2>4 DEF Goto, Becomes
        <3> HIDE DEF q
        <3>6. q.kind = "move" => q.pc # "active"
            BY <2>4, <3>3, <3>4 DEF CallOK
        <3> QED
            BY <2>1, <2>2, <2>4, <3>2, <3>4, <3>5, <3>6, <1>PlaceQuiet DEF hist
    <2>5. CASE AppendLock(p)
        BY <2>4, <2>5 DEF AppendLock
    <2>6. CASE BulkLock(p)
        BY <2>4, <2>6 DEF BulkLock
    <2> QED
        BY <2>3, <2>5, <2>6

\* Set.ActiveCtx: the segment the next record goes to ends at a record's end.
<1>ActivePlace.
    ASSUME PlaceInv, NEW p \in Proc, ActiveSegment(p)
    PROVE  PlaceInv'
    <2> USE <1>ActivePlace
    <2>1. Struct /\ Framing /\ Located /\ Durable /\ proc[p].pc = "active" /\ Busy(p)
        BY DEF PlaceInv, ActiveSegment, Busy
    <2>2. Struct' /\ Keeps /\ Persists /\ UNCHANGED <<db, seq, gc, rd, hist>>
        BY <2>1, ActiveStruct
    <2>3. PICK q \in Writer :
             /\ Becomes(p, q) /\ Continues(proc[p], q) /\ q.pc = "write"
             /\ q.frags = proc[p].frags /\ q.content = proc[p].content
             /\ \/ UNCHANGED disk /\ active[q.tier] # None /\ q.seg = active[q.tier]
                \/ Rotates(q.tier) /\ q.seg = nextID[q.tier]
        BY <2>1, ActiveStruct
    <2> DEFINE t == q.tier
    <2>4. /\ proc'[p] = q /\ \A r \in Proc : r # p => proc'[r] = proc[r]
          /\ t \in Tier /\ Disk /\ Disk' /\ met' = met
        BY <2>1, <2>2, <2>3, BecomesEffect DEF Struct, Writer, hist
    <2>5. q.seg \in DOMAIN size'[t]
        <3>1. CASE UNCHANGED disk /\ active[t] # None /\ q.seg = active[t]
            BY <2>4, <3>1 DEF Disk, disk
        <3>2. CASE Rotates(t) /\ q.seg = nextID[t]
            BY <2>4, <3>2, RotateEffect DEF Disk
        <3> QED
            BY <2>3, <3>1, <3>2
    <2>6. Framing'
        <3>1. SUFFICES ASSUME "short" \notin met PROVE Framing'
            BY <2>4 DEF Framing
        <3>2. CASE UNCHANGED disk /\ active[t] # None /\ q.seg = active[t]
            <4>1. size[t][q.seg] % 2 = 0
                BY <2>4, <3>1, <3>2, <2>1 DEF Framing
            <4>2. ASSUME NEW r \in Proc, proc'[r].pc = "write",
                         proc'[r].seg \in DOMAIN size[proc'[r].tier]
                  PROVE  size[proc'[r].tier][proc'[r].seg] % 2 = 0
                BY <2>1, <2>4, <3>1, <4>1, <4>2 DEF Framing
            <4> QED
                BY <2>1, <3>1, <3>2, <4>2 DEF Framing, disk
        <3>3. CASE Rotates(t) /\ q.seg = nextID[t]
            <4> DEFINE new == nextID[t]
            <4>1. /\ active'[t] = new /\ size'[t][new] = 0 /\ files'[t][new].units = <<>>
                  /\ \A s \in Tier : s # t => active'[s] = active[s]
                  /\ \A s \in Tier : \A id \in DOMAIN files'[s] :
                        (s = t /\ id = new) \/
                        (id \in DOMAIN files[s] /\ files'[s][id].units = files[s][id].units)
                  /\ \A s \in Tier : \A id \in DOMAIN size'[s] :
                        (s = t /\ id = new) \/
                        (id \in DOMAIN size[s] /\ size'[s][id] = size[s][id])
                BY <2>4, <3>3, RotateEffect
            <4> HIDE DEF new
            <4>2. Len(<<>>) = 0 /\ Whole(<<>>) /\ 0 % 2 = 0
                BY SMTT(30) DEF Whole
            <4>3. ASSUME NEW s \in Tier, NEW id \in DOMAIN files'[s]
                  PROVE  Whole(files'[s][id].units)
                <5>1. CASE s = t /\ id = new
                    BY <4>1, <4>2, <5>1
                <5>2. CASE ~(s = t /\ id = new)
                    <6>1. id \in DOMAIN files[s] /\ files'[s][id].units = files[s][id].units
                        BY <4>1, <5>2
                    <6> QED
                        BY <2>1, <3>1, <6>1 DEF Framing
                <5> QED
                    BY <5>1, <5>2
            <4>6. ASSUME NEW s \in Tier, NEW id \in DOMAIN size'[s]
                  PROVE  size'[s][id] = Len(files'[s][id].units)
                <5>1. CASE s = t /\ id = new
                    BY <4>1, <4>2, <5>1
                <5>2. CASE ~(s = t /\ id = new)
                    <6>1. id \in DOMAIN size[s] /\ size'[s][id] = size[s][id] /\ id \in DOMAIN files'[s]
                        BY <2>4, <4>1, <5>2 DEF Disk
                    <6>2. files'[s][id].units = files[s][id].units
                        BY <4>1, <5>2, <6>1
                    <6> QED
                        BY <2>1, <3>1, <6>1, <6>2 DEF Framing
                <5> QED
                    BY <5>1, <5>2
            <4>4. ASSUME NEW s \in Tier, active'[s] # None PROVE size'[s][active'[s]] % 2 = 0
                <5>1. CASE s = t
                    BY <4>1, <4>2, <5>1
                <5>2. CASE s # t
                    <6>1. active'[s] = active[s] /\ active'[s] \in DOMAIN size'[s]
                        BY <2>4, <4>1, <4>4, <5>2 DEF Disk
                    <6>2. size'[s][active[s]] = size[s][active[s]]
                        BY <4>1, <5>2, <6>1
                    <6> QED
                        BY <2>1, <3>1, <4>4, <6>1, <6>2 DEF Framing
                <5> QED
                    BY <5>1, <5>2
            <4>5. ASSUME NEW r \in Proc, proc'[r].pc = "write",
                         proc'[r].seg \in DOMAIN size'[proc'[r].tier]
                  PROVE  size'[proc'[r].tier][proc'[r].seg] % 2 = 0
                <5> DEFINE b == proc'[r]
                <5>1. CASE b.tier = t /\ b.seg = new
                    BY <4>1, <4>2, <5>1
                <5>2. CASE ~(b.tier = t /\ b.seg = new)
                    <6>1. r # p /\ b = proc[r]
                        BY <2>4, <3>3, <5>2 DEF new
                    <6>2. b.tier \in Tier /\ b.seg \in DOMAIN size'[b.tier]
                        BY <2>1, <4>5, <6>1, WriterFacts
                    <6>3. b.seg \in DOMAIN size[b.tier] /\ size'[b.tier][b.seg] = size[b.tier][b.seg]
                        BY <4>1, <5>2, <6>2
                    <6> HIDE DEF b
                    <6>5. size[b.tier][b.seg] % 2 = 0
                        BY <2>1, <3>1, <4>5, <6>1, <6>3 DEF Framing, b
                    <6> QED
                        BY <6>3, <6>5 DEF b
                <5> QED
                    BY <5>1, <5>2
            <4> QED
                BY <4>3, <4>4, <4>5, <4>6 DEF Framing
        <3> QED
            BY <2>3, <3>2, <3>3
    <2>7. Located'
        <3>1. q.kind = "move" /\ q.pc \in {"active", "write"}
                   /\ met' \cap {"short", "reseeded"} = {} => q.content = q.wid
            BY <2>1, <2>3, <2>4 DEF Located, Moving, Busy, Continues
        <3>2. \A g \in q.frags : g \in proc[p].frags
            BY <2>3
        <3>3. met \subseteq met'
            BY <2>4
        <3> QED
            BY <2>1, <2>2, <2>3, <3>1, <3>2, <3>3, <1>LocatedBecomes
    <2>8. ASSUME Sound PROVE Sound'
        <3>1. gc.pc = "idle"
            BY <2>1, <2>8, <1>NoPassBesideWriter
        <3>2. /\ q.pc = "write" /\ \A g \in q.frags : g \in proc[p].frags
              /\ \A g \in db' : g \in db
            BY <2>2, <2>3
        <3> QED
            BY <2>1, <2>2, <2>3, <2>5, <2>8, <3>1, <3>2, <1>SoundBecomes
    <2>9. Durable'
        BY <2>1, <2>2, <2>4, <2>8, <1>DurableStep
    <2> QED
        BY <2>2, <2>6, <2>7, <2>9 DEF PlaceInv

\* Segment.AppendCtx: the fragment points at its record.
<1>RecordPlace.
    ASSUME PlaceInv, NEW p \in Proc, AppendRecord(p),
           First(proc[p].todo) \in proc[p].todo
    PROVE  PlaceInv'
    <2> USE <1>RecordPlace
    <2>1. Struct /\ Framing /\ Located /\ Durable /\ proc[p].pc = "write" /\ Busy(p)
        BY DEF PlaceInv, AppendRecord, Busy
    <2>2. CASE proc[p].seg \notin DOMAIN size[proc[p].tier]
        <3>1. /\ Struct' /\ Keeps /\ Persists /\ UNCHANGED disk
              /\ UNCHANGED <<db, seq, gc, rd, hist>> /\ Becomes(p, Idle)
            BY <2>1, <2>2, RecordFailsStruct
        <3> QED
            BY <2>1, <3>1, <1>ReturnPlace DEF hist
    <2>3. CASE proc[p].seg \in DOMAIN size[proc[p].tier]
        <3> DEFINE a == proc[p]
                   t == a.tier
                   c == Content(a)
                   u == files[t][a.seg].units
                   v == files'[t][a.seg].units
        <3>1. /\ Struct' /\ Keeps /\ Persists /\ UNCHANGED <<db, seq, gc, rd, hist>>
              /\ t \in Tier /\ a.seg \in SegId /\ a.seg \in DOMAIN files[t]
              /\ Appends(t, a.seg, c) /\ c \in Nat
            BY <2>1, <2>3, RecordStruct
        <3>2. PICK q \in Writer :
                 /\ Becomes(p, q) /\ Continues(a, q) /\ q.pc # "write"
                 /\ q.content = a.content /\ q.pc # "commit" /\ q.pc # "idle"
                 /\ \A f \in q.frags :
                       \/ f \in a.frags
                       \/ /\ f.tier = t /\ f.seg = a.seg /\ f.wid = a.wid
                          /\ f.off = size[t][a.seg] + 2
            BY <2>1, <2>3, RecordStruct
        <3>3. /\ proc'[p] = q /\ \A r \in Proc : r # p => proc'[r] = proc[r]
              /\ Disk /\ Disk' /\ met' = met
            BY <2>1, <3>1, <3>2, BecomesEffect DEF Struct, hist
        <3>4. /\ v = u \o Framed(c) /\ size'[t][a.seg] = size[t][a.seg] + 2
              /\ size[t][a.seg] \in Nat
              /\ \A s \in Tier : DOMAIN files'[s] = DOMAIN files[s] /\ DOMAIN size'[s] = DOMAIN size[s]
              /\ \A s \in Tier : \A i \in DOMAIN files[s] :
                    s # t \/ i # a.seg => files'[s][i] = files[s][i]
              /\ \A s \in Tier : \A i \in DOMAIN size[s] :
                    s # t \/ i # a.seg => size'[s][i] = size[s][i]
            BY <2>3, <3>1, <3>3, AppendEffect
        <3>a. files[t][a.seg] \in File
            BY <3>1, <3>3 DEF Disk
        <3>5. u \in Seq(Unit) /\ Len(u) \in Nat
            BY <3>a, <1>FileUnits
        <3> HIDE DEF c, u, v
        <3>6. /\ Len(v) = Len(u) + 2 /\ v[Len(u) + 2] = <<"data", c>>
              /\ Whole(u) /\ Len(u) % 2 = 0 => Whole(v)
            <4> DEFINE w == u \o Framed(c)
            <4>1. /\ Len(w) = Len(u) + 2 /\ w[Len(u) + 2] = <<"data", c>>
                  /\ Whole(u) /\ Len(u) % 2 = 0 => Whole(w)
                BY <3>1, <3>5, FramedRecord
            <4> QED
                BY <3>4, <4>1
        <3>7. active' = active /\ nextID' = nextID
            BY <3>1 DEF Appends
        <3>8. ASSUME "short" \notin met
              PROVE  /\ size[t][a.seg] = Len(u) /\ Whole(u) /\ Len(u) % 2 = 0
                     /\ size'[t][a.seg] % 2 = 0
            <4> DEFINE m == size[t][a.seg]
                       k == size'[t][a.seg]
            <4>1. m = Len(u) /\ Whole(u)
                BY <2>1, <2>3, <3>1, <3>8 DEF Framing, u
            <4>2. m % 2 = 0
                BY <2>1, <2>3, <3>8 DEF Framing
            <4>3. k = m + 2 /\ m \in Nat
                BY <3>4
            <4> HIDE DEF m, k
            <4>4. Len(u) % 2 = 0 /\ k % 2 = 0
                BY SMTT(30), <4>1, <4>2, <4>3
            <4> QED
                BY <4>1, <4>4 DEF m, k
        <3>9. Framing'
            <4>1. SUFFICES ASSUME "short" \notin met PROVE Framing'
                BY <3>3 DEF Framing
            <4>2. ASSUME NEW s \in Tier, NEW id \in DOMAIN files'[s]
                  PROVE  Whole(files'[s][id].units)
                <5>1. CASE s = t /\ id = a.seg
                    BY <3>6, <3>8, <4>1, <5>1 DEF v
                <5>2. CASE ~(s = t /\ id = a.seg)
                    <6>1. id \in DOMAIN files[s] /\ files'[s][id] = files[s][id]
                        BY <3>4, <5>2
                    <6> QED
                        BY <2>1, <4>1, <6>1 DEF Framing
                <5> QED
                    BY <5>1, <5>2
            <4>6. ASSUME NEW s \in Tier, NEW id \in DOMAIN size'[s]
                  PROVE  size'[s][id] = Len(files'[s][id].units)
                <5>1. CASE s = t /\ id = a.seg
                    BY <3>4, <3>6, <3>8, <4>1, <5>1 DEF v
                <5>2. CASE ~(s = t /\ id = a.seg)
                    <6>1. id \in DOMAIN size[s] /\ size'[s][id] = size[s][id] /\ id \in DOMAIN files[s]
                        BY <3>3, <3>4, <5>2 DEF Disk
                    <6>2. files'[s][id] = files[s][id]
                        BY <3>4, <5>2, <6>1
                    <6> QED
                        BY <2>1, <4>1, <6>1, <6>2 DEF Framing
                <5> QED
                    BY <5>1, <5>2
            <4>3. ASSUME NEW s \in Tier, NEW id \in DOMAIN size[s], size[s][id] % 2 = 0
                  PROVE  size'[s][id] % 2 = 0
                BY <3>4, <3>8, <4>1, <4>3
            <4>4. ASSUME NEW s \in Tier, active'[s] # None PROVE size'[s][active'[s]] % 2 = 0
                <5>1. active[s] \in DOMAIN size[s] /\ size[s][active[s]] % 2 = 0
                    BY <2>1, <3>3, <3>7, <4>1, <4>4 DEF Disk, Framing
                <5> QED
                    BY <3>7, <4>3, <5>1
            <4>5. ASSUME NEW r \in Proc, proc'[r].pc = "write",
                         proc'[r].seg \in DOMAIN size'[proc'[r].tier]
                  PROVE  size'[proc'[r].tier][proc'[r].seg] % 2 = 0
                <5>1. proc'[r] = proc[r] /\ proc[r].tier \in Tier
                    BY <2>1, <3>2, <3>3, <4>5, WriterFacts
                <5>2. proc[r].seg \in DOMAIN size[proc[r].tier]
                    BY <3>4, <4>5, <5>1
                <5>3. size[proc[r].tier][proc[r].seg] % 2 = 0
                    BY <2>1, <4>1, <4>5, <5>1, <5>2 DEF Framing
                <5>4. size'[proc[r].tier][proc[r].seg] % 2 = 0
                    BY <4>3, <5>1, <5>2, <5>3
                <5> QED
                    BY <5>1, <5>4
            <4> QED
                BY <4>2, <4>4, <4>5, <4>6 DEF Framing
        <3>10. Located'
            <4>1. ASSUME NEW g \in q.frags, g \notin a.frags, met' \cap {"short", "reseeded"} = {}
                  PROVE  At(g, files', nextID')
                <5>1. g.tier = t /\ g.seg = a.seg /\ g.wid = a.wid /\ g.off = size[t][a.seg] + 2
                    BY <3>2, <4>1
                <5>2. size[t][a.seg] = Len(u)
                    BY <3>3, <3>8, <4>1
                <5>3. c = a.wid
                    <6>1. a.kind = "move" => a.content = a.wid
                        BY <2>1, <3>3, <4>1 DEF Located, Moving
                    <6> QED
                        BY <6>1 DEF c, Content
                <5>4. a.seg < nextID'[t]
                    BY <2>1, <3>7, WriterFacts DEF CallOK
                <5>5. Len(u) + 2 \in 1 .. Len(v)
                    BY SMTT(30), <3>5, <3>6
                <5>6. g.off = Len(u) + 2 /\ g.wid = c
                    BY <5>1, <5>2, <5>3
                <5>7. g.off \in 1 .. Len(v) /\ v[g.off] = <<"data", g.wid>>
                    BY <3>6, <5>5, <5>6
                <5> QED
                    BY <5>1, <5>4, <5>7 DEF At, v
            <4>2. \A g \in q.frags :
                     \/ g \in a.frags
                     \/ met' \cap {"short", "reseeded"} = {} => At(g, files', nextID')
                BY <4>1
            <4>3. q.kind = "move" /\ q.pc \in {"active", "write"}
                     /\ met' \cap {"short", "reseeded"} = {} => q.content = q.wid
                BY <2>1, <3>2, <3>3 DEF Located, Moving, Continues
            <4> QED
                BY <2>1, <3>1, <3>2, <3>3, <4>2, <4>3, <1>LocatedBecomes
        <3>11. ASSUME met' \cap {"short", "collected"} = {}, Sound PROVE Sound'
            <4>1. gc.pc = "idle"
                BY <2>1, <3>11, <1>NoPassBesideWriter
            <4>2. ASSUME NEW g \in q.frags, g \notin a.frags PROVE Kept(g, size')
                <5>1. g.tier = t /\ g.seg = a.seg /\ g.off = size[t][a.seg] + 2
                    BY <3>2, <4>2
                <5>2. g.off % 2 = 0
                    BY <3>3, <3>4, <3>8, <3>11, <5>1
                <5> QED
                    BY <2>3, <3>1, <3>4, <5>1, <5>2 DEF Kept
            <4>3. \A g \in q.frags :
                     \/ g \in a.frags /\ (q.pc = "commit" => Safe(g, files', size'))
                     \/ Kept(g, size') /\ (q.pc = "commit" => Safe(g, files', size'))
                BY <3>2, <4>2
            <4>4. (\A g \in db' : g \in db) /\ q.pc # "write"
                BY <3>1, <3>2
            <4> QED
                BY <2>1, <3>1, <3>2, <3>11, <4>1, <4>3, <4>4, <1>SoundBecomes
        <3>12. Durable'
            BY <2>1, <3>1, <3>3, <3>11, <1>DurableStep
        <3> QED
            BY <3>1, <3>9, <3>10, <3>12 DEF PlaceInv
    <2> QED
        BY <2>2, <2>3

\* A short write ends what Framing, Located and Durable promise.
<1>ShortPlace.
    ASSUME PlaceInv, NEW p \in Proc, ShortWrite(p)
    PROVE  PlaceInv'
    <2> USE <1>ShortPlace
    <2>1. Struct /\ Durable
        BY DEF PlaceInv
    <2>2. /\ Struct' /\ met' = met \cup {"short"} /\ gc' = gc
        BY <2>1, ShortStruct
    <2>3. "short" \in met' /\ met \subseteq met' /\ ("reseeded" \in met' => "reseeded" \in met)
        BY <2>2
    <2>4. Framing' /\ Located'
        BY <2>3 DEF Framing, Located
    <2>5. Durable'
        BY <2>1, <2>2, <2>3, <1>DurableStep
    <2> QED
        BY <2>2, <2>4, <2>5 DEF PlaceInv

\* After its fsyncs a write's records are durable.
<1>SyncPlace.
    ASSUME PlaceInv, NEW p \in Proc, SyncTouched(p)
    PROVE  PlaceInv'
    <2> USE <1>SyncPlace
    <2> DEFINE a == proc[p]
               t == a.tier
               q == [a EXCEPT !.pc = "commit"]
    <2>1. Struct /\ Framing /\ Located /\ Durable /\ a.pc = "sync" /\ Busy(p)
        BY DEF PlaceInv, SyncTouched, Busy
    <2>2. Struct' /\ Keeps /\ Persists /\ UNCHANGED <<db, seq, gc, rd, hist>>
        BY <2>1, <1>SyncStruct
    <2>3. a \in Writer /\ CallOK(a, nextID, seq) /\ t \in Tier /\ a.frags \subseteq Frag
        BY <2>1, WriterFacts
    <2>4. q \in Writer /\ q.pc = "commit" /\ q.kind = a.kind /\ q.frags = a.frags
        BY <2>3 DEF Writer, Pc
    <2>5. Becomes(p, q)
        BY DEF SyncTouched, Goto, Becomes
    <2> HIDE DEF q
    <2>6. /\ proc'[p] = q /\ \A r \in Proc : r # p => proc'[r] = proc[r]
          /\ Disk /\ Disk' /\ met' = met
        BY <2>1, <2>2, <2>4, <2>5, BecomesEffect DEF Struct, hist
    <2>7. /\ files' = [files EXCEPT ![t] = Synced(t, Touched(p))]
          /\ UNCHANGED <<size, active, nextID>>
        BY DEF SyncTouched
    <2>8. /\ \A s \in Tier : DOMAIN files'[s] = DOMAIN files[s]
          /\ \A s \in Tier : \A i \in DOMAIN files[s] : files'[s][i].units = files[s][i].units
          /\ \A i \in Touched(p) \cap DOMAIN size[t] :
                files'[t][i].durable = Len(files[t][i].units)
        BY <2>3, <2>6, <2>7, <1>SyncEffect
    <2>9. Framing'
        <3>1. \A s \in Tier : \A id \in DOMAIN files'[s] :
                 id \in DOMAIN files[s] /\ files'[s][id].units = files[s][id].units
            BY <2>8
        <3>4. \A s \in Tier : \A id \in DOMAIN size'[s] :
                 id \in DOMAIN size[s] /\ size'[s][id] = size[s][id]
            BY <2>7
        <3>2. \A r \in Proc : proc'[r].pc = "write" => proc'[r] = proc[r]
            BY <2>4, <2>6
        <3>3. (\A s \in Tier : active'[s] # None => active'[s] = active[s]) /\ met \subseteq met'
            BY <2>6, <2>7
        <3> QED
            BY <2>1, <2>2, <3>1, <3>2, <3>3, <3>4, <1>FramingSame
    <2>10. Located'
        <3>1. q.kind = "move" /\ q.pc \in {"active", "write"}
                   /\ met' \cap {"short", "reseeded"} = {} => q.content = q.wid
            BY <2>4
        <3>2. \A g \in q.frags : g \in a.frags
            BY <2>4
        <3>3. met \subseteq met' /\ db' = db /\ rd' = rd
            BY <2>2, <2>6
        <3> QED
            BY <2>1, <2>2, <2>4, <2>5, <3>1, <3>2, <3>3, <1>LocatedBecomes
    <2>11. ASSUME met' \cap {"short", "collected"} = {}, Sound PROVE Sound'
        <3>1. gc.pc = "idle"
            BY <2>1, <2>11, <1>NoPassBesideWriter
        <3>2. met \cap {"short", "reseeded"} = {}
            BY <2>1, <2>6, <2>11 DEF Durable
        <3>3. ASSUME NEW g \in a.frags PROVE Safe(g, files', size')
            <4>1. g \in Frag /\ g.tier = t /\ g.seg \in Touched(p)
                BY <2>3 DEF CallOK, Touched
            <4>2. Kept(g, size) /\ g.seg \in DOMAIN size[t] /\ g.seg \in DOMAIN files[t]
                BY <2>3, <2>6, <2>11, <4>1 DEF Sound, Kept, Disk
            <4>3. At(g, files, nextID)
                BY <2>1, <3>2 DEF Located, Known
            <4> DEFINE m == Len(files[t][g.seg].units)
            <4>4. g.off \in 1 .. m
                BY <4>1, <4>2, <4>3 DEF At
            <4>5. files'[t][g.seg].durable = m
                BY <2>8, <4>1, <4>2
            <4>6. m \in Nat
                <5>1. files[t][g.seg] \in File
                    BY <2>3, <2>6, <4>2 DEF Disk
                <5> QED
                    BY <5>1, <1>FileUnits
            <4>7. g.off <= files'[t][g.seg].durable
                <5> HIDE DEF m
                <5>1. g.off <= m
                    BY SMTT(30), <4>4, <4>6
                <5> QED
                    BY <4>5, <5>1
            <4>8. Kept(g, size')
                BY <2>7, <4>2
            <4> QED
                BY <4>1, <4>7, <4>8 DEF Safe
        <3>4. \A g \in q.frags :
                   \/ g \in a.frags /\ (q.pc = "commit" => Safe(g, files', size'))
                   \/ Kept(g, size') /\ (q.pc = "commit" => Safe(g, files', size'))
            BY <2>4, <3>3
        <3>5. (\A g \in db' : g \in db) /\ q.pc # "write" /\ gc' = gc
            BY <2>2, <2>4
        <3> QED
            BY <2>1, <2>2, <2>4, <2>5, <2>11, <3>1, <3>4, <3>5, <1>SoundBecomes
    <2>12. Durable'
        <3>1. gc' = gc /\ met \subseteq met' /\ ("reseeded" \in met' => "reseeded" \in met)
            BY <2>2, <2>6
        <3> QED
            BY <2>1, <2>2, <2>11, <3>1, <1>DurableStep
    <2> QED
        BY <2>2, <2>9, <2>10, <2>12 DEF PlaceInv

\* The pebble batch: what it adds has been synced.
<1>CommitPlace.
    ASSUME PlaceInv, NEW p \in Proc, Commit(p)
    PROVE  PlaceInv'
    <2> USE <1>CommitPlace
    <2> DEFINE a == proc[p]
    <2>1. Struct /\ Framing /\ Located /\ Durable /\ a.pc = "commit" /\ Busy(p)
        BY DEF PlaceInv, Commit, Busy
    <2>2. /\ Struct' /\ Keeps /\ Persists /\ Becomes(p, Idle)
          /\ UNCHANGED <<disk, gc, rd, before, met>>
        BY <2>1, CommitStruct
    <2>3. /\ Idle \in Writer /\ Idle.pc = "idle" /\ Idle.frags = {}
        BY IdleWriter
    <2>4. /\ proc'[p] = Idle /\ \A r \in Proc : r # p => proc'[r] = proc[r]
        BY <2>1, <2>2, <2>3, BecomesEffect DEF Struct
    <2>5. ASSUME NEW g \in db', g \notin db PROVE \E f \in a.frags : SameRecord(f, g)
        <3>1. g \in Stamped(p)
            BY <2>5 DEF Commit
        <3> DEFINE top == IF a.kind = "bulk" THEN seq + NumStripes ELSE seq
        <3>2. top \in Nat
            BY SMTT(30), <2>1, IndexAssumption DEF Struct, Shapes
        <3>3. \A h \in Stamped(p) : \E f \in a.frags : SameRecord(f, h)
            <4> HIDE DEF top
            <4>1. top = IF a.kind = "bulk" THEN seq + NumStripes ELSE seq
                BY DEF top
            <4> QED
                BY <2>1, <3>2, <4>1, StampedFrags
        <3> QED
            BY <3>1, <3>3
    <2>6. Framing'
        <3>1. \A r \in Proc : proc'[r].pc = "write" => proc'[r] = proc[r]
            BY <2>3, <2>4
        <3> QED
            BY <2>1, <2>2, <3>1, <1>FramingSameDisk
    <2>7. Located'
        <3>1. ASSUME NEW g \in Known'
              PROVE  \E f \in Known : SameRecord(f, g)
            <4>1. SameRecord(g, g)
                BY DEF SameRecord
            <4>2. CASE g \in Known
                BY <4>1, <4>2
            <4>3. CASE g \in db' /\ g \notin db
                BY <2>5, <4>3 DEF Known
            <4>4. \A r \in Proc : proc'[r].frags \subseteq proc[r].frags
                BY <2>3, <2>4
            <4>5. g \in Known \/ (g \in db' /\ g \notin db)
                BY <2>2, <4>4 DEF Known
            <4> QED
                BY <4>2, <4>3, <4>5
        <3>2. \A r \in Proc :
                 Moving(r)' /\ proc'[r].pc \in {"active", "write"}
                     /\ met' \cap {"short", "reseeded"} = {}
                     => proc'[r].content = proc'[r].wid
            BY <2>1, <2>2, <2>3, <2>4 DEF Located, Moving, Busy
        <3>3. met' \cap {"short", "reseeded"} = {} => rd'.result # "wrong"
            BY <2>1, <2>2 DEF Located
        <3>4. \A g \in Known' :
                 At(g, files', nextID') \/ \E f \in Known : SameRecord(f, g)
            BY <3>1
        <3>5. met \subseteq met'
            BY <2>2
        <3> QED
            BY <2>1, <2>2, <3>2, <3>3, <3>4, <3>5, <1>LocatedStep
    <2>8. ASSUME Sound PROVE Sound'
        <3>1. gc.pc = "idle" /\ gc' = gc
            BY <2>1, <2>2, <2>8, <1>NoPassBesideWriter
        <3>2. \A g \in db' : g \in db \/ \E f \in a.frags : SameRecord(f, g) /\ a.pc = "commit"
            BY <2>1, <2>5
        <3>3. \A g \in Idle.frags :
                   \/ g \in a.frags /\ (Idle.pc = "commit" => Safe(g, files', size'))
                   \/ Kept(g, size') /\ (Idle.pc = "commit" => Safe(g, files', size'))
            BY <2>3
        <3> QED
            BY <2>1, <2>2, <2>3, <2>8, <3>1, <3>2, <3>3, <1>SoundBecomes
    <2>9. Durable'
        BY <2>1, <2>2, <2>8, <1>DurableStep
    <2> QED
        BY <2>2, <2>6, <2>7, <2>9 DEF PlaceInv

\* Truncate and DeleteInode.
<1>DropPlace.
    ASSUME PlaceInv, NEW gone, Drop(gone)
    PROVE  PlaceInv'
    <2> USE <1>DropPlace
    <2>1. Struct /\ Framing /\ Located /\ Durable /\ db' \subseteq db
        BY DEF PlaceInv, Drop
    <2>2. Struct' /\ Keeps /\ UNCHANGED <<disk, proc, gc, rd, before, met>>
        BY <2>1, <1>DropStruct
    <2>3. Framing'
        BY <2>1, <2>2, <1>FramingSameDisk
    <2>4. Located'
        BY <2>1, <2>2 DEF Located, Known, Moving, Busy, disk
    <2>5. Sound => Sound'
        BY <2>1, <2>2 DEF Sound, Busy, disk
    <2>6. Durable'
        BY <2>1, <2>2, <2>5, <1>DurableStep
    <2> QED
        BY <2>2, <2>3, <2>4, <2>6 DEF PlaceInv

\* A pass up to its Removes: what a scan beside no writer has found is what
\* the index needs, and only a step of a writer changes that.
<1>GcPlace.
    ASSUME PlaceInv, GcScan \/ GcActive \/ GcList
    PROVE  PlaceInv'
    <2> USE <1>GcPlace
    <2>1. Struct /\ Framing /\ Located /\ Durable
        BY DEF PlaceInv
    <2>2. Struct' /\ Keeps /\ Persists /\ UNCHANGED <<disk, db, seq, proc, rd, done, before>>
        BY <2>1, <1>GcStruct
    <2>3. met \subseteq met' /\ ("reseeded" \in met' => "reseeded" \in met)
        BY DEF GcScan, GcActive, GcList, Meets, hist
    <2>4. Framing'
        BY <2>1, <2>2, <2>3, <1>FramingSameDisk
    <2>5. Located'
        BY <2>1, <2>2, <2>3 DEF Located, Known, Moving, Busy, disk
    <2>6. gc \in GcRecord /\ gc.tier \in Tier
        BY <2>1 DEF Struct, Shapes, GcRecord
    <2>7. /\ gc'.drop \cap gc'.refs = {} /\ (gc'.pc # "remove" => gc'.drop = {})
        <3>1. CASE GcScan
            BY <3>1 DEF GcScan, NoGC
        <3>2. CASE GcActive
            <4>1. gc.pc = "active" /\ gc'.drop = gc.drop
                BY <2>6, <3>2 DEF GcActive, GcRecord
            <4> QED
                BY <2>1, <4>1 DEF Durable
        <3>3. CASE GcList
            <4> DEFINE U == {gc.tier} \X DOMAIN size[gc.tier]
            <4>1. gc' = [gc EXCEPT !.pc = "remove", !.drop = U \ gc.refs]
                BY <3>3 DEF GcList
            <4> HIDE DEF U
            <4>2. gc'.refs = gc.refs /\ gc'.pc = "remove" /\ gc'.drop = U \ gc.refs
                BY <2>6, <4>1 DEF GcRecord
            <4> QED
                BY <4>2
        <3> QED
            BY <3>1, <3>2, <3>3
    <2>8. ASSUME met' \cap {"short", "collected"} = {}, Sound PROVE Sound'
        <3>1. CASE GcScan
            <4>1. \A p \in Proc : ~Busy(p)
                BY <2>8, <3>1 DEF GcScan, Meets, Busy
            <4>2. gc'.refs = {<<f.tier, f.seg>> : f \in db}
                BY <3>1 DEF GcScan, NoGC
            <4>3. \A f \in db' : <<f.tier, f.seg>> \in gc'.refs
                BY <2>2, <4>2
            <4> QED
                BY <2>2, <2>8, <4>1, <4>3 DEF Sound, Busy, disk
        <3>2. CASE GcActive \/ GcList
            <4>1. gc.refs \subseteq gc'.refs /\ gc.pc # "idle"
                BY <2>6, <3>2 DEF GcActive, GcList, GcRecord
            <4> QED
                BY <2>2, <2>8, <4>1 DEF Sound, Busy, disk
        <3> QED
            BY <3>1, <3>2
    <2>9. Durable'
        <3>1. "reseeded" \in met' => "collected" \in met'
            BY <2>1, <2>3 DEF Durable
        <3>2. met' \cap {"short", "collected"} = {} => Sound
            BY <2>1, <2>3 DEF Durable
        <3> QED
            BY <2>7, <2>8, <3>1, <3>2 DEF Durable
    <2> QED
        BY <2>2, <2>4, <2>5, <2>9 DEF PlaceInv

\* Set.Remove and the sweep: what is closed is no segment that the index
\* needs, what is unlinked is not open, and no writer is in flight.
<1>CollectPlace.
    ASSUME PlaceInv, GcSweep \/ \E x \in gc.drop : GcRemove(x) \/ GcRemoveFails(x)
    PROVE  PlaceInv'
    <2> USE <1>CollectPlace
    <2>1. Struct /\ Framing /\ Located /\ Durable
        BY DEF PlaceInv
    <2>2. Struct' /\ Keeps /\ UNCHANGED <<db, seq, proc, rd, hist>>
        BY <2>1, <1>CollectStruct
    <2>3. PICK x \in gc.drop \cup {NoSegment} : Shrinks(x) /\ Winds
        BY <2>1, <1>CollectStruct
    <2>4. met' = met /\ met \subseteq met'
        BY <2>2 DEF hist
    <2>5. Framing'
        <3>1. /\ \A t \in Tier : \A id \in DOMAIN files'[t] :
                    id \in DOMAIN files[t] /\ files'[t][id].units = files[t][id].units
              /\ \A t \in Tier : \A id \in DOMAIN size'[t] :
                    id \in DOMAIN size[t] /\ size'[t][id] = size[t][id]
            BY <2>3 DEF Shrinks
        <3>2. \A r \in Proc : proc'[r].pc = "write" => proc'[r] = proc[r]
            BY <2>2
        <3>3. \A t \in Tier : active'[t] # None => active'[t] = active[t]
            BY <2>3 DEF Shrinks
        <3> QED
            BY <2>1, <2>2, <2>4, <3>1, <3>2, <3>3, <1>FramingSame
    <2>6. Located'
        <3>1. \A g \in Known' : At(g, files', nextID') \/ \E f \in Known : SameRecord(f, g)
            BY <2>2 DEF Known, SameRecord
        <3>2. met' \cap {"short", "reseeded"} = {} => rd'.result # "wrong"
            BY <2>1, <2>2, <2>4 DEF Located
        <3>3. \A p \in Proc :
                   Moving(p)' /\ proc'[p].pc \in {"active", "write"}
                       /\ met' \cap {"short", "reseeded"} = {}
                       => proc'[p].content = proc'[p].wid
            BY <2>1, <2>2, <2>4 DEF Located, Moving, Busy
        <3> QED
            BY <2>1, <2>2, <2>4, <3>1, <3>2, <3>3, <1>LocatedStep
    <2>7. /\ gc.pc = "remove" /\ gc'.drop \subseteq gc.drop /\ (gc'.pc # "remove" => gc'.drop = {})
          /\ gc'.pc # "idle" => gc'.refs = gc.refs
          /\ gc'.drop \cap gc'.refs = {}
        <3>1. NoGC.drop = {} /\ NoGC.pc = "idle"
            BY DEF NoGC
        <3> QED
            BY <2>1, <2>3, <3>1 DEF Winds, Durable
    <2>8. ASSUME Sound PROVE Sound'
        <3>1. \A p \in Proc : ~Busy(p) /\ proc[p].frags = {}
            <4>1. \A p \in Proc : ~Busy(p)
                BY <2>7, <2>8 DEF Sound
            <4> QED
                BY <2>1, <4>1 DEF Struct, Calls, CallOK, Busy
        <3>2. ASSUME NEW f \in db PROVE Safe(f, files', size')
            <4>1. <<f.tier, f.seg>> # x
                <5>1. CASE x = NoSegment
                    <6>1. f.tier \in Tier
                        BY <2>1 DEF Struct, Shapes, Frag
                    <6> QED
                        BY SMTT(30), <5>1, <6>1 DEF NoSegment, Tier
                <5>2. CASE x \in gc.drop
                    BY <2>1, <2>7, <2>8, <5>2 DEF Sound, Durable
                <5> QED
                    BY <2>3, <5>1, <5>2
            <4>2. f.tier \in Tier /\ Safe(f, files, size)
                BY <2>1, <2>8 DEF Sound, Struct, Shapes, Frag
            <4>3. f.seg \in DOMAIN size'[f.tier]
                BY <2>3, <4>1, <4>2 DEF Safe, Kept, Shrinks
            <4>4. files'[f.tier][f.seg] = files[f.tier][f.seg]
                BY <2>3, <4>2, <4>3 DEF Shrinks
            <4> QED
                BY <4>2, <4>3, <4>4 DEF Safe, Kept
        <3>3. gc'.pc # "idle" => \A f \in db' : <<f.tier, f.seg>> \in gc'.refs
            BY <2>2, <2>7, <2>8 DEF Sound
        <3> QED
            BY <2>2, <3>1, <3>2, <3>3 DEF Sound, Busy
    <2>9. Durable'
        BY <2>1, <2>4, <2>7, <2>8 DEF Durable
    <2> QED
        BY <2>2, <2>5, <2>6, <2>9 DEF PlaceInv

\* AppendToWithTxCtx and BulkSession's first Write.
<1>BeginStruct.
    ASSUME Struct, NEW p \in Proc, NEW i \in Inode, NEW S \in SUBSET Stripe, S # {},
           NEW t \in Tier, NEW kind, NEW pc, NEW first \in Nat,
           BeginWrite(p, i, S, t, kind, pc, first), seq' \in Nat, seq <= seq',
           \/ kind = "append" /\ pc = "rlock" /\ seq' = first + Cardinality(S)
           \/ kind = "bulk" /\ pc = "active"
    PROVE  Struct'
    <2> USE <1>BeginStruct
    <2> DEFINE T == Extents(S, first)
               w == Len(before) + 1
               q == [Idle EXCEPT !.pc = pc, !.kind = kind, !.inode = i, !.wid = w,
                                 !.tier = t, !.todo = T]
    <2>1. /\ Cardinality(S) \in Nat /\ T \subseteq Extent /\ T # {}
          /\ \A e \in T : e.seq <= first + Cardinality(S)
        BY ExtentsNumbered
    <2>2. Becomes(p, q) /\ UNCHANGED <<disk, db, gc, rd>> /\ proc[p].pc = "idle"
        BY DEF BeginWrite, Becomes
    <2> HIDE DEF T
    <2>3. w \in Nat
        BY SMTT(30) DEF Struct, Shapes
    <2>4. /\ q \in Writer /\ q.pc = pc /\ q.kind = kind /\ q.inode = i /\ q.todo = T
          /\ q.old = {} /\ q.frags = {}
        BY <2>1, <2>3 DEF Idle, Writer, Pc, None
    <2> HIDE DEF q
    <2>5. /\ proc' \in [Proc -> Writer] /\ proc'[p] = q
          /\ \A r \in Proc : r # p => proc'[r] = proc[r]
        BY <2>2, <2>4, BecomesEffect DEF Struct
    <2>6. Disk' /\ nextID' = nextID
        BY <2>2, SameDisk DEF Struct, disk
    <2>7. Shapes'
        <3>1. /\ before' = Append(before, UNION {done[k] : k \in DOMAIN done})
              /\ done' = done
            BY DEF BeginWrite
        <3>2. done \in [Inode \X Stripe -> SUBSET Nat] /\ before \in Seq(SUBSET Nat)
            BY DEF Struct, Shapes
        <3>3. UNION {done[k] : k \in DOMAIN done} \subseteq Nat
            BY <3>2
        <3>4. before' \in Seq(SUBSET Nat) /\ done' \in [Inode \X Stripe -> SUBSET Nat]
            <4> DEFINE D == UNION {done[k] : k \in DOMAIN done}
            <4> HIDE DEF D
            <4> QED
                BY SMTT(30), <3>1, <3>2, <3>3 DEF D
        <3>5. \A f \in db : f.seq <= seq'
            BY SMTT(30) DEF Struct, Shapes, Frag
        <3> QED
            BY <2>2, <2>5, <3>4, <3>5 DEF Struct, Shapes
    <2>8. CallOK(q, nextID', seq')
        <3>1. kind = "append" => \A e \in T : e.seq <= seq'
            BY <2>1
        <3> QED
            BY <2>1, <2>4, <3>1 DEF CallOK
    <2>9. Calls'
        <3>1. nextID' \in [Tier -> Nat] /\ \A s \in Tier : nextID[s] <= nextID'[s]
            BY SMTT(30), <2>6 DEF Disk
        <3> QED
            BY <2>2, <2>4, <2>8, <3>1, CallsStep
    <2>10. Exclusive'
        <3>1. TakesLock(p)
            BY <2>4, <2>5 DEF TakesLock, Locked, RLocked
        <3> QED
            BY <2>5, <3>1, ExclusiveStep
    <2>11. Moves'
        BY <2>2, <2>4, <2>5 DEF Struct, Moves, Moving, Busy
    <2> QED
        BY <2>6, <2>7, <2>9, <2>10, <2>11 DEF Struct

\* PlanRead and ReadAt.
<1>ReadStruct.
    ASSUME Struct,
           ReadAt \/ \E i \in Inode, s \in Stripe : PlanRead(i, s)
    PROVE  Struct' /\ Keeps /\ Persists /\ UNCHANGED <<disk, db, seq, proc, gc, hist>>
    <2> USE <1>ReadStruct
    <2>1. UNCHANGED <<disk, db, seq, proc, gc, hist>>
        BY DEF ReadAt, PlanRead
    <2>2. Disk' /\ Keeps /\ Persists
        BY <2>1, SameDisk DEF Struct
    <2> DEFINE RD == [pc : {"idle", "planned"}, frag : SUBSET Frag,
                      result : {"none", "ok", "missing", "wrong"}]
    <2>3. rd' \in RD
        <3>1. CASE ReadAt
            <4>1. PICK r \in {"missing", "ok", "wrong"} : rd' = [NoRead EXCEPT !.result = r]
                BY <3>1 DEF ReadAt
            <4> QED
                BY <4>1 DEF NoRead
        <3>2. ASSUME NEW i \in Inode, NEW s \in Stripe, PlanRead(i, s) PROVE rd' \in RD
            <4> DEFINE f == Newest(StripeFrags(i, s))
            <4>1. StripeFrags(i, s) # {}
                BY <3>2 DEF PlanRead
            <4>2. f \in Frag
                BY <4>1, NewestOfStripe
            <4>3. rd' = [pc |-> "planned", frag |-> {f}, result |-> "none"]
                BY <3>2 DEF PlanRead, NoRead
            <4> HIDE DEF f
            <4> QED
                BY <4>2, <4>3
        <3> QED
            BY <3>1, <3>2
    <2>4. Shapes'
        BY <2>1, <2>3 DEF Struct, Shapes, hist
    <2>5. Struct'
        BY <2>1, <2>2, <2>4, <1>BesideStruct DEF Keeps
    <2> QED
        BY <2>1, <2>2, <2>5

\* The beginning of a write.
<1>BeginPlace.
    ASSUME PlaceInv, NEW p \in Proc, NEW i \in Inode, NEW S \in SUBSET Stripe, S # {},
           NEW t \in Tier, NEW kind, NEW pc, NEW first \in Nat,
           BeginWrite(p, i, S, t, kind, pc, first), seq' \in Nat, seq <= seq',
           \/ kind = "append" /\ pc = "rlock" /\ seq' = first + Cardinality(S)
           \/ kind = "bulk" /\ pc = "active"
    PROVE  PlaceInv'
    <2> USE <1>BeginPlace
    <2>1. Struct
        BY DEF PlaceInv
    <2>3. Struct'
        BY <2>1, <1>BeginStruct
    <2> DEFINE T == Extents(S, first)
               w == Len(before) + 1
               q == [Idle EXCEPT !.pc = pc, !.kind = kind, !.inode = i, !.wid = w,
                                 !.tier = t, !.todo = T]
    <2>4. /\ Becomes(p, q) /\ UNCHANGED <<disk, db, gc, rd>> /\ met' = met \cup BesideGC
        BY DEF BeginWrite, Becomes, Meets
    <2>5. T \subseteq Extent /\ w \in Nat
        BY SMTT(30), <2>1, ExtentsNumbered DEF Struct, Shapes
    <2> HIDE DEF T, w
    <2>6. /\ q \in Writer /\ q.pc = pc /\ q.kind = kind /\ q.frags = {}
        BY <2>5 DEF Idle, Writer, Pc, None
    <2> HIDE DEF q
    <2>7. /\ met \subseteq met' /\ ("reseeded" \in met' => "reseeded" \in met)
          /\ (gc.pc # "idle" => "collected" \in met')
        BY <2>4 DEF BesideGC
    <2>8. Keeps /\ Persists
        BY <2>1, <2>4, SameDisk DEF Struct
    <2>9. q.pc # "write" /\ (q.kind = "move" => q.pc # "active") /\ q.frags \subseteq proc[p].frags
        BY <2>6
    <2> QED
        BY <2>3, <2>4, <2>6, <2>7, <2>8, <2>9, <1>PlaceQuiet

\* The snapshot of a move: a fragment it re-emits is one of the index.
<1>MoveBeginPlace.
    ASSUME PlaceInv, NEW p \in Proc, NEW i \in Inode, NEW s \in Stripe, NEW t \in Tier,
           MoveBegin(p, i, s, t)
    PROVE  PlaceInv'
    <2> USE <1>MoveBeginPlace
    <2>1. Struct /\ Framing /\ Located /\ Durable
        BY DEF PlaceInv
    <2>2. /\ Struct' /\ Keeps /\ Persists /\ UNCHANGED <<disk, db, gc, rd, done, before>>
          /\ met \subseteq met' /\ (gc.pc # "idle" => "collected" \in met')
        BY <2>1, MoveBeginStruct
    <2>3. PICK q \in Writer :
             /\ Becomes(p, q) /\ q.kind = "move" /\ q.pc \in {"read", "commit"}
             /\ \A g \in q.frags : \E f \in db : SameRecord(f, g)
        BY <2>1, MoveBeginStruct
    <2>4. "reseeded" \in met' => "reseeded" \in met
        BY DEF MoveBegin, Meets, BesideGC
    <2>5. /\ proc'[p] = q /\ \A r \in Proc : r # p => proc'[r] = proc[r]
        BY <2>1, <2>3, BecomesEffect DEF Struct
    <2>6. Framing'
        <3>1. \A r \in Proc : proc'[r].pc = "write" => proc'[r] = proc[r]
            BY <2>3, <2>5
        <3> QED
            BY <2>1, <2>2, <3>1, <1>FramingSameDisk
    <2>7. Located'
        <3>1. \A g \in q.frags : \E f \in Known : SameRecord(f, g)
            BY <2>3 DEF Known
        <3>2. q.kind = "move" /\ q.pc \in {"active", "write"}
                   /\ met' \cap {"short", "reseeded"} = {} => q.content = q.wid
            BY <2>3
        <3>3. db' = db /\ rd' = rd
            BY <2>2
        <3> QED
            BY <2>1, <2>2, <2>3, <3>1, <3>2, <3>3, <1>LocatedBecomes
    <2>8. ASSUME met' \cap {"short", "collected"} = {}, Sound PROVE Sound'
        <3>1. gc.pc = "idle" /\ gc' = gc
            BY <2>2, <2>8
        <3>2. ASSUME NEW g \in q.frags PROVE Safe(g, files', size') /\ Kept(g, size')
            <4>1. PICK f \in db : SameRecord(f, g)
                BY <2>3
            <4>2. f \in Frag /\ Safe(f, files, size) /\ Disk /\ Disk'
                BY <2>1, <2>2, <2>8 DEF Sound, Struct, Shapes
            <4>3. Safe(f, files', size')
                BY <2>2, <4>2, <1>SafePersists
            <4>4. Safe(g, files', size')
                BY <4>1, <4>3, <1>SameRecordSafe
            <4> QED
                BY <4>4 DEF Safe
        <3>3. \A g \in q.frags :
                   \/ g \in proc[p].frags /\ (q.pc = "commit" => Safe(g, files', size'))
                   \/ Kept(g, size') /\ (q.pc = "commit" => Safe(g, files', size'))
            BY <3>2
        <3>4. (\A g \in db' : g \in db) /\ q.pc # "write"
            BY <2>2, <2>3
        <3> QED
            BY <2>1, <2>2, <2>3, <2>8, <3>1, <3>3, <3>4, <1>SoundBecomes
    <2>9. Durable'
        <3>1. gc' = gc
            BY <2>2
        <3> QED
            BY <2>1, <2>2, <2>4, <2>8, <3>1, <1>DurableStep
    <2> QED
        BY <2>2, <2>6, <2>7, <2>9 DEF PlaceInv

\* A move carries the bytes of the stripe's newest write.
<1>MoveReadPlace.
    ASSUME PlaceInv, NEW p \in Proc, MoveRead(p)
    PROVE  PlaceInv'
    <2> USE <1>MoveReadPlace
    <2> DEFINE a == proc[p]
               f == Newest(a.old)
    <2>1. Struct /\ Framing /\ Located /\ Durable /\ a.pc = "read" /\ Busy(p)
        BY DEF PlaceInv, MoveRead, Busy
    <2>2. /\ Struct' /\ Keeps /\ Persists /\ UNCHANGED <<db, seq, gc, rd, hist>> /\ UNCHANGED disk
        BY <2>1, MoveReadStruct
    <2>3. CASE Becomes(p, Idle)
        BY <2>1, <2>2, <2>3, <1>ReturnPlace DEF hist
    <2>4. ASSUME NEW q \in Writer, Becomes(p, q), Continues(a, q), q.pc = "active",
                 q.frags = a.frags, f.seg \in DOMAIN size[f.tier], q.content = ContentAt(f)
          PROVE  PlaceInv'
        <3>1. /\ proc'[p] = q /\ \A r \in Proc : r # p => proc'[r] = proc[r]
            BY <2>1, <2>4, BecomesEffect DEF Struct
        <3>2. met' = met /\ gc' = gc /\ db' = db /\ rd' = rd /\ met \subseteq met'
            BY <2>2 DEF hist
        <3>3. Framing'
            <4>1. \A r \in Proc : proc'[r].pc = "write" => proc'[r] = proc[r]
                BY <2>4, <3>1
            <4> QED
                BY <2>1, <2>2, <3>2, <4>1, <1>FramingSameDisk
        <3>4. ASSUME met' \cap {"short", "reseeded"} = {} PROVE q.content = q.wid
            <4>1. a.kind = "move"
                BY <2>1, WriterFacts DEF CallOK
            <4>2. PICK s \in Stripe : a.old = Of(db, a.inode, s) /\ a.old # {} /\ a.wid = f.wid
                BY <2>1, <4>1 DEF Struct, Moves, Moving, MoveOK
            <4>3. f \in db /\ f \in Frag
                <5>1. a.old \subseteq db
                    BY <4>2 DEF Of
                <5>2. db \subseteq Frag /\ seq \in Nat /\ \A g \in db : g.seq <= seq
                    BY <2>1 DEF Struct, Shapes
                <5> QED
                    BY <4>2, <5>1, <5>2, NewestIsNewest
            <4> HIDE DEF f
            <4>4. At(f, files, nextID)
                BY <2>1, <3>2, <3>4, <4>3 DEF Located, Known
            <4>5. f.tier \in Tier /\ f.seg \in DOMAIN files[f.tier]
                BY <2>1, <2>4, <4>3 DEF Frag, Struct, Disk
            <4>6. files[f.tier][f.seg].units \in Seq(Unit)
                BY <2>1, <4>5 DEF Struct, Disk, File
            <4>7. ContentAt(f) = f.wid
                BY <4>4, <4>5, <4>6, AtContent
            <4> QED
                BY <2>4, <4>2, <4>7 DEF Continues
        <3>5. Located'
            <4>1. \A g \in q.frags : g \in a.frags
                BY <2>4
            <4>2. q.kind = "move" /\ q.pc \in {"active", "write"}
                   /\ met' \cap {"short", "reseeded"} = {} => q.content = q.wid
                BY <3>4
            <4> QED
                BY <2>1, <2>2, <2>4, <3>2, <4>1, <4>2, <1>LocatedBecomes
        <3>6. ASSUME Sound PROVE Sound'
            <4>1. gc.pc = "idle"
                BY <2>1, <3>6, <1>NoPassBesideWriter
            <4>2. \A g \in q.frags :
                   \/ g \in a.frags /\ (q.pc = "commit" => Safe(g, files', size'))
                   \/ Kept(g, size') /\ (q.pc = "commit" => Safe(g, files', size'))
                BY <2>4
            <4>3. (\A g \in db' : g \in db) /\ q.pc # "write"
                BY <2>4, <3>2
            <4> QED
                BY <2>1, <2>2, <2>4, <3>2, <3>6, <4>1, <4>2, <4>3, <1>SoundBecomes
        <3>7. Durable'
            BY <2>1, <2>2, <3>2, <3>6, <1>DurableStep
        <3> QED
            BY <2>2, <3>3, <3>5, <3>7 DEF PlaceInv
    <2> QED
        BY <2>1, <2>3, <2>4, MoveReadStruct

\* A reader plans with the stripe's newest fragment, and finds its bytes.
<1>ReadPlace.
    ASSUME PlaceInv, ReadAt \/ \E i \in Inode, s \in Stripe : PlanRead(i, s)
    PROVE  PlaceInv'
    <2> USE <1>ReadPlace
    <2>1. Struct /\ Framing /\ Located /\ Durable
        BY DEF PlaceInv
    <2>2. Struct' /\ Keeps /\ Persists /\ UNCHANGED <<disk, db, seq, proc, gc, hist>>
        BY <2>1, <1>ReadStruct
    <2>3. met' = met /\ met \subseteq met' /\ gc' = gc
        BY <2>2 DEF hist
    <2>4. Framing'
        BY <2>1, <2>2, <2>3, <1>FramingSameDisk
    <2>5. rd'.frag \subseteq db /\ (rd'.result = "wrong" => ReadAt)
        <3>1. CASE ReadAt
            BY <3>1 DEF ReadAt, NoRead
        <3>2. ASSUME NEW i \in Inode, NEW s \in Stripe, PlanRead(i, s)
              PROVE  rd'.frag \subseteq db /\ rd'.result # "wrong"
            <4> DEFINE f == Newest(StripeFrags(i, s))
            <4>1. StripeFrags(i, s) # {}
                BY <3>2 DEF PlanRead
            <4>3. f \in db
                BY <2>1, <4>1, NewestOfStripe
            <4>4. rd' = [pc |-> "planned", frag |-> {f}, result |-> "none"]
                BY <3>2 DEF PlanRead, NoRead
            <4> HIDE DEF f
            <4> QED
                BY <4>3, <4>4
        <3> QED
            BY <3>1, <3>2
    <2>6. ASSUME met' \cap {"short", "reseeded"} = {}, ReadAt PROVE rd'.result # "wrong"
        <3>1. PICK f \in rd.frag : rd' = [NoRead EXCEPT !.result =
                        IF f.seg \notin DOMAIN size[f.tier] THEN "missing"
                        ELSE IF ContentAt(f) = f.wid THEN "ok" ELSE "wrong"]
            BY <2>6 DEF ReadAt
        <3>2. At(f, files, nextID)
            BY <2>1, <2>3, <2>6 DEF Located, Known
        <3>3. CASE f.seg \in DOMAIN size[f.tier]
            <4>1. f.tier \in Tier /\ f.seg \in DOMAIN files[f.tier]
                BY <2>1, <3>3 DEF Struct, Shapes, Frag, Disk
            <4>2. files[f.tier][f.seg].units \in Seq(Unit)
                BY <2>1, <4>1 DEF Struct, Disk, File
            <4>3. ContentAt(f) = f.wid
                BY <3>2, <4>1, <4>2, AtContent
            <4> QED
                BY <3>1, <3>3, <4>3 DEF NoRead
        <3>4. CASE f.seg \notin DOMAIN size[f.tier]
            BY <3>1, <3>4 DEF NoRead
        <3> QED
            BY <3>3, <3>4
    <2>7. Located'
        <3>1. \A g \in Known' : At(g, files', nextID') \/ \E f \in Known : SameRecord(f, g)
            BY <2>2, <2>5 DEF Known, SameRecord
        <3>2. met' \cap {"short", "reseeded"} = {} => rd'.result # "wrong"
            BY <2>5, <2>6
        <3>3. \A p \in Proc :
                   Moving(p)' /\ proc'[p].pc \in {"active", "write"}
                       /\ met' \cap {"short", "reseeded"} = {}
                       => proc'[p].content = proc'[p].wid
            BY <2>1, <2>2, <2>3 DEF Located, Moving, Busy
        <3> QED
            BY <2>1, <2>2, <2>3, <3>1, <3>2, <3>3, <1>LocatedStep
    <2>8. Sound => Sound'
        BY <2>2 DEF Sound, Busy, disk
    <2>9. Durable'
        BY <2>1, <2>2, <2>3, <2>8, <1>DurableStep
    <2> QED
        BY <2>2, <2>4, <2>7, <2>9 DEF PlaceInv

\* A crash keeps what was durable: records end at even offsets, and a file of
\* whole records loses none of its durable ones.
<1>CrashPlace.
    ASSUME PlaceInv, Crash
    PROVE  PlaceInv'
    <2> USE <1>CrashPlace
    <2>1. Struct /\ Framing /\ Located /\ Durable
        BY DEF PlaceInv
    <2>2. /\ Struct' /\ UNCHANGED <<db, done, before>> /\ gc' = NoGC /\ rd' = NoRead
          /\ met' = met \cup Reseeds /\ \A p \in Proc : proc'[p] = Idle
        BY <2>1, CrashStruct
    <2>3. \A t \in Tier : DOMAIN files'[t] = DOMAIN files[t] /\ DOMAIN size'[t] = DOMAIN files[t]
        BY <2>1, CrashRecovers DEF Struct
    <2>4. ASSUME NEW t \in Tier, NEW id \in DOMAIN files[t]
          PROVE  LET f == files[t][id]
                     g == files'[t][id]
                 IN  /\ g.durable = Len(g.units) /\ size'[t][id] = Len(g.units)
                     /\ \A k \in 1 .. Len(g.units) : g.units[k] = f.units[k]
                     /\ id = active'[t] => size'[t][id] % 2 = 0
                     /\ Whole(f.units) => Whole(g.units)
                     /\ Whole(f.units) =>
                           \A m \in Nat : m % 2 = 0 /\ m <= f.durable => m <= g.durable
        BY <2>1, <2>4, CrashRecovers DEF Struct
    <2>5. \A p \in Proc : proc'[p].pc = "idle" /\ proc'[p].frags = {}
        BY <2>2, IdleWriter
    <2>6. Framing'
        <3> SUFFICES ASSUME "short" \notin met' PROVE Framing'
            BY DEF Framing
        <3>1. "short" \notin met
            BY <2>2
        <3>2. ASSUME NEW t \in Tier, NEW id \in DOMAIN files'[t]
              PROVE  size'[t][id] = Len(files'[t][id].units) /\ Whole(files'[t][id].units)
            <4>1. id \in DOMAIN files[t]
                BY <2>3
            <4>2. Whole(files[t][id].units)
                BY <2>1, <3>1, <4>1 DEF Framing
            <4> QED
                BY <2>4, <4>1, <4>2
        <3>3. ASSUME NEW t \in Tier, active'[t] # None PROVE size'[t][active'[t]] % 2 = 0
            <4>1. active'[t] \in DOMAIN files[t]
                BY <2>2, <2>3, <3>3 DEF Struct, Disk
            <4> QED
                BY <2>4, <4>1
        <3> QED
            BY <2>3, <2>5, <3>2, <3>3 DEF Framing
    <2>7. ASSUME met \cap {"short", "collected"} = {}, NEW f \in db PROVE Safe(f, files', size')
        <3>1. Safe(f, files, size) /\ f.tier \in Tier /\ f.off \in Nat
            BY <2>1, <2>7 DEF Durable, Sound, Struct, Shapes, Frag
        <3>2. f.seg \in DOMAIN files[f.tier] /\ f.off % 2 = 0
              /\ f.off <= files[f.tier][f.seg].durable
            BY <2>1, <3>1 DEF Safe, Kept, Struct, Disk
        <3>3. Whole(files[f.tier][f.seg].units)
            BY <2>1, <2>7, <3>1, <3>2 DEF Framing
        <3>4. f.off <= files'[f.tier][f.seg].durable
            BY <2>4, <3>1, <3>2, <3>3
        <3> QED
            BY <2>3, <3>1, <3>2, <3>4 DEF Safe, Kept
    <2>8. ASSUME met' \cap {"short", "reseeded"} = {}, NEW f \in db
          PROVE  At(f, files', nextID')
        <3>1. met \cap {"short", "collected"} = {} /\ met \cap {"short", "reseeded"} = {}
            BY <2>2, <2>8 DEF Reseeds
        <3>2. Safe(f, files', size') /\ At(f, files, nextID)
            BY <2>1, <2>7, <3>1 DEF Located, Known
        <3>3. f.tier \in Tier /\ f.off \in Nat
            BY <2>1 DEF Struct, Shapes, Frag
        <3>4. /\ f.seg \in DOMAIN files[f.tier] /\ f.seg \in DOMAIN files'[f.tier]
              /\ f.off <= files'[f.tier][f.seg].durable
            BY <2>3, <3>2, <3>3 DEF Safe, Kept
        <3> DEFINE u == files[f.tier][f.seg].units
                   v == files'[f.tier][f.seg].units
        <3>5. f.off \in 1 .. Len(u) /\ u[f.off] = <<"data", f.wid>>
            BY <3>2, <3>4 DEF At
        <3>6. f.off <= Len(v) /\ \A k \in 1 .. Len(v) : v[k] = u[k]
            BY <2>4, <3>3, <3>4
        <3>7. Len(v) \in Nat /\ f.seg < nextID'[f.tier]
            <4>1. v \in Seq(Unit) /\ f.seg < nextID'[f.tier]
                BY <2>2, <3>3, <3>4 DEF Struct, Disk, File
            <4> HIDE DEF u, v
            <4> QED
                BY SMTT(30), <4>1
        <3>8. f.off \in 1 .. Len(v) /\ v[f.off] = <<"data", f.wid>>
            <4> HIDE DEF u, v
            <4> QED
                BY SMTT(30), <3>3, <3>5, <3>6, <3>7
        <3> QED
            BY <3>7, <3>8 DEF At
    <2>9. Located'
        <3>1. Known' = db /\ rd'.result # "wrong"
            BY SMTT(30), <2>2, <2>5 DEF Known, NoRead
        <3>2. \A p \in Proc : proc'[p].pc \notin {"active", "write"}
            BY <2>5
        <3> QED
            BY <2>8, <3>1, <3>2 DEF Located
    <2>10. Durable'
        <3>1. "reseeded" \in met' => "collected" \in met'
            BY <2>1, <2>2 DEF Durable, Reseeds
        <3>2. gc'.drop = {} /\ gc'.pc = "idle"
            BY <2>2 DEF NoGC
        <3>3. met' \cap {"short", "collected"} = {} => met \cap {"short", "collected"} = {}
            BY <2>2
        <3>4. (\A f \in db : Safe(f, files', size')) => Sound'
            BY <2>2, <2>5, <3>2 DEF Sound
        <3> QED
            BY <2>7, <3>1, <3>2, <3>3, <3>4 DEF Durable
    <2> QED
        BY <2>2, <2>6, <2>9, <2>10 DEF PlaceInv

\* Every step keeps PlaceInv.
<1>PlaceNext.
    ASSUME PlaceInv, [Next]_vars PROVE PlaceInv'
    <2> USE <1>PlaceNext
    <2>1. CASE UNCHANGED vars
        <3>1. UNCHANGED <<files, size, active, nextID, db, seq, proc, gc, rd, done, before, met>>
            BY <2>1 DEF vars, disk, hist
        <3>2. Disk' /\ Shapes' /\ Calls'
            BY <3>1 DEF PlaceInv, Struct, Disk, Shapes, Calls
        <3>3. Exclusive' /\ Moves'
            BY <3>1 DEF PlaceInv, Struct, Exclusive, Locked, RLocked, Moves, Moving, Busy
        <3>4. Framing'
            BY <3>1 DEF PlaceInv, Framing
        <3>5. Located'
            BY <3>1 DEF PlaceInv, Located, Known, Moving, Busy
        <3>6. Durable'
            BY <3>1 DEF PlaceInv, Durable, Sound, Busy
        <3> QED
            BY <3>2, <3>3, <3>4, <3>5, <3>6 DEF PlaceInv, Struct
    <2>2. ASSUME NEW p \in Proc, WriteStep(p) PROVE PlaceInv'
        <3>0. seq \in Nat /\ "hot" \in Tier /\ "cold" \in Tier
            BY DEF PlaceInv, Struct, Shapes, Tier
        <3>1. ASSUME NEW i \in Inode, NEW S \in (SUBSET Stripe) \ {{}}, AppendCall(p, i, S, "hot")
              PROVE  PlaceInv'
            <4>1. S \in SUBSET Stripe /\ S # {} /\ Cardinality(S) \in Nat
                BY <3>0, ExtentsNumbered
            <4>2. seq' = seq + Cardinality(S) /\ BeginWrite(p, i, S, "hot", "append", "rlock", seq)
                BY <3>1 DEF AppendCall
            <4>3. seq' \in Nat /\ seq <= seq'
                BY SMTT(30), <3>0, <4>1, <4>2
            <4> QED
                BY <3>0, <4>1, <4>2, <4>3, <1>BeginPlace
        <3>2. ASSUME NEW i \in Inode, NEW S \in (SUBSET Stripe) \ {{}}, BulkBegin(p, i, S, "cold")
              PROVE  PlaceInv'
            <4>1. S \in SUBSET Stripe /\ S # {}
                OBVIOUS
            <4>2. seq' = seq /\ BeginWrite(p, i, S, "cold", "bulk", "active", 0)
                BY <3>2 DEF BulkBegin
            <4>3. seq' \in Nat /\ seq <= seq' /\ 0 \in Nat
                BY SMTT(30), <3>0, <4>2
            <4> QED
                BY <3>0, <4>1, <4>2, <4>3, <1>BeginPlace
        <3>3. ASSUME NEW i \in Inode, NEW s \in Stripe, NEW t \in Tier, MoveBegin(p, i, s, t)
              PROVE  PlaceInv'
            BY <3>3, <1>MoveBeginPlace
        <3>4. CASE AppendRecord(p)
            <4>1. First(proc[p].todo) \in proc[p].todo
                BY <3>4, NextExtent DEF PlaceInv
            <4> QED
                BY <3>4, <4>1, <1>RecordPlace
        <3> QED
            BY <2>2, <3>1, <3>2, <3>3, <3>4, <1>LockPlace, <1>ActivePlace, <1>ShortPlace, <1>SyncPlace,
               <1>CommitPlace, <1>MoveReadPlace DEF WriteStep
    <2>3. ASSUME NEW i \in Inode, NEW n \in Stripe, Truncate(i, n) PROVE PlaceInv'
        BY <2>3, <1>DropPlace DEF Truncate
    <2>4. ASSUME NEW i \in Inode, DeleteInode(i) PROVE PlaceInv'
        BY <2>4, <1>DropPlace DEF DeleteInode
    <2>5. CASE GcStep
        BY <2>5, <1>GcPlace, <1>CollectPlace DEF GcStep
    <2>6. CASE ReadAt \/ \E i \in Inode, s \in Stripe : PlanRead(i, s)
        BY <2>6, <1>ReadPlace
    <2>7. CASE Crash
        BY <2>7, <1>CrashPlace
    <2> QED
        BY <2>1, <2>2, <2>3, <2>4, <2>5, <2>6, <2>7 DEF Next

<1> QED
    BY <1>PlaceNext

-----------------------------------------------------------------------------
(* In which order writes win *)

Key == Inode \X Stripe

\* The seqs a call has taken.
Pending(q) == {e.seq : e \in q.todo} \cup {f.seq : f \in q.frags}

Appending(p) == proc[p].kind = "append" /\ Busy(p)

\* Write ids are those of calls, and the index holds committed writes.
Committed ==
    /\ \A w \in 1 .. Len(before) : before[w] \subseteq 1 .. Len(before)
    /\ \A k \in Key : done[k] \subseteq 1 .. Len(before)
    /\ \A f \in db : f.wid \in done[<<f.inode, f.stripe>>]

\* A write in flight is nobody else's, and nobody has seen it committed.
Uncommitted ==
    /\ \A p \in Proc : Writing(p) =>
          /\ proc[p].wid \in 1 .. Len(before)
          /\ \A k \in Key : proc[p].wid \notin done[k]
          /\ \A w \in 1 .. Len(before) : proc[p].wid \notin before[w]
    /\ \A p, r \in Proc :
          p # r /\ Writing(p) /\ Writing(r) => proc[p].wid # proc[r].wid

\* A stripe that was written has fragments, and one that some later write has
\* superseded is not the newest of them.
Superseded ==
    "overtaken" \notin met =>
        /\ \A k \in Key : done[k] # {} => Of(db, k[1], k[2]) # {}
        /\ \A k \in Key : \A w \in done[k] : \A f \in Of(db, k[1], k[2]) :
              f.wid \in before[w] => \E g \in Of(db, k[1], k[2]) : f.seq < g.seq

\* An append in flight has seqs above those of the writes it has seen
\* committed, also when a move is about to stamp them anew.
Ahead ==
    "overtaken" \notin met =>
        \A p \in Proc : Appending(p) => \A n \in Pending(proc[p]) :
            /\ \A f \in db : f.wid \in before[proc[p].wid] => f.seq < n
            /\ \A m \in Proc : Moving(m) /\ proc[m].wid \in before[proc[p].wid]
                  => \A d \in Pending(proc[m]) : d < n

OrderInv == Committed /\ Uncommitted /\ Superseded /\ Ahead

\* A call goes on with the seqs it has, or ends.
Follows(q, r) ==
    \/ r.pc = "idle"
    \/ q.pc # "idle" /\ r.kind = q.kind /\ r.wid = q.wid /\ Pending(r) \subseteq Pending(q)

\* Every step keeps OrderInv.
LEMMA OrderKept ==
    ASSUME SetLaws
    PROVE  Struct /\ OrderInv /\ [Next]_vars => OrderInv'

\* So does every step that neither begins nor commits anything.
<1>OrderQuiet.
    ASSUME OrderInv, UNCHANGED <<db, done, before>>, met \subseteq met',
           \A r \in Proc : Follows(proc[r], proc'[r])
    PROVE  OrderInv'
    <2> USE <1>OrderQuiet
    <2>1. Committed'
        BY DEF OrderInv, Committed
    <2>2. Superseded'
        BY DEF OrderInv, Superseded
    <2>3. \A r \in Proc : Writing(r)' => Writing(r) /\ proc'[r].wid = proc[r].wid
        BY DEF Writing, Busy, Follows
    <2>4. Uncommitted'
        BY <2>3 DEF OrderInv, Uncommitted
    <2>5. \A r \in Proc : Appending(r)' => /\ Appending(r) /\ proc'[r].wid = proc[r].wid
                                           /\ Pending(proc'[r]) \subseteq Pending(proc[r])
        BY DEF Appending, Busy, Follows
    <2>6. \A r \in Proc : Moving(r)' => /\ Moving(r) /\ proc'[r].wid = proc[r].wid
                                        /\ Pending(proc'[r]) \subseteq Pending(proc[r])
        BY DEF Moving, Busy, Follows
    <2>7. Ahead'
        <3>1. SUFFICES ASSUME "overtaken" \notin met', NEW p \in Proc, Appending(p)',
                              NEW n \in Pending(proc'[p])
                       PROVE  /\ \A f \in db' : f.wid \in before'[proc'[p].wid] => f.seq < n
                              /\ \A m \in Proc :
                                    Moving(m)' /\ proc'[m].wid \in before'[proc'[p].wid]
                                        => \A d \in Pending(proc'[m]) : d < n
            BY DEF Ahead
        <3>2. Appending(p) /\ proc'[p].wid = proc[p].wid /\ n \in Pending(proc[p])
            BY <2>5, <3>1
        <3>3. "overtaken" \notin met
            BY <3>1
        <3> QED
            BY <2>6, <3>2, <3>3 DEF OrderInv, Ahead
    <2> QED
        BY <2>1, <2>2, <2>4, <2>7 DEF OrderInv

\* Such a step of one writer.
<1>OrderBecomes.
    ASSUME Struct, OrderInv, UNCHANGED <<db, done, before>>, met \subseteq met',
           NEW p \in Proc, NEW q \in Writer, Becomes(p, q),
           q = Idle \/ Continues(proc[p], q)
    PROVE  OrderInv'
    <2> USE <1>OrderBecomes
    <2>1. proc'[p] = q /\ \A r \in Proc : r # p => proc'[r] = proc[r]
        BY BecomesEffect DEF Struct
    <2>2. Follows(proc[p], q)
        <3>1. CASE q = Idle
            BY <3>1, IdleWriter DEF Follows
        <3>2. CASE Continues(proc[p], q)
            <4>1. \A n \in Pending(q) : n \in Pending(proc[p])
                BY <3>2 DEF Continues, Pending
            <4> QED
                BY <3>2, <4>1 DEF Continues, Follows
        <3> QED
            BY <3>1, <3>2
    <2>3. \A r \in Proc : Follows(proc[r], proc[r])
        BY DEF Follows
    <2>4. \A r \in Proc : Follows(proc[r], proc'[r])
        BY <2>1, <2>2, <2>3
    <2> QED
        BY <2>4, <1>OrderQuiet

\* AppendLock, BulkLock, BulkAbort, WriteFails and SyncTouched.
<1>LockOrder.
    ASSUME Struct, OrderInv, NEW p \in Proc,
           \/ AppendLock(p) \/ BulkLock(p) \/ BulkAbort(p) \/ WriteFails(p)
           \/ SyncTouched(p)
    PROVE  OrderInv'
    <2> USE <1>LockOrder
    <2>1. /\ UNCHANGED <<db, done, before, met>> /\ proc[p].pc # "idle"
          /\ Return(p) \/ \E pc \in Pc : Goto(p, pc)
        BY DEF AppendLock, BulkLock, BulkAbort, WriteFails, SyncTouched, hist, Pc
    <2>2. CASE Return(p)
        <3>1. Becomes(p, Idle)
            BY <2>2 DEF Return, Becomes
        <3> QED
            BY <2>1, <3>1, IdleWriter, <1>OrderBecomes
    <2>3. ASSUME NEW pc \in Pc, Goto(p, pc) PROVE OrderInv'
        <3> DEFINE q == [proc[p] EXCEPT !.pc = pc]
        <3>1. proc[p] \in Writer
            BY DEF Struct, Shapes
        <3>2. q \in Writer /\ Becomes(p, q)
            BY <2>3, <3>1 DEF Writer, Goto, Becomes
        <3>3. Continues(proc[p], q)
            BY <2>1, <3>1 DEF Writer, Continues
        <3> HIDE DEF q
        <3> QED
            BY <2>1, <3>2, <3>3, <1>OrderBecomes
    <2> QED
        BY <2>1, <2>2, <2>3

\* What a commit adds: fragments of the call's write, for the stripes that it
\* counts as written.
<1>CommitFrags.
    ASSUME Struct, NEW p \in Proc, Commit(p)
    PROVE  /\ db' = (db \ proc[p].old) \cup Stamped(p) /\ Stamped(p) \subseteq Frag
           /\ \A g \in Stamped(p) : \E f \in proc[p].frags :
                 /\ SameRecord(f, g) /\ f.inode = proc[p].inode /\ f.wid = proc[p].wid
                 /\ IF proc[p].kind = "bulk" THEN seq < g.seq ELSE g = f
           /\ \A f \in proc[p].frags : \E g \in Stamped(p) : SameRecord(f, g)
           /\ proc[p].frags # {} /\ proc[p].frags \subseteq Frag
           /\ \A k \in Key :
                 done'[k] = IF /\ proc[p].kind # "move"
                               /\ \E f \in proc[p].frags : f.inode = k[1] /\ f.stripe = k[2]
                            THEN done[k] \cup {proc[p].wid} ELSE done[k]
    <2> USE <1>CommitFrags
    <2> DEFINE a == proc[p]
               top == IF a.kind = "bulk" THEN seq + NumStripes ELSE seq
    <2>1. top \in Nat
        BY SMTT(30), IndexAssumption DEF Struct, Shapes
    <2>2. /\ Stamped(p) \subseteq Frag
          /\ \A g \in Stamped(p) : \E f \in a.frags :
                SameRecord(f, g) /\ IF a.kind = "bulk" THEN seq < g.seq ELSE g = f
          /\ \A f \in a.frags : \E g \in Stamped(p) : SameRecord(f, g)
        <3>1. top = IF proc[p].kind = "bulk" THEN seq + NumStripes ELSE seq
            OBVIOUS
        <3> HIDE DEF top
        <3> QED
            BY <2>1, <3>1, StampedFrags
    <2>3. /\ a.frags # {} /\ a.frags \subseteq Frag
          /\ \A f \in a.frags : f.inode = a.inode /\ f.wid = a.wid
        BY WriterFacts DEF Commit, CallOK
    <2>4. ASSUME NEW k \in Key
          PROVE  done'[k] = IF /\ a.kind # "move"
                               /\ \E f \in a.frags : f.inode = k[1] /\ f.stripe = k[2]
                            THEN done[k] \cup {a.wid} ELSE done[k]
        <3>1. k \in DOMAIN done
            BY DEF Struct, Shapes, Key
        <3>2. k \in {<<a.inode, f.stripe>> : f \in a.frags}
                 <=> \E f \in a.frags : f.inode = k[1] /\ f.stripe = k[2]
            BY SMTT(30), <2>3 DEF Key
        <3>3. done'[k] = IF k \in {<<a.inode, f.stripe>> : f \in a.frags} /\ a.kind # "move"
                         THEN done[k] \cup {a.wid} ELSE done[k]
            BY <3>1 DEF Commit
        <3> QED
            BY <3>2, <3>3
    <2>5. db' = (db \ a.old) \cup Stamped(p)
        BY DEF Commit
    <2> QED
        BY <2>2, <2>3, <2>4, <2>5

\* The commit of an append or a bulk session.
<1>WriteCommits.
    ASSUME Struct, OrderInv, NEW p \in Proc, Commit(p), proc[p].kind # "move"
    PROVE  OrderInv'
    <2> USE <1>WriteCommits
    <2> DEFINE a == proc[p]
               Hits(k) == \E f \in a.frags : f.inode = k[1] /\ f.stripe = k[2]
    <2>1. UNCHANGED <<before, met>> /\ Becomes(p, Idle) /\ a.pc = "commit" /\ seq \in Nat
        BY CommitStruct DEF Commit, Struct, Shapes
    <2>2. proc'[p] = Idle /\ \A r \in Proc : r # p => proc'[r] = proc[r]
        BY <2>1, IdleWriter, BecomesEffect DEF Struct
    <2>3. db' = db \cup Stamped(p) /\ db \subseteq Frag /\ Stamped(p) \subseteq Frag
        <3>1. a.old = {}
            BY WriterFacts DEF CallOK
        <3> QED
            BY <3>1, <1>CommitFrags DEF Struct, Shapes
    <2>4. ASSUME NEW k \in Key
          PROVE  done'[k] = IF Hits(k) THEN done[k] \cup {a.wid} ELSE done[k]
        BY <1>CommitFrags
    <2>5. ASSUME NEW g \in Stamped(p)
          PROVE  g.wid = a.wid /\ <<g.inode, g.stripe>> \in Key /\ Hits(<<g.inode, g.stripe>>)
        <3>1. PICK f \in a.frags : SameRecord(f, g) /\ f.wid = a.wid
            BY <1>CommitFrags
        <3>2. g \in Frag
            BY <2>3
        <3> QED
            BY <3>1, <3>2 DEF SameRecord, Frag, Key
    <2>6. /\ a.wid \in 1 .. Len(before) /\ \A k \in Key : a.wid \notin done[k]
          /\ \A w \in 1 .. Len(before) : a.wid \notin before[w]
        BY <2>1 DEF OrderInv, Uncommitted, Writing, Busy
    <2>7. ASSUME NEW k \in Key, Hits(k)
          PROVE  \E g \in Of(db', k[1], k[2]) : g \in Stamped(p)
        <3>1. PICK f \in a.frags : f.inode = k[1] /\ f.stripe = k[2]
            BY <2>7
        <3>2. PICK g \in Stamped(p) : SameRecord(f, g)
            BY <1>CommitFrags
        <3> QED
            BY <2>3, <3>1, <3>2 DEF SameRecord, Of
    <2>8. \A k \in Key : done[k] \subseteq 1 .. Len(before) /\ done'[k] \subseteq 1 .. Len(before)
        <3>1. ASSUME NEW k \in Key
              PROVE  done[k] \subseteq 1 .. Len(before) /\ done'[k] \subseteq done[k] \cup {a.wid}
            <4> HIDE DEF Hits
            <4> QED
                BY <2>4 DEF OrderInv, Committed
        <3> QED
            BY <2>6, <3>1
    <2>9. Committed'
        <3>1. ASSUME NEW f \in db' PROVE f.wid \in done'[<<f.inode, f.stripe>>]
            <4>1. CASE f \in db
                <5>1. <<f.inode, f.stripe>> \in Key /\ f.wid \in done[<<f.inode, f.stripe>>]
                    BY <2>3, <4>1 DEF OrderInv, Committed, Frag, Key
                <5> QED
                    BY <2>4, <5>1
            <4>2. CASE f \in Stamped(p)
                BY <2>4, <2>5, <4>2
            <4> QED
                BY <2>3, <4>1, <4>2
        <3> QED
            BY <2>1, <2>8, <3>1 DEF OrderInv, Committed
    <2>10. \A r \in Proc : /\ Writing(r)' => r # p /\ Writing(r) /\ proc'[r] = proc[r]
                           /\ Appending(r)' => r # p /\ Appending(r) /\ proc'[r] = proc[r]
                           /\ Moving(r)' => Moving(r) /\ proc'[r] = proc[r]
        BY <2>2, IdleWriter DEF Writing, Appending, Moving, Busy
    <2>11. Uncommitted'
        <3>1. ASSUME NEW r \in Proc, Writing(r)'
              PROVE  /\ proc'[r].wid \in 1 .. Len(before')
                     /\ \A k \in Key : proc'[r].wid \notin done'[k]
                     /\ \A w \in 1 .. Len(before') : proc'[r].wid \notin before'[w]
            <4>1. Writing(r) /\ proc'[r] = proc[r] /\ proc[r].wid # a.wid
                BY <2>1, <2>10, <3>1 DEF OrderInv, Uncommitted, Writing, Busy
            <4>2. ASSUME NEW k \in Key
                  PROVE  proc[r].wid \notin done'[k]
                <5>1. proc[r].wid \notin done[k]
                    BY <4>1 DEF OrderInv, Uncommitted
                <5>2. done'[k] = done[k] \cup {a.wid} \/ done'[k] = done[k]
                    BY <2>4
                <5> HIDE DEF a
                <5> QED
                    BY SMTT(30), <4>1, <5>1, <5>2
            <4> QED
                BY <2>1, <4>1, <4>2 DEF OrderInv, Uncommitted
        <3>2. \A r, s \in Proc : r # s /\ Writing(r)' /\ Writing(s)' => proc'[r].wid # proc'[s].wid
            BY <2>10 DEF OrderInv, Uncommitted
        <3> QED
            BY <3>1, <3>2 DEF Uncommitted
    <2>12. Superseded'
        <3>1. SUFFICES ASSUME "overtaken" \notin met, NEW k \in Key
                       PROVE  /\ done'[k] # {} => Of(db', k[1], k[2]) # {}
                              /\ \A w \in done'[k] : \A f \in Of(db', k[1], k[2]) :
                                    f.wid \in before[w] =>
                                        \E g \in Of(db', k[1], k[2]) : f.seq < g.seq
            BY <2>1 DEF Superseded
        <3>2. Of(db, k[1], k[2]) \subseteq Of(db', k[1], k[2])
            BY <2>3 DEF Of
        <3>3. done'[k] # {} => Of(db', k[1], k[2]) # {}
            <4>1. CASE Hits(k)
                BY <2>7, <4>1
            <4>2. CASE ~Hits(k)
                <5>1. done'[k] = done[k]
                    BY <2>4, <4>2
                <5> QED
                    BY <3>1, <3>2, <5>1 DEF OrderInv, Superseded
            <4> QED
                BY <4>1, <4>2
        <3>4. ASSUME NEW w \in done'[k], NEW f \in Of(db', k[1], k[2]), f.wid \in before[w]
              PROVE  \E g \in Of(db', k[1], k[2]) : f.seq < g.seq
            <4>1. f \in db /\ f \in Of(db, k[1], k[2]) /\ f.seq \in Nat /\ f.seq <= seq
                <5>1. f \notin Stamped(p)
                    BY <2>5, <2>6, <2>8, <3>4
                <5>2. f \in db /\ f \in Of(db, k[1], k[2])
                    BY <2>3, <3>4, <5>1 DEF Of
                <5> QED
                    BY <5>2 DEF Struct, Shapes, Frag
            <4>2. CASE w \in done[k]
                <5>1. PICK g \in Of(db, k[1], k[2]) : f.seq < g.seq
                    BY <3>1, <3>4, <4>1, <4>2 DEF OrderInv, Superseded
                <5> QED
                    BY <3>2, <5>1
            <4>3. CASE w \notin done[k]
                <5>1. w = a.wid /\ Hits(k)
                    BY <2>4, <3>4, <4>3
                <5>2. PICK g \in Of(db', k[1], k[2]) : g \in Stamped(p)
                    BY <2>7, <5>1
                <5>3. PICK e \in a.frags : IF a.kind = "bulk" THEN seq < g.seq ELSE g = e
                    BY <5>2, <1>CommitFrags
                <5>4. CASE a.kind = "bulk"
                    <6>1. seq < g.seq /\ g.seq \in Nat
                        BY <2>3, <5>2, <5>3, <5>4 DEF Frag
                    <6>2. f.seq < g.seq
                        BY SMTT(30), <2>1, <4>1, <6>1
                    <6> QED
                        BY <5>2, <6>2
                <5>5. CASE a.kind # "bulk"
                    <6>1. Appending(p) /\ g.seq \in Pending(a)
                        <7>1. a.kind = "append"
                            BY <5>5, WriterFacts DEF Writer
                        <7> QED
                            BY <2>1, <5>3, <5>5, <7>1 DEF Appending, Busy, Pending
                    <6>2. f.seq < g.seq
                        BY <3>1, <3>4, <4>1, <5>1, <6>1 DEF OrderInv, Ahead
                    <6> QED
                        BY <5>2, <6>2
                <5> QED
                    BY <5>4, <5>5
            <4> QED
                BY <4>2, <4>3
        <3> QED
            BY <3>3, <3>4
    <2>13. Ahead'
        <3>1. SUFFICES ASSUME "overtaken" \notin met', NEW r \in Proc, Appending(r)',
                              NEW n \in Pending(proc'[r])
                       PROVE  /\ \A f \in db' : f.wid \in before'[proc'[r].wid] => f.seq < n
                              /\ \A m \in Proc :
                                    Moving(m)' /\ proc'[m].wid \in before'[proc'[r].wid]
                                        => \A d \in Pending(proc'[m]) : d < n
            BY DEF Ahead
        <3>2. Appending(r) /\ proc'[r] = proc[r] /\ "overtaken" \notin met
            BY <2>1, <2>10, <3>1
        <3>3. proc[r].wid \in 1 .. Len(before)
            BY <3>2 DEF OrderInv, Uncommitted, Appending, Writing
        <3>4. ASSUME NEW f \in db', f.wid \in before[proc[r].wid] PROVE f.seq < n
            <4>1. f \in db
                BY <2>3, <2>5, <2>6, <3>3, <3>4
            <4> QED
                BY <3>1, <3>2, <3>4, <4>1 DEF OrderInv, Ahead
        <3>5. \A m \in Proc : Moving(m)' /\ proc'[m].wid \in before[proc[r].wid]
                                  => \A d \in Pending(proc'[m]) : d < n
            BY <2>10, <3>1, <3>2 DEF OrderInv, Ahead
        <3> QED
            BY <2>1, <3>2, <3>4, <3>5
    <2> QED
        BY <2>9, <2>11, <2>12, <2>13 DEF OrderInv

\* Truncate and DeleteInode forget whole stripes.
<1>DropOrder.
    ASSUME Struct, OrderInv, NEW gone, Drop(gone)
    PROVE  OrderInv'
    <2> USE <1>DropOrder
    <2>1. /\ db' = {f \in db : <<f.inode, f.stripe>> \notin gone}
          /\ UNCHANGED <<proc, before, met>>
        BY DEF Drop
    <2>2. \A k \in Key : done'[k] = IF k \in gone THEN {} ELSE done[k]
        BY DEF Drop, Struct, Shapes, Key
    <2>3. db \subseteq Frag
        BY DEF Struct, Shapes
    <2>4. Committed'
        <3>1. \A f \in db' : f.wid \in done'[<<f.inode, f.stripe>>]
            BY <2>1, <2>2, <2>3 DEF OrderInv, Committed, Frag, Key
        <3>2. \A k \in Key : done'[k] \subseteq 1 .. Len(before)
            BY <2>2 DEF OrderInv, Committed
        <3> QED
            BY <2>1, <3>1, <3>2 DEF OrderInv, Committed
    <2>5. Uncommitted'
        <3>1. \A r \in Proc : Writing(r)' <=> Writing(r)
            BY <2>1 DEF Writing, Busy
        <3> QED
            BY <2>1, <2>2, <3>1 DEF OrderInv, Uncommitted
    <2>6. ASSUME NEW k \in Key, k \notin gone PROVE Of(db', k[1], k[2]) = Of(db, k[1], k[2])
        <3>1. \A f \in db : f.inode = k[1] /\ f.stripe = k[2] => <<f.inode, f.stripe>> = k
            BY SMTT(30) DEF Key
        <3> QED
            BY <2>1, <2>6, <3>1 DEF Of
    <2>7. Superseded'
        <3>1. SUFFICES ASSUME "overtaken" \notin met, NEW k \in Key
                       PROVE  /\ done'[k] # {} => Of(db', k[1], k[2]) # {}
                              /\ \A w \in done'[k] : \A f \in Of(db', k[1], k[2]) :
                                    f.wid \in before[w] =>
                                        \E g \in Of(db', k[1], k[2]) : f.seq < g.seq
            BY <2>1 DEF Superseded
        <3>2. CASE k \in gone
            BY <2>2, <3>2
        <3>3. CASE k \notin gone
            BY <2>2, <2>6, <3>1, <3>3 DEF OrderInv, Superseded
        <3> QED
            BY <3>2, <3>3
    <2>8. Ahead'
        BY <2>1 DEF OrderInv, Ahead, Appending, Moving, Busy
    <2> QED
        BY <2>4, <2>5, <2>7, <2>8 DEF OrderInv

\* ActiveCtx, AppendCtx and the read of a move.
<1>RecordOrder.
    ASSUME Struct, OrderInv, NEW p \in Proc,
           ActiveSegment(p) \/ AppendRecord(p) \/ ShortWrite(p) \/ MoveRead(p)
    PROVE  OrderInv'
    <2> USE <1>RecordOrder
    <2>1. CASE ActiveSegment(p)
        <3>1. UNCHANGED <<db, done, before>> /\ met \subseteq met'
            BY <2>1 DEF ActiveSegment, hist
        <3>2. PICK q \in Writer : Becomes(p, q) /\ Continues(proc[p], q)
            BY <2>1, ActiveStruct
        <3> QED
            BY <3>1, <3>2, <1>OrderBecomes
    <2>2. CASE AppendRecord(p)
        <3>1. UNCHANGED <<db, done, before>> /\ met \subseteq met'
            BY <2>2 DEF AppendRecord, hist
        <3>2. \E q \in Writer : Becomes(p, q) /\ (q = Idle \/ Continues(proc[p], q))
            BY <2>2, NextExtent, RecordStruct, RecordFailsStruct, IdleWriter
        <3> QED
            BY <3>1, <3>2, <1>OrderBecomes
    <2>3. CASE ShortWrite(p)
        BY <2>3, ShortStruct, IdleWriter, <1>OrderBecomes
    <2>4. CASE MoveRead(p)
        <3>1. UNCHANGED <<db, done, before>> /\ met \subseteq met'
            BY <2>4 DEF MoveRead, hist
        <3>2. \E q \in Writer : Becomes(p, q) /\ (q = Idle \/ Continues(proc[p], q))
            BY <2>4, MoveReadStruct, IdleWriter
        <3> QED
            BY <3>1, <3>2, <1>OrderBecomes
    <2> QED
        BY <2>1, <2>2, <2>3, <2>4

\* The numbers up to n + 1.
<1>UpToNext.
    ASSUME NEW n \in Nat
    PROVE  /\ \A w \in 1 .. n + 1 : w = n + 1 \/ w \in 1 .. n
           /\ \A w \in 1 .. n : w \in 1 .. n + 1
    BY SMTT(30)

\* A call begins: its id is new, it has seen every committed write, and its
\* seqs are above every seq in use.
<1>BeginOrder.
    ASSUME Struct, OrderInv, NEW p \in Proc, NEW i \in Inode,
           NEW S \in SUBSET Stripe, S # {}, NEW t \in Tier, NEW kind, NEW pc,
           NEW first \in Nat, BeginWrite(p, i, S, t, kind, pc, first),
           \/ kind = "append" /\ pc = "rlock" /\ first = seq
           \/ kind = "bulk" /\ pc = "active"
    PROVE  OrderInv'
    <2> USE <1>BeginOrder
    <2> DEFINE U == UNION {done[k] : k \in DOMAIN done}
               T == Extents(S, first)
               n == Len(before)
               q == [Idle EXCEPT !.pc = pc, !.kind = kind, !.inode = i, !.wid = n + 1,
                                 !.tier = t, !.todo = T]
    <2>1. /\ before' = Append(before, U) /\ proc' = [proc EXCEPT ![p] = q]
          /\ UNCHANGED <<db, done>> /\ proc[p].pc = "idle" /\ met \subseteq met'
        BY DEF BeginWrite, Meets
    <2>2. /\ T \subseteq Extent /\ \A e \in T : first < e.seq
        BY ExtentsNumbered
    <2>3. /\ before \in Seq(SUBSET Nat) /\ done \in [Key -> SUBSET Nat] /\ db \subseteq Frag
          /\ seq \in Nat /\ \A f \in db : f.seq <= seq
        BY DEF Struct, Shapes, Key
    <2>4. \A k \in Key : done[k] \subseteq 1 .. n
        BY DEF OrderInv, Committed
    <2>5. U \subseteq 1 .. n
        BY <2>3, <2>4
    <2> HIDE DEF U, T
    <2>6. /\ n \in Nat /\ Len(before') = n + 1 /\ before'[n + 1] = U
          /\ \A w \in 1 .. n : before'[w] = before[w]
        <3>1. U \in SUBSET Nat
            BY SMTT(30), <2>5
        <3> QED
            BY SMTT(30), <2>1, <2>3, <3>1
    <2>7. /\ proc'[p] = q /\ \A r \in Proc : r # p => proc'[r] = proc[r]
        BY <2>1 DEF Struct, Shapes
    <2>8. q.pc = pc /\ q.kind = kind /\ q.wid = n + 1 /\ q.todo = T /\ q.frags = {}
        BY DEF Idle
    <2> HIDE DEF q
    <2>9. \A r \in Proc : (Writing(r)' /\ r # p => Writing(r)) /\ (Moving(r)' => r # p /\ Moving(r))
                          /\ (Appending(r)' /\ r # p => Appending(r))
        BY <2>7, <2>8 DEF Writing, Moving, Appending, Busy
    <2>10. Committed'
        <3>1. ASSUME NEW w \in 1 .. n + 1 PROVE before'[w] \subseteq 1 .. n + 1
            <4>1. CASE w = n + 1
                <5>1. before'[w] = U /\ n \in Nat
                    BY <2>6, <4>1
                <5> HIDE DEF n
                <5> QED
                    BY SMTT(30), <2>5, <5>1
            <4>2. CASE w \in 1 .. n
                BY SMTT(30), <2>6, <4>2 DEF OrderInv, Committed
            <4> QED
                BY <2>6, <4>1, <4>2, <1>UpToNext
        <3>2. \A k \in Key : done'[k] \subseteq 1 .. n + 1
            BY SMTT(30), <2>1, <2>4, <2>6
        <3>3. \A f \in db' : f.wid \in done'[<<f.inode, f.stripe>>]
            BY <2>1 DEF OrderInv, Committed
        <3> QED
            BY <2>6, <3>1, <3>2, <3>3 DEF Committed
    <2>11. Uncommitted'
        <3>1. ASSUME NEW r \in Proc, Writing(r)'
              PROVE  /\ proc'[r].wid \in 1 .. Len(before')
                     /\ \A k \in Key : proc'[r].wid \notin done'[k]
                     /\ \A w \in 1 .. Len(before') : proc'[r].wid \notin before'[w]
            <4>1. CASE r = p
                <5>1. proc'[r].wid = n + 1 /\ n + 1 \in 1 .. n + 1 /\ ~(n + 1 \in 1 .. n)
                    BY SMTT(30), <2>6, <2>7, <2>8, <4>1
                <5>2. \A k \in Key : n + 1 \notin done'[k]
                    BY <2>1, <2>4, <5>1
                <5>3. ASSUME NEW w \in 1 .. n + 1 PROVE n + 1 \notin before'[w]
                    <6>1. CASE w = n + 1
                        BY <2>5, <2>6, <5>1, <6>1
                    <6>2. CASE w \in 1 .. n
                        BY <2>6, <5>1, <6>2 DEF OrderInv, Committed
                    <6> QED
                        BY <2>6, <6>1, <6>2, <1>UpToNext
                <5> QED
                    BY <2>6, <5>1, <5>2, <5>3
            <4>2. CASE r # p
                <5>1. Writing(r) /\ proc'[r] = proc[r]
                    BY <2>7, <2>9, <3>1, <4>2
                <5>2. proc[r].wid \in 1 .. n /\ \A k \in Key : proc[r].wid \notin done[k]
                    BY <5>1 DEF OrderInv, Uncommitted
                <5>3. ASSUME NEW w \in 1 .. n + 1 PROVE proc[r].wid \notin before'[w]
                    <6>1. CASE w = n + 1
                        <7>1. \A k \in DOMAIN done : proc[r].wid \notin done[k]
                            BY <2>3, <5>2
                        <7>2. proc[r].wid \notin U
                            BY <7>1 DEF U
                        <7> QED
                            BY <2>6, <6>1, <7>2
                    <6>2. CASE w \in 1 .. n
                        BY <2>6, <5>1, <6>2 DEF OrderInv, Uncommitted
                    <6> QED
                        BY <2>6, <6>1, <6>2, <1>UpToNext
                <5>4. proc[r].wid \in 1 .. n + 1
                    BY <2>6, <5>2, <1>UpToNext
                <5> QED
                    BY <2>1, <2>6, <5>1, <5>2, <5>3, <5>4
            <4> QED
                BY <4>1, <4>2
        <3>2. ASSUME NEW r \in Proc, NEW s \in Proc, r # s, Writing(r)', Writing(s)'
              PROVE  proc'[r].wid # proc'[s].wid
            <4>1. \A x \in Proc : x # p /\ Writing(x)' => proc'[x].wid \in 1 .. n
                BY <2>7, <2>9 DEF OrderInv, Uncommitted
            <4>2. proc'[p].wid = n + 1
                BY <2>7, <2>8
            <4>3. CASE r # p /\ s # p
                BY <2>7, <2>9, <3>2, <4>3 DEF OrderInv, Uncommitted
            <4> QED
                BY SMTT(30), <2>6, <3>2, <4>1, <4>2, <4>3
        <3> QED
            BY <3>1, <3>2 DEF Uncommitted
    <2>12. Superseded'
        <3>1. \A k \in Key : \A w \in done[k] : before'[w] = before[w]
            BY <2>4, <2>6
        <3> QED
            BY <2>1, <3>1 DEF OrderInv, Superseded
    <2>13. Ahead'
        <3>1. SUFFICES ASSUME "overtaken" \notin met', NEW r \in Proc, Appending(r)',
                              NEW x \in Pending(proc'[r])
                       PROVE  /\ \A f \in db' : f.wid \in before'[proc'[r].wid] => f.seq < x
                              /\ \A m \in Proc :
                                    Moving(m)' /\ proc'[m].wid \in before'[proc'[r].wid]
                                        => \A d \in Pending(proc'[m]) : d < x
            BY DEF Ahead
        <3>2. CASE r = p
            <4>1. x \in Nat /\ seq < x
                <5>1. kind = "append"
                    BY <2>7, <2>8, <3>1, <3>2 DEF Appending
                <5>2. PICK e \in T : x = e.seq
                    BY <2>7, <2>8, <3>1, <3>2 DEF Pending
                <5> QED
                    BY <2>2, <5>1, <5>2 DEF Extent
            <4>2. \A f \in db' : f.seq < x
                BY SMTT(30), <2>1, <2>3, <4>1 DEF Frag
            <4>3. ASSUME NEW m \in Proc, Moving(m)', NEW d \in Pending(proc'[m]) PROVE d < x
                <5>1. Moving(m) /\ proc'[m] = proc[m]
                    BY <2>7, <2>9, <4>3
                <5>2. proc[m] \in Writer /\ CallOK(proc[m], nextID, seq)
                    BY WriterFacts
                <5>3. d \in Nat /\ d <= seq
                    BY SMTT(30), <4>3, <5>1, <5>2 DEF Moving, CallOK, Pending, Writer, Extent, Frag
                <5> QED
                    BY SMTT(30), <2>3, <4>1, <5>3
            <4> QED
                BY <4>2, <4>3
        <3>3. CASE r # p
            <4>1. Appending(r) /\ proc'[r] = proc[r] /\ "overtaken" \notin met
                BY <2>1, <2>7, <2>9, <3>1, <3>3
            <4>2. before'[proc[r].wid] = before[proc[r].wid]
                BY <2>6, <4>1 DEF OrderInv, Uncommitted, Appending, Writing
            <4>3. \A m \in Proc : Moving(m)' => Moving(m) /\ proc'[m] = proc[m]
                BY <2>7, <2>9
            <4> QED
                BY <2>1, <3>1, <4>1, <4>2, <4>3 DEF OrderInv, Ahead
        <3> QED
            BY <3>2, <3>3
    <2> QED
        BY <2>10, <2>11, <2>12, <2>13 DEF OrderInv

\* A move that begins while no append is in flight overtakes none.
<1>MoveBeginOrder.
    ASSUME Struct, OrderInv, NEW p \in Proc, NEW i \in Inode, NEW s \in Stripe,
           NEW t \in Tier, MoveBegin(p, i, s, t)
    PROVE  OrderInv'
    <2> USE <1>MoveBeginOrder
    <2>1. /\ UNCHANGED <<db, done, before>> /\ LockFree /\ met \subseteq met'
          /\ (\E r \in Proc : proc[r].pc = "rlock") => "overtaken" \in met'
        BY MoveBeginStruct
    <2>2. PICK q \in Writer : Becomes(p, q) /\ q.kind = "move"
        BY MoveBeginStruct
    <2>3. proc'[p] = q /\ \A r \in Proc : r # p => proc'[r] = proc[r]
        BY <2>2, BecomesEffect DEF Struct
    <2>4. Committed'
        BY <2>1 DEF OrderInv, Committed
    <2>5. Superseded'
        BY <2>1 DEF OrderInv, Superseded
    <2>6. \A r \in Proc : Writing(r)' => Writing(r) /\ proc'[r] = proc[r]
        BY <2>2, <2>3 DEF Writing, Busy
    <2>7. Uncommitted'
        BY <2>1, <2>6 DEF OrderInv, Uncommitted
    <2>8. ASSUME "overtaken" \notin met', NEW r \in Proc PROVE ~Appending(r)'
        <3>1. CASE r = p
            BY <2>2, <2>3, <3>1 DEF Appending
        <3>2. CASE r # p
            <4>1. proc[r] \in Writer /\ CallOK(proc[r], nextID, seq) /\ proc'[r] = proc[r]
                BY <2>3, <3>2, WriterFacts
            <4>2. proc[r].pc # "rlock" /\ ~RLocked(r)
                BY <2>1, <2>8 DEF LockFree
            <4> QED
                BY <4>1, <4>2 DEF Writer, Pc, CallOK, RLocked, Appending, Busy
        <3> QED
            BY <3>1, <3>2
    <2>9. Ahead'
        BY <2>8 DEF Ahead
    <2> QED
        BY <2>4, <2>5, <2>7, <2>9 DEF OrderInv

\* The commit of a move: the stripe's newest write stays its newest.
<1>MoveCommits.
    ASSUME Struct, OrderInv, NEW p \in Proc, Commit(p), proc[p].kind = "move"
    PROVE  OrderInv'
    <2> USE <1>MoveCommits
    <2> DEFINE a == proc[p]
    <2>1. UNCHANGED <<before, met>> /\ Becomes(p, Idle) /\ a.pc = "commit" /\ Moving(p)
        BY CommitStruct DEF Commit, Moving, Busy
    <2>2. proc'[p] = Idle /\ \A r \in Proc : r # p => proc'[r] = proc[r]
        BY <2>1, IdleWriter, BecomesEffect DEF Struct
    <2>3. /\ db' = (db \ a.old) \cup a.frags /\ a.frags # {} /\ a.frags \subseteq Frag
          /\ db \subseteq Frag /\ \A f \in a.frags : f.inode = a.inode /\ f.wid = a.wid
        <3>1. Stamped(p) = a.frags
            BY DEF Stamped
        <3>2. \A f \in a.frags : f.inode = a.inode /\ f.wid = a.wid
            BY WriterFacts DEF CallOK
        <3> QED
            BY <3>1, <3>2, <1>CommitFrags DEF Struct, Shapes
    <2>4. \A k \in Key : done'[k] = done[k]
        BY <1>CommitFrags
    <2>5. PICK s \in Stripe : /\ a.old = Of(db, a.inode, s) /\ a.old # {}
                              /\ a.wid = Newest(a.old).wid /\ \A f \in a.frags : f.stripe = s
        BY <2>1 DEF Struct, Moves, MoveOK
    <2> DEFINE z == <<a.inode, s>>
               o == Newest(a.old)
    <2>6. z \in Key /\ z[1] = a.inode /\ z[2] = s
        <3>1. a.inode \in Inode
            BY <2>1, WriterFacts DEF CallOK
        <3> QED
            BY <3>1 DEF Key
    <2>7. o \in a.old /\ o \in db /\ o \in Frag /\ \A g \in a.old : g.seq <= o.seq
        <3>1. a.old \subseteq db
            BY <2>5 DEF Of
        <3>2. db \subseteq Frag /\ seq \in Nat /\ \A g \in db : g.seq <= seq
            BY DEF Struct, Shapes
        <3> QED
            BY <2>5, <3>1, <3>2, NewestIsNewest
    <2>8. a.wid = o.wid /\ o.inode = a.inode /\ o.stripe = s
        BY <2>5, <2>7 DEF Of
    <2> HIDE DEF o
    <2>9. Of(db', z[1], z[2]) = a.frags
        BY <2>3, <2>5, <2>6 DEF Of
    <2>10. ASSUME NEW k \in Key, k # z PROVE Of(db', k[1], k[2]) = Of(db, k[1], k[2])
        <3>1. ~(k[1] = a.inode /\ k[2] = s)
            BY SMTT(30), <2>6, <2>10 DEF Key
        <3>2. \A f \in a.old \cup a.frags : f.inode = a.inode /\ f.stripe = s
            BY <2>3, <2>5 DEF Of
        <3> QED
            BY <2>3, <3>1, <3>2 DEF Of
    <2>11. Committed'
        <3>1. ASSUME NEW f \in db' PROVE f.wid \in done'[<<f.inode, f.stripe>>]
            <4>1. f \in Frag /\ <<f.inode, f.stripe>> \in Key
                BY <2>3 DEF Frag, Key
            <4>2. CASE f \in db
                BY <2>4, <4>1, <4>2 DEF OrderInv, Committed
            <4>3. CASE f \in a.frags
                <5>1. <<f.inode, f.stripe>> = z /\ f.wid = o.wid
                    BY <2>3, <2>5, <2>8, <4>3
                <5>2. o.wid \in done[z]
                    BY <2>7, <2>8 DEF OrderInv, Committed
                <5> QED
                    BY <2>4, <2>6, <5>1, <5>2
            <4> QED
                BY <2>3, <4>2, <4>3
        <3> QED
            BY <2>1, <2>4, <3>1 DEF OrderInv, Committed
    <2>12. \A r \in Proc : /\ Writing(r)' => r # p /\ Writing(r) /\ proc'[r] = proc[r]
                           /\ Appending(r)' => r # p /\ Appending(r) /\ proc'[r] = proc[r]
                           /\ Moving(r)' => Moving(r) /\ proc'[r] = proc[r]
        BY <2>2, IdleWriter DEF Writing, Appending, Moving, Busy
    <2>13. Uncommitted'
        BY <2>1, <2>4, <2>12 DEF OrderInv, Uncommitted
    <2>14. Superseded'
        <3>1. SUFFICES ASSUME "overtaken" \notin met, NEW k \in Key
                       PROVE  /\ done[k] # {} => Of(db', k[1], k[2]) # {}
                              /\ \A w \in done[k] : \A f \in Of(db', k[1], k[2]) :
                                    f.wid \in before[w] =>
                                        \E g \in Of(db', k[1], k[2]) : f.seq < g.seq
            BY <2>1, <2>4 DEF Superseded
        <3>2. CASE k # z
            BY <2>10, <3>1, <3>2 DEF OrderInv, Superseded
        <3>3. CASE k = z
            <4>1. Of(db', k[1], k[2]) = a.frags
                BY <2>9, <3>3
            <4>2. Of(db, k[1], k[2]) = a.old
                BY <2>5, <2>6, <3>3
            <4>3. ASSUME NEW w \in done[k], NEW f \in a.frags, f.wid \in before[w] PROVE FALSE
                <5>1. o \in Of(db, k[1], k[2]) /\ o.wid \in before[w]
                    BY <2>3, <2>7, <2>8, <4>2, <4>3
                <5>2. PICK g \in Of(db, k[1], k[2]) : o.seq < g.seq
                    BY <3>1, <5>1 DEF OrderInv, Superseded
                <5>3. g \in Frag /\ g.seq <= o.seq
                    BY <2>3, <2>7, <4>2, <5>2 DEF Of
                <5> QED
                    BY SMTT(30), <2>7, <5>2, <5>3 DEF Frag
            <4> QED
                BY <2>3, <4>1, <4>3
        <3> QED
            BY <3>2, <3>3
    <2>15. Ahead'
        <3>1. SUFFICES ASSUME "overtaken" \notin met', NEW r \in Proc, Appending(r)',
                              NEW n \in Pending(proc'[r])
                       PROVE  /\ \A f \in db' : f.wid \in before'[proc'[r].wid] => f.seq < n
                              /\ \A m \in Proc :
                                    Moving(m)' /\ proc'[m].wid \in before'[proc'[r].wid]
                                        => \A d \in Pending(proc'[m]) : d < n
            BY DEF Ahead
        <3>2. Appending(r) /\ proc'[r] = proc[r] /\ "overtaken" \notin met
            BY <2>1, <2>12, <3>1
        <3>3. ASSUME NEW f \in db', f.wid \in before[proc[r].wid] PROVE f.seq < n
            <4>1. CASE f \in db
                BY <3>1, <3>2, <3>3, <4>1 DEF OrderInv, Ahead
            <4>2. CASE f \in a.frags
                <5>1. a.wid \in before[proc[r].wid] /\ f.seq \in Pending(a)
                    BY <2>3, <3>3, <4>2 DEF Pending
                <5> QED
                    BY <2>1, <3>1, <3>2, <5>1 DEF OrderInv, Ahead
            <4> QED
                BY <2>3, <4>1, <4>2
        <3>4. \A m \in Proc : Moving(m)' /\ proc'[m].wid \in before[proc[r].wid]
                                  => \A d \in Pending(proc'[m]) : d < n
            BY <2>12, <3>1, <3>2 DEF OrderInv, Ahead
        <3> QED
            BY <2>1, <3>2, <3>3, <3>4
    <2> QED
        BY <2>11, <2>13, <2>14, <2>15 DEF OrderInv

\* Every step keeps OrderInv.
<1>OrderNext.
    ASSUME Struct, OrderInv, [Next]_vars PROVE OrderInv'
    <2> USE <1>OrderNext
    <2>1. ASSUME UNCHANGED <<db, done, before, proc>>, met \subseteq met' PROVE OrderInv'
        <3>1. \A r \in Proc : Follows(proc[r], proc'[r])
            BY <2>1 DEF Follows
        <3> QED
            BY <2>1, <3>1, <1>OrderQuiet
    <2>2. CASE UNCHANGED vars
        BY <2>1, <2>2 DEF vars, hist
    <2>3. ASSUME NEW p \in Proc, WriteStep(p) PROVE OrderInv'
        <3>0. seq \in Nat /\ "hot" \in Tier /\ "cold" \in Tier /\ 0 \in Nat
            BY DEF Struct, Shapes, Tier
        <3>1. ASSUME NEW i \in Inode, NEW S \in (SUBSET Stripe) \ {{}}, AppendCall(p, i, S, "hot")
              PROVE  OrderInv'
            <4>1. S \in SUBSET Stripe /\ S # {}
                OBVIOUS
            <4>2. BeginWrite(p, i, S, "hot", "append", "rlock", seq)
                BY <3>1 DEF AppendCall
            <4> QED
                BY <3>0, <4>1, <4>2, <1>BeginOrder
        <3>2. ASSUME NEW i \in Inode, NEW S \in (SUBSET Stripe) \ {{}}, BulkBegin(p, i, S, "cold")
              PROVE  OrderInv'
            <4>1. S \in SUBSET Stripe /\ S # {}
                OBVIOUS
            <4>2. BeginWrite(p, i, S, "cold", "bulk", "active", 0)
                BY <3>2 DEF BulkBegin
            <4> QED
                BY <3>0, <4>1, <4>2, <1>BeginOrder
        <3>3. ASSUME NEW i \in Inode, NEW s \in Stripe, NEW t \in Tier, MoveBegin(p, i, s, t)
              PROVE  OrderInv'
            BY <3>3, <1>MoveBeginOrder
        <3>4. CASE Commit(p)
            BY <3>4, <1>WriteCommits, <1>MoveCommits
        <3> QED
            BY <2>3, <3>1, <3>2, <3>3, <3>4, <1>LockOrder, <1>RecordOrder DEF WriteStep
    <2>4. ASSUME NEW i \in Inode, NEW n \in Stripe, Truncate(i, n) PROVE OrderInv'
        BY <2>4, <1>DropOrder DEF Truncate
    <2>5. ASSUME NEW i \in Inode, DeleteInode(i) PROVE OrderInv'
        BY <2>5, <1>DropOrder DEF DeleteInode
    <2>6. CASE GcStep
        <3>1. UNCHANGED <<db, done, before, proc>> /\ met \subseteq met'
            BY <2>6 DEF GcStep, GcScan, GcActive, GcList, GcSweep, GcRemove, GcRemoveFails, Meets, hist
        <3> QED
            BY <2>1, <3>1
    <2>7. CASE ReadAt \/ \E i \in Inode, s \in Stripe : PlanRead(i, s)
        BY <2>1, <2>7 DEF ReadAt, PlanRead, hist
    <2>8. CASE Crash
        <3>1. UNCHANGED <<db, done, before>> /\ met \subseteq met' /\ \A p \in Proc : proc'[p] = Idle
            BY <2>8, CrashStruct
        <3>2. \A r \in Proc : Follows(proc[r], proc'[r])
            BY <3>1, IdleWriter DEF Follows
        <3> QED
            BY <3>1, <3>2, <1>OrderQuiet
    <2> QED
        BY <2>2, <2>3, <2>4, <2>5, <2>6, <2>7, <2>8 DEF Next

<1> QED
    BY <1>OrderNext

-----------------------------------------------------------------------------
(* The first state *)

\* Open of an empty directory.
LEMMA InitPlace ==
    ASSUME Init PROVE PlaceInv
<1>1. /\ files = [t \in Tier |-> <<>>] /\ size = [t \in Tier |-> <<>>]
      /\ active = [t \in Tier |-> None] /\ nextID = [t \in Tier |-> 0]
      /\ db = {} /\ seq = 0 /\ proc = [p \in Proc |-> Idle]
      /\ gc = NoGC /\ rd = NoRead
      /\ done = [k \in Inode \X Stripe |-> {}] /\ before = <<>> /\ met = {}
    BY DEF Init
<1>2. \A t \in Tier : DOMAIN files[t] = {} /\ DOMAIN size[t] = {} /\ active[t] = None
    BY SMTT(30), <1>1
<1>3. \A p \in Proc : proc[p] = Idle
    BY <1>1
<1>4. Disk
    BY <1>1, <1>2 DEF Disk
<1>5. Shapes
    <2>1. proc \in [Proc -> Writer]
        BY <1>1, IdleWriter
    <2>2. before \in Seq(SUBSET Nat) /\ done \in [Inode \X Stripe -> SUBSET Nat]
        BY SMTT(30), <1>1
    <2>3. gc \in [pc : {"idle", "active", "list", "remove"}, tier : Tier,
               refs : SUBSET (Tier \X (SegId \cup {None})),
               drop : SUBSET (Tier \X SegId)]
        BY <1>1 DEF NoGC, Tier
    <2>4. rd \in [pc : {"idle", "planned"}, frag : SUBSET Frag,
               result : {"none", "ok", "missing", "wrong"}]
        BY <1>1 DEF NoRead
    <2> QED
        BY <1>1, <2>1, <2>2, <2>3, <2>4 DEF Shapes
<1>6. Calls
    BY <1>3, IdleOK DEF Calls
<1>7. Exclusive /\ Moves
    BY <1>3, IdleWriter DEF Exclusive, Locked, Moves, Moving, Busy
<1>8. \A p \in Proc : proc[p].pc = "idle" /\ proc[p].frags = {}
    BY <1>3, IdleWriter
<1>9. Framing
    BY <1>2, <1>8 DEF Framing
<1>10. Located
    <2>1. Known = {} /\ rd.result # "wrong"
        BY <1>1, <1>8 DEF Known, NoRead
    <2> QED
        BY <1>8, <2>1 DEF Located
<1>11. Durable
    <2>1. gc.drop = {} /\ gc.pc = "idle"
        BY <1>1 DEF NoGC
    <2>2. Sound
        BY <1>1, <1>8, <2>1 DEF Sound
    <2> QED
        BY <1>1, <2>1, <2>2 DEF Durable
<1> QED
    BY <1>4, <1>5, <1>6, <1>7, <1>9, <1>10, <1>11 DEF PlaceInv, Struct

\* Before the first call.
LEMMA InitOrder ==
    ASSUME Init PROVE OrderInv
<1>1. /\ db = {} /\ done = [k \in Key |-> {}] /\ before = <<>> /\ met = {}
      /\ proc = [p \in Proc |-> Idle]
    BY DEF Init, Key
<1>2. \A p \in Proc : ~Writing(p) /\ ~Appending(p)
    BY <1>1, IdleWriter DEF Writing, Appending, Busy
<1>3. Len(before) = 0 /\ 1 .. Len(before) = {}
    BY SMTT(30), <1>1
<1>4. Committed /\ Uncommitted
    BY <1>1, <1>2, <1>3 DEF Committed, Uncommitted
<1>5. Superseded /\ Ahead
    BY <1>1, <1>2 DEF Superseded, Ahead, Of
<1> QED
    BY <1>4, <1>5 DEF OrderInv

-----------------------------------------------------------------------------
(* The laws, from the library *)

INSTANCE FiniteSetTheorems

\* The laws of finite sets that the lemmas assume hold.
LEMMA SetLawsHold == SetLaws
<1>1. SizeLaw /\ EmptyLaw /\ SingletonLaw
    BY FS_CardinalityType, FS_EmptySet, FS_Singleton DEF SizeLaw, EmptyLaw, SingletonLaw
<1>2. AddLaw
    BY FS_AddElement DEF AddLaw
<1>3. RemoveLaw
    BY FS_RemoveElement DEF RemoveLaw
<1>4. SubsetLaw
    BY FS_Subset DEF SubsetLaw
<1>5. IntervalLaw
    BY FS_Interval DEF IntervalLaw
<1>6. UnionLaw
    BY FS_Union DEF UnionLaw
<1>7. MeetLaw
    BY FS_Intersection DEF MeetLaw
<1>8. DifferenceLaw
    BY FS_Difference DEF DifferenceLaw
<1>9. FamilyLaw
    BY FS_UNION DEF FamilyLaw
<1>10. SurjectionLaw
    <2>1. ASSUME NEW S, NEW T, NEW f \in [S -> T], IsFiniteSet(S),
                 \A t \in T : \E s \in S : f[s] = t
          PROVE  IsFiniteSet(T) /\ Cardinality(T) <= Cardinality(S)
        <3>1. f \in Surjection(S, T)
            BY <2>1 DEF Surjection
        <3> QED
            BY <2>1, <3>1, FS_Surjection
    <2> QED
        BY <2>1 DEF SurjectionLaw
<1>11. InjectionLaw
    BY FS_Injection DEF InjectionLaw, Injection, IsInjective
<1>12. PigeonLaw
    BY FS_PigeonHole DEF PigeonLaw
<1>13. LeastLaw
    <2>1. SUFFICES ASSUME NEW S \in SUBSET Nat, S # {}
                   PROVE  \E x \in S : \A y \in S : x <= y
        BY DEF LeastLaw
    <2>2. PICK x \in S : \A y \in S : ~(<<y, x>> \in OpToRel(<, Nat))
        <3>1. S \subseteq Nat
            OBVIOUS
        <3> QED
            BY <2>1, <3>1, NatLessThanWellFounded, WFMin
    <2>3. ASSUME NEW y \in S PROVE x <= y
        <3>1. x \in Nat /\ y \in Nat
            OBVIOUS
        <3>2. ~(y < x)
            BY <2>2, <3>1 DEF OpToRel
        <3> QED
            BY SMTT(30), <3>1, <3>2
    <2> QED
        BY <2>3
<1> QED
    BY <1>1, <1>2, <1>3, <1>4, <1>5, <1>6, <1>7, <1>8, <1>9, <1>10, <1>11, <1>12, <1>13
    DEF SetLaws

-----------------------------------------------------------------------------
(* The theorems *)

\* The inductive invariant holds in every reachable state.
THEOREM IndexInvariant == Spec => [](PlaceInv /\ OrderInv)
<1>1. Init => PlaceInv /\ OrderInv
    BY InitPlace, InitOrder, SetLawsHold
<1>2. PlaceInv /\ OrderInv /\ [Next]_vars => (PlaceInv /\ OrderInv)'
    BY PlaceKept, OrderKept, SetLawsHold DEF PlaceInv
<1> QED
    BY <1>1, <1>2, PTL DEF Spec

\* The segment sets stay well formed: open segments are files below nextID,
\* the active one is open, and no file is durable beyond its end.
THEOREM IndexTypes == Spec => []TypeOK
<1>1. PlaceInv => TypeOK
    <2> SUFFICES ASSUME PlaceInv PROVE TypeOK
        OBVIOUS
    <2>1. Disk /\ Shapes
        BY DEF PlaceInv, Struct
    <2>2. ASSUME NEW t \in Tier
          PROVE  /\ DOMAIN size[t] \subseteq DOMAIN files[t]
                 /\ DOMAIN files[t] \subseteq 0 .. nextID[t] - 1
                 /\ active[t] # None => active[t] \in DOMAIN size[t]
        BY SMTT(30), <2>1, IndexAssumption DEF Disk, SegId
    <2>3. ASSUME NEW t \in Tier, NEW id \in DOMAIN files[t]
          PROVE  files[t][id].durable \in 0 .. Len(files[t][id].units)
        <3>1. /\ files[t][id].units \in Seq(Unit) /\ files[t][id].durable \in Nat
              /\ files[t][id].durable <= Len(files[t][id].units)
            BY <2>1 DEF Disk, File
        <3> QED
            BY SMTT(30), <3>1
    <2>4. \A p \in Proc :
             proc[p].pc \in {"idle", "rlock", "read", "active", "write", "lock",
                             "sync", "commit"}
        BY <2>1 DEF Shapes, Writer, Pc
    <2>5. /\ gc.pc \in {"idle", "active", "list", "remove"}
          /\ rd.result \in {"none", "ok", "missing", "wrong"}
        BY <2>1 DEF Shapes
    <2> QED
        BY <2>2, <2>3, <2>4, <2>5 DEF TypeOK
<1> QED
    BY <1>1, IndexInvariant, PTL

\* FragmentsDurable: the batch commits only after the fsync of every segment
\* it touches, so that a fragment of the index points at durable bytes of its
\* own write, whatever rotates, moves, is collected or crashes.
THEOREM CommittedBytesDurable == Spec => []FragmentsDurable
<1>1. PlaceInv => FragmentsDurable
    <2> SUFFICES ASSUME PlaceInv, met \cap {"collected", "short"} = {}, NEW f \in db
                 PROVE  /\ f.seg \in DOMAIN files[f.tier]
                        /\ f.off <= files[f.tier][f.seg].durable
                        /\ ContentAt(f) = f.wid
        BY DEF FragmentsDurable, NeverDangling
    <2>1. Struct /\ Located /\ Durable /\ f \in Frag
        BY DEF PlaceInv, Struct, Shapes
    <2>2. met \cap {"short", "collected"} = {} /\ met \cap {"short", "reseeded"} = {}
        BY <2>1 DEF Durable
    <2>3. Safe(f, files, size) /\ At(f, files, nextID)
        BY <2>1, <2>2 DEF Durable, Sound, Located, Known
    <2>4. f.seg \in DOMAIN files[f.tier] /\ f.off <= files[f.tier][f.seg].durable
        BY <2>1, <2>3 DEF Safe, Kept, Struct, Disk, Frag
    <2>5. files[f.tier][f.seg].units \in Seq(Unit)
        BY <2>1, <2>4 DEF Struct, Disk, File, Frag
    <2>6. ContentAt(f) = f.wid
        BY <2>3, <2>4, <2>5, AtContent
    <2> QED
        BY <2>4, <2>6
<1> QED
    BY <1>1, IndexInvariant, PTL

\* NewestWins: a stripe never reads as a write that was committed before
\* another committed write of it began, through moves, drops and restarts.
THEOREM LaterWritesWin == Spec => []NewestWins
<1>1. PlaceInv /\ OrderInv => NewestWins
    <2> SUFFICES ASSUME PlaceInv, OrderInv, "overtaken" \notin met,
                        NEW k \in DOMAIN done, done[k] # {}
                 PROVE  LET live == Newest(StripeFrags(k[1], k[2])).wid
                        IN  /\ StripeFrags(k[1], k[2]) # {}
                            /\ live \in done[k]
                            /\ \A w \in done[k] : live \notin before[w]
        BY DEF NewestWins
    <2> DEFINE F == StripeFrags(k[1], k[2])
               f == Newest(F)
    <2>1. /\ Struct /\ k \in Key /\ k[1] \in Inode /\ k[2] \in Stripe /\ k = <<k[1], k[2]>>
          /\ db \subseteq Frag
        BY SMTT(30) DEF PlaceInv, Struct, Shapes, Key
    <2>2. F = Of(db, k[1], k[2])
        BY DEF StripeFrags, Of
    <2>3. F # {}
        BY <2>1, <2>2 DEF OrderInv, Superseded
    <2>4. /\ f \in db /\ f \in Frag /\ f.inode = k[1] /\ f.stripe = k[2]
          /\ \A g \in F : g.seq <= f.seq
        BY SMTT(30), <2>1, <2>3, NewestOfStripe, SetLawsHold
    <2> HIDE DEF f, F
    <2>5. f \in F
        BY <2>2, <2>4 DEF Of
    <2>6. f.wid \in done[k]
        BY <2>1, <2>4 DEF OrderInv, Committed
    <2>7. ASSUME NEW w \in done[k], f.wid \in before[w] PROVE FALSE
        <3>1. PICK g \in F : f.seq < g.seq
            BY <2>1, <2>2, <2>5, <2>7 DEF OrderInv, Superseded
        <3>2. g.seq <= f.seq /\ g \in Frag
            BY <2>1, <2>2, <2>4, <3>1 DEF Of
        <3> QED
            BY SMTT(30), <2>4, <3>1, <3>2 DEF Frag
    <2> QED
        BY <2>3, <2>6, <2>7 DEF f, F
<1> QED
    BY <1>1, IndexInvariant, PTL

\* ReadsRightBytes: a read gets the bytes of the write it planned for or
\* finds no segment, even when a pass removes segments beside writers: ids
\* are not given out twice between two restarts.
THEOREM ReadsMatchPlans == Spec => []ReadsRightBytes
<1>1. PlaceInv => ReadsRightBytes
    BY DEF PlaceInv, Located, ReadsRightBytes
<1> QED
    BY <1>1, IndexInvariant, PTL

=============================================================================
