---------------------------- MODULE Migrate_proof ----------------------------
(***************************************************************************)
(* Proofs about module Migrate: a store that serves hands out fresh inodes *)
(* and seqs, and has every legacy key once the legacy file is renamed, for *)
(* any number of legacy inodes, batch size, clock readings and crashes.    *)
(***************************************************************************)
EXTENDS Migrate, WellFoundedInduction, TLAPS

Tag == {"node", "dirent", "blob", "frag"}

LegacyKey == {"node", "dirent", "blob"} \X (1 .. Legacy)

Queued(k) == \E j \in DOMAIN todo : \E n \in DOMAIN todo[j] : todo[j][n] = k

\* The shapes TypeOK leaves out: the buckets in the queue, and a bound on the
\* ids in pebble, which is what makes Max meaningful.
Shape ==
    /\ todo \in Seq(Seq(LegacyKey))
    /\ pc \in {"meta", "copy"} => bolt = "present" /\ current
    /\ pc \in {"store", "serving"} => current
    /\ \E n \in Nat : \A k \in kv : k[2] <= n

\* The counter was copied before the nodes it must be ahead of.
NextAhead ==
    /\ ~current => kv = {} /\ next = 0
    /\ pc = "meta" => kv = {}
    /\ pc = "copy" => next = Legacy + 1
    /\ \A i \in NodeIds : i < next
    /\ pc = "serving" => next > RootInode

\* Seeding made seqGen at least the newest seq.
SeqSeeded == pc \in {"store", "serving"} => \A s \in Seqs : s <= seq

\* A legacy key is in the queue or in pebble; a blob is there whole or split.
Has(i) ==
    /\ <<"node", i>> \in kv /\ <<"dirent", i>> \in kv
    /\ <<"blob", i>> \in kv \/ BlobFrags(i) \subseteq kv

Kept ==
    /\ pc \in {"meta", "copy"} => \A k \in LegacyKey : k \in kv \/ Queued(k)
    /\ bolt = "migrated" => \A i \in 1 .. Legacy : Has(i)
    /\ Blobs \subseteq LegacyKey
    /\ pc \in {"store", "serving"} => Blobs = {}

IInv == TypeOK /\ Shape /\ NextAhead /\ SeqSeeded /\ Kept

-----------------------------------------------------------------------------
\* A non-empty set of naturals with an upper bound has a maximum, so Max(S),
\* which migrateBlobsToFragments computes in its scan, is an upper bound in S.
LEMMA MaxIsUpperBound ==
    ASSUME NEW S, S \subseteq Nat, S # {}, NEW n \in Nat, \A s \in S : s <= n
    PROVE  Max(S) \in S /\ \A s \in S : s <= Max(S)
<1> DEFINE T == {k \in Nat : k <= n /\ n - k \in S}
           R == OpToRel(<, Nat)
<1>1. T \subseteq Nat
    OBVIOUS
<1>2. T # {}
    <2>1. PICK s \in S : TRUE
        BY Zenon
    <2>2. n - s \in T
        BY <2>1
    <2> QED
        BY Zenon, <2>2
<1>3. PICK x \in T : \A y \in T : ~(<<y, x>> \in R)
    <2> HIDE DEF T
    <2> QED
        BY <1>1, <1>2, NatLessThanWellFounded, WFMin, Zenon
<1>4. \A y \in T : ~(y < x)
    BY Zenon, <1>1, <1>3 DEF OpToRel
<1>5. n - x \in S /\ \A s \in S : s <= n - x
    <2>1. n - x \in S /\ x \in Nat
        OBVIOUS
    <2>2. ASSUME NEW s \in S PROVE s <= n - x
        <3>1. n - s \in T
            OBVIOUS
        <3>2. ~(n - s < x)
            BY <1>4, <3>1
        <3> QED
            BY <2>1, <3>2
    <2> QED
        BY <2>1, <2>2
<1>6. \E m \in S : \A s \in S : m >= s
    BY <1>5
<1> QED
    BY Zenon, <1>6 DEF Max

-----------------------------------------------------------------------------
\* The empty store satisfies the invariant.
LEMMA InitIInv == Init => IInv
<1> SUFFICES ASSUME Init PROVE IInv
    OBVIOUS
<1> USE DEF Init
<1>1. TypeOK
    BY Zenon DEF TypeOK
<1>2. Shape
    <2>1. \A k \in kv : k[2] <= 0
        OBVIOUS
    <2> QED
        BY <2>1 DEF Shape
<1>3. NextAhead /\ SeqSeeded /\ Kept
    BY DEF NextAhead, SeqSeeded, Kept, NodeIds, Blobs
<1> QED
    BY <1>1, <1>2, <1>3 DEF IInv

\* A queue keeps its elements behind a new head.
LEMMA BehindHead ==
    ASSUME NEW S, NEW e \in S, NEW q \in Seq(S), NEW j \in 1 .. Len(q)
    PROVE  j + 1 \in DOMAIN (<<e>> \o q) /\ (<<e>> \o q)[j + 1] = q[j]
OBVIOUS

\* copyBucket neither loses nor invents a key: what leaves the queue is in the
\* batch, and the rest of the bucket stays at the head of the queue.
LEMMA CopyKeepsKeys ==
    ASSUME todo \in Seq(Seq(LegacyKey)), copyBucket
    PROVE  /\ todo' \in Seq(Seq(LegacyKey))
           /\ kv' \subseteq kv \cup LegacyKey
           /\ kv \subseteq kv'
           /\ \A k \in LegacyKey : Queued(k) => k \in kv' \/ Queued(k)'
<1> DEFINE b == Head(todo)
           n == IF Len(b) < BatchSize THEN Len(b) ELSE BatchSize
           rest == SubSeq(b, n + 1, Len(b))
<1>1. todo # <<>> /\ b \in Seq(LegacyKey) /\ Tail(todo) \in Seq(Seq(LegacyKey))
    BY DEF copyBucket
<1>2. n \in 0 .. Len(b)
    BY <1>1, MigrateAssumption
<1>3. /\ kv' = kv \cup {b[k] : k \in 1 .. n}
      /\ todo' = IF rest = <<>> THEN Tail(todo) ELSE <<rest>> \o Tail(todo)
    BY DEF copyBucket
<1> HIDE DEF n
<1>4. rest \in Seq(LegacyKey) /\ Len(rest) = Len(b) - n
      /\ \A k \in 1 .. Len(b) - n : rest[k] = b[k + n]
    BY <1>1, <1>2
<1> HIDE DEF b, rest
<1>5. todo' \in Seq(Seq(LegacyKey))
    BY <1>1, <1>3, <1>4
<1>6. kv' \subseteq kv \cup LegacyKey /\ kv \subseteq kv'
    BY <1>1, <1>2, <1>3
<1>7. ASSUME NEW k \in LegacyKey, Queued(k), k \notin kv'
      PROVE  Queued(k)'
    <2>1. PICK j \in DOMAIN todo : \E m \in DOMAIN todo[j] : todo[j][m] = k
        BY <1>7 DEF Queued
    <2>2. PICK m \in DOMAIN todo[j] : todo[j][m] = k
        BY <2>1
    <2>3. CASE j = 1
        <3>1. todo[1] = b /\ m \in 1 .. Len(b) /\ b[m] = k
            BY <1>1, <2>2, <2>3 DEF b
        <3>2. m > n
            BY <1>2, <1>3, <1>7, <3>1
        <3>3. m - n \in 1 .. Len(rest) /\ rest[m - n] = k
            <4>1. m - n \in 1 .. Len(b) - n /\ (m - n) + n = m
                BY <1>1, <1>2, <3>1, <3>2
            <4>2. rest[m - n] = b[(m - n) + n]
                BY <1>4, <4>1
            <4> QED
                BY <1>4, <3>1, <4>1, <4>2
        <3>4. rest # <<>>
            BY <3>3
        <3>5. todo' = <<rest>> \o Tail(todo)
            BY <1>3, <3>4
        <3>6. 1 \in DOMAIN todo' /\ todo'[1] = rest
            BY <1>1, <1>4, <3>5
        <3>7. m - n \in DOMAIN todo'[1] /\ todo'[1][m - n] = k
            BY <1>4, <3>3, <3>6
        <3> QED
            BY <3>6, <3>7 DEF Queued
    <2>4. CASE j # 1
        <3>1. j - 1 \in 1 .. Len(Tail(todo)) /\ Tail(todo)[j - 1] = todo[j]
            BY <1>1, <2>1, <2>4
        <3>2. CASE rest = <<>>
            <4>1. todo' = Tail(todo)
                BY <1>3, <3>2
            <4>2. j - 1 \in DOMAIN todo' /\ todo'[j - 1] = todo[j]
                BY <1>1, <3>1, <4>1
            <4> QED
                BY <2>2, <4>2 DEF Queued
        <3>3. CASE rest # <<>>
            <4>1. todo' = <<rest>> \o Tail(todo)
                BY <1>3, <3>3
            <4>2. j \in DOMAIN todo' /\ todo'[j] = todo[j]
                <5>1. (j - 1) + 1 = j
                    OBVIOUS
                <5>2. j \in DOMAIN (<<rest>> \o Tail(todo))
                      /\ (<<rest>> \o Tail(todo))[j] = Tail(todo)[j - 1]
                    BY <1>1, <1>4, <3>1, <5>1, BehindHead
                <5> QED
                    BY <3>1, <4>1, <5>2
            <4> QED
                BY <2>2, <4>2 DEF Queued
        <3> QED
            BY <3>2, <3>3
    <2> QED
        BY <2>3, <2>4
<1> QED
    BY <1>5, <1>6, <1>7

\* The startup sequence preserves the invariant, step by step: early return,
\* copy, rename, blob split, store.Open, two kinds of operation, crash.
LEMMA NextIInv == IInv /\ [Next]_vars => IInv'
<1> SUFFICES ASSUME IInv, [Next]_vars PROVE IInv'
    OBVIOUS
<1> USE MigrateAssumption
<1> USE DEF IInv
<1>1. CASE NothingToMigrate
    <2>1. TypeOK'
        BY <1>1 DEF NothingToMigrate, TypeOK
    <2>2. Shape'
        BY <1>1 DEF NothingToMigrate, Shape, TypeOK
    <2>3. NextAhead' /\ SeqSeeded' /\ Kept'
        BY <1>1 DEF NothingToMigrate, NextAhead, SeqSeeded, Kept, NodeIds, Has, Blobs
    <2> QED
        BY <2>1, <2>2, <2>3
<1>2. CASE MigrateBegin
    <2>0. /\ Bucket("node") \in Seq(LegacyKey)
          /\ Bucket("dirent") \in Seq(LegacyKey)
          /\ Bucket("blob") \in Seq(LegacyKey)
        BY DEF Bucket, LegacyKey
    <2>1. TypeOK'
        BY <1>2 DEF MigrateBegin, TypeOK
    <2>2. Shape'
        BY <1>2, <2>0 DEF MigrateBegin, Shape, TypeOK
    <2>3. NextAhead' /\ SeqSeeded'
        BY <1>2 DEF MigrateBegin, NextAhead, SeqSeeded, NodeIds
    <2>4. \A k \in LegacyKey : Queued(k)'
        <3> SUFFICES ASSUME NEW k \in LegacyKey PROVE Queued(k)'
            OBVIOUS
        <3>1. PICK tag \in {"node", "dirent", "blob"}, i \in 1 .. Legacy :
                  k = <<tag, i>>
            BY DEF LegacyKey
        <3>2. PICK j \in 1 .. 3 : j \in DOMAIN todo' /\ todo'[j] = Bucket(tag)
            BY <1>2, <3>1 DEF MigrateBegin
        <3>3. i \in DOMAIN todo'[j] /\ todo'[j][i] = k
            BY <3>1, <3>2 DEF Bucket
        <3> QED
            BY <3>2, <3>3 DEF Queued
    <2>5. Kept'
        BY <1>2, <2>4 DEF MigrateBegin, Kept, Has, Blobs
    <2> QED
        BY <2>1, <2>2, <2>3, <2>5
<1>3. CASE MigrateMeta
    <2>1. TypeOK'
        BY <1>3 DEF MigrateMeta, TypeOK
    <2>2. Shape'
        BY <1>3 DEF MigrateMeta, Shape, TypeOK
    <2>3. NextAhead' /\ SeqSeeded'
        BY <1>3 DEF MigrateMeta, NextAhead, SeqSeeded, NodeIds, Shape
    <2>4. Kept'
        BY <1>3 DEF MigrateMeta, Kept, Has, Queued, Blobs
    <2> QED
        BY <2>1, <2>2, <2>3, <2>4
<1>4. CASE copyBucket
    <2>0. /\ todo' \in Seq(Seq(LegacyKey))
          /\ kv' \subseteq kv \cup LegacyKey
          /\ kv \subseteq kv'
          /\ \A k \in LegacyKey : Queued(k) => k \in kv' \/ Queued(k)'
        BY <1>4, CopyKeepsKeys DEF Shape
    <2>a. /\ pc = "copy" /\ pc' = pc
          /\ UNCHANGED <<bolt, current, next, seq, serves, crashes>>
        BY <1>4 DEF copyBucket
    <2>1. TypeOK'
        BY <2>0, <2>a DEF TypeOK, LegacyKey
    <2>2. Shape'
        <3>1. PICK n \in Nat : \A k \in kv : k[2] <= n
            BY DEF Shape
        <3>2. \A k \in kv' : k[2] <= (IF n < Legacy THEN Legacy ELSE n)
            BY <2>0, <3>1 DEF LegacyKey, TypeOK
        <3> QED
            BY Zenon, <2>0, <2>a, <3>2 DEF Shape
    <2>3. NextAhead'
        <3>1. next = Legacy + 1 /\ \A i \in NodeIds : i < next
            BY <2>a DEF NextAhead
        <3>2. \A i \in NodeIds' : i < next
            BY <2>0, <3>1 DEF NodeIds, LegacyKey
        <3> QED
            BY <2>a, <3>1, <3>2 DEF NextAhead, Shape
    <2>4. SeqSeeded'
        BY <2>a DEF SeqSeeded
    <2>5. Kept'
        BY <2>0, <2>a DEF Kept, Shape, Blobs
    <2> QED
        BY <2>1, <2>2, <2>3, <2>4, <2>5
<1>5. CASE MigrateRename
    <2>1. TypeOK'
        BY <1>5 DEF MigrateRename, TypeOK
    <2>2. Shape'
        BY <1>5 DEF MigrateRename, Shape, TypeOK
    <2>3. NextAhead' /\ SeqSeeded'
        BY <1>5 DEF MigrateRename, NextAhead, SeqSeeded, NodeIds
    <2>4. \A k \in LegacyKey : k \in kv
        BY <1>5 DEF MigrateRename, Kept, Queued
    <2>5. \A i \in 1 .. Legacy : Has(i)'
        BY <1>5, <2>4 DEF MigrateRename, Has, LegacyKey
    <2>6. Kept'
        BY <1>5, <2>5 DEF MigrateRename, Kept, Blobs
    <2> QED
        BY <2>1, <2>2, <2>3, <2>6
<1>6. CASE \E clock \in 0 .. MaxClock : migrateBlobs(clock)
    <2> PICK clock \in 0 .. MaxClock : migrateBlobs(clock)
        BY <1>6
    <2> DEFINE frags == UNION {BlobFrags(k[2]) : k \in Blobs}
               S == {0} \cup Seqs \cup {k[2] : k \in frags}
    <2>0. /\ pc = "split" /\ pc' = "store" /\ current' = TRUE
          /\ kv' = (kv \ Blobs) \cup frags
          /\ seq' = SeedSeq(clock, Max(S))
          /\ UNCHANGED <<bolt, next, todo, serves, crashes>>
        BY DEF migrateBlobs
    <2>1. PICK n \in Nat : \A k \in kv : k[2] <= n
        BY DEF Shape
    <2>2. ASSUME NEW k \in frags
          PROVE  \E i \in 1 .. Legacy : k \in BlobFrags(i)
        BY DEF Kept, LegacyKey
    <2>3. ASSUME NEW k \in frags
          PROVE  k[1] = "frag" /\ k[2] \in 1 .. 2 * Legacy /\ k \in Tag \X Nat
        BY <2>2 DEF BlobFrags, Tag
    <2>4. \A k \in Blobs : k[2] \in 1 .. Legacy /\ BlobFrags(k[2]) \subseteq frags
        BY DEF Kept, LegacyKey
    <2> HIDE DEF frags
    <2>5. S \subseteq Nat /\ S # {}
        BY <2>3 DEF Seqs, TypeOK
    <2> DEFINE m == IF n < 2 * Legacy THEN 2 * Legacy ELSE n
    <2>6. m \in Nat /\ \A s \in S : s <= m
        BY <2>1, <2>3 DEF Seqs, TypeOK
    <2>7. Max(S) \in Nat /\ \A s \in S : s <= Max(S)
        <3> HIDE DEF S, m
        <3> QED
            BY Zenon, <2>5, <2>6, MaxIsUpperBound
    <2>8. seq' \in Nat /\ Max(S) <= seq'
        <3> HIDE DEF S
        <3> QED
            BY <2>0, <2>7 DEF SeedSeq
    <2>9. TypeOK'
        BY <2>0, <2>3, <2>8 DEF TypeOK, Tag
    <2>10. Shape'
        <3>1. \A k \in kv' : k[2] <= m
            BY <2>0, <2>1, <2>3 DEF TypeOK
        <3> QED
            BY <2>0, <2>6, <3>1 DEF Shape
    <2>11. NextAhead'
        <3>1. NodeIds' \subseteq NodeIds
            BY <2>0, <2>3 DEF NodeIds
        <3> QED
            BY <2>0, <3>1 DEF NextAhead
    <2>12. SeqSeeded'
        <3>1. Seqs' \subseteq S
            BY <2>0 DEF Seqs
        <3>2. \A s \in S : s <= seq'
            <4> HIDE DEF S
            <4> QED
                BY <2>5, <2>7, <2>8
        <3> QED
            BY <3>1, <3>2 DEF SeqSeeded
    <2>13. ASSUME NEW i \in 1 .. Legacy, Has(i)
           PROVE  Has(i)'
        BY <2>0, <2>4, <2>13 DEF Has, Blobs, BlobFrags
    <2>14. Blobs' = {}
        BY <2>0, <2>3 DEF Blobs
    <2>15. Kept'
        BY <2>0, <2>13, <2>14 DEF Kept
    <2> QED
        BY <2>9, <2>10, <2>11, <2>12, <2>15
<1>7. CASE StoreOpen
    <2>0. /\ pc = "store" /\ pc' = "serving"
          /\ next' = IF next < RootInode + 1 THEN RootInode + 1 ELSE next
          /\ kv' = kv \cup {<<"node", RootInode>>}
          /\ UNCHANGED <<bolt, current, todo, seq, serves, crashes>>
        BY <1>7 DEF StoreOpen
    <2>1. TypeOK'
        BY <2>0 DEF TypeOK, RootInode
    <2>2. Shape'
        <3>1. PICK n \in Nat : \A k \in kv : k[2] <= n
            BY DEF Shape
        <3>2. \A k \in kv' : k[2] <= n + 1
            BY <2>0, <3>1 DEF RootInode, TypeOK
        <3>3. \E m \in Nat : \A k \in kv' : k[2] <= m
            <4>1. n + 1 \in Nat
                OBVIOUS
            <4> QED
                BY <3>2, <4>1
        <3>4. todo' = todo /\ bolt' = bolt /\ current' = current
            BY <2>0
        <3>5. todo \in Seq(Seq(LegacyKey)) /\ current
            BY <2>0 DEF Shape
        <3> QED
            BY <2>0, <3>3, <3>4, <3>5 DEF Shape
    <2>3. NextAhead'
        <3>1. \A i \in NodeIds' : i \in NodeIds \/ i = RootInode
            BY <2>0 DEF NodeIds
        <3>2. NodeIds \subseteq Nat /\ next \in Nat
            BY DEF NodeIds, TypeOK
        <3>3. \A i \in NodeIds : i < next
            BY DEF NextAhead
        <3>4. ASSUME NEW i \in NodeIds' PROVE i < next'
            <4>1. CASE i \in NodeIds
                BY <2>0, <3>2, <3>3, <4>1 DEF RootInode
            <4>2. CASE i \notin NodeIds
                BY <2>0, <3>1, <3>2, <4>2 DEF RootInode
            <4> QED
                BY <4>1, <4>2
        <3>5. next' > RootInode
            BY <2>0, <3>2 DEF RootInode, NextAhead
        <3>6. current'
            BY <2>0 DEF Shape
        <3>7. pc' = "serving"
            BY <2>0
        <3> QED
            BY <3>4, <3>5, <3>6, <3>7 DEF NextAhead
    <2>4. SeqSeeded'
        BY <2>0 DEF SeqSeeded, Seqs
    <2>5. Kept'
        BY <2>0 DEF Kept, Has, Blobs
    <2> QED
        BY <2>1, <2>2, <2>3, <2>4, <2>5
<1>8. CASE ServeCreate
    <2>0. /\ pc = "serving" /\ pc' = pc
          /\ kv' = kv \cup {<<"node", next>>} /\ next' = next + 1
          /\ UNCHANGED <<bolt, current, todo, seq, crashes>>
        BY <1>8 DEF ServeCreate
    <2>1. TypeOK'
        BY <2>0 DEF TypeOK
    <2>2. Shape'
        <3>1. PICK n \in Nat : \A k \in kv : k[2] <= n
            BY DEF Shape
        <3>2. \A k \in kv' : k[2] <= n + next
            BY <2>0, <3>1 DEF TypeOK
        <3>3. n + next \in Nat
            BY DEF TypeOK
        <3> QED
            BY <2>0, <3>2, <3>3 DEF Shape
    <2>3. NextAhead'
        <3>1. \A i \in NodeIds' : i \in NodeIds \/ i = next
            BY <2>0 DEF NodeIds
        <3>2. NodeIds \subseteq Nat /\ next \in Nat
            BY DEF NodeIds, TypeOK
        <3>3. \A i \in NodeIds : i < next
            BY DEF NextAhead
        <3>4. ASSUME NEW i \in NodeIds' PROVE i < next'
            <4>1. CASE i \in NodeIds
                BY <2>0, <3>2, <3>3, <4>1 DEF RootInode
            <4>2. CASE i \notin NodeIds
                BY <2>0, <3>1, <3>2, <4>2 DEF RootInode
            <4> QED
                BY <4>1, <4>2
        <3>5. next' > RootInode
            BY <2>0, <3>2 DEF RootInode, NextAhead
        <3>6. current'
            BY <2>0 DEF Shape
        <3>7. pc' = "serving"
            BY <2>0
        <3> QED
            BY <3>4, <3>5, <3>6, <3>7 DEF NextAhead
    <2>4. SeqSeeded'
        BY <2>0 DEF SeqSeeded, Seqs
    <2>5. Kept'
        BY <2>0 DEF Kept, Has, Blobs
    <2> QED
        BY <2>1, <2>2, <2>3, <2>4, <2>5
<1>9. CASE ServeAppend
    <2>0. /\ pc = "serving" /\ pc' = pc
          /\ kv' = kv \cup {<<"frag", seq + 1>>} /\ seq' = seq + 1
          /\ UNCHANGED <<bolt, current, todo, next, crashes>>
        BY <1>9 DEF ServeAppend
    <2>1. TypeOK'
        BY <2>0 DEF TypeOK
    <2>2. Shape'
        <3>1. PICK n \in Nat : \A k \in kv : k[2] <= n
            BY DEF Shape
        <3>2. \A k \in kv' : k[2] <= n + seq + 1
            BY <2>0, <3>1 DEF TypeOK
        <3>3. n + seq + 1 \in Nat
            BY DEF TypeOK
        <3> QED
            BY <2>0, <3>2, <3>3 DEF Shape
    <2>3. NextAhead'
        <3>1. NodeIds' = NodeIds
            BY <2>0 DEF NodeIds
        <3> QED
            BY <2>0, <3>1 DEF NextAhead, RootInode, Shape
    <2>4. SeqSeeded'
        <3>1. \A s \in Seqs' : s \in Seqs \/ s = seq + 1
            BY <2>0 DEF Seqs
        <3>2. Seqs \subseteq Nat /\ seq \in Nat
            BY DEF Seqs, TypeOK
        <3>3. \A s \in Seqs : s <= seq
            BY <2>0 DEF SeqSeeded
        <3>4. ASSUME NEW s \in Seqs' PROVE s <= seq'
            <4>1. CASE s \in Seqs
                BY <2>0, <3>2, <3>3, <4>1
            <4>2. CASE s \notin Seqs
                BY <2>0, <3>1, <3>2, <4>2
            <4> QED
                BY <4>1, <4>2
        <3> QED
            BY <3>4 DEF SeqSeeded
    <2>5. Kept'
        BY <2>0 DEF Kept, Has, Blobs
    <2> QED
        BY <2>1, <2>2, <2>3, <2>4, <2>5
<1>10. CASE Crash
    <2>0. /\ pc' = "down" /\ todo' = <<>> /\ seq' = 0
          /\ UNCHANGED <<bolt, current, kv, next, serves>>
        BY <1>10 DEF Crash
    <2>1. TypeOK'
        BY <2>0 DEF TypeOK
    <2>2. Shape'
        BY <2>0 DEF Shape
    <2>3. NextAhead' /\ SeqSeeded' /\ Kept'
        BY <2>0 DEF NextAhead, SeqSeeded, Kept, NodeIds, Has, Blobs
    <2> QED
        BY <2>1, <2>2, <2>3
<1>11. CASE UNCHANGED vars
    <2>1. TypeOK' /\ Shape'
        BY <1>11 DEF vars, TypeOK, Shape
    <2>2. NextAhead' /\ SeqSeeded' /\ Kept'
        BY <1>11 DEF vars, NextAhead, SeqSeeded, Kept, NodeIds, Has, Blobs, Seqs,
                     Queued
    <2> QED
        BY <2>1, <2>2
<1> QED
    BY <1>1, <1>2, <1>3, <1>4, <1>5, <1>6, <1>7, <1>8, <1>9, <1>10, <1>11 DEF Next

-----------------------------------------------------------------------------
\* The invariant holds in every behaviour of the startup sequence.
THEOREM Invariance == Spec => []IInv
    BY InitIInv, NextIInv, PTL DEF Spec

\* Every variable of the startup sequence keeps its type, and the queue of
\* copyBucket is empty whenever no migration is running.
THEOREM TypeCorrect == Spec => []TypeOK
<1>1. IInv => TypeOK
    BY DEF IInv
<1> QED
    BY <1>1, Invariance, PTL

\* store.Open never serves with a counter that would hand out an inode that
\* already has a node, whatever MigrateFromBolt had copied before a crash.
THEOREM AllocAlwaysAhead == Spec => []AllocAhead
<1>1. IInv => AllocAhead
    BY DEF IInv, NextAhead, AllocAhead
<1> QED
    BY <1>1, Invariance, PTL

\* index.Open never serves with a seqGen below a stored fragment, legacy ones
\* included, whatever the wall clock reads.
THEOREM SeqAlwaysAhead == Spec => []SeqAhead
<1>1. IInv => SeqAhead
    BY DEF IInv, SeqSeeded, SeqAhead
<1> QED
    BY <1>1, Invariance, PTL

\* MigrateFromBolt renames the legacy file only after everything in it has
\* been copied, and the blob split loses nothing afterwards.
THEOREM RenamedAlwaysComplete == Spec => []RenamedIsComplete
<1>1. ASSUME IInv, pc = "serving", bolt = "migrated", NEW i \in 1 .. Legacy
      PROVE  {<<"node", i>>, <<"dirent", i>>} \cup BlobFrags(i) \subseteq kv
    <2>1. Has(i) /\ Blobs = {}
        BY <1>1 DEF IInv, Kept
    <2>2. <<"blob", i>> \notin kv
        BY <2>1 DEF Blobs
    <2> QED
        BY <2>1, <2>2 DEF Has
<1>2. IInv => RenamedIsComplete
    BY <1>1 DEF RenamedIsComplete, Complete
<1> QED
    BY <1>2, Invariance, PTL

=============================================================================
