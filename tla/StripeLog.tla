------------------------------ MODULE StripeLog ------------------------------
(***************************************************************************)
(* The fragment table of the index (index/index.go): one key per fragment, *)
(* in the keyspace it shares with the store's nodes and dirents.  Appends  *)
(* are split at stripe boundaries; Truncate, DeleteInode, Move, PlanRead   *)
(* and IterStripes find their fragments by range scans.  Each operation    *)
(* runs under writeMu here; module Index has their interleavings.          *)
(***************************************************************************)
EXTENDS Fragments, Keys, FiniteSetsExt

CONSTANTS Inode,           \* the files
          Name,            \* names of dirents, as byte strings
          StripeSize,
          FirstPos, MaxPos,\* positions of a file are FirstPos .. MaxPos-1
          Writes,          \* the appends made: triples <<inode, off, len>>
          MaxFrags,        \* bound: appends
          MaxEdits         \* bound: truncates, deletions and moves

ASSUME StripeLogAssumption ==
    /\ Inode \subseteq 1 .. Power(InodeLen) - 1
    /\ Name \subseteq Seq(0 .. Radix - 1)
    /\ StripeSize \in Nat \ {0} /\ FirstPos \in Nat /\ MaxPos \in Nat
    /\ MaxPos > FirstPos /\ MaxPos <= StripeSize * Power(StripeLen)
    /\ \A w \in Writes : /\ w[1] \in Inode /\ w[2] \in FirstPos .. MaxPos - 1
                          /\ w[3] \in Nat \ {0} /\ w[2] + w[3] <= MaxPos
    /\ MaxFrags \in Nat /\ MaxEdits \in Nat
    /\ (MaxFrags + MaxEdits) * (MaxPos - FirstPos) < Power(SeqLen)  \* seqs suffice

VARIABLES db,       \* key -> the fragment its value encodes
          seq,      \* seqGen
          appends, edits

vars == <<db, seq, appends, edits>>

Pos  == FirstPos .. MaxPos - 1
Hot  == 1
Cold == 2

\* Payload bytes are told apart by a segment id per record: the record of
\* write w holds the byte of position pos at offset 100 * w + pos.
Home(w, pos) == 100 * w + pos
WriteOf(byte, pos) == IF byte = <<>> THEN 0 ELSE (byte[3] - pos) \div 100

\* What the other layers keep in the same database.  Their values are no
\* fragments; this one stands for what decoding them would give.
Foreign == {StoreNextInodeKey} \cup {NodeKey(i) : i \in Inode}
               \cup {DirentKey(i, n) : i \in Inode, n \in Name}
Garbage == Fragment(0, FirstPos, MaxPos - FirstPos, Cold, 0, 0)

Init == /\ db = [k \in Foreign |-> Garbage]
        /\ seq = 0 /\ appends = 0 /\ edits = 0

stripeOf(off) == (off \div StripeSize) % Power(StripeLen)

Stripes == {stripeOf(pos) : pos \in Pos}

-----------------------------------------------------------------------------
(* Scans *)

Fragmental(keys) == {k \in keys : IsFragmentKey(k)}

Values(keys) == {db[k] : k \in keys}

\* The last stripe has no successor: the inode's bound takes its place.
fragmentsInRange(i, first, last) ==
    LET hi == IF last = Power(StripeLen) - 1
              THEN PrefixUpperBound(StripePrefix(i))
              ELSE FragmentStripePrefix(i, last + 1)
    IN  Values(Fragmental(Iter(DOMAIN db, FragmentStripePrefix(i, first), hi)))

PlanRead(i, off, len) ==
    planRead(fragmentsInRange(i, stripeOf(off), stripeOf(off + len - 1)),
             off, len)

\* IterStripes: one pass over the fragments in key order; the current stripe
\* is reported when the next key belongs to another, and at the end.
Bytes(frags) == MapThenSumSet(LAMBDA f : f.Length, frags)
StripeInfo(i, s, frags) ==
    [Inode |-> i, StripeID |-> s,
     HotBytes |-> Bytes({f \in frags : f.Tier = Hot}),
     ColdBytes |-> Bytes({f \in frags : f.Tier = Cold}),
     LiveBytes |-> Bytes(canonicalView(frags))]

Report(acc) == IF acc.frags = {} THEN acc.out
               ELSE Append(acc.out, StripeInfo(acc.cur[1], acc.cur[2],
                                               acc.frags))

Visit(acc, k) ==
    LET stripe == <<StripeInodeFromFragmentKey(k), StripeIDFromFragmentKey(k)>>
    IN  IF stripe = acc.cur THEN [acc EXCEPT !.frags = @ \cup {db[k]}]
        ELSE [cur |-> stripe, frags |-> {db[k]}, out |-> Report(acc)]

IterStripes ==
    LET keys == Sorted(Fragmental(PrefixScan(DOMAIN db, StripeAllPrefix)), Less)
        visited[n \in 0 .. Len(keys)] ==
            IF n = 0 THEN [cur |-> <<>>, frags |-> {}, out |-> <<>>]
            ELSE Visit(visited[n - 1], keys[n])
    IN  Report(visited[Len(keys)])

-----------------------------------------------------------------------------
(* Updates *)

Keyed(i, frags) ==
    LET Key(f) == FragmentKey(i, stripeOf(f.LogicalOff), f.Seq)
    IN  [k \in {Key(f) : f \in frags} |-> CHOOSE f \in frags : Key(f) = k]

Without(keys) == [k \in DOMAIN db \ keys |-> db[k]]

\* A batch of rows on top of the table (@@ of module TLC, spelled out).
Overlay(rows, table) ==
    [k \in DOMAIN rows \cup DOMAIN table |->
        IF k \in DOMAIN rows THEN rows[k] ELSE table[k]]

\* AppendToWithTxCtx, AppendBatchCtx: one extent, with its seq, per stripe.
AppendExtents(i, off, len) ==
    LET w       == appends + 1
        first   == stripeOf(off)
        last    == stripeOf(off + len - 1)
        Extent(s) ==
            LET a == Higher(off, s * StripeSize)
                b == Lower(off + len, (s + 1) * StripeSize)
            IN  Fragment(seq + 1 + s - first, a, b - a, Hot, w, Home(w, a))
    IN  /\ appends < MaxFrags
        /\ appends' = w
        /\ seq' = seq + 1 + last - first
        /\ db' = Overlay(Keyed(i, {Extent(s) : s \in first .. last}), db)
        /\ UNCHANGED edits

Edit == edits < MaxEdits /\ edits' = edits + 1

\* MUTANT: the fragment across the size stays whole.
ClipNothing(f, size) == f

\* Truncate: drop the fragments past size, shorten the one across it.
ClipFragment(f, size) ==
    [f EXCEPT !.Length = IF FEnd(f) > size THEN size - f.LogicalOff ELSE @]

Past(k, size) ==
    \/ StripeIDFromFragmentKey(k) * StripeSize >= size
    \/ db[k].LogicalOff >= size

Truncate(i, size) ==
    LET keys == Fragmental(PrefixScan(DOMAIN db, StripePrefix(i)))
        gone == {k \in keys : Past(k, size)}
    IN  /\ Edit /\ UNCHANGED <<seq, appends>>
        /\ db' = Overlay([k \in keys \ gone |-> ClipFragment(db[k], size)],
                         Without(gone))

DeleteInode(i) ==
    LET keys == PrefixScan(DOMAIN db, StripePrefix(i))
    IN  /\ Edit /\ UNCHANGED <<seq, appends>>
        /\ db' = Without(keys)

\* Move: every piece of the canonical view gets a new seq, and a new home
\* when it is not in the target tier yet; the old keys go in the same batch.
Move(i, stripeID, target) ==
    LET keys == Fragmental(PrefixScan(DOMAIN db,
                                      FragmentStripePrefix(i, stripeID)))
        view == Sorted(canonicalView(Values(keys)),
                       LAMBDA f, g : f.LogicalOff < g.LogicalOff)
        Moved(k) == [view[k] EXCEPT
                       !.Seq = seq + k, !.Tier = target,
                       !.SegmentID = IF view[k].Tier = target THEN @
                                     ELSE MaxFrags + seq + k]
    IN  /\ Edit
        /\ keys # {}
        /\ seq' = seq + Len(view)
        /\ db' = Overlay(Keyed(i, {Moved(k) : k \in DOMAIN view}), Without(keys))
        /\ UNCHANGED appends

Next == \/ \E w \in Writes : AppendExtents(w[1], w[2], w[3])
        \/ \E i \in Inode : \/ \E size \in Pos : Truncate(i, size)
                            \/ DeleteInode(i)
                            \/ \E s \in Stripes, target \in {Hot, Cold} :
                                   Move(i, s, target)

Spec == Init /\ [][Next]_vars

-----------------------------------------------------------------------------
(* Reference: which keys are whose *)

Prefix == [i \in Inode |-> StripePrefix(i)]

OwnKeys(i) == {k \in DOMAIN db : /\ IsFragmentKey(k)
                                 /\ SubSeq(k, 1, 1 + InodeLen) = Prefix[i]}

StripeKeys(i, s) == {k \in OwnKeys(i) : StripeIDFromFragmentKey(k) = s}

\* Every key of the table is a fragment's, filed under its own stripe and
\* seq and lying inside that stripe; what the other layers keep is there
\* too, untouched.
TypeOK ==
    /\ DOMAIN db = Foreign \cup UNION {OwnKeys(i) : i \in Inode}
    /\ \A k \in Foreign : db[k] = Garbage
    /\ \A i \in Inode : \A k \in OwnKeys(i) :
          LET f == db[k]
          IN  /\ k = FragmentKey(i, stripeOf(f.LogicalOff), f.Seq)
              /\ f.LogicalOff \in Pos /\ f.Length > 0 /\ FEnd(f) <= MaxPos
              /\ stripeOf(FEnd(f) - 1) = stripeOf(f.LogicalOff)
              /\ f.Seq \in 1 .. seq /\ f.Tier \in {Hot, Cold}
    /\ seq < Power(SeqLen)

\* PlanRead delivers, for every range and every byte of it, exactly the byte
\* of the newest fragment of that file ("Newer-seq fragments shadow older-seq
\* fragments where they overlap. Bytes not covered by any fragment become
\* Sparse slices", fragment.go:93-95), up to the last stripe a file can have.
PlanIsNewestWins ==
    \A i \in Inode, off \in Pos, len \in 1 .. MaxPos - FirstPos :
        off + len <= MaxPos =>
            PlanMatches(PlanRead(i, off, len), Values(OwnKeys(i)), off, len)

\* The array these fragments make up.  The set of one element binds their
\* value, which TLC would else compute anew at each use.
Arrays(frags) == {[pos \in Pos |-> WriteOf(Byte(fs, pos), pos)] : fs \in {frags}}

BA == INSTANCE ByteArray WITH
          File <- Inode,
          writes <- appends,
          content <- [i \in Inode |-> CHOOSE array \in
                                       Arrays(Values(OwnKeys(i))) : TRUE]

\* What an operation on the table does to the arrays it stands for.
Does ==
    /\ \A w \in Writes : AppendExtents(w[1], w[2], w[3]) =>
                             BA!Write(w[1], w[2], w[2] + w[3] - 1)
    /\ \A i \in Inode :
          /\ \A size \in Pos : Truncate(i, size) => BA!Truncate(i, size)
          /\ DeleteInode(i) => BA!Delete(i)
          /\ \A s \in Stripes, target \in {Hot, Cold} :
                Move(i, s, target) => UNCHANGED BA!vars

\* Whatever sequence of operations came before, the table is an array of
\* bytes per file, and each operation does to it what its arguments say: an
\* append writes its whole range, across stripes, and nothing beside it; a
\* Truncate clears all from its size on and keeps all below; DeleteInode
\* clears the file; a Move (index.go:1060-1146) loses, adds and reorders
\* nothing; and none of them touches a neighbour.
ImplementsByteArray == BA!Init /\ [][Does]_vars

\* IterStripes, from which the mover picks what to evict, reports every
\* stripe that has a fragment once, in order, with the bytes of all its
\* fragments and no others ("Adjacent fragment keys for the same (inode,
\* stripeID) sort together", index.go:988-990).
StripesReportedOnce ==
    LET out == IterStripes
        Stripe(k) == <<out[k].Inode, out[k].StripeID>>
    IN  /\ \A i \in Inode, s \in Stripes :
              LET frags == Values(StripeKeys(i, s))
                  mine  == {k \in DOMAIN out : Stripe(k) = <<i, s>>}
              IN  IF frags = {} THEN mine = {}
                  ELSE \E k \in mine :
                          /\ mine = {k}
                          /\ out[k] = StripeInfo(i, s, frags)
                          /\ out[k].LiveBytes = Cardinality(
                                {pos \in Pos : stripeOf(pos) = s
                                    /\ Byte(frags, pos) # <<>>})
        /\ \A k \in 1 .. Len(out) - 1 :
              \/ out[k].Inode < out[k + 1].Inode
              \/ /\ out[k].Inode = out[k + 1].Inode
                 /\ out[k].StripeID < out[k + 1].StripeID

=============================================================================
