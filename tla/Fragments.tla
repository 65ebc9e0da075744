------------------------------ MODULE Fragments ------------------------------
(***************************************************************************)
(* The fragment algebra of the index (index/fragment.go): planRead, which  *)
(* turns the fragments of an inode into the slices of one read, and        *)
(* canonicalView, which Move uses to rewrite a stripe.  Both carve the     *)
(* fragments, newest seq first, out of the interval that is still          *)
(* uncovered.  They are checked here against the per-byte definition of    *)
(* "newer wins".                                                           *)
(*                                                                         *)
(* Intervals are pairs <<start, end>>, end exclusive.  The Go code keeps   *)
(* the uncovered intervals and the slices in lists whose final order is    *)
(* by offset; they are sets here, since their members are disjoint.        *)
(***************************************************************************)
EXTENDS Integers, Sequences, FiniteSets

Fragment(seq, off, len, tier, id, segOff) ==
    [Seq |-> seq, LogicalOff |-> off, Length |-> len, Tier |-> tier,
     SegmentID |-> id, SegmentOffset |-> segOff]

FEnd(f) == f.LogicalOff + f.Length

Lower(a, b)  == IF a < b THEN a ELSE b
Higher(a, b) == IF a > b THEN a ELSE b

Overlaps(f, u) == ~(FEnd(f) <= u[1] \/ f.LogicalOff >= u[2])

\* The part of fragment f inside the uncovered interval u, as a fragment.
Overlap(f, u) ==
    LET ovStart == Higher(f.LogicalOff, u[1])
        ovEnd   == Lower(FEnd(f), u[2])
    IN  [f EXCEPT !.LogicalOff = ovStart,
                  !.Length = ovEnd - ovStart,
                  !.SegmentOffset = @ + (ovStart - f.LogicalOff)]

\* What is left of u when f has been carved out of it.
Leftover(f, u) ==
    LET o == Overlap(f, u)
    IN  {v \in {<<u[1], o.LogicalOff>>, <<FEnd(o), u[2]>>} : v[1] < v[2]}

\* One fragment's turn.
Carve(acc, f) ==
    LET hit == {u \in acc.uncovered : Overlaps(f, u)}
    IN  [uncovered |-> (acc.uncovered \ hit)
                          \cup UNION {Leftover(f, u) : u \in hit},
         out |-> acc.out \cup {Overlap(f, u) : u \in hit}]

\* The elements of S in the order Before, ties in any order.
Sorted(S, Before(_, _)) ==
    LET sort[T \in SUBSET S] ==
            IF T = {} THEN <<>>
            ELSE LET x == CHOOSE x \in T : \A y \in T : ~Before(y, x)
                 IN  <<x>> \o sort[T \ {x}]
    IN  sort[S]

NewestFirst(frags) == Sorted(frags, LAMBDA f, g : f.Seq > g.Seq)

CarveAll(frags, range) ==
    LET list == NewestFirst(frags)
        carved[n \in 0 .. Len(list)] ==
            IF n = 0 THEN [uncovered |-> {range}, out |-> {}]
            ELSE Carve(carved[n - 1], list[n])
    IN  carved[Len(list)]

\* A slice of a read plan: a piece of a fragment, or a sparse gap.
Located(o) == [LogicalOff |-> o.LogicalOff, Length |-> o.Length,
               Sparse |-> FALSE, Tier |-> o.Tier, SegmentID |-> o.SegmentID,
               Offset |-> o.SegmentOffset]
Gap(u)     == [LogicalOff |-> u[1], Length |-> u[2] - u[1], Sparse |-> TRUE,
               Tier |-> 0, SegmentID |-> 0, Offset |-> 0]

planRead(frags, readOff, readLen) ==
    IF readLen <= 0 THEN {}
    ELSE LET r == CarveAll(frags, <<readOff, readOff + readLen>>)
         IN  {Located(o) : o \in r.out} \cup {Gap(u) : u \in r.uncovered}

canonicalView(frags) ==
    IF frags = {} THEN {}
    ELSE LET minOff == CHOOSE m \in {f.LogicalOff : f \in frags} :
                           \A f \in frags : m <= f.LogicalOff
             maxEnd == CHOOSE m \in {FEnd(f) : f \in frags} :
                           \A f \in frags : m >= FEnd(f)
         IN  CarveAll(frags, <<minOff, maxEnd>>).out

-----------------------------------------------------------------------------
(* Reference: what one position of the file reads as *)

Covers(s, pos) == s.LogicalOff <= pos /\ pos < s.LogicalOff + s.Length

\* The physical byte the newest fragment over pos points at; <<>> in a hole.
Byte(frags, pos) ==
    LET over == {f \in frags : Covers(f, pos)}
    IN  IF over = {} THEN <<>>
        ELSE LET f == CHOOSE f \in over : \A g \in over : f.Seq >= g.Seq
             IN  <<f.Tier, f.SegmentID, f.SegmentOffset + pos - f.LogicalOff>>

\* The physical byte a plan delivers for pos.
Delivers(s, pos) ==
    IF s.Sparse THEN <<>>
    ELSE <<s.Tier, s.SegmentID, s.Offset + pos - s.LogicalOff>>

\* The plan of a read of [readOff, readOff+readLen) covers it, once, with the
\* bytes of these fragments.
PlanMatches(plan, frags, readOff, readLen) ==
    /\ \A pos \in readOff .. readOff + readLen - 1 :
          /\ Cardinality({s \in plan : Covers(s, pos)}) = 1
          /\ \A s \in plan : Covers(s, pos) =>
                 Delivers(s, pos) = Byte(frags, pos)
    /\ \A s \in plan : readOff <= s.LogicalOff
                       /\ s.LogicalOff + s.Length <= readOff + readLen

=============================================================================
