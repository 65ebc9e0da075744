--------------------------- MODULE Fragments_proof ---------------------------
(***************************************************************************)
(* Proofs about the fragment algebra, for any fragments: planRead and      *)
(* canonicalView cover a range once, each byte with the newest fragment    *)
(* over it.                                                                *)
(***************************************************************************)
EXTENDS Fragments, FiniteLaws, TLAPS

\* A leaf that names no prover is Zenon's.
USE ZenonT(60)

-----------------------------------------------------------------------------
(* Induction *)

\* Induction over an interval.
LEMMA UpTo ==
    ASSUME SetLaws, NEW m \in Nat, NEW S, 0 \in S, \A n \in 1 .. m : n - 1 \in S => n \in S
    PROVE  0 .. m \subseteq S
<1> DEFINE T == {n \in 0 .. m : n \notin S}
<1>1. SUFFICES ASSUME T # {} PROVE FALSE
    OBVIOUS
<1>2. PICK x \in T : \A y \in T : x <= y
    <2>1. T \in SUBSET Nat
        BY SMTT(30)
    <2> HIDE DEF T
    <2> QED
        BY <1>1, <2>1 DEF SetLaws, LeastLaw
<1>3. x \in 0 .. m /\ x \notin S /\ x # 0
    BY <1>2
<1>4. x - 1 \in 0 .. m /\ x - 1 < x /\ x \in 1 .. m /\ x \in Nat /\ x - 1 \in Nat
    BY SMTT(30), <1>3
<1>5. ~(x <= x - 1)
    BY SMTT(30), <1>4
<1>6. x - 1 \notin T
    BY <1>2, <1>5
<1> QED
    BY <1>3, <1>4, <1>6

\* Induction over the subsets of a finite set, by the number of elements.
LEMMA BySize ==
    ASSUME SetLaws, NEW S, IsFiniteSet(S), NEW G, {} \in G,
           \A T \in SUBSET S : T # {} /\ (\A x \in T : T \ {x} \in G) => T \in G
    PROVE  SUBSET S \subseteq G
<1> DEFINE m == Cardinality(S)
           U == {n \in 0 .. m : \A T \in SUBSET S : Cardinality(T) = n => T \in G}
<1>1. m \in Nat /\ \A T \in SUBSET S : IsFiniteSet(T) /\ Cardinality(T) \in 0 .. m
    BY SMTT(30) DEF SetLaws, SizeLaw, SubsetLaw
<1>2. 0 \in U
    <2>1. \A T \in SUBSET S : Cardinality(T) = 0 => T = {}
        BY <1>1 DEF SetLaws, EmptyLaw
    <2>2. 0 \in 0 .. m
        BY SMTT(30), <1>1
    <2> QED
        BY <2>1, <2>2
<1>3. ASSUME NEW n \in 1 .. m, n - 1 \in U
      PROVE  n \in U
    <2>1. ASSUME NEW T \in SUBSET S, Cardinality(T) = n
          PROVE  T \in G
        <3>1. T # {}
            BY SMTT(30), <1>1, <2>1 DEF SetLaws, EmptyLaw
        <3>2. ASSUME NEW x \in T
              PROVE  T \ {x} \in G
            <4>1. Cardinality(T \ {x}) = n - 1
                BY <1>1, <2>1 DEF SetLaws, RemoveLaw
            <4>2. T \ {x} \in SUBSET S
                OBVIOUS
            <4> QED
                BY <1>3, <4>1, <4>2
        <3> QED
            BY <3>1, <3>2
    <2> QED
        BY SMTT(30), <1>1, <2>1
<1> HIDE DEF m
<1>4. 0 .. m \subseteq U
    <2> HIDE DEF U
    <2> QED
        BY <1>1, <1>2, <1>3, UpTo
<1> QED
    BY <1>1, <1>4

\* A finite set has an element of the greatest weight.
LEMMA Heaviest ==
    ASSUME SetLaws, NEW S, IsFiniteSet(S), NEW w \in [S -> Int], NEW T \in SUBSET S, T # {}
    PROVE  \E x \in T : \A y \in T : w[y] <= w[x]
<1> DEFINE G == {U \in SUBSET S : U = {} \/ \E x \in U : \A y \in U : w[y] <= w[x]}
<1>1. {} \in G
    OBVIOUS
<1>2. ASSUME NEW U \in SUBSET S, U # {}, \A x \in U : U \ {x} \in G
      PROVE  U \in G
    <2>1. PICK x \in U : TRUE
        BY <1>2
    <2>2. CASE U \ {x} = {}
        <3>1. \A y \in U : y = x /\ w[y] <= w[x]
            BY SMTT(30), <2>2
        <3> QED
            BY <3>1
    <2>3. CASE U \ {x} # {}
        <3>1. PICK z \in U \ {x} : \A y \in U \ {x} : w[y] <= w[z]
            BY <1>2, <2>3
        <3>2. \/ \A y \in U : w[y] <= w[z]
              \/ \A y \in U : w[y] <= w[x]
            <4>1. w[x] \in Int /\ w[z] \in Int /\ \A y \in U : w[y] \in Int
                OBVIOUS
            <4>2. CASE w[x] <= w[z]
                BY <3>1, <4>2
            <4>3. CASE ~(w[x] <= w[z])
                BY SMTT(30), <3>1, <4>1, <4>3
            <4> QED
                BY <4>2, <4>3
        <3> QED
            BY <3>2
    <2> QED
        BY <2>2, <2>3
<1>3. SUBSET S \subseteq G
    <2> HIDE DEF G
    <2> QED
        BY <1>1, <1>2, BySize
<1> QED
    BY <1>3

\* A function takes finitely many values on a finite set.
LEMMA FiniteValues ==
    ASSUME SetLaws, NEW S, IsFiniteSet(S), NEW g
    PROVE  IsFiniteSet({g[x] : x \in S})
<1> DEFINE h == [x \in S |-> g[x]]
           T == {g[x] : x \in S}
<1>1. h \in [S -> T] /\ \A y \in T : \E x \in S : h[x] = y
    OBVIOUS
<1> HIDE DEF h, T
<1>2. IsFiniteSet(T)
    BY <1>1 DEF SetLaws, SurjectionLaw
<1> QED
    BY <1>2 DEF T

-----------------------------------------------------------------------------
(* Sorting *)

\* sort lists each set of D by picking one element after the other.
Sorts(sort, pick, D) ==
    sort = [T \in D |-> IF T = {} THEN <<>> ELSE <<pick[T]>> \o sort[T \ {pick[T]}]]

\* pick picks a member of each set.
Picks(pick, S) == \A T \in SUBSET S : T # {} => pick[T] \in T

\* The sets of at most m elements.
Small(S, m) == {T \in SUBSET S : Cardinality(T) <= m}

\* What is known of a list of T: it has all of T, once each, and nothing else,
\* and each element was picked from a set that holds those after it.
Lists(s, T, pick, S) ==
    /\ s \in Seq(S)
    /\ \A x : x \in T <=> \E i \in 1 .. Len(s) : s[i] = x
    /\ \A i, j \in 1 .. Len(s) : s[i] = s[j] => i = j
    /\ \A i \in 1 .. Len(s) :
          \E U \in SUBSET S : /\ U # {} /\ s[i] = pick[U]
                              /\ \A j \in i .. Len(s) : s[j] \in U

\* What NewestFirst picks from a set of fragments.
Newest(S) == [T \in SUBSET S |-> CHOOSE x \in T : \A y \in T : ~(y.Seq > x.Seq)]

\* The order in which Move writes a view.
ByOffset(S) == Sorted(S, LAMBDA f, g : f.LogicalOff < g.LogicalOff)

\* What it picks.
Lowest(S) == [T \in SUBSET S |-> CHOOSE x \in T : \A y \in T : ~(y.LogicalOff < x.LogicalOff)]

\* newestFirst and byOffset sort: each lists the fragments of a set once, in
\* its order.
LEMMA SortFacts ==
    ASSUME SetLaws
    PROVE  /\ \A S :
                 IsFiniteSet(S) /\ (\A f \in S : f.Seq \in Int)
                 => /\ NewestFirst(S) \in Seq(S)
                    /\ \A x : x \in S <=> \E i \in 1 .. Len(NewestFirst(S)) : NewestFirst(S)[i] = x
                    /\ \A i \in 1 .. Len(NewestFirst(S)) : \A j \in i .. Len(NewestFirst(S)) :
                          NewestFirst(S)[i].Seq >= NewestFirst(S)[j].Seq
           /\ \A S :
                 IsFiniteSet(S) /\ (\A f \in S : f.LogicalOff \in Int)
                 => /\ ByOffset(S) \in Seq(S)
                    /\ \A x : x \in S <=> \E i \in 1 .. Len(ByOffset(S)) : ByOffset(S)[i] = x
                    /\ \A i, j \in 1 .. Len(ByOffset(S)) : ByOffset(S)[i] = ByOffset(S)[j] => i = j

\* A function that sorts the small sets gives one that sorts larger ones.
<1>SortsGrow.
    ASSUME NEW S, IsFiniteSet(S), NEW pick, Picks(pick, S), NEW m \in Nat, NEW g,
           Sorts(g, pick, Small(S, m))
    PROVE  \E h : Sorts(h, pick, Small(S, m + 1))
    <2> USE <1>SortsGrow
    <2> DEFINE h == [T \in Small(S, m + 1) |->
                        IF T = {} THEN <<>> ELSE <<pick[T]>> \o g[T \ {pick[T]}]]
    <2>1. ASSUME NEW T \in Small(S, m + 1), T # {}
          PROVE  T \ {pick[T]} \in Small(S, m) \cap Small(S, m + 1)
        <3>1. T \in SUBSET S /\ IsFiniteSet(T) /\ Cardinality(T) \in Nat /\ Cardinality(T) <= m + 1
            BY DEF Small, SetLaws, SubsetLaw, SizeLaw
        <3>2. pick[T] \in T
            BY <2>1, <3>1 DEF Picks
        <3>3. Cardinality(T \ {pick[T]}) = Cardinality(T) - 1
            BY <3>1, <3>2 DEF SetLaws, RemoveLaw
        <3>4. T \ {pick[T]} \in SUBSET S
            BY <3>1
        <3> QED
            BY SMTT(30), <3>1, <3>3, <3>4 DEF Small
    <2>2. ASSUME NEW T \in Small(S, m) \cap Small(S, m + 1)
          PROVE  h[T] = g[T]
        BY DEF Sorts
    <2>3. ASSUME NEW T \in Small(S, m + 1)
          PROVE  h[T] = IF T = {} THEN <<>> ELSE <<pick[T]>> \o h[T \ {pick[T]}]
        BY <2>1, <2>2
    <2>4. h = [T \in Small(S, m + 1) |-> h[T]]
        OBVIOUS
    <2> HIDE DEF h
    <2>5. Sorts(h, pick, Small(S, m + 1))
        BY <2>3, <2>4 DEF Sorts
    <2> QED
        BY <2>5

\* So there is one for all subsets.
<1>SortsExist.
    ASSUME NEW S, IsFiniteSet(S), NEW pick, Picks(pick, S)
    PROVE  \E g : Sorts(g, pick, SUBSET S)
    <2> USE <1>SortsExist
    <2> DEFINE m == Cardinality(S)
               U == {n \in 0 .. m : \E g : Sorts(g, pick, Small(S, n))}
    <2>1. m \in Nat
        BY DEF SetLaws, SizeLaw
    <2>2. 0 \in U
        <3> DEFINE g == [T \in Small(S, 0) |-> <<>>]
        <3>1. \A T \in Small(S, 0) : T = {}
            <4>1. ASSUME NEW T \in Small(S, 0)
                  PROVE  IsFiniteSet(T) /\ Cardinality(T) = 0
                BY SMTT(30) DEF Small, SetLaws, SubsetLaw, SizeLaw
            <4> QED
                BY <4>1 DEF SetLaws, EmptyLaw
        <3>2. Sorts(g, pick, Small(S, 0))
            BY <3>1 DEF Sorts
        <3> QED
            BY SMTT(30), <2>1, <3>2
    <2>3. ASSUME NEW n \in 1 .. m, n - 1 \in U
          PROVE  n \in U
        <3>1. n - 1 \in Nat /\ (n - 1) + 1 = n
            BY SMTT(30), <2>1
        <3>2. PICK g : Sorts(g, pick, Small(S, n - 1))
            BY <2>3
        <3>3. \E h : Sorts(h, pick, Small(S, (n - 1) + 1))
            BY <3>1, <3>2, <1>SortsGrow
        <3>4. n \in 0 .. m
            BY SMTT(30), <2>1
        <3> QED
            BY <3>1, <3>3, <3>4
    <2>4. m \in U
        <3>1. 0 .. m \subseteq U
            <4> HIDE DEF U, m
            <4> QED
                BY <2>1, <2>2, <2>3, UpTo
        <3>2. m \in 0 .. m
            BY SMTT(30), <2>1
        <3> QED
            BY <3>1, <3>2
    <2>5. Small(S, m) = SUBSET S
        <3>1. \A T \in SUBSET S : Cardinality(T) <= m
            BY DEF SetLaws, SubsetLaw
        <3> QED
            BY <3>1 DEF Small
    <2> QED
        BY <2>4, <2>5

\* The list with one more element in front.
<1>ListsGrow.
    ASSUME NEW S, NEW pick, NEW T \in SUBSET S, NEW s, pick[T] \in T,
           Lists(s, T \ {pick[T]}, pick, S)
    PROVE  Lists(<<pick[T]>> \o s, T, pick, S)
    <2> USE <1>ListsGrow
    <2> DEFINE x == pick[T]
    <2> DEFINE r == <<x>> \o s
    <2>1. s \in Seq(S) /\ x \in S /\ Len(s) \in Nat
        BY SMTT(30) DEF Lists
    <2>2. /\ r \in Seq(S) /\ Len(r) = Len(s) + 1 /\ r[1] = x
          /\ \A i \in 1 .. Len(s) : r[i + 1] = s[i]
        BY SMTT(30), <2>1
    <2> HIDE DEF r
    <2>3. \A i \in 2 .. Len(r) : i - 1 \in 1 .. Len(s) /\ r[i] = s[i - 1]
        <3>1. ASSUME NEW i \in 2 .. Len(r)
              PROVE  i - 1 \in 1 .. Len(s) /\ (i - 1) + 1 = i
            BY SMTT(30), <2>1, <2>2
        <3> QED
            BY <2>2, <3>1
    <2>4. ASSUME NEW y
          PROVE  y \in T <=> \E i \in 1 .. Len(r) : r[i] = y
        <3>1. 1 \in 1 .. Len(r) /\ \A i \in 1 .. Len(s) : i + 1 \in 1 .. Len(r)
            BY SMTT(30), <2>1, <2>2
        <3>2. \A i \in 1 .. Len(r) : i = 1 \/ i \in 2 .. Len(r)
            BY SMTT(30), <2>1, <2>2
        <3>3. CASE y = x
            BY <2>2, <3>1, <3>3
        <3>4. CASE y # x
            <4>1. y \in T <=> \E i \in 1 .. Len(s) : s[i] = y
                BY <3>4 DEF Lists
            <4>2. ASSUME NEW i \in 1 .. Len(s), s[i] = y
                  PROVE  \E j \in 1 .. Len(r) : r[j] = y
                BY <2>2, <3>1, <4>2
            <4>3. ASSUME NEW j \in 1 .. Len(r), r[j] = y
                  PROVE  \E i \in 1 .. Len(s) : s[i] = y
                BY <2>2, <2>3, <3>2, <3>4, <4>3
            <4> QED
                BY <4>1, <4>2, <4>3
        <3> QED
            BY <3>3, <3>4
    <2>5. ASSUME NEW i \in 1 .. Len(r)
          PROVE  \E U \in SUBSET S : /\ U # {} /\ r[i] = pick[U]
                                     /\ \A j \in i .. Len(r) : r[j] \in U
        <3>1. CASE i = 1
            <4>1. \A j \in i .. Len(r) : r[j] \in T
                BY <2>4, <3>1
            <4> QED
                BY <2>2, <3>1, <4>1
        <3>2. CASE i # 1
            <4>1. i \in 2 .. Len(r) /\ i - 1 \in 1 .. Len(s)
                BY SMTT(30), <2>1, <2>2, <3>2
            <4>2. PICK U \in SUBSET S : /\ U # {} /\ s[i - 1] = pick[U]
                                        /\ \A j \in i - 1 .. Len(s) : s[j] \in U
                BY <4>1 DEF Lists
            <4>3. ASSUME NEW j \in i .. Len(r)
                  PROVE  r[j] \in U
                <5>1. j \in 2 .. Len(r) /\ j - 1 \in i - 1 .. Len(s)
                    BY SMTT(30), <2>1, <2>2, <4>1
                <5> QED
                    BY <2>3, <4>2, <5>1
            <4> QED
                BY <2>3, <4>1, <4>2, <4>3
        <3> QED
            BY <3>1, <3>2
    <2>6. ASSUME NEW i \in 1 .. Len(r), NEW j \in 1 .. Len(r), r[i] = r[j]
          PROVE  i = j
        <3>1. ASSUME NEW k \in 2 .. Len(r)
              PROVE  r[k] # x
            <4>1. s[k - 1] \in T \ {x}
                BY <2>3 DEF Lists
            <4> QED
                BY <2>3, <4>1
        <3>2. \A k \in 1 .. Len(r) : k = 1 \/ k \in 2 .. Len(r)
            BY SMTT(30), <2>1, <2>2
        <3>3. CASE i \in 2 .. Len(r) /\ j \in 2 .. Len(r)
            <4>1. /\ i - 1 \in 1 .. Len(s) /\ j - 1 \in 1 .. Len(s) /\ s[i - 1] = s[j - 1]
                BY <2>3, <2>6, <3>3
            <4>2. i - 1 = j - 1
                BY <4>1 DEF Lists
            <4> QED
                BY SMTT(30), <2>1, <2>2, <3>3, <4>2
        <3> QED
            BY <2>2, <2>6, <3>1, <3>2, <3>3
    <2> QED
        BY <2>2, <2>4, <2>5, <2>6 DEF r, Lists

\* Sorting lists every subset.
<1>SortLists.
    ASSUME NEW S, IsFiniteSet(S), NEW pick, Picks(pick, S), NEW sort,
           Sorts(sort, pick, SUBSET S), NEW T \in SUBSET S
    PROVE  Lists(sort[T], T, pick, S)
    <2> USE <1>SortLists
    <2> DEFINE G == {U \in SUBSET S : Lists(sort[U], U, pick, S)}
    <2>1. {} \in G
        <3>1. sort[{}] = <<>>
            BY DEF Sorts
        <3>2. Lists(<<>>, {}, pick, S)
            BY SMTT(30) DEF Lists
        <3> QED
            BY <3>1, <3>2
    <2>2. ASSUME NEW U \in SUBSET S, U # {}, \A x \in U : U \ {x} \in G
          PROVE  U \in G
        <3>1. pick[U] \in U
            BY <2>2 DEF Picks
        <3>2. Lists(sort[U \ {pick[U]}], U \ {pick[U]}, pick, S)
            BY <2>2, <3>1
        <3>3. sort[U] = <<pick[U]>> \o sort[U \ {pick[U]}]
            BY <2>2 DEF Sorts
        <3>4. Lists(sort[U], U, pick, S)
            BY <3>1, <3>2, <3>3, <1>ListsGrow
        <3> QED
            BY <3>4
    <2>3. SUBSET S \subseteq G
        <3> HIDE DEF G
        <3> QED
            BY <2>1, <2>2, BySize
    <2> QED
        BY <2>3

\* NewestFirst is a list of the fragments, newest first.
<1>NewestFirstOrder.
    ASSUME NEW S, IsFiniteSet(S), \A f \in S : f.Seq \in Int
    PROVE  /\ NewestFirst(S) \in Seq(S)
           /\ \A x : x \in S <=> \E i \in 1 .. Len(NewestFirst(S)) : NewestFirst(S)[i] = x
           /\ \A i \in 1 .. Len(NewestFirst(S)) : \A j \in i .. Len(NewestFirst(S)) :
                 NewestFirst(S)[i].Seq >= NewestFirst(S)[j].Seq
    <2> USE <1>NewestFirstOrder
    <2> DEFINE list == CHOOSE f : f = [T \in SUBSET S |-> IF T = {} THEN <<>>
                    ELSE LET x == CHOOSE x \in T : \A y \in T : ~(y.Seq > x.Seq)
                         IN  <<x>> \o f[T \ {x}]]
    <2>1. NewestFirst(S) = list[S]
        BY DEF NewestFirst, Sorted
    <2>2. ASSUME NEW T \in SUBSET S, T # {}
          PROVE  Newest(S)[T] \in T /\ \A y \in T : ~(y.Seq > Newest(S)[T].Seq)
        <3> DEFINE w == [f \in S |-> f.Seq]
        <3>1. PICK x \in T : \A y \in T : w[y] <= w[x]
            <4>1. w \in [S -> Int]
                OBVIOUS
            <4> HIDE DEF w
            <4> QED
                BY <2>2, <4>1, Heaviest
        <3>2. \A y \in T : ~(y.Seq > x.Seq)
            <4>1. \A y \in T : y.Seq <= x.Seq /\ y.Seq \in Int /\ x.Seq \in Int
                BY <3>1
            <4> HIDE DEF w
            <4> QED
                BY SMTT(30), <4>1
        <3>3. Newest(S)[T] = CHOOSE z \in T : \A y \in T : ~(y.Seq > z.Seq)
            BY DEF Newest
        <3> QED
            BY <3>2, <3>3
    <2>3. Picks(Newest(S), S)
        BY <2>2 DEF Picks
    <2>4. \A T \in SUBSET S : Newest(S)[T] = CHOOSE x \in T : \A y \in T : ~(y.Seq > x.Seq)
        BY DEF Newest
    <2>5. Sorts(list, Newest(S), SUBSET S)
        <3>h. \E s : Sorts(s, Newest(S), SUBSET S)
            BY <2>3, <1>SortsExist
        <3>1. PICK s : s = [T \in SUBSET S |-> IF T = {} THEN <<>>
                               ELSE <<Newest(S)[T]>> \o s[T \ {Newest(S)[T]}]]
            BY <3>h DEF Sorts
        <3>2. s = [T \in SUBSET S |-> IF T = {} THEN <<>>
                    ELSE LET x == CHOOSE x \in T : \A y \in T : ~(y.Seq > x.Seq)
                         IN  <<x>> \o s[T \ {x}]]
            BY <3>1, <2>4
        <3>3. list = [T \in SUBSET S |-> IF T = {} THEN <<>>
                    ELSE LET x == CHOOSE x \in T : \A y \in T : ~(y.Seq > x.Seq)
                         IN  <<x>> \o list[T \ {x}]]
            BY <3>2
        <3> HIDE DEF list
        <3> QED
            BY <3>3, <2>4 DEF Sorts
    <2> HIDE DEF list
    <2>6. Lists(list[S], S, Newest(S), S)
        <3>1. S \in SUBSET S
            OBVIOUS
        <3> QED
            BY <2>3, <2>5, <3>1, <1>SortLists
    <2>7. PICK s : s = NewestFirst(S)
        OBVIOUS
    <2>8. Lists(s, S, Newest(S), S)
        BY <2>1, <2>6, <2>7
    <2>9. ASSUME NEW i \in 1 .. Len(s), NEW j \in i .. Len(s)
          PROVE  s[i].Seq >= s[j].Seq
        <3>1. PICK U \in SUBSET S : /\ U # {} /\ s[i] = Newest(S)[U]
                                    /\ \A k \in i .. Len(s) : s[k] \in U
            BY <2>8 DEF Lists
        <3>2. ~(s[j].Seq > s[i].Seq) /\ s[j] \in S /\ s[i] \in S
            BY <2>2, <3>1
        <3>3. s[i].Seq \in Int /\ s[j].Seq \in Int
            BY <3>2
        <3> QED
            BY SMTT(30), <3>2, <3>3
    <2>10. s \in Seq(S) /\ \A x : x \in S <=> \E i \in 1 .. Len(s) : s[i] = x
        BY <2>8 DEF Lists
    <2> QED
        BY <2>7, <2>9, <2>10

\* It is a list of the fragments of the view, once each.
<1>ByOffsetLists.
    ASSUME NEW S, IsFiniteSet(S), \A f \in S : f.LogicalOff \in Int
    PROVE  /\ ByOffset(S) \in Seq(S)
           /\ \A x : x \in S <=> \E i \in 1 .. Len(ByOffset(S)) : ByOffset(S)[i] = x
           /\ \A i, j \in 1 .. Len(ByOffset(S)) : ByOffset(S)[i] = ByOffset(S)[j] => i = j
    <2> USE <1>ByOffsetLists
    <2> DEFINE list == CHOOSE f : f = [T \in SUBSET S |-> IF T = {} THEN <<>>
                    ELSE LET x == CHOOSE x \in T : \A y \in T : ~(y.LogicalOff < x.LogicalOff)
                         IN  <<x>> \o f[T \ {x}]]
    <2>1. ByOffset(S) = list[S]
        BY DEF ByOffset, Sorted
    <2>2. ASSUME NEW T \in SUBSET S, T # {}
          PROVE  Lowest(S)[T] \in T
        <3> DEFINE w == [f \in S |-> -f.LogicalOff]
        <3>1. PICK x \in T : \A y \in T : w[y] <= w[x]
            <4>1. w \in [S -> Int]
                BY SMTT(30)
            <4> HIDE DEF w
            <4> QED
                BY <2>2, <4>1, Heaviest
        <3>2. \A y \in T : ~(y.LogicalOff < x.LogicalOff)
            <4>1. \A y \in T : /\ -y.LogicalOff <= -x.LogicalOff
                              /\ y.LogicalOff \in Int /\ x.LogicalOff \in Int
                BY <3>1
            <4> HIDE DEF w
            <4> QED
                BY SMTT(30), <4>1
        <3>3. Lowest(S)[T] = CHOOSE z \in T : \A y \in T : ~(y.LogicalOff < z.LogicalOff)
            BY DEF Lowest
        <3> QED
            BY <3>2, <3>3
    <2>3. Picks(Lowest(S), S)
        BY <2>2 DEF Picks
    <2>4. \A T \in SUBSET S : Lowest(S)[T] = CHOOSE x \in T : \A y \in T : ~(y.LogicalOff < x.LogicalOff)
        BY DEF Lowest
    <2>5. Sorts(list, Lowest(S), SUBSET S)
        <3>h. \E s : Sorts(s, Lowest(S), SUBSET S)
            BY <2>3, <1>SortsExist
        <3>1. PICK s : s = [T \in SUBSET S |-> IF T = {} THEN <<>>
                               ELSE <<Lowest(S)[T]>> \o s[T \ {Lowest(S)[T]}]]
            BY <3>h DEF Sorts
        <3>2. s = [T \in SUBSET S |-> IF T = {} THEN <<>>
                    ELSE LET x == CHOOSE x \in T : \A y \in T : ~(y.LogicalOff < x.LogicalOff)
                         IN  <<x>> \o s[T \ {x}]]
            BY <3>1, <2>4
        <3>3. list = [T \in SUBSET S |-> IF T = {} THEN <<>>
                    ELSE LET x == CHOOSE x \in T : \A y \in T : ~(y.LogicalOff < x.LogicalOff)
                         IN  <<x>> \o list[T \ {x}]]
            BY <3>2
        <3> HIDE DEF list
        <3> QED
            BY <3>3, <2>4 DEF Sorts
    <2> HIDE DEF list
    <2>6. Lists(list[S], S, Lowest(S), S)
        <3>1. S \in SUBSET S
            OBVIOUS
        <3> QED
            BY <2>3, <2>5, <3>1, <1>SortLists
    <2>7. PICK s : s = ByOffset(S)
        OBVIOUS
    <2>8. Lists(s, S, Lowest(S), S)
        BY <2>1, <2>6, <2>7
    <2>9. /\ s \in Seq(S) /\ \A x : x \in S <=> \E i \in 1 .. Len(s) : s[i] = x
          /\ \A i, j \in 1 .. Len(s) : s[i] = s[j] => i = j
        BY <2>8 DEF Lists
    <2> QED
        BY <2>7, <2>9

<1> QED
    BY <1>NewestFirstOrder, <1>ByOffsetLists

-----------------------------------------------------------------------------
(* Carving *)

Frag == [Seq : Nat, LogicalOff : Nat, Length : Nat, Tier : Nat, SegmentID : Nat,
         SegmentOffset : Nat]

\* o is a part of f: same record, and the same byte of it at each position.
Piece(o, f) ==
    /\ o \in Frag /\ o.Seq = f.Seq /\ o.Tier = f.Tier /\ o.SegmentID = f.SegmentID
    /\ o.SegmentOffset - o.LogicalOff = f.SegmentOffset - f.LogicalOff
    /\ f.LogicalOff <= o.LogicalOff /\ FEnd(o) <= FEnd(f)

\* Position pos lies in the interval u.
In(u, pos) == u[1] <= pos /\ pos < u[2]

\* The interval u lies between lo and hi.
Within(u, lo, hi) == u \in Nat \X Nat /\ lo <= u[1] /\ u[1] <= u[2] /\ u[2] <= hi

\* acc is what has been carved out of lo .. hi after the first n fragments of
\* a list: the uncovered intervals, and the pieces.
Uncovers(acc, list, n, lo, hi) ==
    /\ IsFiniteSet(acc.uncovered)
    /\ \A u \in acc.uncovered : Within(u, lo, hi)
    /\ \A pos \in Int :
          (\E u \in acc.uncovered : In(u, pos))
              <=> In(<<lo, hi>>, pos) /\ \A i \in 1 .. n : ~Covers(list[i], pos)
    /\ \A u, v \in acc.uncovered : \A pos \in Int : In(u, pos) /\ In(v, pos) => u = v

\* The piece o is the first i-th fragment's own: no earlier one covers it.
Owns(o, list, i) ==
    /\ Piece(o, list[i])
    /\ \A pos \in Int : Covers(o, pos) => \A j \in 1 .. i - 1 : ~Covers(list[j], pos)

CutsOut(acc, list, n, lo, hi) ==
    /\ IsFiniteSet(acc.out)
    /\ \A o \in acc.out : /\ lo <= o.LogicalOff /\ FEnd(o) <= hi
                          /\ \E i \in 1 .. n : Owns(o, list, i)
    /\ \A pos \in Int :
          (\E o \in acc.out : Covers(o, pos))
              <=> In(<<lo, hi>>, pos) /\ \E i \in 1 .. n : Covers(list[i], pos)
    /\ \A o, p \in acc.out : \A pos \in Int : Covers(o, pos) /\ Covers(p, pos) => o = p

\* c is the course of a carving.
Carves(c, list, range, m) ==
    c = [n \in 0 .. m |-> IF n = 0 THEN [uncovered |-> {range}, out |-> {}]
                          ELSE Carve(c[n - 1], list[n])]

\* acc is the carving of the fragments S out of lo .. hi: each position of the
\* range is in one uncovered interval, when no fragment covers it, or else in
\* one piece, of the newest fragment over it.
Carving(acc, S, lo, hi) ==
    /\ IsFiniteSet(acc.uncovered) /\ IsFiniteSet(acc.out)
    /\ \A u \in acc.uncovered : Within(u, lo, hi)
    /\ \A pos \in Int : (\E u \in acc.uncovered : In(u, pos))
                            <=> In(<<lo, hi>>, pos) /\ \A f \in S : ~Covers(f, pos)
    /\ \A u, v \in acc.uncovered : \A pos \in Int : In(u, pos) /\ In(v, pos) => u = v
    /\ \A o \in acc.out :
          /\ lo <= o.LogicalOff /\ FEnd(o) <= hi
          /\ \E f \in S : /\ Piece(o, f)
                          /\ \A pos \in Int : Covers(o, pos) =>
                                \A g \in S : Covers(g, pos) => f.Seq >= g.Seq
    /\ \A pos \in Int : (\E o \in acc.out : Covers(o, pos))
                            <=> In(<<lo, hi>>, pos) /\ \E f \in S : Covers(f, pos)
    /\ \A o, p \in acc.out : \A pos \in Int : Covers(o, pos) /\ Covers(p, pos) => o = p

\* c is the course that takes the fragments of S, listed newest first.
Course(list, c, m, S, lo, hi) ==
    /\ Carves(c, list, <<lo, hi>>, m) /\ CarveAll(S, <<lo, hi>>) = c[m]
    /\ \A x : x \in S <=> \E i \in 1 .. m : list[i] = x
    /\ \A i \in 1 .. m : \A j \in i .. m : list[i].Seq >= list[j].Seq

\* Intervals and pieces that have positions.
Solid(acc) ==
    /\ \A u \in acc.uncovered : u \in Nat \X Nat /\ u[1] < u[2]
    /\ \A o \in acc.out : o.Length > 0

\* carveAll gives every uncovered position of a range to the newest fragment
\* over it, in intervals that are apart and not empty.
LEMMA CarveFacts ==
    ASSUME SetLaws
    PROVE  /\ \A S : \A lo, hi \in Nat :
                 IsFiniteSet(S) /\ S \subseteq Frag /\ lo <= hi
                 => Carving(CarveAll(S, <<lo, hi>>), S, lo, hi)
           /\ \A S : \A lo, hi \in Nat :
                 IsFiniteSet(S) /\ S \subseteq Frag /\ (\A f \in S : f.Length > 0) /\ lo < hi
                 => Solid(CarveAll(S, <<lo, hi>>))

\* What is carved out of an interval is the part of the fragment in it.
<1>OverlapFacts.
    ASSUME NEW f \in Frag, NEW u \in Nat \X Nat, u[1] <= u[2], Overlaps(f, u)
    PROVE  /\ Piece(Overlap(f, u), f)
           /\ u[1] <= Overlap(f, u).LogicalOff /\ FEnd(Overlap(f, u)) <= u[2]
           /\ \A pos \in Int : Covers(Overlap(f, u), pos) <=> In(u, pos) /\ Covers(f, pos)
    <2> USE <1>OverlapFacts
    <2>1. PICK a \in Nat, b \in Nat : a = u[1] /\ b = u[2]
        OBVIOUS
    <2>2. PICK s \in Nat, e \in Nat : s = Higher(f.LogicalOff, u[1]) /\ e = Lower(FEnd(f), u[2])
        BY SMTT(30), <2>1 DEF Frag, Higher, Lower, FEnd
    <2>3. /\ f.LogicalOff \in Nat /\ f.Length \in Nat /\ f.SegmentOffset \in Nat
          /\ f.Seq \in Nat /\ f.Tier \in Nat /\ f.SegmentID \in Nat
        BY DEF Frag
    <2>4. /\ s >= f.LogicalOff /\ s >= a /\ s \in {f.LogicalOff, a} /\ e <= FEnd(f) /\ e <= b
          /\ e \in {FEnd(f), b} /\ s <= e
        BY SMTT(30), <2>1, <2>2, <2>3 DEF Higher, Lower, FEnd, Overlaps
    <2>5. Overlap(f, u) = [f EXCEPT !.LogicalOff = s, !.Length = e - s,
                                    !.SegmentOffset = @ + (s - f.LogicalOff)]
        BY <2>2 DEF Overlap
    <2>6. PICK o : o = Overlap(f, u)
        OBVIOUS
    <2>7. /\ o \in Frag /\ o.LogicalOff = s /\ o.Length = e - s
          /\ o.SegmentOffset = f.SegmentOffset + (s - f.LogicalOff)
          /\ o.Seq = f.Seq /\ o.Tier = f.Tier /\ o.SegmentID = f.SegmentID
        <3>1. f.SegmentOffset + (s - f.LogicalOff) \in Nat /\ e - s \in Nat
            BY SMTT(30), <2>3, <2>4
        <3> QED
            BY <2>5, <2>6, <3>1 DEF Frag
    <2>8. FEnd(o) = e
        BY SMTT(30), <2>7 DEF FEnd
    <2>9. Piece(o, f)
        BY SMTT(30), <2>3, <2>4, <2>7, <2>8 DEF Piece
    <2>10. ASSUME NEW pos \in Int
           PROVE  Covers(o, pos) <=> In(u, pos) /\ Covers(f, pos)
        BY SMTT(30), <2>1, <2>3, <2>4, <2>7 DEF Covers, In, FEnd
    <2> QED
        BY <2>1, <2>4, <2>6, <2>7, <2>8, <2>9, <2>10

\* The rest of the interval is what is left.
<1>LeftoverFacts.
    ASSUME NEW f \in Frag, NEW u \in Nat \X Nat, u[1] <= u[2], Overlaps(f, u)
    PROVE  /\ \A v \in Leftover(f, u) : Within(v, u[1], u[2])
           /\ \A pos \in Int :
                 (\E v \in Leftover(f, u) : In(v, pos)) <=> In(u, pos) /\ ~Covers(f, pos)
           /\ \A v, w \in Leftover(f, u) : \A pos \in Int : In(v, pos) /\ In(w, pos) => v = w
    <2> USE <1>LeftoverFacts
    <2>1. PICK o : o = Overlap(f, u)
        OBVIOUS
    <2>2. /\ Piece(o, f) /\ u[1] <= o.LogicalOff /\ FEnd(o) <= u[2]
          /\ \A pos \in Int : Covers(o, pos) <=> In(u, pos) /\ Covers(f, pos)
        BY <2>1, <1>OverlapFacts
    <2>3. PICK a \in Nat, b \in Nat : a = u[1] /\ b = u[2]
        OBVIOUS
    <2>4. PICK s \in Nat, e \in Nat : s = o.LogicalOff /\ e = FEnd(o) /\ s <= e
        BY SMTT(30), <2>2 DEF Piece, Frag, FEnd
    <2>5. a <= s /\ e <= b
        BY <2>2, <2>3, <2>4
    <2>6. Leftover(f, u) = {v \in {<<a, s>>, <<e, b>>} : v[1] < v[2]}
        BY <2>1, <2>3, <2>4 DEF Leftover
    <2>7. \A pos \in Int : Covers(o, pos) <=> s <= pos /\ pos < e
        BY <2>2, <2>4 DEF Covers, Piece, Frag, FEnd
    <2>8. \A v \in Leftover(f, u) : Within(v, a, b)
        BY SMTT(30), <2>4, <2>5, <2>6 DEF Within
    <2>9. ASSUME NEW pos \in Int
          PROVE  (\E v \in Leftover(f, u) : In(v, pos)) <=> (a <= pos /\ pos < s) \/ (e <= pos /\ pos < b)
        <3>1. \A v \in Leftover(f, u) : v = <<a, s>> \/ v = <<e, b>>
            BY <2>6
        <3>2. In(<<a, s>>, pos) <=> a <= pos /\ pos < s
            BY DEF In
        <3>3. In(<<e, b>>, pos) <=> e <= pos /\ pos < b
            BY DEF In
        <3>4. a <= pos /\ pos < s => <<a, s>> \in Leftover(f, u)
            BY SMTT(30), <2>6
        <3>5. e <= pos /\ pos < b => <<e, b>> \in Leftover(f, u)
            BY SMTT(30), <2>6
        <3> QED
            BY <3>1, <3>2, <3>3, <3>4, <3>5
    <2>10. ASSUME NEW pos \in Int
           PROVE  (\E v \in Leftover(f, u) : In(v, pos)) <=> In(u, pos) /\ ~Covers(f, pos)
        <3>1. (a <= pos /\ pos < s) \/ (e <= pos /\ pos < b) <=> In(u, pos) /\ ~(s <= pos /\ pos < e)
            BY SMTT(30), <2>3, <2>4, <2>5 DEF In
        <3> QED
            BY <2>2, <2>7, <2>9, <3>1
    <2>11. ASSUME NEW v \in Leftover(f, u), NEW w \in Leftover(f, u), NEW pos \in Int,
                  In(v, pos), In(w, pos)
           PROVE  v = w
        BY SMTT(30), <2>4, <2>6, <2>11 DEF In
    <2> QED
        BY <2>3, <2>8, <2>10, <2>11

\* Where a fragment and an interval do not overlap, they share no position.
<1>Apart.
    ASSUME NEW f \in Frag, NEW u \in Nat \X Nat, ~Overlaps(f, u), NEW pos \in Int,
           In(u, pos)
    PROVE  ~Covers(f, pos)
    <2> USE <1>Apart
    <2>1. PICK a \in Nat, b \in Nat : a = u[1] /\ b = u[2]
        OBVIOUS
    <2> QED
        BY SMTT(30), <2>1 DEF Overlaps, In, Covers, FEnd, Frag

\* The intervals after one fragment's turn: each lies in one from before.
<1>CarvedFrom.
    ASSUME NEW acc, NEW f \in Frag, NEW lo \in Nat, NEW hi \in Nat,
           \A u \in acc.uncovered : Within(u, lo, hi), NEW v \in Carve(acc, f).uncovered
    PROVE  \E u \in acc.uncovered :
              /\ Within(v, lo, hi)
              /\ \A pos \in Int : In(v, pos) => In(u, pos) /\ ~Covers(f, pos)
              /\ (v = u /\ ~Overlaps(f, u)) \/ (v \in Leftover(f, u) /\ Overlaps(f, u))
    <2> USE <1>CarvedFrom
    <2> DEFINE hit == {u \in acc.uncovered : Overlaps(f, u)}
    <2>1. v \in (acc.uncovered \ hit) \cup UNION {Leftover(f, u) : u \in hit}
        BY DEF Carve
    <2>2. \A u \in acc.uncovered : u \in Nat \X Nat /\ u[1] <= u[2]
        BY DEF Within
    <2>3. CASE v \in acc.uncovered \ hit
        <3>1. v \in acc.uncovered /\ ~Overlaps(f, v)
            BY <2>3
        <3>2. \A pos \in Int : In(v, pos) => ~Covers(f, pos)
            BY <2>2, <3>1, <1>Apart
        <3> QED
            BY <3>1, <3>2
    <2>4. CASE v \in UNION {Leftover(f, u) : u \in hit}
        <3>1. PICK u \in acc.uncovered : Overlaps(f, u) /\ v \in Leftover(f, u)
            BY <2>4
        <3>2. /\ \A w \in Leftover(f, u) : Within(w, u[1], u[2])
              /\ \A pos \in Int :
                    (\E w \in Leftover(f, u) : In(w, pos)) <=> In(u, pos) /\ ~Covers(f, pos)
            BY <2>2, <3>1, <1>LeftoverFacts
        <3>3. Within(v, lo, hi)
            <4>1. Within(v, u[1], u[2]) /\ Within(u, lo, hi)
                BY <3>1, <3>2
            <4>2. PICK a \in Nat, b \in Nat : a = u[1] /\ b = u[2]
                BY <4>1 DEF Within
            <4>3. PICK c \in Nat, d \in Nat : c = v[1] /\ d = v[2]
                BY <4>1 DEF Within
            <4> QED
                BY SMTT(30), <4>1, <4>2, <4>3 DEF Within
        <3> QED
            BY <3>1, <3>2, <3>3
    <2> QED
        BY <2>1, <2>3, <2>4

\* One fragment's turn leaves uncovered what it does not cover.
<1>UncoversStep.
    ASSUME NEW acc, NEW list, NEW n \in Nat, NEW lo \in Nat, NEW hi \in Nat,
           list[n + 1] \in Frag, Uncovers(acc, list, n, lo, hi)
    PROVE  Uncovers(Carve(acc, list[n + 1]), list, n + 1, lo, hi)
    <2> USE <1>UncoversStep
    <2> DEFINE f == list[n + 1]
               hit == {u \in acc.uncovered : Overlaps(f, u)}
               rest == Carve(acc, f).uncovered
    <2>1. rest = (acc.uncovered \ hit) \cup UNION {Leftover(f, u) : u \in hit}
        BY DEF Carve
    <2>2. /\ \A u \in acc.uncovered : Within(u, lo, hi) /\ u \in Nat \X Nat /\ u[1] <= u[2]
          /\ f \in Frag
        BY DEF Within, Uncovers
    <2>3. IsFiniteSet(rest)
        <3>1. IsFiniteSet(acc.uncovered) /\ IsFiniteSet(hit) /\ IsFiniteSet(acc.uncovered \ hit)
            BY DEF Uncovers, SetLaws, SubsetLaw
        <3> DEFINE g == [u \in hit |-> Leftover(f, u)]
        <3>2. IsFiniteSet({g[u] : u \in hit})
            <4> HIDE DEF g, hit
            <4> QED
                BY <3>1, FiniteValues
        <3>3. \A u \in hit : IsFiniteSet(g[u])
            <4>1. ASSUME NEW u
                  PROVE  IsFiniteSet(Leftover(f, u))
                <5>1. PICK a, b : Leftover(f, u) = {v \in {a, b} : v[1] < v[2]}
                    BY DEF Leftover
                <5>2. IsFiniteSet({a, b})
                    <6>1. IsFiniteSet({a}) /\ {a} \cup {b} = {a, b}
                        BY DEF SetLaws, SingletonLaw
                    <6>2. IsFiniteSet({a} \cup {b})
                        BY <6>1 DEF SetLaws, AddLaw
                    <6> QED
                        BY <6>1, <6>2
                <5>3. {v \in {a, b} : v[1] < v[2]} \subseteq {a, b}
                    OBVIOUS
                <5> QED
                    BY <5>1, <5>2, <5>3 DEF SetLaws, SubsetLaw
            <4> QED
                BY <4>1
        <3>4. IsFiniteSet(UNION {g[u] : u \in hit})
            <4> HIDE DEF g, hit
            <4> QED
                BY <3>2, <3>3 DEF SetLaws, FamilyLaw
        <3>5. {g[u] : u \in hit} = {Leftover(f, u) : u \in hit}
            OBVIOUS
        <3>6. rest = (acc.uncovered \ hit) \cup UNION {g[u] : u \in hit}
            BY <2>1, <3>5
        <3> HIDE DEF g, hit, rest
        <3>7. IsFiniteSet((acc.uncovered \ hit) \cup UNION {g[u] : u \in hit})
            BY <3>1, <3>4 DEF SetLaws, UnionLaw
        <3> QED
            BY <3>6, <3>7
    <2>4. \A v \in rest : \E u \in acc.uncovered :
              /\ Within(v, lo, hi)
              /\ \A pos \in Int : In(v, pos) => In(u, pos) /\ ~Covers(f, pos)
              /\ (v = u /\ ~Overlaps(f, u)) \/ (v \in Leftover(f, u) /\ Overlaps(f, u))
        BY <2>2, <1>CarvedFrom
    <2> HIDE DEF rest
    <2>5. ASSUME NEW pos \in Int
          PROVE  (\E v \in rest : In(v, pos))
                     <=> (\E u \in acc.uncovered : In(u, pos)) /\ ~Covers(f, pos)
        <3>1. ASSUME NEW u \in acc.uncovered, In(u, pos), ~Covers(f, pos)
              PROVE  \E v \in rest : In(v, pos)
            <4>1. CASE ~Overlaps(f, u)
                BY <2>1, <3>1, <4>1
            <4>2. CASE Overlaps(f, u)
                <5>1. PICK v \in Leftover(f, u) : In(v, pos)
                    BY <2>2, <3>1, <4>2, <1>LeftoverFacts
                <5>2. v \in rest
                    BY <2>1, <4>2, <5>1
                <5> QED
                    BY <5>1, <5>2
            <4> QED
                BY <4>1, <4>2
        <3> QED
            BY <2>4, <3>1
    <2>6. ASSUME NEW pos \in Int
          PROVE  (\E v \in rest : In(v, pos))
                     <=> In(<<lo, hi>>, pos) /\ \A i \in 1 .. n + 1 : ~Covers(list[i], pos)
        <3>1. \A i : i \in 1 .. n + 1 <=> i \in 1 .. n \/ i = n + 1
            BY SMTT(30)
        <3>2. (\E u \in acc.uncovered : In(u, pos))
                  <=> In(<<lo, hi>>, pos) /\ \A i \in 1 .. n : ~Covers(list[i], pos)
            BY DEF Uncovers
        <3> QED
            BY <2>5, <3>1, <3>2
    <2>7. ASSUME NEW v \in rest, NEW w \in rest, NEW pos \in Int, In(v, pos), In(w, pos)
          PROVE  v = w
        <3>1. PICK u \in acc.uncovered :
                  /\ In(u, pos)
                  /\ (v = u /\ ~Overlaps(f, u)) \/ (v \in Leftover(f, u) /\ Overlaps(f, u))
            BY <2>4, <2>7
        <3>2. PICK x \in acc.uncovered :
                  /\ In(x, pos)
                  /\ (w = x /\ ~Overlaps(f, x)) \/ (w \in Leftover(f, x) /\ Overlaps(f, x))
            BY <2>4, <2>7
        <3>3. u = x
            BY <3>1, <3>2 DEF Uncovers
        <3>4. CASE v = u /\ ~Overlaps(f, u)
            BY <3>2, <3>3, <3>4
        <3>5. CASE v \in Leftover(f, u) /\ Overlaps(f, u)
            <4>1. w \in Leftover(f, u)
                BY <3>2, <3>3, <3>5
            <4> QED
                BY <2>2, <2>7, <3>5, <4>1, <1>LeftoverFacts
        <3> QED
            BY <3>1, <3>4, <3>5
    <2>8. \A v \in rest : Within(v, lo, hi)
        BY <2>4
    <2>9. /\ \A pos \in Int :
                (\E v \in rest : In(v, pos))
                    <=> In(<<lo, hi>>, pos) /\ \A i \in 1 .. n + 1 : ~Covers(list[i], pos)
          /\ \A v, w \in rest : \A pos \in Int : In(v, pos) /\ In(w, pos) => v = w
        BY <2>6, <2>7
    <2> QED
        BY <2>3, <2>8, <2>9 DEF rest, Uncovers

\* And adds the pieces of it that no earlier one covers.
<1>CutsOutStep.
    ASSUME NEW acc, NEW list, NEW n \in Nat, NEW lo \in Nat, NEW hi \in Nat,
           list[n + 1] \in Frag, Uncovers(acc, list, n, lo, hi), CutsOut(acc, list, n, lo, hi)
    PROVE  CutsOut(Carve(acc, list[n + 1]), list, n + 1, lo, hi)
    <2> USE <1>CutsOutStep
    <2> DEFINE f == list[n + 1]
               hit == {u \in acc.uncovered : Overlaps(f, u)}
               all == Carve(acc, f).out
    <2>1. all = acc.out \cup {Overlap(f, u) : u \in hit}
        BY DEF Carve
    <2>2. /\ \A u \in acc.uncovered : Within(u, lo, hi) /\ u \in Nat \X Nat /\ u[1] <= u[2]
          /\ f \in Frag
        BY DEF Within, Uncovers
    <2>3. IsFiniteSet(all)
        <3>1. IsFiniteSet(acc.out) /\ IsFiniteSet(hit)
            BY DEF Uncovers, CutsOut, SetLaws, SubsetLaw
        <3> DEFINE g == [u \in hit |-> Overlap(f, u)]
        <3>2. IsFiniteSet({g[u] : u \in hit})
            <4> HIDE DEF g, hit
            <4> QED
                BY <3>1, FiniteValues
        <3>3. {g[u] : u \in hit} = {Overlap(f, u) : u \in hit}
            OBVIOUS
        <3>4. all = acc.out \cup {g[u] : u \in hit}
            BY <2>1, <3>3
        <3> HIDE DEF g, hit, all
        <3>5. IsFiniteSet(acc.out \cup {g[u] : u \in hit})
            BY <3>1, <3>2 DEF SetLaws, UnionLaw
        <3> QED
            BY <3>4, <3>5
    <2>4. \A i : i \in 1 .. n + 1 <=> i \in 1 .. n \/ i = n + 1
        BY SMTT(30)
    <2>5. 1 .. (n + 1) - 1 = 1 .. n
        BY SMTT(30)
    <2>6. \A o \in all : o \in acc.out \/ \E u \in acc.uncovered : Overlaps(f, u) /\ o = Overlap(f, u)
        BY <2>1
    <2>7. ASSUME NEW u \in acc.uncovered, Overlaps(f, u)
          PROVE  /\ Piece(Overlap(f, u), f)
                 /\ u[1] <= Overlap(f, u).LogicalOff /\ FEnd(Overlap(f, u)) <= u[2]
                 /\ \A pos \in Int : Covers(Overlap(f, u), pos) <=> In(u, pos) /\ Covers(f, pos)
                 /\ Overlap(f, u) \in all
        <3>1. Overlap(f, u) \in all
            BY <2>1, <2>7
        <3> QED
            BY <2>2, <2>7, <3>1, <1>OverlapFacts
    <2> HIDE DEF all
    <2>8. \A pos \in Int :
              /\ (\E u \in acc.uncovered : In(u, pos))
                     <=> In(<<lo, hi>>, pos) /\ \A i \in 1 .. n : ~Covers(list[i], pos)
              /\ (\E o \in acc.out : Covers(o, pos))
                     <=> In(<<lo, hi>>, pos) /\ \E i \in 1 .. n : Covers(list[i], pos)
        BY DEF Uncovers, CutsOut
    <2>9. ASSUME NEW o \in all
          PROVE  /\ lo <= o.LogicalOff /\ FEnd(o) <= hi
                 /\ \E i \in 1 .. n + 1 : Owns(o, list, i)
        <3>1. CASE o \in acc.out
            BY <2>4, <3>1 DEF CutsOut
        <3>2. ASSUME NEW u \in acc.uncovered, Overlaps(f, u), o = Overlap(f, u)
              PROVE  /\ lo <= o.LogicalOff /\ FEnd(o) <= hi
                     /\ Owns(o, list, n + 1)
            <4>1. /\ Piece(o, f) /\ u[1] <= o.LogicalOff /\ FEnd(o) <= u[2]
                  /\ \A pos \in Int : Covers(o, pos) <=> In(u, pos) /\ Covers(f, pos)
                BY <2>7, <3>2
            <4>2. lo <= o.LogicalOff /\ FEnd(o) <= hi
                <5>1. PICK a \in Nat, b \in Nat : a = u[1] /\ b = u[2]
                    BY <2>2
                <5> QED
                    BY SMTT(30), <2>2, <4>1, <5>1 DEF Within, Piece, Frag, FEnd
            <4>3. \A pos \in Int : Covers(o, pos) => \A j \in 1 .. n : ~Covers(list[j], pos)
                BY <2>8, <4>1
            <4> QED
                BY <2>5, <4>1, <4>2, <4>3 DEF Owns
        <3> QED
            BY <2>4, <2>6, <3>1, <3>2
    <2>10. ASSUME NEW pos \in Int
           PROVE  (\E o \in all : Covers(o, pos))
                      <=> In(<<lo, hi>>, pos) /\ \E i \in 1 .. n + 1 : Covers(list[i], pos)
        <3>1. ASSUME NEW o \in all, Covers(o, pos)
              PROVE  In(<<lo, hi>>, pos) /\ \E i \in 1 .. n + 1 : Covers(list[i], pos)
            BY <2>4, <2>6, <2>7, <2>8, <3>1
        <3>2. ASSUME In(<<lo, hi>>, pos), \E i \in 1 .. n + 1 : Covers(list[i], pos)
              PROVE  \E o \in all : Covers(o, pos)
            <4>1. CASE \E i \in 1 .. n : Covers(list[i], pos)
                BY <2>1, <2>8, <3>2, <4>1
            <4>2. CASE \A i \in 1 .. n : ~Covers(list[i], pos)
                <5>1. Covers(f, pos)
                    BY <2>4, <3>2, <4>2
                <5>2. PICK u \in acc.uncovered : In(u, pos)
                    BY <2>8, <3>2, <4>2
                <5>3. Overlaps(f, u)
                    BY <2>2, <5>1, <5>2, <1>Apart
                <5> QED
                    BY <2>7, <5>1, <5>2, <5>3
            <4> QED
                BY <4>1, <4>2
        <3> QED
            BY <3>1, <3>2
    <2>11. ASSUME NEW o \in all, NEW p \in all, NEW pos \in Int, Covers(o, pos), Covers(p, pos)
           PROVE  o = p
        <3>1. ASSUME NEW q \in all, Covers(q, pos)
              PROVE  \/ q \in acc.out /\ \E i \in 1 .. n : Covers(list[i], pos)
                     \/ /\ \A i \in 1 .. n : ~Covers(list[i], pos)
                        /\ \E u \in acc.uncovered : In(u, pos) /\ q = Overlap(f, u)
            BY <2>6, <2>7, <2>8, <3>1
        <3>2. CASE \E i \in 1 .. n : Covers(list[i], pos)
            BY <2>11, <3>1, <3>2 DEF CutsOut
        <3>3. CASE \A i \in 1 .. n : ~Covers(list[i], pos)
            <4>1. PICK u \in acc.uncovered : In(u, pos) /\ o = Overlap(f, u)
                BY <2>11, <3>1, <3>3
            <4>2. PICK v \in acc.uncovered : In(v, pos) /\ p = Overlap(f, v)
                BY <2>11, <3>1, <3>3
            <4>3. u = v
                BY <4>1, <4>2 DEF Uncovers
            <4> QED
                BY <4>1, <4>2, <4>3
        <3> QED
            BY <3>2, <3>3
    <2>12. \A o \in all : /\ lo <= o.LogicalOff /\ FEnd(o) <= hi
                          /\ \E i \in 1 .. n + 1 : Owns(o, list, i)
        BY <2>9
    <2>13. /\ \A pos \in Int :
                 (\E o \in all : Covers(o, pos))
                     <=> In(<<lo, hi>>, pos) /\ \E i \in 1 .. n + 1 : Covers(list[i], pos)
           /\ \A o, p \in all : \A pos \in Int : Covers(o, pos) /\ Covers(p, pos) => o = p
        BY <2>10, <2>11
    <2> QED
        BY <2>3, <2>12, <2>13 DEF all, CutsOut

\* A course for the first fragments goes on with the next.
<1>CarvesGrow.
    ASSUME NEW list, NEW range, NEW m \in Nat, NEW c, Carves(c, list, range, m)
    PROVE  \E d : Carves(d, list, range, m + 1)
    <2> USE <1>CarvesGrow
    <2> DEFINE d == [n \in 0 .. m + 1 |-> IF n = 0 THEN [uncovered |-> {range}, out |-> {}]
                                          ELSE Carve(c[n - 1], list[n])]
    <2>1. \A n \in 0 .. m + 1 : n # 0 => n - 1 \in 0 .. m /\ n - 1 \in 0 .. m + 1
        BY SMTT(30)
    <2>2. ASSUME NEW n \in 0 .. m + 1, n \in 0 .. m
          PROVE  d[n] = c[n]
        BY <2>2 DEF Carves
    <2>3. ASSUME NEW n \in 0 .. m + 1
          PROVE  d[n] = IF n = 0 THEN [uncovered |-> {range}, out |-> {}]
                        ELSE Carve(d[n - 1], list[n])
        <3>1. CASE n = 0
            BY <3>1
        <3>2. CASE n # 0
            <4>1. d[n - 1] = c[n - 1]
                <5> HIDE DEF d
                <5> QED
                    BY <2>1, <2>2, <3>2
            <4>2. d[n] = Carve(c[n - 1], list[n])
                BY <3>2
            <4> HIDE DEF d
            <4> QED
                BY <3>2, <4>1, <4>2
        <3> QED
            BY <3>1, <3>2
    <2>4. d = [n \in 0 .. m + 1 |-> d[n]]
        OBVIOUS
    <2> HIDE DEF d
    <2>5. Carves(d, list, range, m + 1)
        BY <2>3, <2>4 DEF Carves
    <2> QED
        BY <2>5

\* So there is one for a list of any length.
<1>CarvesExist.
    ASSUME NEW list, NEW range, NEW m \in Nat
    PROVE  \E c : Carves(c, list, range, m)
    <2> DEFINE U == {n \in 0 .. m : \E c : Carves(c, list, range, n)}
    <2>1. 0 \in U
        <3> DEFINE c == [n \in 0 .. 0 |-> [uncovered |-> {range}, out |-> {}]]
        <3>1. c = [n \in 0 .. 0 |-> IF n = 0 THEN [uncovered |-> {range}, out |-> {}]
                                    ELSE Carve(c[n - 1], list[n])]
            <4>1. \A n \in 0 .. 0 : n = 0
                BY SMTT(30)
            <4> QED
                BY <4>1
        <3> HIDE DEF c
        <3>2. Carves(c, list, range, 0)
            BY <3>1 DEF Carves
        <3> QED
            BY SMTT(30), <3>2
    <2>2. ASSUME NEW n \in 1 .. m, n - 1 \in U
          PROVE  n \in U
        <3>1. n - 1 \in Nat /\ (n - 1) + 1 = n /\ n \in 0 .. m
            BY SMTT(30)
        <3>2. PICK c : Carves(c, list, range, n - 1)
            BY <2>2
        <3>3. \E d : Carves(d, list, range, (n - 1) + 1)
            BY <3>1, <3>2, <1>CarvesGrow
        <3> QED
            BY <3>1, <3>3
    <2>3. 0 .. m \subseteq U
        <3> HIDE DEF U
        <3> QED
            BY <2>1, <2>2, UpTo
    <2>4. m \in 0 .. m
        BY SMTT(30)
    <2> QED
        BY <2>3, <2>4

\* The course of a carving, fragment by fragment.
<1>CarvesFacts.
    ASSUME NEW list, NEW m \in Nat, \A n \in 1 .. m : list[n] \in Frag,
           NEW lo \in Nat, NEW hi \in Nat, lo <= hi, NEW c, Carves(c, list, <<lo, hi>>, m)
    PROVE  Uncovers(c[m], list, m, lo, hi) /\ CutsOut(c[m], list, m, lo, hi)
    <2> USE <1>CarvesFacts
    <2> DEFINE U == {n \in 0 .. m : Uncovers(c[n], list, n, lo, hi) /\ CutsOut(c[n], list, n, lo, hi)}
    <2>1. 0 \in U
        <3>1. PICK r : r = <<lo, hi>>
            OBVIOUS
        <3>2. c[0].uncovered = {r} /\ c[0].out = {}
            <4>1. 0 \in 0 .. m
                BY SMTT(30)
            <4>2. c[0] = [uncovered |-> {<<lo, hi>>}, out |-> {}]
                BY <4>1 DEF Carves
            <4> QED
                BY SMTT(30), <3>1, <4>2
        <3>3. Within(r, lo, hi)
            BY SMTT(30), <3>1 DEF Within
        <3>4. IsFiniteSet({r}) /\ IsFiniteSet({})
            BY DEF SetLaws, SingletonLaw, EmptyLaw
        <3>5. \A i : i \notin 1 .. 0
            BY SMTT(30)
        <3>6. Uncovers(c[0], list, 0, lo, hi)
            <4>1. IsFiniteSet(c[0].uncovered) /\ \A u \in c[0].uncovered : u = r
                BY <3>2, <3>4
            <4>2. \A pos \in Int : (\E u \in c[0].uncovered : In(u, pos)) <=> In(r, pos)
                BY <3>2
            <4> QED
                BY <3>1, <3>3, <3>5, <4>1, <4>2 DEF Uncovers
        <3>7. CutsOut(c[0], list, 0, lo, hi)
            BY <3>2, <3>4, <3>5 DEF CutsOut
        <3> QED
            BY SMTT(30), <3>6, <3>7
    <2>2. ASSUME NEW n \in 1 .. m, n - 1 \in U
          PROVE  n \in U
        <3>1. n - 1 \in Nat /\ (n - 1) + 1 = n /\ n \in 0 .. m /\ n # 0
            BY SMTT(30)
        <3>2. c[n] = Carve(c[n - 1], list[n])
            BY <3>1 DEF Carves
        <3>3. list[(n - 1) + 1] \in Frag
            BY <3>1
        <3>4. Uncovers(Carve(c[n - 1], list[(n - 1) + 1]), list, (n - 1) + 1, lo, hi)
            BY <2>2, <3>1, <3>3, <1>UncoversStep
        <3>5. CutsOut(Carve(c[n - 1], list[(n - 1) + 1]), list, (n - 1) + 1, lo, hi)
            BY <2>2, <3>1, <3>3, <1>CutsOutStep
        <3> QED
            BY <3>1, <3>2, <3>4, <3>5
    <2>3. 0 .. m \subseteq U
        <3> HIDE DEF U
        <3> QED
            BY <2>1, <2>2, UpTo
    <2>4. m \in 0 .. m
        BY SMTT(30)
    <2> QED
        BY <2>3, <2>4

\* CarveAll is the end of such a course.
<1>CarveAllCourse.
    ASSUME NEW S, IsFiniteSet(S), S \subseteq Frag, NEW lo \in Nat, NEW hi \in Nat
    PROVE  \E m \in Nat : \E list, c : Course(list, c, m, S, lo, hi)
    <2> USE <1>CarveAllCourse
    <2>1. PICK list : list = NewestFirst(S)
        OBVIOUS
    <2>2. /\ list \in Seq(S)
          /\ \A x : x \in S <=> \E i \in 1 .. Len(list) : list[i] = x
          /\ \A i \in 1 .. Len(list) : \A j \in i .. Len(list) : list[i].Seq >= list[j].Seq
        <3>1. \A f \in S : f.Seq \in Int
            BY SMTT(30) DEF Frag
        <3> QED
            BY <2>1, <3>1, SortFacts
    <2>3. PICK m \in Nat : m = Len(list)
        BY SMTT(30), <2>2
    <2> DEFINE c == CHOOSE f : f = [n \in 0 .. Len(list) |->
                                       IF n = 0 THEN [uncovered |-> {<<lo, hi>>}, out |-> {}]
                                       ELSE Carve(f[n - 1], list[n])]
    <2>4. CarveAll(S, <<lo, hi>>) = c[m]
        BY <2>1, <2>3 DEF CarveAll
    <2>5. Carves(c, list, <<lo, hi>>, m)
        <3>1. \E d : Carves(d, list, <<lo, hi>>, m)
            BY <1>CarvesExist
        <3>2. PICK d : d = [n \in 0 .. Len(list) |->
                               IF n = 0 THEN [uncovered |-> {<<lo, hi>>}, out |-> {}]
                               ELSE Carve(d[n - 1], list[n])]
            BY <2>3, <3>1 DEF Carves
        <3>3. c = [n \in 0 .. Len(list) |->
                      IF n = 0 THEN [uncovered |-> {<<lo, hi>>}, out |-> {}]
                      ELSE Carve(c[n - 1], list[n])]
            BY <3>2
        <3> HIDE DEF c
        <3> QED
            BY <2>3, <3>3 DEF Carves
    <2> HIDE DEF c
    <2>6. /\ \A x : x \in S <=> \E i \in 1 .. m : list[i] = x
          /\ \A i \in 1 .. m : \A j \in i .. m : list[i].Seq >= list[j].Seq
        BY <2>2, <2>3
    <2>7. Course(list, c, m, S, lo, hi)
        BY <2>3, <2>4, <2>5, <2>6 DEF Course
    <2> QED
        BY <2>7

\* CarveAll carves.
<1>CarveAllFacts.
    ASSUME NEW S, IsFiniteSet(S), S \subseteq Frag, NEW lo \in Nat, NEW hi \in Nat, lo <= hi
    PROVE  Carving(CarveAll(S, <<lo, hi>>), S, lo, hi)
    <2> USE <1>CarveAllFacts
    <2>0. PICK m \in Nat : \E list, c : Course(list, c, m, S, lo, hi)
        BY <1>CarveAllCourse
    <2>1. PICK list, c : Course(list, c, m, S, lo, hi)
        BY <2>0
    <2>2. /\ Carves(c, list, <<lo, hi>>, m) /\ CarveAll(S, <<lo, hi>>) = c[m]
          /\ \A x : x \in S <=> \E i \in 1 .. m : list[i] = x
          /\ \A i \in 1 .. m : \A j \in i .. m : list[i].Seq >= list[j].Seq
        BY <2>1 DEF Course
    <2>6. PICK acc : acc = CarveAll(S, <<lo, hi>>)
        OBVIOUS
    <2>7. Uncovers(acc, list, m, lo, hi) /\ CutsOut(acc, list, m, lo, hi)
        <3>1. \A n \in 1 .. m : list[n] \in Frag
            BY <2>2
        <3>2. Uncovers(c[m], list, m, lo, hi) /\ CutsOut(c[m], list, m, lo, hi)
            BY <2>2, <3>1, <1>CarvesFacts
        <3> QED
            BY <2>2, <2>6, <3>2
    <2>8. \A x : x \in S <=> \E i \in 1 .. m : list[i] = x
        BY <2>2
    <2>9. ASSUME NEW o \in acc.out
          PROVE  \E f \in S : /\ Piece(o, f)
                              /\ \A pos \in Int : Covers(o, pos) =>
                                    \A g \in S : Covers(g, pos) => f.Seq >= g.Seq
        <3>1. PICK i \in 1 .. m : Owns(o, list, i)
            BY <2>7 DEF CutsOut
        <3>2. ASSUME NEW pos \in Int, Covers(o, pos), NEW g \in S, Covers(g, pos)
              PROVE  list[i].Seq >= g.Seq
            <4>1. PICK j \in 1 .. m : list[j] = g
                BY <2>8
            <4>2. j \notin 1 .. i - 1
                BY <3>1, <3>2, <4>1 DEF Owns
            <4>3. j \in i .. m
                BY SMTT(30), <4>2
            <4> QED
                BY <2>2, <4>1, <4>3
        <3>3. list[i] \in S /\ Piece(o, list[i])
            BY <2>8, <3>1 DEF Owns
        <3> QED
            BY <3>2, <3>3
    <2>10. ASSUME NEW pos \in Int
           PROVE  (\E f \in S : Covers(f, pos)) <=> \E i \in 1 .. m : Covers(list[i], pos)
        BY <2>8
    <2>11. /\ \A pos \in Int : (\E u \in acc.uncovered : In(u, pos))
                                <=> In(<<lo, hi>>, pos) /\ \A f \in S : ~Covers(f, pos)
           /\ \A pos \in Int : (\E o \in acc.out : Covers(o, pos))
                                <=> In(<<lo, hi>>, pos) /\ \E f \in S : Covers(f, pos)
        BY <2>7, <2>10 DEF Uncovers, CutsOut
    <2>12. /\ IsFiniteSet(acc.uncovered) /\ IsFiniteSet(acc.out)
           /\ \A u \in acc.uncovered : Within(u, lo, hi)
           /\ \A u, v \in acc.uncovered : \A pos \in Int : In(u, pos) /\ In(v, pos) => u = v
           /\ \A o \in acc.out : lo <= o.LogicalOff /\ FEnd(o) <= hi
           /\ \A o, p \in acc.out : \A pos \in Int : Covers(o, pos) /\ Covers(p, pos) => o = p
        BY <2>7 DEF Uncovers, CutsOut
    <2> QED
        BY <2>6, <2>9, <2>11, <2>12 DEF Carving

\* A fragment with positions leaves only such ones.
<1>SolidStep.
    ASSUME NEW acc, Solid(acc), NEW f \in Frag, f.Length > 0
    PROVE  Solid(Carve(acc, f))
    <2> USE <1>SolidStep
    <2>1. ASSUME NEW u \in acc.uncovered, Overlaps(f, u)
          PROVE  /\ Overlap(f, u).Length > 0
                 /\ \A v \in Leftover(f, u) : v \in Nat \X Nat /\ v[1] < v[2]
        <3>1. u \in Nat \X Nat /\ u[1] < u[2]
            BY DEF Solid
        <3>2. PICK a \in Nat, b \in Nat : a = u[1] /\ b = u[2] /\ a < b /\ a <= b
            BY SMTT(30), <3>1
        <3>3. PICK x \in Nat, y \in Nat : x = f.LogicalOff /\ y = FEnd(f) /\ x < y
            BY SMTT(30) DEF Frag, FEnd
        <3>4. PICK s \in Nat, e \in Nat : s = Higher(x, a) /\ e = Lower(y, b)
            BY DEF Higher, Lower
        <3>5. a < y /\ x < b
            BY SMTT(30), <2>1, <3>2, <3>3 DEF Overlaps
        <3>6. s < e
            BY <3>2, <3>3, <3>4, <3>5 DEF Higher, Lower
        <3>7. Overlap(f, u).Length = e - s
            <4>1. Overlap(f, u) = [f EXCEPT !.LogicalOff = s, !.Length = e - s,
                                            !.SegmentOffset = @ + (s - f.LogicalOff)]
                BY <3>2, <3>3, <3>4 DEF Overlap
            <4> QED
                BY <4>1 DEF Frag
        <3>8. \A v \in Leftover(f, u) : Within(v, u[1], u[2])
            BY <2>1, <3>1, <3>2, <1>LeftoverFacts
        <3>9. \A v \in Leftover(f, u) : v[1] < v[2]
            BY DEF Leftover
        <3>10. Overlap(f, u).Length > 0
            BY SMTT(30), <3>6, <3>7
        <3> QED
            BY <3>8, <3>9, <3>10 DEF Within
    <2> DEFINE hit == {u \in acc.uncovered : Overlaps(f, u)}
    <2>2. /\ Carve(acc, f).uncovered = (acc.uncovered \ hit) \cup UNION {Leftover(f, u) : u \in hit}
          /\ Carve(acc, f).out = acc.out \cup {Overlap(f, u) : u \in hit}
        BY DEF Carve
    <2> QED
        BY <2>1, <2>2 DEF Solid

\* CarveAll cuts out no empty pieces.
<1>CarveAllSolid.
    ASSUME NEW S, IsFiniteSet(S), S \subseteq Frag, \A f \in S : f.Length > 0,
           NEW lo \in Nat, NEW hi \in Nat, lo < hi
    PROVE  Solid(CarveAll(S, <<lo, hi>>))
    <2> USE <1>CarveAllSolid
    <2>0. PICK m \in Nat : \E list, c : Course(list, c, m, S, lo, hi)
        BY <1>CarveAllCourse
    <2>1. PICK list, c : Course(list, c, m, S, lo, hi)
        BY <2>0
    <2>2. /\ Carves(c, list, <<lo, hi>>, m) /\ CarveAll(S, <<lo, hi>>) = c[m]
          /\ \A x : x \in S <=> \E i \in 1 .. m : list[i] = x
        BY <2>1 DEF Course
    <2> DEFINE U == {n \in 0 .. m : Solid(c[n])}
    <2>3. 0 \in U
        <3>1. PICK r : r = <<lo, hi>>
            OBVIOUS
        <3>2. c[0].uncovered = {r} /\ c[0].out = {}
            <4>1. 0 \in 0 .. m
                BY SMTT(30)
            <4>2. c[0] = [uncovered |-> {<<lo, hi>>}, out |-> {}]
                BY <2>2, <4>1 DEF Carves
            <4> QED
                BY SMTT(30), <3>1, <4>2
        <3>3. r \in Nat \X Nat /\ r[1] < r[2]
            BY <3>1
        <3>4. Solid(c[0])
            BY <3>2, <3>3 DEF Solid
        <3> QED
            BY SMTT(30), <3>4
    <2>4. ASSUME NEW n \in 1 .. m, n - 1 \in U
          PROVE  n \in U
        <3>1. n \in 0 .. m /\ n # 0
            BY SMTT(30)
        <3>2. c[n] = Carve(c[n - 1], list[n])
            BY <2>2, <3>1 DEF Carves
        <3>3. list[n] \in Frag /\ list[n].Length > 0
            BY <2>2
        <3>4. Solid(c[n])
            BY <2>4, <3>2, <3>3, <1>SolidStep
        <3> QED
            BY <3>1, <3>4
    <2>5. 0 .. m \subseteq U
        <3> HIDE DEF U
        <3> QED
            BY <2>3, <2>4, UpTo
    <2>6. m \in 0 .. m
        BY SMTT(30)
    <2> QED
        BY <2>2, <2>5, <2>6

<1> QED
    BY <1>CarveAllFacts, <1>CarveAllSolid

-----------------------------------------------------------------------------
(* Read plans *)

Slice == [LogicalOff : Nat, Length : Nat, Sparse : BOOLEAN, Tier : Nat, SegmentID : Nat,
          Offset : Nat]

\* The slice s locates bytes of the fragment f.
SliceOf(s, f) ==
    /\ ~s.Sparse /\ s.Tier = f.Tier /\ s.SegmentID = f.SegmentID
    /\ s.Offset - s.LogicalOff = f.SegmentOffset - f.LogicalOff
    /\ f.LogicalOff <= s.LogicalOff /\ s.LogicalOff + s.Length <= FEnd(f)

\* The slice s is right for the fragments S: a gap where there are none, or
\* bytes of the newest.
Right(s, S) ==
    \/ s.Sparse /\ \A pos \in Int : Covers(s, pos) => \A f \in S : ~Covers(f, pos)
    \/ \E f \in S : /\ SliceOf(s, f)
                    /\ \A pos \in Int : Covers(s, pos) =>
                          \A g \in S : Covers(g, pos) => f.Seq >= g.Seq

\* planRead gives the read plan that PlanMatches asks for: every position is in
\* exactly one slice, the byte of the newest fragment over it, or a hole.
LEMMA PlanFacts ==
    ASSUME SetLaws
    PROVE  /\ \A S : \A off, len \in Nat : \A s \in planRead(S, off, len) :
                 IsFiniteSet(S) /\ S \subseteq Frag
                 => /\ s \in Slice /\ off <= s.LogicalOff /\ s.LogicalOff + s.Length <= off + len
                    /\ Right(s, S)
           /\ \A S : \A off, len \in Nat :
                 IsFiniteSet(S) /\ S \subseteq Frag /\ (\A f, g \in S : f.Seq = g.Seq => f = g)
                 => PlanMatches(planRead(S, off, len), S, off, len)

\* A gap is the interval it stands for.
<1>GapFacts.
    ASSUME NEW u, NEW lo \in Nat, NEW hi \in Nat, Within(u, lo, hi)
    PROVE  /\ Gap(u) \in Slice /\ Gap(u).Sparse
           /\ lo <= Gap(u).LogicalOff /\ Gap(u).LogicalOff + Gap(u).Length <= hi
           /\ \A pos \in Int : Covers(Gap(u), pos) <=> In(u, pos)
    <2> USE <1>GapFacts
    <2>1. PICK a \in Nat, b \in Nat : a = u[1] /\ b = u[2] /\ lo <= a /\ a <= b /\ b <= hi
        BY DEF Within
    <2>2. PICK s : s = Gap(u)
        OBVIOUS
    <2>3. s = [LogicalOff |-> a, Length |-> b - a, Sparse |-> TRUE, Tier |-> 0, SegmentID |-> 0,
               Offset |-> 0]
        BY <2>1, <2>2 DEF Gap
    <2>4. s \in Slice /\ s.Sparse /\ s.LogicalOff = a /\ s.Length = b - a
        BY SMTT(30), <2>1, <2>3 DEF Slice
    <2>5. lo <= s.LogicalOff /\ s.LogicalOff + s.Length <= hi
        BY SMTT(30), <2>1, <2>4
    <2>6. \A pos \in Int : Covers(s, pos) <=> In(u, pos)
        BY SMTT(30), <2>1, <2>4 DEF Covers, In
    <2> QED
        BY <2>2, <2>4, <2>5, <2>6

\* A located slice is the piece it stands for.
<1>LocatedFacts.
    ASSUME NEW f \in Frag, NEW o, Piece(o, f)
    PROVE  /\ Located(o) \in Slice /\ SliceOf(Located(o), f)
           /\ Located(o).LogicalOff = o.LogicalOff
           /\ Located(o).LogicalOff + Located(o).Length = FEnd(o)
           /\ \A pos \in Int : Covers(Located(o), pos) <=> Covers(o, pos)
    <2> USE <1>LocatedFacts
    <2>1. PICK s : s = Located(o)
        OBVIOUS
    <2>2. /\ s.LogicalOff = o.LogicalOff /\ s.Length = o.Length /\ ~s.Sparse /\ s.Tier = o.Tier
          /\ s.SegmentID = o.SegmentID /\ s.Offset = o.SegmentOffset
        BY <2>1 DEF Located
    <2>3. s \in Slice
        BY <2>1 DEF Located, Slice, Piece, Frag
    <2>4. s.LogicalOff + s.Length = FEnd(o)
        BY <2>2 DEF FEnd
    <2>5. SliceOf(s, f)
        BY <2>2, <2>4 DEF SliceOf, Piece
    <2>6. \A pos \in Int : Covers(s, pos) <=> Covers(o, pos)
        BY <2>2 DEF Covers
    <2> QED
        BY <2>1, <2>2, <2>3, <2>4, <2>5, <2>6

\* Every slice of a plan is right.
<1>PlanSlices.
    ASSUME NEW S, IsFiniteSet(S), S \subseteq Frag, NEW off \in Nat, NEW len \in Nat,
           NEW s \in planRead(S, off, len)
    PROVE  /\ s \in Slice /\ off <= s.LogicalOff /\ s.LogicalOff + s.Length <= off + len
           /\ Right(s, S)
    <2> USE <1>PlanSlices
    <2>1. PICK hi \in Nat : hi = off + len /\ off <= hi
        BY SMTT(30)
    <2>2. PICK acc : acc = CarveAll(S, <<off, hi>>)
        OBVIOUS
    <2>3. Carving(acc, S, off, hi)
        BY <2>1, <2>2, CarveFacts
    <2>4. s \in {Located(o) : o \in acc.out} \cup {Gap(u) : u \in acc.uncovered}
        BY <2>1, <2>2 DEF planRead
    <2>5. ASSUME NEW o \in acc.out, s = Located(o)
          PROVE  /\ s \in Slice /\ off <= s.LogicalOff /\ s.LogicalOff + s.Length <= hi
                 /\ Right(s, S)
        <3>1. /\ off <= o.LogicalOff /\ FEnd(o) <= hi
              /\ \E f \in S : /\ Piece(o, f)
                              /\ \A pos \in Int : Covers(o, pos) =>
                                    \A g \in S : Covers(g, pos) => f.Seq >= g.Seq
            BY <2>3 DEF Carving
        <3>2. PICK f \in S : /\ Piece(o, f)
                             /\ \A pos \in Int : Covers(o, pos) =>
                                   \A g \in S : Covers(g, pos) => f.Seq >= g.Seq
            BY <3>1
        <3>3. /\ s \in Slice /\ SliceOf(s, f) /\ s.LogicalOff = o.LogicalOff
              /\ s.LogicalOff + s.Length = FEnd(o)
              /\ \A pos \in Int : Covers(s, pos) <=> Covers(o, pos)
            BY <2>5, <3>2, <1>LocatedFacts
        <3>4. Right(s, S)
            BY <3>2, <3>3 DEF Right
        <3> QED
            BY <3>1, <3>3, <3>4
    <2>6. ASSUME NEW u \in acc.uncovered, s = Gap(u)
          PROVE  /\ s \in Slice /\ off <= s.LogicalOff /\ s.LogicalOff + s.Length <= hi
                 /\ Right(s, S)
        <3>1. Within(u, off, hi) /\ \A pos \in Int : In(u, pos) => \A f \in S : ~Covers(f, pos)
            BY <2>3 DEF Carving
        <3>2. /\ s \in Slice /\ s.Sparse /\ off <= s.LogicalOff /\ s.LogicalOff + s.Length <= hi
              /\ \A pos \in Int : Covers(s, pos) <=> In(u, pos)
            BY <2>6, <3>1, <1>GapFacts
        <3>3. Right(s, S)
            BY <3>1, <3>2 DEF Right
        <3> QED
            BY <3>2, <3>3
    <2> QED
        BY <2>1, <2>4, <2>5, <2>6

\* planRead (fragment.go) gives the read plan that PlanMatches asks for, for
\* any fragments whose seqs differ and any range: every position is in exactly
\* one slice, and that slice delivers the byte of the newest fragment over it,
\* or a hole where there is none.
<1>PlanCovers.
    ASSUME NEW S, IsFiniteSet(S), S \subseteq Frag, \A f, g \in S : f.Seq = g.Seq => f = g,
           NEW off \in Nat, NEW len \in Nat
    PROVE  PlanMatches(planRead(S, off, len), S, off, len)
    <2> USE <1>PlanCovers
    <2>1. PICK plan : plan = planRead(S, off, len)
        OBVIOUS
    <2>2. \A s \in plan : /\ s \in Slice /\ off <= s.LogicalOff
                          /\ s.LogicalOff + s.Length <= off + len /\ Right(s, S)
        BY <2>1, <1>PlanSlices
    <2>3. ASSUME NEW pos \in off .. off + len - 1
          PROVE  \E x \in plan : {s \in plan : Covers(s, pos)} = {x}
        <3>1. PICK hi \in Nat : hi = off + len /\ off <= hi
            BY SMTT(30)
        <3>2. PICK acc : acc = CarveAll(S, <<off, hi>>)
            OBVIOUS
        <3>3. Carving(acc, S, off, hi)
            BY <3>1, <3>2, CarveFacts
        <3>4. plan = {Located(o) : o \in acc.out} \cup {Gap(u) : u \in acc.uncovered}
            <4>1. ~(len <= 0)
                BY SMTT(30)
            <4> QED
                BY <2>1, <3>1, <3>2, <4>1 DEF planRead
        <3>5. pos \in Int /\ In(<<off, hi>>, pos)
            BY SMTT(30), <3>1 DEF In
        <3>6. ASSUME NEW o \in acc.out
              PROVE  Covers(Located(o), pos) <=> Covers(o, pos)
            <4>1. PICK f \in S : Piece(o, f)
                BY <3>3 DEF Carving
            <4> QED
                BY <3>5, <4>1, <1>LocatedFacts
        <3>7. ASSUME NEW u \in acc.uncovered
              PROVE  Covers(Gap(u), pos) <=> In(u, pos)
            <4>1. Within(u, off, hi)
                BY <3>3 DEF Carving
            <4> QED
                BY <3>5, <4>1, <1>GapFacts
        <3>8. ASSUME NEW x \in plan, Covers(x, pos), \A s \in plan : Covers(s, pos) => s = x
              PROVE  {s \in plan : Covers(s, pos)} = {x}
            BY <3>8
        <3>9. CASE \E f \in S : Covers(f, pos)
            <4>1. PICK o \in acc.out : Covers(o, pos)
                BY <3>3, <3>5, <3>9 DEF Carving
            <4>2. Located(o) \in plan /\ Covers(Located(o), pos)
                BY <3>4, <3>6, <4>1
            <4>3. \A s \in plan : Covers(s, pos) => s = Located(o)
                <5>1. \A p \in acc.out : Covers(p, pos) => p = o
                    BY <3>3, <3>5, <4>1 DEF Carving
                <5>2. \A u \in acc.uncovered : ~In(u, pos)
                    BY <3>3, <3>5, <3>9 DEF Carving
                <5>3. ASSUME NEW s \in plan, Covers(s, pos)
                      PROVE  s = Located(o)
                    <6>1. PICK p : \/ p \in acc.out /\ s = Located(p)
                                   \/ p \in acc.uncovered /\ s = Gap(p)
                        BY <3>4
                    <6> QED
                        BY <3>6, <3>7, <5>1, <5>2, <5>3, <6>1
                <5> QED
                    BY <5>3
            <4> QED
                BY <3>8, <4>2, <4>3
        <3>10. CASE \A f \in S : ~Covers(f, pos)
            <4>1. PICK u \in acc.uncovered : In(u, pos)
                BY <3>3, <3>5, <3>10 DEF Carving
            <4>2. Gap(u) \in plan /\ Covers(Gap(u), pos)
                BY <3>4, <3>7, <4>1
            <4>3. \A s \in plan : Covers(s, pos) => s = Gap(u)
                <5>1. \A p \in acc.out : ~Covers(p, pos)
                    BY <3>3, <3>5, <3>10 DEF Carving
                <5>2. \A v \in acc.uncovered : In(v, pos) => v = u
                    BY <3>3, <3>5, <4>1 DEF Carving
                <5>3. ASSUME NEW s \in plan, Covers(s, pos)
                      PROVE  s = Gap(u)
                    <6>1. PICK p : \/ p \in acc.out /\ s = Located(p)
                                   \/ p \in acc.uncovered /\ s = Gap(p)
                        BY <3>4
                    <6> QED
                        BY <3>6, <3>7, <5>1, <5>2, <5>3, <6>1
                <5> QED
                    BY <5>3
            <4> QED
                BY <3>8, <4>2, <4>3
        <3> QED
            BY <3>9, <3>10
    <2>4. ASSUME NEW pos \in off .. off + len - 1
          PROVE  Cardinality({s \in plan : Covers(s, pos)}) = 1
        <3>1. PICK x : {s \in plan : Covers(s, pos)} = {x}
            BY <2>3
        <3> QED
            BY <3>1 DEF SetLaws, SingletonLaw
    <2>5. ASSUME NEW pos \in off .. off + len - 1, NEW s \in plan, Covers(s, pos)
          PROVE  Delivers(s, pos) = Byte(S, pos)
        <3>1. pos \in Int
            BY SMTT(30)
        <3> DEFINE over == {f \in S : Covers(f, pos)}
        <3>2. CASE s.Sparse /\ \A p \in Int : Covers(s, p) => \A f \in S : ~Covers(f, p)
            <4>1. over = {}
                BY <2>5, <3>1, <3>2
            <4> QED
                BY <3>2, <4>1 DEF Delivers, Byte
        <3>3. ASSUME NEW f \in S, SliceOf(s, f),
                     \A p \in Int : Covers(s, p) => \A g \in S : Covers(g, p) => f.Seq >= g.Seq
              PROVE  Delivers(s, pos) = Byte(S, pos)
            <4>1. s \in Slice /\ f \in Frag
                BY <2>2
            <4>2. Covers(f, pos)
                BY SMTT(30), <2>5, <3>3, <4>1 DEF SliceOf, Covers, Slice, Frag, FEnd
            <4>3. f \in over /\ \A g \in over : f.Seq >= g.Seq
                BY <2>5, <3>1, <3>3, <4>2
            <4>4. PICK x : x = CHOOSE y \in over : \A g \in over : y.Seq >= g.Seq
                OBVIOUS
            <4>5. x \in over /\ \A g \in over : x.Seq >= g.Seq
                BY <4>3, <4>4
            <4>6. x = f
                <5>1. x.Seq \in Nat /\ f.Seq \in Nat /\ x.Seq >= f.Seq /\ f.Seq >= x.Seq
                    BY <4>3, <4>5 DEF Frag
                <5>2. x.Seq = f.Seq
                    BY SMTT(30), <5>1
                <5> QED
                    BY <4>5, <5>2
            <4>7. Byte(S, pos) = <<f.Tier, f.SegmentID, f.SegmentOffset + pos - f.LogicalOff>>
                BY <4>3, <4>4, <4>6 DEF Byte
            <4>8. Delivers(s, pos) = <<s.Tier, s.SegmentID, s.Offset + pos - s.LogicalOff>>
                BY <3>3 DEF Delivers, SliceOf
            <4>9. s.Offset + pos - s.LogicalOff = f.SegmentOffset + pos - f.LogicalOff
                BY SMTT(30), <3>3, <4>1 DEF SliceOf, Slice, Frag
            <4> QED
                BY <3>3, <4>7, <4>8, <4>9 DEF SliceOf
        <3> QED
            BY <2>2, <3>2, <3>3 DEF Right
    <2> QED
        BY <2>1, <2>2, <2>4, <2>5 DEF PlanMatches

<1> QED
    BY <1>PlanSlices, <1>PlanCovers

-----------------------------------------------------------------------------
(* Canonical views *)

\* A finite set of fragments lies between the bounds canonicalView finds.
LEMMA ViewBounds ==
    ASSUME SetLaws, NEW S, IsFiniteSet(S), S \subseteq Frag, S # {}
    PROVE  \E lo \in Nat, hi \in Nat :
              /\ canonicalView(S) = CarveAll(S, <<lo, hi>>).out
              /\ lo <= hi /\ \A f \in S : lo <= f.LogicalOff /\ FEnd(f) <= hi
<1> DEFINE lo == CHOOSE m \in {f.LogicalOff : f \in S} : \A f \in S : m <= f.LogicalOff
           hi == CHOOSE m \in {FEnd(f) : f \in S} : \A f \in S : m >= FEnd(f)
<1>1. canonicalView(S) = CarveAll(S, <<lo, hi>>).out
    BY DEF canonicalView
<1>2. \A f \in S : f.LogicalOff \in Nat /\ f.Length \in Nat /\ FEnd(f) \in Nat
                   /\ f.LogicalOff <= FEnd(f)
    BY SMTT(30) DEF Frag, FEnd
<1>3. S \in SUBSET S
    OBVIOUS
<1>4. lo \in {f.LogicalOff : f \in S} /\ \A f \in S : lo <= f.LogicalOff
    <2> DEFINE w == [f \in S |-> -f.LogicalOff]
    <2>1. w \in [S -> Int]
        BY SMTT(30), <1>2
    <2>2. PICK x \in S : \A y \in S : w[y] <= w[x]
        <3> HIDE DEF w
        <3> QED
            BY <1>3, <2>1, Heaviest
    <2>3. \A y \in S : -y.LogicalOff <= -x.LogicalOff
        BY <2>2
    <2> HIDE DEF w
    <2>4. \A y \in S : x.LogicalOff <= y.LogicalOff
        BY SMTT(30), <1>2, <2>3
    <2>5. x.LogicalOff \in {f.LogicalOff : f \in S}
        OBVIOUS
    <2> QED
        BY <2>4, <2>5
<1>5. hi \in {FEnd(f) : f \in S} /\ \A f \in S : hi >= FEnd(f)
    <2> DEFINE w == [f \in S |-> FEnd(f)]
    <2>1. w \in [S -> Int]
        BY SMTT(30), <1>2
    <2>2. PICK x \in S : \A y \in S : w[y] <= w[x]
        <3> HIDE DEF w
        <3> QED
            BY <1>3, <2>1, Heaviest
    <2>3. \A y \in S : FEnd(y) <= FEnd(x)
        BY <2>2
    <2> HIDE DEF w
    <2>4. \A y \in S : FEnd(x) >= FEnd(y)
        BY <1>2, <2>3
    <2>5. FEnd(x) \in {FEnd(f) : f \in S}
        OBVIOUS
    <2> QED
        BY <2>4, <2>5
<1> HIDE DEF lo, hi
<1>6. lo \in Nat /\ hi \in Nat
    BY <1>2, <1>4, <1>5
<1>7. \A f \in S : FEnd(f) <= hi
    BY <1>2, <1>5, <1>6
<1>8. lo <= hi
    <2>1. PICK f \in S : TRUE
        OBVIOUS
    <2> QED
        BY SMTT(30), <1>2, <1>4, <1>6, <1>7, <2>1
<1> QED
    BY <1>1, <1>4, <1>6, <1>7, <1>8

\* The canonical view of some fragments has, at every position they cover, one
\* piece: of the newest fragment over it.
LEMMA ViewFacts ==
    ASSUME SetLaws, NEW S, IsFiniteSet(S), S \subseteq Frag, S # {}
    PROVE  /\ IsFiniteSet(canonicalView(S))
           /\ \A o \in canonicalView(S) :
                 \E f \in S : /\ Piece(o, f)
                              /\ \A pos \in Int : Covers(o, pos) =>
                                    \A g \in S : Covers(g, pos) => f.Seq >= g.Seq
           /\ \A pos \in Int : (\E f \in S : Covers(f, pos))
                                   => \E o \in canonicalView(S) : Covers(o, pos)
           /\ \A o, p \in canonicalView(S) : \A pos \in Int :
                 Covers(o, pos) /\ Covers(p, pos) => o = p
<1>1. PICK lo \in Nat, hi \in Nat :
          /\ canonicalView(S) = CarveAll(S, <<lo, hi>>).out
          /\ lo <= hi /\ \A f \in S : lo <= f.LogicalOff /\ FEnd(f) <= hi
    BY ViewBounds
<1>2. PICK acc : acc = CarveAll(S, <<lo, hi>>)
    OBVIOUS
<1>3. Carving(acc, S, lo, hi)
    BY <1>1, <1>2, CarveFacts
<1>4. ASSUME NEW pos \in Int, NEW f \in S, Covers(f, pos)
      PROVE  In(<<lo, hi>>, pos)
    <2>1. f \in Frag /\ lo <= f.LogicalOff /\ FEnd(f) <= hi
        BY <1>1
    <2> QED
        BY SMTT(30), <1>4, <2>1 DEF In, Covers, FEnd, Frag
<1>5. canonicalView(S) = acc.out
    BY <1>1, <1>2
<1>6. ASSUME NEW pos \in Int, \E f \in S : Covers(f, pos)
      PROVE  \E o \in acc.out : Covers(o, pos)
    BY <1>3, <1>4, <1>6 DEF Carving
<1>7. /\ IsFiniteSet(acc.out)
      /\ \A o \in acc.out :
            \E f \in S : /\ Piece(o, f)
                         /\ \A pos \in Int : Covers(o, pos) =>
                               \A g \in S : Covers(g, pos) => f.Seq >= g.Seq
      /\ \A o, p \in acc.out : \A pos \in Int : Covers(o, pos) /\ Covers(p, pos) => o = p
    BY <1>3 DEF Carving
<1> QED
    BY <1>5, <1>6, <1>7

\* The canonical view of fragments with positions has no empty pieces.
LEMMA ViewSolid ==
    ASSUME SetLaws, NEW S, IsFiniteSet(S), S \subseteq Frag, S # {}, \A f \in S : f.Length > 0
    PROVE  \A o \in canonicalView(S) : o.Length > 0
<1>1. PICK lo \in Nat, hi \in Nat :
          /\ canonicalView(S) = CarveAll(S, <<lo, hi>>).out
          /\ lo <= hi /\ \A f \in S : lo <= f.LogicalOff /\ FEnd(f) <= hi
    BY ViewBounds
<1>2. lo < hi
    <2>1. PICK f \in S : TRUE
        OBVIOUS
    <2>2. PICK a \in Nat, b \in Nat : a = f.LogicalOff /\ b = f.Length /\ b > 0 /\ FEnd(f) = a + b
        BY DEF Frag, FEnd
    <2>3. lo <= a /\ a + b <= hi
        BY <1>1, <2>2
    <2> QED
        BY SMTT(30), <2>2, <2>3
<1>3. Solid(CarveAll(S, <<lo, hi>>))
    BY <1>2, CarveFacts
<1> QED
    BY <1>1, <1>3 DEF Solid

\* Rewriting a stripe to its canonical view (Move, through fragment.go's
\* canonicalView) changes no byte of it: at every position the newest fragment
\* of the view points at the byte the newest fragment of the stripe did, and
\* holes stay holes, for any fragments whose seqs differ.
LEMMA ViewKeeps ==
    ASSUME SetLaws, NEW S, IsFiniteSet(S), S \subseteq Frag, \A f, g \in S : f.Seq = g.Seq => f = g,
           NEW pos \in Nat
    PROVE  Byte(canonicalView(S), pos) = Byte(S, pos)
<1>1. CASE S = {}
    <2>1. canonicalView(S) = S
        BY <1>1 DEF canonicalView
    <2> QED
        BY <2>1
<1>2. CASE S # {}
    <2>1. PICK V : V = canonicalView(S)
        OBVIOUS
    <2>2. /\ \A o \in V : \E f \in S :
                /\ Piece(o, f)
                /\ \A p \in Int : Covers(o, p) => \A g \in S : Covers(g, p) => f.Seq >= g.Seq
          /\ \A p \in Int : (\E f \in S : Covers(f, p)) => \E o \in V : Covers(o, p)
          /\ \A o, q \in V : \A p \in Int : Covers(o, p) /\ Covers(q, p) => o = q
        BY <1>2, <2>1, ViewFacts
    <2>3. pos \in Int
        BY SMTT(30)
    <2> DEFINE overS == {f \in S : Covers(f, pos)}
    <2> DEFINE overV == {o \in V : Covers(o, pos)}
    <2>4. ASSUME NEW o \in V, NEW f \in S, Piece(o, f), Covers(o, pos)
          PROVE  Covers(f, pos)
        BY SMTT(30), <2>3, <2>4 DEF Piece, Covers, Frag, FEnd
    <2>5. CASE \A f \in S : ~Covers(f, pos)
        <3>1. overS = {} /\ overV = {}
            BY <2>2, <2>4, <2>5
        <3> QED
            BY <2>1, <3>1 DEF Byte
    <2>6. CASE \E f \in S : Covers(f, pos)
        <3>1. PICK o \in V : Covers(o, pos)
            BY <2>2, <2>3, <2>6
        <3>2. PICK f \in S :
                  Piece(o, f) /\ \A g \in S : Covers(g, pos) => f.Seq >= g.Seq
            BY <2>2, <2>3, <3>1
        <3>3. f \in overS /\ \A g \in overS : f.Seq >= g.Seq
            BY <2>4, <3>1, <3>2
        <3>4. o \in overV /\ \A q \in overV : q = o
            BY <2>2, <2>3, <3>1
        <3>5. PICK x : x = CHOOSE y \in overS : \A g \in overS : y.Seq >= g.Seq
            OBVIOUS
        <3>6. x \in overS /\ \A g \in overS : x.Seq >= g.Seq
            BY <3>3, <3>5
        <3>7. x = f
            <4>1. x.Seq \in Nat /\ f.Seq \in Nat /\ x.Seq >= f.Seq /\ f.Seq >= x.Seq
                BY <3>3, <3>6 DEF Frag
            <4>2. x.Seq = f.Seq
                BY SMTT(30), <4>1
            <4> QED
                BY <3>6, <4>2
        <3>8. PICK y : y = CHOOSE z \in overV : \A g \in overV : z.Seq >= g.Seq
            OBVIOUS
        <3>9. y = o
            <4>1. o \in Frag
                BY <3>2 DEF Piece
            <4>2. o.Seq >= o.Seq
                BY SMTT(30), <4>1 DEF Frag
            <4>3. \A g \in overV : o.Seq >= g.Seq
                BY <3>4, <4>2
            <4> QED
                BY <3>4, <3>8, <4>3
        <3>10. Byte(S, pos) = <<f.Tier, f.SegmentID, f.SegmentOffset + pos - f.LogicalOff>>
            BY <3>3, <3>5, <3>7 DEF Byte
        <3>11. Byte(V, pos) = <<o.Tier, o.SegmentID, o.SegmentOffset + pos - o.LogicalOff>>
            BY <3>4, <3>8, <3>9 DEF Byte
        <3>12. o.SegmentOffset + pos - o.LogicalOff = f.SegmentOffset + pos - f.LogicalOff
            BY SMTT(30), <3>2 DEF Piece, Frag
        <3> QED
            BY <2>1, <3>2, <3>10, <3>11, <3>12 DEF Piece
    <2> QED
        BY <2>5, <2>6
<1> QED
    BY <1>1, <1>2

=============================================================================
