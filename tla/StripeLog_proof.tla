--------------------------- MODULE StripeLog_proof ---------------------------
(***************************************************************************)
(* Proofs about the fragment table: numbers keep their order in keys, a    *)
(* scan visits exactly the keys of its prefix or range, and whatever       *)
(* appends, truncates, deletions and moves came before, reads find the     *)
(* array of bytes that they would make of it.                              *)
(***************************************************************************)
EXTENDS StripeLog, Fragments_proof

\* A leaf that names no prover is Zenon's.
USE ZenonT(60)

-----------------------------------------------------------------------------
(* Numbers in keys *)

Powers(p, n) == p = [k \in 0 .. n |-> IF k = 0 THEN 1 ELSE Radix * p[k - 1]]

\* The table of powers goes on.
LEMMA PowersGrow ==
    ASSUME NEW n \in Nat, NEW p, Powers(p, n)
    PROVE  \E q : Powers(q, n + 1) /\ q[n + 1] = Radix * p[n] /\ \A k \in 0 .. n : q[k] = p[k]
<1> DEFINE q == [k \in 0 .. n + 1 |-> IF k = 0 THEN 1 ELSE Radix * p[k - 1]]
<1>1. \A k \in 0 .. n + 1 : k # 0 => k - 1 \in 0 .. n
    BY SMTT(30)
<1>2. \A k \in 0 .. n : k \in 0 .. n + 1
    BY SMTT(30)
<1>3. ASSUME NEW k \in 0 .. n
      PROVE  q[k] = p[k]
    BY <1>2 DEF Powers
<1>4. ASSUME NEW k \in 0 .. n + 1
      PROVE  q[k] = IF k = 0 THEN 1 ELSE Radix * q[k - 1]
    <2>1. CASE k = 0
        BY <2>1
    <2>2. CASE k # 0
        <3>1. q[k] = Radix * p[k - 1]
            BY <2>2
        <3> HIDE DEF q
        <3>2. q[k - 1] = p[k - 1]
            BY <1>1, <1>3, <2>2
        <3> QED
            BY <2>2, <3>1, <3>2
    <2> QED
        BY <2>1, <2>2
<1>5. q = [k \in 0 .. n + 1 |-> q[k]]
    OBVIOUS
<1>6. n + 1 \in 0 .. n + 1 /\ n + 1 # 0 /\ (n + 1) - 1 = n
    BY SMTT(30)
<1>7. q[n + 1] = Radix * p[n]
    BY <1>6
<1> HIDE DEF q
<1>8. Powers(q, n + 1)
    BY <1>4, <1>5 DEF Powers
<1> QED
    BY <1>3, <1>7, <1>8

\* There is one such table, and it has numbers.
LEMMA PowersExist ==
    ASSUME SetLaws, NEW n \in Nat
    PROVE  /\ \E p : Powers(p, n)
           /\ \A p, q : Powers(p, n) /\ Powers(q, n) => p = q
           /\ \A p : Powers(p, n) => \A k \in 0 .. n : p[k] \in Nat \ {0}
<1>1. 0 \in 0 .. n
    BY SMTT(30)
<1>2. \E p : Powers(p, n)
    <2> DEFINE U == {k \in 0 .. n : \E p : Powers(p, k)}
    <2>1. 0 \in U
        <3> DEFINE p == [k \in 0 .. 0 |-> 1]
        <3>1. p = [k \in 0 .. 0 |-> IF k = 0 THEN 1 ELSE Radix * p[k - 1]]
            <4>1. \A k \in 0 .. 0 : k = 0
                BY SMTT(30)
            <4> QED
                BY <4>1
        <3> HIDE DEF p
        <3>2. Powers(p, 0)
            BY <3>1 DEF Powers
        <3> QED
            BY SMTT(30), <3>2
    <2>2. ASSUME NEW k \in 1 .. n, k - 1 \in U
          PROVE  k \in U
        <3>1. k - 1 \in Nat /\ (k - 1) + 1 = k /\ k \in 0 .. n
            BY SMTT(30)
        <3>2. PICK p : Powers(p, k - 1)
            BY <2>2
        <3>3. \E q : Powers(q, (k - 1) + 1)
            BY <3>1, <3>2, PowersGrow
        <3> QED
            BY <3>1, <3>3
    <2>3. 0 .. n \subseteq U
        <3> HIDE DEF U
        <3> QED
            BY <2>1, <2>2, UpTo
    <2>4. n \in 0 .. n
        BY SMTT(30)
    <2> QED
        BY <2>3, <2>4
<1>3. ASSUME NEW p, NEW q, Powers(p, n), Powers(q, n)
      PROVE  p = q
    <2> DEFINE U == {k \in 0 .. n : p[k] = q[k]}
    <2>1. 0 \in U
        BY <1>1, <1>3 DEF Powers
    <2>2. ASSUME NEW k \in 1 .. n, k - 1 \in U
          PROVE  k \in U
        <3>1. k \in 0 .. n /\ k # 0
            BY SMTT(30)
        <3>2. p[k] = Radix * p[k - 1] /\ q[k] = Radix * q[k - 1]
            BY <1>3, <3>1 DEF Powers
        <3> QED
            BY <2>2, <3>1, <3>2
    <2>3. 0 .. n \subseteq U
        <3> HIDE DEF U
        <3> QED
            BY <2>1, <2>2, UpTo
    <2>4. \A k \in 0 .. n : p[k] = q[k]
        BY <2>3
    <2>5. p = [k \in 0 .. n |-> p[k]] /\ q = [k \in 0 .. n |-> q[k]]
        <3>1. /\ p = [k \in 0 .. n |-> IF k = 0 THEN 1 ELSE Radix * p[k - 1]]
              /\ q = [k \in 0 .. n |-> IF k = 0 THEN 1 ELSE Radix * q[k - 1]]
            BY <1>3 DEF Powers
        <3> QED
            BY <3>1
    <2> QED
        BY <2>4, <2>5
<1>4. ASSUME NEW p, Powers(p, n)
      PROVE  \A k \in 0 .. n : p[k] \in Nat \ {0}
    <2> DEFINE U == {k \in 0 .. n : p[k] \in Nat \ {0}}
    <2>1. 0 \in U
        <3>1. p[0] = 1
            BY <1>1, <1>4 DEF Powers
        <3> QED
            BY SMTT(30), <1>1, <3>1
    <2>2. ASSUME NEW k \in 1 .. n, k - 1 \in U
          PROVE  k \in U
        <3>1. k \in 0 .. n /\ k # 0
            BY SMTT(30)
        <3>2. p[k] = Radix * p[k - 1]
            BY <1>4, <3>1 DEF Powers
        <3>3. \A x \in Nat \ {0} : Radix * x \in Nat \ {0}
            BY SMTT(30), KeysAssumption
        <3> QED
            BY <2>2, <3>1, <3>2, <3>3
    <2>3. 0 .. n \subseteq U
        <3> HIDE DEF U
        <3> QED
            BY <2>1, <2>2, UpTo
    <2> QED
        BY <2>3
<1> QED
    BY <1>2, <1>3, <1>4

\* Power is the power.
LEMMA PowerFacts ==
    ASSUME SetLaws, NEW n \in Nat
    PROVE  Power(0) = 1 /\ Power(n) \in Nat \ {0} /\ Power(n + 1) = Radix * Power(n)
<1> DEFINE P(m) == CHOOSE p : p = [k \in 0 .. m |-> IF k = 0 THEN 1 ELSE Radix * p[k - 1]]
<1>1. ASSUME NEW m \in Nat
      PROVE  Powers(P(m), m) /\ Power(m) = P(m)[m]
    <2>1. PICK p : p = [k \in 0 .. m |-> IF k = 0 THEN 1 ELSE Radix * p[k - 1]]
        BY PowersExist DEF Powers
    <2>2. P(m) = [k \in 0 .. m |-> IF k = 0 THEN 1 ELSE Radix * P(m)[k - 1]]
        BY <2>1
    <2>3. Power(m) = P(m)[m]
        BY DEF Power
    <2> HIDE DEF P
    <2> QED
        BY <2>2, <2>3 DEF Powers
<1> HIDE DEF P
<1>2. n + 1 \in Nat /\ 0 \in Nat /\ 0 \in 0 .. 0 /\ n \in 0 .. n
    BY SMTT(30)
<1>3. Power(0) = 1
    <2>1. Powers(P(0), 0) /\ Power(0) = P(0)[0]
        BY <1>1, <1>2
    <2> QED
        BY <1>2, <2>1 DEF Powers
<1>4. Power(n) \in Nat \ {0}
    <2>1. PICK p : p = P(n) /\ Powers(p, n) /\ Power(n) = p[n]
        BY <1>1
    <2>2. \A k \in 0 .. n : p[k] \in Nat \ {0}
        BY <2>1, PowersExist
    <2> QED
        BY <1>2, <2>1, <2>2
<1>5. PICK q : Powers(q, n + 1) /\ q[n + 1] = Radix * P(n)[n]
    BY <1>1, PowersGrow
<1>6. P(n + 1) = q
    BY <1>1, <1>2, <1>5, PowersExist
<1>7. Power(n + 1) = Radix * Power(n)
    BY <1>1, <1>2, <1>5, <1>6
<1> QED
    BY <1>3, <1>4, <1>7

Octet == 0 .. Radix - 1

\* x without its last m bytes.
Top(x, m) == x \div Power(m)

\* The least number of a set.
LEMMA LeastNat ==
    ASSUME SetLaws, NEW T, T \subseteq Nat, T # {}
    PROVE  \E x \in T : \A y \in T : x <= y
<1>1. T \in SUBSET Nat
    OBVIOUS
<1> QED
    BY <1>1 DEF SetLaws, LeastLaw

\* PutUint writes a number in a fixed width, most significant byte first: bytes
\* order as the numbers do, and Uint reads the number back.
LEMMA NumberFacts ==
    ASSUME SetLaws
    PROVE  /\ \A x, w \in Nat :
                 /\ PutUint(x, w) \in Seq(Octet) /\ Len(PutUint(x, w)) = w
                 /\ DOMAIN PutUint(x, w) = 1 .. w
                 /\ \A k \in 1 .. w : PutUint(x, w)[k] = Top(x, w - k) % Radix /\ PutUint(x, w)[k] \in Octet
           /\ \A w, x, y \in Nat :
                 x < y /\ x < Power(w) /\ y < Power(w)
                 => \E n \in 1 .. w : /\ PutUint(x, w)[n] < PutUint(y, w)[n]
                                      /\ \A k \in 1 .. n - 1 : PutUint(x, w)[k] = PutUint(y, w)[k]
           /\ \A w, x \in Nat : \A b :
                 x < Power(w) /\ Len(b) = w /\ (\A k \in 1 .. w : b[k] = PutUint(x, w)[k])
                 => Uint(b) = x

\* Taking the last byte off what is left.
<1>TopFacts.
    ASSUME NEW x \in Nat, NEW m \in Nat
    PROVE  /\ Top(x, 0) = x /\ Top(x, m) \in Nat
           /\ Top(x, m) = Radix * Top(x, m + 1) + (Top(x, m) % Radix)
           /\ Top(x, m) % Radix \in Octet
           /\ x < Power(m) => Top(x, m) = 0
    <2>1. /\ Power(0) = 1 /\ Power(m) \in Nat \ {0} /\ Power(m + 1) = Radix * Power(m)
          /\ Radix \in Nat \ {0}
        BY SMTT(30), PowerFacts, KeysAssumption
    <2>2. ASSUME NEW P \in Nat \ {0}, NEW R \in Nat \ {0}
          PROVE  /\ x \div 1 = x /\ x \div P \in Nat
                 /\ x < P => x \div P = 0
                 /\ x \div P = R * ((x \div P) \div R) + ((x \div P) % R)
                 /\ (x \div P) % R \in 0 .. R - 1
        BY SMTT(30)
    <2>3. ASSUME NEW P \in Nat \ {0}, NEW R \in Nat \ {0}
          PROVE  (x \div P) \div R = x \div (R * P)
        BY SMTT(30)
    <2>4. Top(x, m + 1) = Top(x, m) \div Radix
        BY <2>1, <2>3 DEF Top
    <2>5. /\ Top(x, m) = Radix * (Top(x, m) \div Radix) + (Top(x, m) % Radix)
          /\ Top(x, m) % Radix \in Octet /\ Top(x, m) \in Nat
          /\ x < Power(m) => Top(x, m) = 0
        BY <2>1, <2>2 DEF Top, Octet
    <2>6. Top(x, 0) = x
        BY <2>1, <2>2 DEF Top
    <2> QED
        BY <2>4, <2>5, <2>6

\* More is left of the larger number.
<1>TopOrder.
    ASSUME NEW x \in Nat, NEW y \in Nat, x <= y, NEW m \in Nat
    PROVE  Top(x, m) <= Top(y, m)
    <2> USE <1>TopOrder
    <2>1. Power(m) \in Nat \ {0}
        BY PowerFacts
    <2>2. ASSUME NEW P \in Nat \ {0}
          PROVE  x \div P <= y \div P
        BY SMTT(30)
    <2> QED
        BY <2>1, <2>2 DEF Top

\* PutUint makes bytes, as many as it is told.
<1>PutUintFacts.
    ASSUME NEW x \in Nat, NEW w \in Nat
    PROVE  /\ PutUint(x, w) \in Seq(Octet) /\ Len(PutUint(x, w)) = w
           /\ DOMAIN PutUint(x, w) = 1 .. w
           /\ \A k \in 1 .. w : PutUint(x, w)[k] = Top(x, w - k) % Radix /\ PutUint(x, w)[k] \in Octet
    <2>1. PutUint(x, w) = [k \in 1 .. w |-> Top(x, w - k) % Radix]
        BY DEF PutUint, Top
    <2>2. \A k \in 1 .. w : Top(x, w - k) % Radix \in Octet
        <3>1. \A k \in 1 .. w : w - k \in Nat
            BY SMTT(30)
        <3> QED
            BY <3>1, <1>TopFacts
    <2>3. PutUint(x, w) \in [1 .. w -> Octet]
        BY <2>1, <2>2
    <2>4. PutUint(x, w) \in Seq(Octet) /\ Len(PutUint(x, w)) = w
        BY SMTT(30), <2>3
    <2> QED
        BY <2>1, <2>2, <2>3, <2>4

\* Numbers whose first bytes are the same are the same without the others.
<1>SameTop.
    ASSUME NEW w \in Nat, NEW x \in Nat, NEW y \in Nat, x < Power(w), y < Power(w),
           NEW n \in 0 .. w, \A k \in 1 .. n : PutUint(x, w)[k] = PutUint(y, w)[k]
    PROVE  Top(x, w - n) = Top(y, w - n)
    <2> USE <1>SameTop
    <2> DEFINE U == {k \in 0 .. n : Top(x, w - k) = Top(y, w - k)}
    <2>1. 0 \in U
        <3>1. w - 0 = w /\ 0 \in 0 .. n
            BY SMTT(30)
        <3>2. Top(x, w) = 0 /\ Top(y, w) = 0
            BY <1>TopFacts
        <3> QED
            BY <3>1, <3>2
    <2>2. ASSUME NEW k \in 1 .. n, k - 1 \in U
          PROVE  k \in U
        <3>1. k \in 0 .. n /\ k \in 1 .. w /\ w - k \in Nat /\ w - (k - 1) = (w - k) + 1
            BY SMTT(30)
        <3>2. Top(x, (w - k) + 1) = Top(y, (w - k) + 1)
            BY <2>2, <3>1
        <3>3. Top(x, w - k) % Radix = Top(y, w - k) % Radix
            <4>1. PutUint(x, w)[k] = Top(x, w - k) % Radix /\ PutUint(y, w)[k] = Top(y, w - k) % Radix
                BY <3>1, <1>PutUintFacts
            <4> QED
                BY <4>1
        <3>4. /\ Top(x, w - k) = Radix * Top(x, (w - k) + 1) + (Top(x, w - k) % Radix)
              /\ Top(y, w - k) = Radix * Top(y, (w - k) + 1) + (Top(y, w - k) % Radix)
            BY <3>1, <1>TopFacts
        <3>5. Top(x, w - k) = Top(y, w - k)
            BY <3>2, <3>3, <3>4
        <3> QED
            BY <3>1, <3>5
    <2>3. 0 .. n \subseteq U
        <3>1. n \in Nat
            BY SMTT(30)
        <3> HIDE DEF U
        <3> QED
            BY <2>1, <2>2, <3>1, UpTo
    <2>4. n \in 0 .. n
        BY SMTT(30)
    <2> QED
        BY <2>3, <2>4

\* Big-endian bytes of one width are in the order of the numbers: at the first
\* byte in which they differ, the smaller number has the smaller byte.
<1>PutUintOrder.
    ASSUME NEW w \in Nat, NEW x \in Nat, NEW y \in Nat, x < y, x < Power(w), y < Power(w)
    PROVE  \E n \in 1 .. w : /\ PutUint(x, w)[n] < PutUint(y, w)[n]
                             /\ \A k \in 1 .. n - 1 : PutUint(x, w)[k] = PutUint(y, w)[k]
    <2> USE <1>PutUintOrder
    <2> DEFINE T == {n \in 1 .. w : PutUint(x, w)[n] # PutUint(y, w)[n]}
    <2>1. T # {}
        <3>1. SUFFICES ASSUME T = {} PROVE FALSE
            OBVIOUS
        <3>2. w \in 0 .. w /\ w - w = 0
            BY SMTT(30)
        <3>3. \A k \in 1 .. w : PutUint(x, w)[k] = PutUint(y, w)[k]
            BY <3>1
        <3>4. Top(x, w - w) = Top(y, w - w)
            BY <3>2, <3>3, <1>SameTop
        <3>5. Top(x, 0) = x /\ Top(y, 0) = y
            BY <1>TopFacts
        <3>6. x = y
            BY <3>2, <3>4, <3>5
        <3> QED
            BY SMTT(30), <3>6
    <2>2. PICK n \in T : \A k \in T : n <= k
        <3>1. T \subseteq Nat
            BY SMTT(30)
        <3> HIDE DEF T
        <3> QED
            BY <2>1, <3>1, LeastNat
    <2>3. n \in 1 .. w /\ PutUint(x, w)[n] # PutUint(y, w)[n]
        BY <2>2
    <2>4. ASSUME NEW k \in 1 .. n - 1
          PROVE  PutUint(x, w)[k] = PutUint(y, w)[k]
        <3>1. k \in 1 .. w /\ ~(n <= k)
            BY SMTT(30), <2>3
        <3> QED
            BY <2>2, <3>1
    <2>5. n - 1 \in 0 .. w /\ w - n \in Nat /\ w - (n - 1) = (w - n) + 1
        BY SMTT(30), <2>3
    <2>6. Top(x, (w - n) + 1) = Top(y, (w - n) + 1)
        <3>1. Top(x, w - (n - 1)) = Top(y, w - (n - 1))
            BY <2>4, <2>5, <1>SameTop
        <3> QED
            BY <2>5, <3>1
    <2>7. /\ Top(x, w - n) = Radix * Top(x, (w - n) + 1) + PutUint(x, w)[n]
          /\ Top(y, w - n) = Radix * Top(y, (w - n) + 1) + PutUint(y, w)[n]
          /\ PutUint(x, w)[n] \in Octet /\ PutUint(y, w)[n] \in Octet
        <3>1. /\ PutUint(x, w)[n] = Top(x, w - n) % Radix /\ PutUint(x, w)[n] \in Octet
              /\ PutUint(y, w)[n] = Top(y, w - n) % Radix /\ PutUint(y, w)[n] \in Octet
            BY <2>3, <1>PutUintFacts
        <3>2. /\ Top(x, w - n) = Radix * Top(x, (w - n) + 1) + (Top(x, w - n) % Radix)
              /\ Top(y, w - n) = Radix * Top(y, (w - n) + 1) + (Top(y, w - n) % Radix)
            BY <2>5, <1>TopFacts
        <3> QED
            BY <3>1, <3>2
    <2>8. x <= y
        BY SMTT(30)
    <2>9. Top(x, w - n) <= Top(y, w - n) /\ Top(x, w - n) \in Nat /\ Top(y, w - n) \in Nat
        BY <2>5, <2>8, <1>TopFacts, <1>TopOrder
    <2>10. PICK a \in Nat, b \in Nat, c \in Int, t \in Nat :
               /\ a = PutUint(x, w)[n] /\ b = PutUint(y, w)[n] /\ t = Top(x, w - n)
               /\ c = Radix * Top(x, (w - n) + 1)
        <3>1. Top(x, (w - n) + 1) \in Nat
            <4>1. (w - n) + 1 \in Nat
                BY SMTT(30), <2>5
            <4> QED
                BY <4>1, <1>TopFacts
        <3>2. Radix * Top(x, (w - n) + 1) \in Int
            BY SMTT(30), <3>1, KeysAssumption
        <3>3. PutUint(x, w)[n] \in Nat /\ PutUint(y, w)[n] \in Nat
            BY SMTT(30), <2>7, KeysAssumption DEF Octet
        <3> QED
            BY <2>9, <3>2, <3>3
    <2>11. c + a <= c + b /\ a # b
        BY <2>3, <2>6, <2>7, <2>9, <2>10
    <2>12. a < b
        BY SMTT(30), <2>11
    <2> QED
        BY <2>3, <2>4, <2>10, <2>12

\* Uint reads back what PutUint wrote.
<1>UintOfPut.
    ASSUME NEW w \in Nat, NEW x \in Nat, x < Power(w), NEW b, Len(b) = w,
           \A k \in 1 .. w : b[k] = PutUint(x, w)[k]
    PROVE  Uint(b) = x
    <2> USE <1>UintOfPut
    <2> DEFINE Reads(c) == c = [n \in 0 .. w |-> IF n = 0 THEN 0 ELSE c[n - 1] * Radix + b[n]]
    <2> DEFINE v == [n \in 0 .. w |-> Top(x, w - n)]
    <2>1. ASSUME NEW n \in 1 .. w
          PROVE  Top(x, w - n) = Top(x, w - (n - 1)) * Radix + b[n]
        <3>1. w - n \in Nat /\ w - (n - 1) = (w - n) + 1 /\ (w - n) + 1 \in Nat
            BY SMTT(30)
        <3>2. Top(x, w - n) = Radix * Top(x, (w - n) + 1) + (Top(x, w - n) % Radix)
            BY <3>1, <1>TopFacts
        <3>3. b[n] = Top(x, w - n) % Radix
            <4>1. PutUint(x, w)[n] = Top(x, w - n) % Radix
                BY <1>PutUintFacts
            <4> QED
                BY <4>1
        <3>4. Top(x, (w - n) + 1) \in Nat
            BY <3>1, <1>TopFacts
        <3>5. Radix * Top(x, (w - n) + 1) = Top(x, (w - n) + 1) * Radix
            BY SMTT(30), <3>4, KeysAssumption
        <3> QED
            BY <3>1, <3>2, <3>3, <3>5
    <2>2. Top(x, w - 0) = 0
        <3>1. w - 0 = w
            BY SMTT(30)
        <3>2. Top(x, w) = 0
            BY <1>TopFacts
        <3> QED
            BY <3>1, <3>2
    <2>3. \A n \in 0 .. w : n # 0 => n \in 1 .. w /\ n - 1 \in 0 .. w
        BY SMTT(30)
    <2>4. Reads(v)
        <3>1. ASSUME NEW n \in 0 .. w
              PROVE  v[n] = IF n = 0 THEN 0 ELSE v[n - 1] * Radix + b[n]
            <4>1. CASE n = 0
                BY <2>2, <4>1
            <4>2. CASE n # 0
                <5>1. v[n] = Top(x, w - n) /\ v[n - 1] = Top(x, w - (n - 1))
                    BY <2>3, <4>2
                <5> QED
                    BY <2>1, <2>3, <4>2, <5>1
            <4> QED
                BY <4>1, <4>2
        <3>2. v = [n \in 0 .. w |-> v[n]]
            OBVIOUS
        <3> HIDE DEF v
        <3> QED
            BY <3>1, <3>2
    <2> HIDE DEF v
    <2> DEFINE c == CHOOSE f : f = [n \in 0 .. w |-> IF n = 0 THEN 0 ELSE f[n - 1] * Radix + b[n]]
    <2>5. Reads(c) /\ Uint(b) = c[w]
        <3>1. PICK d : d = [n \in 0 .. w |-> IF n = 0 THEN 0 ELSE d[n - 1] * Radix + b[n]]
            BY <2>4
        <3>2. c = [n \in 0 .. w |-> IF n = 0 THEN 0 ELSE c[n - 1] * Radix + b[n]]
            BY <3>1
        <3>3. Uint(b) = c[w]
            BY DEF Uint
        <3> HIDE DEF c
        <3> QED
            BY <3>2, <3>3
    <2> HIDE DEF c
    <2> DEFINE U == {n \in 0 .. w : c[n] = Top(x, w - n)}
    <2>6. 0 \in U
        <3>1. 0 \in 0 .. w
            BY SMTT(30)
        <3>2. c[0] = 0
            BY <2>5, <3>1
        <3> QED
            BY <2>2, <3>1, <3>2
    <2>7. ASSUME NEW n \in 1 .. w, n - 1 \in U
          PROVE  n \in U
        <3>1. n \in 0 .. w /\ n # 0
            BY SMTT(30)
        <3>2. c[n] = c[n - 1] * Radix + b[n]
            BY <2>5, <3>1
        <3> QED
            BY <2>1, <2>7, <3>1, <3>2
    <2>8. 0 .. w \subseteq U
        <3> HIDE DEF U
        <3> QED
            BY <2>6, <2>7, UpTo
    <2>9. w \in 0 .. w /\ w - w = 0
        BY SMTT(30)
    <2>10. c[w] = Top(x, w - w)
        BY <2>8, <2>9
    <2> QED
        BY <2>5, <2>9, <2>10, <1>TopFacts

<1> QED
    BY <1>PutUintFacts, <1>PutUintOrder, <1>UintOfPut

-----------------------------------------------------------------------------
(* Scans *)

StartsWith(k, p) == Len(p) <= Len(k) /\ \A n \in 1 .. Len(p) : k[n] = p[n]

\* Bytes are numbers.
LEMMA OctetNat == \A x \in Octet : x \in Nat /\ x \in Int
BY SMTT(30), KeysAssumption DEF Octet

\* A key is not below its prefixes.
LEMMA NotBelowPrefix ==
    ASSUME NEW k \in Seq(Octet), NEW p \in Seq(Octet), StartsWith(k, p)
    PROVE  ~Less(k, p)
<1>1. SUFFICES ASSUME NEW n \in 1 .. Len(p), n <= Len(k) => k[n] < p[n]
               PROVE  FALSE
    BY DEF Less
<1>2. n <= Len(k) /\ k[n] = p[n] /\ p[n] \in Octet
    BY SMTT(30) DEF StartsWith
<1> QED
    BY SMTT(30), <1>1, <1>2, KeysAssumption DEF Octet

\* A scan over a prefix visits the keys with that prefix and no others.
LEMMA ScanFacts ==
    ASSUME SetLaws
    PROVE  \A keys : \A p \in Seq(Octet) :
              keys \subseteq Seq(Octet)
              => PrefixScan(keys, p) = {k \in keys : StartsWith(k, p)}

\* The bound above a prefix: its bytes up to the last that can be raised, that
\* one raised.
<1>UpperBoundFacts.
    ASSUME NEW p \in Seq(Octet)
    PROVE  \/ /\ PrefixUpperBound(p) = NoBound
              /\ \A n \in 1 .. Len(p) : p[n] = Radix - 1
           \/ \E last \in 1 .. Len(p) :
                 /\ PrefixUpperBound(p) # NoBound /\ Len(PrefixUpperBound(p)) = last
                 /\ \A n \in 1 .. last - 1 : PrefixUpperBound(p)[n] = p[n]
                 /\ PrefixUpperBound(p)[last] = p[last] + 1
                 /\ \A n \in 1 .. Len(p) : p[n] # Radix - 1 => n <= last
    <2> DEFINE room == {n \in DOMAIN p : p[n] # Radix - 1}
    <2>1. DOMAIN p = 1 .. Len(p) /\ Len(p) \in Nat /\ \A n \in 1 .. Len(p) : p[n] \in Octet
        BY SMTT(30)
    <2>2. CASE room = {}
        <3>1. PrefixUpperBound(p) = NoBound
            BY <2>2 DEF PrefixUpperBound
        <3> QED
            BY <2>1, <2>2, <3>1
    <2>3. CASE room # {}
        <3>1. PICK m \in room : \A n \in room : n <= m
            <4> DEFINE T == {Len(p) - n : n \in room}
            <4>1. T \subseteq Nat /\ T # {}
                BY SMTT(30), <2>1, <2>3
            <4>2. PICK t \in T : \A u \in T : t <= u
                <5> HIDE DEF T
                <5> QED
                    BY <4>1, LeastNat
            <4>3. PICK m \in room : t = Len(p) - m
                BY <4>2
            <4>4. ASSUME NEW n \in room
                  PROVE  n <= m
                <5>1. Len(p) - m <= Len(p) - n
                    BY <4>2, <4>3
                <5>2. n \in 1 .. Len(p) /\ m \in 1 .. Len(p)
                    BY <2>1
                <5> QED
                    BY SMTT(30), <2>1, <5>1, <5>2
            <4> QED
                BY <4>4
        <3>2. PICK last : last = CHOOSE n \in room : \A q \in room : q <= n
            OBVIOUS
        <3>3. last \in room /\ \A q \in room : q <= last
            BY <3>1, <3>2
        <3>4. PrefixUpperBound(p) = SubSeq(p, 1, last - 1) \o <<p[last] + 1>>
            BY <2>3, <3>2 DEF PrefixUpperBound
        <3>5. PICK s : s = SubSeq(p, 1, last - 1)
            OBVIOUS
        <3>6. last \in 1 .. Len(p) /\ p[last] \in Octet
            BY <2>1, <3>3
        <3>7. s \in Seq(Octet) /\ Len(s) = last - 1 /\ \A n \in 1 .. last - 1 : s[n] = p[n]
            BY SMTT(30), <2>1, <3>5, <3>6
        <3>8. PICK e \in Int : e = p[last] + 1
            BY SMTT(30), <3>6, KeysAssumption DEF Octet
        <3>9. PICK b : b = s \o <<e>>
            OBVIOUS
        <3>10. s \in Seq(Int)
            <4>1. Octet \subseteq Int
                BY SMTT(30), KeysAssumption DEF Octet
            <4>2. s = [n \in 1 .. Len(s) |-> s[n]] /\ Len(s) \in Nat /\ \A n \in 1 .. Len(s) : s[n] \in Int
                BY SMTT(30), <3>7, <4>1
            <4>3. s \in [1 .. Len(s) -> Int]
                BY <4>2
            <4> QED
                BY SMTT(30), <4>2, <4>3
        <3>11. /\ Len(b) = last /\ b[last] = e
               /\ \A n \in 1 .. last - 1 : b[n] = s[n]
            BY SMTT(30), <3>6, <3>7, <3>8, <3>9, <3>10
        <3>12. b # NoBound
            BY SMTT(30), <3>6, <3>11 DEF NoBound
        <3>13. PrefixUpperBound(p) = b
            BY <3>4, <3>5, <3>8, <3>9
        <3>14. \A n \in 1 .. Len(p) : p[n] # Radix - 1 => n <= last
            BY <2>1, <3>3
        <3> QED
            BY <3>6, <3>7, <3>8, <3>11, <3>12, <3>13, <3>14
    <2> QED
        BY <2>2, <2>3

\* A key that is not below p has p for a prefix, or is above it at the first
\* place where they differ.
<1>NotBelow.
    ASSUME NEW k \in Seq(Octet), NEW p \in Seq(Octet), ~Less(k, p), ~StartsWith(k, p)
    PROVE  \E n \in 1 .. Len(p) : /\ n <= Len(k) /\ k[n] > p[n]
                                  /\ \A m \in 1 .. n - 1 : k[m] = p[m]
    <2> USE <1>NotBelow
    <2>1. Len(p) \in Nat /\ Len(k) \in Nat
        BY SMTT(30)
    <2> DEFINE T == {n \in 1 .. Len(p) : n > Len(k) \/ k[n] # p[n]}
    <2>2. T # {}
        <3>1. CASE Len(p) <= Len(k)
            BY <3>1 DEF StartsWith
        <3>2. CASE ~(Len(p) <= Len(k))
            <4>1. Len(p) \in 1 .. Len(p) /\ Len(p) > Len(k)
                BY SMTT(30), <2>1, <3>2
            <4> QED
                BY <4>1
        <3> QED
            BY <3>1, <3>2
    <2>3. PICK n \in T : \A m \in T : n <= m
        <3>1. T \subseteq Nat
            BY SMTT(30), <2>1
        <3> HIDE DEF T
        <3> QED
            BY <2>2, <3>1, LeastNat
    <2>4. n \in 1 .. Len(p) /\ (n > Len(k) \/ k[n] # p[n])
        BY <2>3
    <2>5. ASSUME NEW m \in 1 .. n - 1
          PROVE  k[m] = p[m] /\ m <= Len(k)
        <3>1. m \in 1 .. Len(p) /\ ~(n <= m)
            BY SMTT(30), <2>4
        <3>2. ~(m > Len(k)) /\ k[m] = p[m]
            BY <2>3, <3>1
        <3> QED
            BY SMTT(30), <2>1, <3>1, <3>2
    <2>6. n <= Len(k) + 1
        <3>1. CASE n = 1
            BY SMTT(30), <2>1, <3>1
        <3>2. CASE n # 1
            <4>1. n - 1 \in 1 .. n - 1
                BY SMTT(30), <2>4, <3>2
            <4>2. n - 1 <= Len(k)
                BY <2>5, <4>1
            <4> QED
                BY SMTT(30), <2>1, <2>4, <4>2
        <3> QED
            BY <3>1, <3>2
    <2>7. n <= Len(k) /\ ~(k[n] < p[n])
        BY <2>4, <2>5, <2>6 DEF Less
    <2>8. k[n] \in Octet /\ p[n] \in Octet
        BY SMTT(30), <2>4, <2>7
    <2>9. k[n] > p[n]
        <3>1. k[n] # p[n]
            BY SMTT(30), <2>1, <2>4, <2>7
        <3> QED
            <4>1. k[n] \in Int /\ p[n] \in Int
                BY <2>8, OctetNat
            <4> QED
                BY SMTT(30), <2>7, <3>1, <4>1
    <2> QED
        BY <2>4, <2>5, <2>7, <2>9

\* A scan from a prefix to PrefixUpperBound of it (kv/keys.go, DB.Iter) visits
\* the keys with that prefix and no others, whatever bytes the prefix ends in:
\* no neighbour's key, no key of another layer, and none left out.
<1>PrefixScanFinds.
    ASSUME NEW keys, keys \subseteq Seq(Octet), NEW p \in Seq(Octet)
    PROVE  PrefixScan(keys, p) = {k \in keys : StartsWith(k, p)}
    <2> USE <1>PrefixScanFinds
    <2> DEFINE hi == PrefixUpperBound(p)
    <2>1. ASSUME NEW k \in keys, StartsWith(k, p)
          PROVE  ~Less(k, p) /\ (hi = NoBound \/ Less(k, hi))
        <3>1. k \in Seq(Octet)
            OBVIOUS
        <3>2. ~Less(k, p)
            BY <2>1, <3>1, NotBelowPrefix
        <3>3. ASSUME NEW last \in 1 .. Len(p), Len(hi) = last, hi[last] = p[last] + 1,
                     \A n \in 1 .. last - 1 : hi[n] = p[n]
              PROVE  Less(k, hi)
            <4>1. /\ Len(p) \in Nat /\ Len(k) \in Nat /\ Len(p) <= Len(k)
                  /\ k[last] = p[last] /\ p[last] \in Octet
                BY SMTT(30), <2>1, <3>1 DEF StartsWith
            <4>2. k[last] < hi[last]
                <5>1. p[last] \in Int
                    BY <4>1, OctetNat
                <5> QED
                    BY SMTT(30), <3>3, <4>1, <5>1
            <4>3. last \in 1 .. Len(hi) /\ last <= Len(k) + 1 /\ \A n \in 1 .. last - 1 : n \in 1 .. Len(p)
                BY SMTT(30), <3>3, <4>1
            <4>4. \A n \in 1 .. last - 1 : k[n] = hi[n]
                BY <2>1, <3>3, <4>3 DEF StartsWith
            <4> QED
                BY <4>2, <4>3, <4>4 DEF Less
        <3> QED
            BY <3>2, <3>3, <1>UpperBoundFacts
    <2>2. ASSUME NEW k \in keys, ~Less(k, p), hi = NoBound \/ Less(k, hi)
          PROVE  StartsWith(k, p)
        <3>1. k \in Seq(Octet)
            OBVIOUS
        <3>2. SUFFICES ASSUME ~StartsWith(k, p) PROVE FALSE
            OBVIOUS
        <3>3. PICK n \in 1 .. Len(p) : /\ n <= Len(k) /\ k[n] > p[n]
                                       /\ \A m \in 1 .. n - 1 : k[m] = p[m]
            BY <2>2, <3>1, <3>2, <1>NotBelow
        <3>4. Len(p) \in Nat /\ Len(k) \in Nat /\ k[n] \in Octet /\ p[n] \in Octet
            BY SMTT(30), <3>1, <3>3
        <3>5. p[n] # Radix - 1
            BY SMTT(30), <3>3, <3>4, KeysAssumption DEF Octet
        <3>6. PICK last \in 1 .. Len(p) :
                  /\ hi # NoBound /\ Len(hi) = last
                  /\ \A m \in 1 .. last - 1 : hi[m] = p[m]
                  /\ hi[last] = p[last] + 1
                  /\ n <= last
            BY <3>5, <1>UpperBoundFacts
        <3>7. PICK m \in 1 .. Len(hi) : /\ m <= Len(k) => k[m] < hi[m]
                                        /\ m <= Len(k) + 1
                                        /\ \A q \in 1 .. m - 1 : k[q] = hi[q]
            BY <2>2, <3>6 DEF Less
        <3>8. m \in 1 .. last
            BY <3>6, <3>7
        <3>9. CASE n < m
            <4>1. n \in 1 .. m - 1 /\ n \in 1 .. last - 1
                BY SMTT(30), <3>3, <3>8, <3>9
            <4>2. k[n] = p[n] /\ k[n] \in Int
                BY <3>4, <3>6, <3>7, <4>1, OctetNat
            <4> QED
                BY SMTT(30), <3>3, <4>2
        <3>10. CASE m < n
            <4>1. m \in 1 .. n - 1 /\ m \in 1 .. last - 1 /\ m <= Len(k) /\ m \in 1 .. Len(p)
                BY SMTT(30), <3>3, <3>4, <3>6, <3>8, <3>10
            <4>2. k[m] < p[m] /\ k[m] = p[m]
                BY <3>3, <3>6, <3>7, <4>1
            <4>3. p[m] \in Octet
                BY SMTT(30), <4>1
            <4>4. p[m] \in Int
                BY <4>3, OctetNat
            <4> QED
                BY SMTT(30), <4>2, <4>4
        <3>11. PICK a \in Int, b \in Int : a = k[n] /\ b = p[n] /\ a > b
            <4>1. k[n] \in Int /\ p[n] \in Int
                BY <3>4, OctetNat
            <4> QED
                BY <3>3, <4>1
        <3>12. CASE m = n
            <4>1. k[n] < hi[n]
                BY <3>3, <3>7, <3>12
            <4>2. CASE n = last
                <5>1. a < b + 1
                    BY <3>6, <3>11, <4>1, <4>2
                <5> QED
                    BY SMTT(30), <3>11, <5>1
            <4>3. CASE n # last
                <5>1. n \in 1 .. last - 1
                    BY SMTT(30), <3>6, <4>3
                <5>2. a < b
                    BY <3>6, <3>11, <4>1, <5>1
                <5> QED
                    BY SMTT(30), <3>11, <5>2
            <4> QED
                BY <4>2, <4>3
        <3> QED
            BY SMTT(30), <3>8, <3>9, <3>10, <3>12
    <2> QED
        BY <2>1, <2>2 DEF PrefixScan, Iter

<1> QED
    BY <1>PrefixScanFinds

-----------------------------------------------------------------------------
(* Keys of the table *)

\* Every key has itself for a prefix.
LEMMA StartsItself ==
    ASSUME NEW k \in Seq(Octet)
    PROVE  StartsWith(k, k)
BY SMTT(30) DEF StartsWith

\* The widths are numbers, and the tag is a byte.
LEMMA Widths ==
    /\ InodeLen \in Nat /\ StripeLen \in Nat /\ SeqLen \in Nat
    /\ <<tagStripe>> \in Seq(Octet) /\ Len(<<tagStripe>>) = 1
<1>1. InodeLen \in Nat /\ StripeLen \in Nat /\ SeqLen \in Nat
    BY KeysAssumption
<1>2. tagStripe \in Octet
    BY SMTT(30), KeysAssumption DEF tagStripe, Octet
<1> QED
    BY SMTT(30), <1>1, <1>2

\* Two sequences one after the other.
LEMMA ConcatFacts ==
    ASSUME NEW S, NEW a \in Seq(S), NEW b \in Seq(S)
    PROVE  /\ a \o b \in Seq(S) /\ Len(a \o b) = Len(a) + Len(b)
           /\ \A n \in 1 .. Len(a) + Len(b) :
                 (a \o b)[n] = IF n <= Len(a) THEN a[n] ELSE b[n - Len(a)]
<1>1. a \o b \in Seq(S)
    BY SMTT(30)
<1>2. Len(a \o b) = Len(a) + Len(b)
    BY SMTT(30)
<1>3. \A n \in 1 .. Len(a) + Len(b) :
          (a \o b)[n] = IF n <= Len(a) THEN a[n] ELSE b[n - Len(a)]
    BY SMTT(30)
<1> QED
    BY <1>1, <1>2, <1>3

\* A key that goes on with a number.
LEMMA WithNumber ==
    ASSUME SetLaws, NEW a \in Seq(Octet), NEW x \in Nat, NEW w \in Nat
    PROVE  /\ a \o PutUint(x, w) \in Seq(Octet)
           /\ Len(a \o PutUint(x, w)) = Len(a) + w
           /\ StartsWith(a \o PutUint(x, w), a)
           /\ \A n \in 1 .. w : (a \o PutUint(x, w))[Len(a) + n] = PutUint(x, w)[n]
<1>1. PICK b : b = PutUint(x, w)
    OBVIOUS
<1>2. b \in Seq(Octet) /\ Len(b) = w
    BY <1>1, NumberFacts
<1>3. PICK c : c = a \o b
    OBVIOUS
<1>4. /\ c \in Seq(Octet) /\ Len(c) = Len(a) + Len(b)
      /\ \A n \in 1 .. Len(a) + Len(b) : c[n] = IF n <= Len(a) THEN a[n] ELSE b[n - Len(a)]
    BY <1>2, <1>3, ConcatFacts
<1>5. Len(a) \in Nat
    BY SMTT(30)
<1>6. StartsWith(c, a)
    <2>1. Len(a) <= Len(c) /\ \A n \in 1 .. Len(a) : n \in 1 .. Len(a) + Len(b) /\ n <= Len(a)
        BY SMTT(30), <1>2, <1>4, <1>5
    <2> QED
        BY <1>4, <2>1 DEF StartsWith
<1>7. ASSUME NEW n \in 1 .. w
      PROVE  c[Len(a) + n] = b[n]
    <2>1. /\ Len(a) + n \in 1 .. Len(a) + Len(b) /\ ~(Len(a) + n <= Len(a))
          /\ (Len(a) + n) - Len(a) = n
        BY SMTT(30), <1>2, <1>5
    <2> QED
        BY <1>4, <2>1
<1> QED
    BY <1>1, <1>2, <1>3, <1>4, <1>6, <1>7

\* The prefixes and keys of the fragment table are keys, each the beginning
\* of the next.
LEMMA StripePrefixFacts ==
    ASSUME SetLaws, NEW i \in Nat
    PROVE  /\ StripePrefix(i) \in Seq(Octet) /\ Len(StripePrefix(i)) = 1 + InodeLen
           /\ \A n \in 1 .. InodeLen : StripePrefix(i)[1 + n] = PutUint(i, InodeLen)[n]
           /\ StripePrefix(i)[1] = tagStripe
<1>1. PICK t : t = <<tagStripe>>
    OBVIOUS
<1>2. t \in Seq(Octet) /\ Len(t) = 1 /\ t[1] = tagStripe
    BY <1>1, Widths
<1>3. PICK p : p = t \o PutUint(i, InodeLen)
    OBVIOUS
<1>4. /\ p \in Seq(Octet) /\ Len(p) = Len(t) + InodeLen /\ StartsWith(p, t)
      /\ \A n \in 1 .. InodeLen : p[Len(t) + n] = PutUint(i, InodeLen)[n]
    <2> t \in Seq(Octet) /\ InodeLen \in Nat
        BY <1>2, Widths
    <2> QED
        BY <1>3, WithNumber
<1>5. 1 \in 1 .. Len(t)
    BY SMTT(30), <1>2
<1>6. p[1] = tagStripe
    BY <1>2, <1>4, <1>5 DEF StartsWith
<1>7. p = StripePrefix(i)
    BY <1>1, <1>3 DEF StripePrefix
<1> QED
    BY <1>2, <1>4, <1>6, <1>7

\* A stripe's prefix is its file's prefix and the bytes of the stripe.
LEMMA FragmentStripePrefixFacts ==
    ASSUME SetLaws, NEW i \in Nat, NEW s \in Nat
    PROVE  /\ FragmentStripePrefix(i, s) \in Seq(Octet)
           /\ Len(FragmentStripePrefix(i, s)) = 1 + InodeLen + StripeLen
           /\ StartsWith(FragmentStripePrefix(i, s), StripePrefix(i))
           /\ \A n \in 1 .. StripeLen :
                 FragmentStripePrefix(i, s)[1 + InodeLen + n] = PutUint(s, StripeLen)[n]
<1>1. PICK p : p = StripePrefix(i)
    OBVIOUS
<1>2. p \in Seq(Octet) /\ Len(p) = 1 + InodeLen
    BY <1>1, StripePrefixFacts
<1>3. PICK q : q = p \o PutUint(s, StripeLen)
    OBVIOUS
<1>4. /\ q \in Seq(Octet) /\ Len(q) = Len(p) + StripeLen /\ StartsWith(q, p)
      /\ \A n \in 1 .. StripeLen : q[Len(p) + n] = PutUint(s, StripeLen)[n]
    <2> p \in Seq(Octet) /\ StripeLen \in Nat
        BY <1>2, Widths
    <2> QED
        BY <1>3, WithNumber
<1>5. q = FragmentStripePrefix(i, s)
    BY <1>1, <1>3 DEF FragmentStripePrefix
<1> QED
    BY <1>1, <1>2, <1>4, <1>5

\* The inodes are numbers that fit their place in a key.
LEMMA InodeFacts ==
    ASSUME SetLaws, NEW i \in Inode
    PROVE  i \in Nat /\ i < Power(InodeLen)
<1>1. PICK P \in Nat : P = Power(InodeLen)
    BY PowerFacts, Widths
<1>2. i \in 1 .. P - 1
    BY <1>1, StripeLogAssumption
<1> QED
    BY SMTT(30), <1>1, <1>2

\* Prefixes of prefixes.
LEMMA StartsTwice ==
    ASSUME NEW k \in Seq(Octet), NEW p \in Seq(Octet), NEW q \in Seq(Octet),
           StartsWith(k, p), StartsWith(p, q)
    PROVE  StartsWith(k, q)
<1>1. Len(k) \in Nat /\ Len(p) \in Nat /\ Len(q) \in Nat /\ Len(q) <= Len(p) /\ Len(p) <= Len(k)
    BY SMTT(30) DEF StartsWith
<1>2. Len(q) <= Len(k) /\ \A n \in 1 .. Len(q) : n \in 1 .. Len(p)
    BY SMTT(30), <1>1
<1> QED
    BY <1>2 DEF StartsWith

\* A fragment's key begins with the prefixes of its file and of its stripe.
LEMMA FragmentKeyFacts ==
    ASSUME SetLaws, NEW i \in Nat, NEW s \in Nat, NEW q \in Nat
    PROVE  /\ FragmentKey(i, s, q) \in Seq(Octet) /\ IsFragmentKey(FragmentKey(i, s, q))
           /\ StartsWith(FragmentKey(i, s, q), FragmentStripePrefix(i, s))
           /\ StartsWith(FragmentKey(i, s, q), StripePrefix(i))
<1>1. PICK p : p = FragmentStripePrefix(i, s)
    OBVIOUS
<1>2. p \in Seq(Octet) /\ Len(p) = 1 + InodeLen + StripeLen /\ StartsWith(p, StripePrefix(i))
    BY <1>1, FragmentStripePrefixFacts
<1>3. PICK k : k = p \o PutUint(q, SeqLen)
    OBVIOUS
<1>4. k \in Seq(Octet) /\ Len(k) = Len(p) + SeqLen /\ StartsWith(k, p)
    BY <1>2, <1>3, Widths, WithNumber
<1>5. k = FragmentKey(i, s, q)
    BY <1>1, <1>3 DEF FragmentKey
<1>6. StartsWith(k, StripePrefix(i))
    BY <1>2, <1>4, StartsTwice, StripePrefixFacts
<1>7. IsFragmentKey(k)
    BY <1>2, <1>4 DEF IsFragmentKey
<1> QED
    BY <1>1, <1>4, <1>5, <1>6, <1>7

\* The stripe a fragment's key is decoded to is the one it was made for.
LEMMA DecodeStripe ==
    ASSUME SetLaws, NEW i \in Nat, NEW s \in Nat, s < Power(StripeLen), NEW q \in Nat
    PROVE  StripeIDFromFragmentKey(FragmentKey(i, s, q)) = s
<1>1. PICK k \in Seq(Octet), p \in Seq(Octet) :
          /\ k = FragmentKey(i, s, q) /\ p = FragmentStripePrefix(i, s)
    BY FragmentKeyFacts, FragmentStripePrefixFacts
<1>2. /\ Len(p) = 1 + InodeLen + StripeLen /\ Len(p) <= Len(k)
      /\ \A n \in 1 .. Len(p) : k[n] = p[n]
      /\ \A n \in 1 .. StripeLen : p[1 + InodeLen + n] = PutUint(s, StripeLen)[n]
    BY <1>1, FragmentKeyFacts, FragmentStripePrefixFacts DEF StartsWith
<1>3. PICK m \in Nat, n \in Nat : m = 2 + InodeLen /\ n = 1 + InodeLen + StripeLen
    BY SMTT(30), Widths
<1>4. Len(k) \in Nat /\ InodeLen \in Nat /\ StripeLen \in Nat
    BY SMTT(30), Widths
<1>5. m \in 1 .. Len(k) + 1 /\ n \in m - 1 .. Len(k) /\ n - m + 1 = StripeLen
    BY SMTT(30), <1>2, <1>3, <1>4
<1>6. PICK b : b = SubSeq(k, m, n)
    OBVIOUS
<1>7. Len(b) = StripeLen /\ \A x \in 1 .. n - m + 1 : b[x] = k[m + x - 1]
    <2>1. m \in Int /\ n \in Int /\ m <= n
        BY SMTT(30), <1>3, <1>4, KeysAssumption
    <2>2. ASSUME NEW x \in m .. n
          PROVE  k[x] \in Octet
        <3>1. x \in 1 .. Len(k)
            BY SMTT(30), <1>4, <1>5, <2>1
        <3> QED
            BY SMTT(30), <3>1
    <2>3. /\ Len(SubSeq(k, m, n)) = IF m <= n THEN n - m + 1 ELSE 0
          /\ \A x \in 1 .. n - m + 1 : SubSeq(k, m, n)[x] = k[m + x - 1]
        BY SMTT(30), <1>5, <2>1, <2>2
    <2> QED
        BY <1>5, <1>6, <2>1, <2>3
<1>8. ASSUME NEW x \in 1 .. StripeLen
      PROVE  b[x] = PutUint(s, StripeLen)[x]
    <2>1. m + x - 1 = 1 + InodeLen + x /\ m + x - 1 \in 1 .. Len(p) /\ x \in 1 .. n - m + 1
        BY SMTT(30), <1>2, <1>3, <1>4, <1>5
    <2> QED
        BY <1>2, <1>7, <2>1
<1>10. Uint(b) = s
    <2>1. Len(b) = StripeLen
        BY <1>7
    <2>2. s \in Nat /\ s < Power(StripeLen)
        OBVIOUS
    <2> QED
        BY <1>4, <1>8, <2>1, <2>2, NumberFacts
<1> QED
    BY <1>1, <1>3, <1>6, <1>10 DEF StripeIDFromFragmentKey

\* What may be in the fragment table.
StripeID == 0 .. Power(StripeLen) - 1

SeqNo    == 0 .. Power(SeqLen) - 1

Filed(k, i, s) == \E q \in SeqNo : k = FragmentKey(i, s, q)

\* A filed key, its prefixes and its stripe.
LEMMA FiledFacts ==
    ASSUME SetLaws, NEW i \in Inode, NEW s \in StripeID, NEW k, Filed(k, i, s)
    PROVE  /\ k \in Seq(Octet) /\ IsFragmentKey(k) /\ s \in Nat /\ s < Power(StripeLen)
           /\ StartsWith(k, FragmentStripePrefix(i, s)) /\ StartsWith(k, StripePrefix(i))
           /\ StripeIDFromFragmentKey(k) = s
<1>1. PICK q \in SeqNo : k = FragmentKey(i, s, q)
    BY DEF Filed
<1>2. i \in Nat
    BY InodeFacts
<1>3. s \in Nat /\ s < Power(StripeLen)
    BY SMTT(30), PowerFacts, Widths DEF StripeID
<1>4. q \in Nat
    BY SMTT(30), PowerFacts, Widths DEF SeqNo
<1> QED
    BY <1>1, <1>2, <1>3, <1>4, FragmentKeyFacts, DecodeStripe

\* At the first place where they differ, the key with the smaller byte is below.
LEMMA BelowAt ==
    ASSUME NEW k \in Seq(Octet), NEW l \in Seq(Octet), NEW n \in 1 .. Len(k), n <= Len(l),
           k[n] < l[n], \A m \in 1 .. n - 1 : k[m] = l[m]
    PROVE  Less(k, l) /\ ~Less(l, k)
<1>1. Len(k) \in Nat /\ Len(l) \in Nat
    BY SMTT(30)
<1>2. n \in 1 .. Len(l) /\ n <= Len(k) + 1
    BY SMTT(30), <1>1
<1>3. Less(k, l)
    BY <1>2 DEF Less
<1>4. ASSUME NEW m \in 1 .. Len(k), m <= Len(l) => l[m] < k[m], \A q \in 1 .. m - 1 : l[q] = k[q]
      PROVE  FALSE
    <2>1. PICK a \in Int, b \in Int : a = k[n] /\ b = l[n] /\ a < b
        <3>1. k[n] \in Int /\ l[n] \in Int
            <4>1. k[n] \in Octet /\ l[n] \in Octet
                BY SMTT(30), <1>2
            <4> QED
                BY <4>1, OctetNat
        <3> QED
            BY <3>1
    <2>2. CASE n < m
        <3>1. n \in 1 .. m - 1
            BY SMTT(30), <2>2
        <3>2. a = b
            BY <1>4, <2>1, <3>1
        <3> QED
            BY SMTT(30), <2>1, <3>2
    <2>3. CASE m < n
        <3>1. m \in 1 .. n - 1 /\ m <= Len(l)
            BY SMTT(30), <1>1, <1>2, <2>3
        <3>2. l[m] < l[m] /\ m \in 1 .. Len(l)
            <4>1. l[m] < l[m]
                BY <1>4, <3>1
            <4> QED
                BY SMTT(30), <3>1, <4>1
        <3>3. l[m] \in Octet
            BY SMTT(30), <3>2
        <3> QED
            <4>1. l[m] \in Int
                BY <3>3, OctetNat
            <4> QED
                BY SMTT(30), <3>2, <4>1
    <2>4. CASE m = n
        <3>1. b < a
            BY <1>4, <2>1, <2>4
        <3> QED
            BY SMTT(30), <2>1, <3>1
    <2> QED
        BY SMTT(30), <1>1, <2>2, <2>3, <2>4
<1>5. ~Less(l, k)
    BY <1>4 DEF Less
<1> QED
    BY <1>3, <1>5

\* Keys that share a prefix and go on with different numbers are in the order
\* of the numbers, whatever follows.
LEMMA OrderOfNumbers ==
    ASSUME SetLaws, NEW a \in Seq(Octet), NEW w \in Nat, NEW x \in Nat, NEW y \in Nat, x < y,
           x < Power(w), y < Power(w), NEW k \in Seq(Octet), NEW l \in Seq(Octet),
           StartsWith(k, a \o PutUint(x, w)), StartsWith(l, a \o PutUint(y, w))
    PROVE  Less(k, l) /\ ~Less(l, k)
<1>1. PICK n \in 1 .. w : /\ PutUint(x, w)[n] < PutUint(y, w)[n]
                          /\ \A m \in 1 .. n - 1 : PutUint(x, w)[m] = PutUint(y, w)[m]
    BY NumberFacts
<1>2. PICK p \in Seq(Octet) :
          /\ p = a \o PutUint(x, w) /\ Len(p) = Len(a) + w /\ StartsWith(p, a)
          /\ \A m \in 1 .. w : p[Len(a) + m] = PutUint(x, w)[m]
    BY WithNumber
<1>3. PICK q \in Seq(Octet) :
          /\ q = a \o PutUint(y, w) /\ Len(q) = Len(a) + w /\ StartsWith(q, a)
          /\ \A m \in 1 .. w : q[Len(a) + m] = PutUint(y, w)[m]
    BY WithNumber
<1>4. StartsWith(k, p) /\ StartsWith(l, q)
    BY <1>2, <1>3
<1>5. /\ Len(a) \in Nat /\ Len(k) \in Nat /\ Len(l) \in Nat
      /\ Len(a) + w <= Len(k) /\ Len(a) + w <= Len(l)
    BY SMTT(30), <1>2, <1>3, <1>4 DEF StartsWith
<1>6. PICK t \in Nat : t = Len(a) + n
    BY SMTT(30), <1>5
<1>7. t \in 1 .. Len(k) /\ t <= Len(l) /\ t \in 1 .. Len(a) + w
    BY SMTT(30), <1>1, <1>5, <1>6
<1>8. k[t] = p[t] /\ l[t] = q[t]
    BY <1>2, <1>3, <1>4, <1>7 DEF StartsWith
<1>9. k[t] < l[t]
    BY <1>1, <1>2, <1>3, <1>6, <1>8
<1>10. ASSUME NEW m \in 1 .. t - 1
       PROVE  k[m] = l[m]
    <2>1. m \in 1 .. Len(a) + w
        BY SMTT(30), <1>5, <1>7
    <2>2. k[m] = p[m] /\ l[m] = q[m]
        BY <1>2, <1>3, <1>4, <2>1 DEF StartsWith
    <2>3. CASE m <= Len(a)
        <3>1. m \in 1 .. Len(a)
            BY SMTT(30), <1>5, <2>3
        <3> QED
            BY <1>2, <1>3, <2>2, <3>1 DEF StartsWith
    <2>4. CASE ~(m <= Len(a))
        <3>1. PICK r \in 1 .. n - 1 : m = Len(a) + r
            <4>1. m - Len(a) \in 1 .. n - 1 /\ m = Len(a) + (m - Len(a))
                BY SMTT(30), <1>1, <1>5, <1>6, <2>4
            <4> QED
                BY <4>1
        <3>2. r \in 1 .. w
            BY SMTT(30), <1>1, <3>1
        <3> QED
            BY <1>1, <1>2, <1>3, <2>2, <3>1, <3>2
    <2> QED
        BY <2>3, <2>4
<1> QED
    BY <1>7, <1>9, <1>10, BelowAt

\* Fragments of a smaller inode are below, those of a greater one above.
LEMMA InodeOrder ==
    ASSUME SetLaws, NEW i \in Inode, NEW j \in Inode, i < j, NEW k \in Seq(Octet), NEW l \in Seq(Octet),
           StartsWith(k, StripePrefix(i)), StartsWith(l, StripePrefix(j))
    PROVE  Less(k, l) /\ ~Less(l, k)
<1>1. i \in Nat /\ j \in Nat /\ i < Power(InodeLen) /\ j < Power(InodeLen)
    BY InodeFacts
<1>2. /\ StartsWith(k, <<tagStripe>> \o PutUint(i, InodeLen))
      /\ StartsWith(l, <<tagStripe>> \o PutUint(j, InodeLen))
    BY DEF StripePrefix
<1> QED
    BY <1>1, <1>2, Widths, OrderOfNumbers

\* So are those of a smaller or greater stripe of one inode.
LEMMA StripeOrder ==
    ASSUME SetLaws, NEW i \in Inode, NEW s \in StripeID, NEW t \in StripeID, s < t,
           NEW k \in Seq(Octet), NEW l \in Seq(Octet),
           StartsWith(k, FragmentStripePrefix(i, s)), StartsWith(l, FragmentStripePrefix(i, t))
    PROVE  Less(k, l) /\ ~Less(l, k)
<1>1. i \in Nat /\ StripePrefix(i) \in Seq(Octet)
    BY InodeFacts, StripePrefixFacts
<1>2. s \in Nat /\ t \in Nat /\ s < Power(StripeLen) /\ t < Power(StripeLen)
    <2>1. PICK P \in Nat : P = Power(StripeLen)
        BY PowerFacts, Widths
    <2>2. s \in 0 .. P - 1 /\ t \in 0 .. P - 1
        BY <2>1 DEF StripeID
    <2> QED
        BY SMTT(30), <2>1, <2>2
<1>3. /\ StartsWith(k, StripePrefix(i) \o PutUint(s, StripeLen))
      /\ StartsWith(l, StripePrefix(i) \o PutUint(t, StripeLen))
    BY DEF FragmentStripePrefix
<1> QED
    BY <1>1, <1>2, <1>3, Widths, OrderOfNumbers

\* Which file and which stripe a filed key starts with.
LEMMA WhosePrefix ==
    ASSUME SetLaws, NEW i \in Inode, NEW j \in Inode, NEW s \in StripeID, NEW k, Filed(k, j, s)
    PROVE  /\ StartsWith(k, StripePrefix(i)) <=> i = j
           /\ \A t \in StripeID : StartsWith(k, FragmentStripePrefix(i, t)) <=> i = j /\ t = s
<1>1. /\ k \in Seq(Octet) /\ s \in Nat
      /\ StartsWith(k, FragmentStripePrefix(j, s)) /\ StartsWith(k, StripePrefix(j))
    BY FiledFacts
<1>2. i \in Nat /\ j \in Nat
    BY InodeFacts
<1>3. ASSUME StartsWith(k, StripePrefix(i))
      PROVE  i = j
    <2>1. ~(i < j) /\ ~(j < i)
        BY <1>1, <1>3, InodeOrder
    <2> QED
        BY SMTT(30), <1>2, <2>1
<1>4. ASSUME NEW t \in StripeID, StartsWith(k, FragmentStripePrefix(i, t))
      PROVE  i = j /\ t = s
    <2>1. t \in Nat
        BY SMTT(30), PowerFacts, Widths DEF StripeID
    <2>2. StartsWith(k, StripePrefix(i))
        BY <1>1, <1>2, <1>4, <2>1, FragmentStripePrefixFacts, StripePrefixFacts, StartsTwice
    <2>3. i = j
        BY <1>3, <2>2
    <2>4. ~(s < t) /\ ~(t < s)
        BY <1>1, <1>4, <2>3, StripeOrder
    <2> QED
        BY SMTT(30), <1>1, <2>1, <2>3, <2>4
<1> QED
    BY <1>1, <1>3, <1>4

\* A key of another layer starts with a smaller tag.
LEMMA ForeignFacts ==
    ASSUME SetLaws, NEW k \in Foreign
    PROVE  k \in Seq(Octet) /\ 1 \in 1 .. Len(k) /\ k[1] < tagStripe
<1>1. /\ \A b \in 0 .. 3 : b \in Octet /\ <<b>> \in Seq(Octet)
      /\ tagStoreMeta = 0 /\ tagDirent = 1 /\ tagNode = 2 /\ tagStripe = 3
    BY SMTT(30), KeysAssumption DEF Octet, tagStoreMeta, tagDirent, tagNode, tagStripe
<1>2. ASSUME NEW b \in 0 .. 2, NEW r \in Seq(Octet), k = <<b>> \o r
      PROVE  k \in Seq(Octet) /\ 1 \in 1 .. Len(k) /\ k[1] < tagStripe
    <2>1. <<b>> \in Seq(Octet) /\ Len(<<b>>) = 1 /\ <<b>>[1] = b /\ b < tagStripe
        BY SMTT(30), <1>1
    <2>2. Len(r) \in Nat
        BY SMTT(30)
    <2> QED
        BY SMTT(30), <1>2, <2>1, <2>2
<1>3. CASE k = StoreNextInodeKey
    <2>1. k = <<0, 1, 2>>
        BY <1>1, <1>3 DEF StoreNextInodeKey
    <2>2. 0 \in Octet /\ 1 \in Octet /\ 2 \in Octet
        BY SMTT(30), <1>1
    <2> QED
        BY SMTT(30), <1>1, <2>1, <2>2
<1>4. ASSUME NEW i \in Inode
      PROVE  i \in Nat
    BY SMTT(30), PowerFacts, Widths, StripeLogAssumption
<1>5. ASSUME NEW i \in Inode, k = NodeKey(i)
      PROVE  k \in Seq(Octet) /\ 1 \in 1 .. Len(k) /\ k[1] < tagStripe
    <2>1. k = <<2>> \o PutUint(i, InodeLen)
        BY <1>1, <1>5 DEF NodeKey
    <2>2. PutUint(i, InodeLen) \in Seq(Octet) /\ 2 \in 0 .. 2
        <3>1. PutUint(i, InodeLen) \in Seq(Octet)
            BY <1>4, Widths, NumberFacts
        <3> QED
            BY SMTT(30), <3>1
    <2> QED
        BY <1>2, <2>1, <2>2
<1>6. ASSUME NEW i \in Inode, NEW n \in Name, k = DirentKey(i, n)
      PROVE  k \in Seq(Octet) /\ 1 \in 1 .. Len(k) /\ k[1] < tagStripe
    <2>1. k = (<<1>> \o PutUint(i, InodeLen)) \o n
        BY <1>1, <1>6 DEF DirentKey, DirentPrefix
    <2>2. PICK a \in Seq(Octet) : a = PutUint(i, InodeLen)
        BY <1>4, Widths, NumberFacts
    <2>3. n \in Seq(Octet)
        BY StripeLogAssumption DEF Octet
    <2>4. <<1>> \in Seq(Octet) /\ Len(<<1>>) = 1 /\ <<1>>[1] = 1 /\ 1 < tagStripe
        BY SMTT(30), <1>1
    <2>5. PICK c : c = <<1>> \o a
        OBVIOUS
    <2>51. c \in Seq(Octet) /\ Len(c) \in Nat \ {0} /\ c[1] = 1
        <3>1. Len(a) \in Nat
            BY SMTT(30)
        <3> QED
            BY SMTT(30), <2>4, <2>5, <3>1
    <2>6. Len(n) \in Nat
        BY SMTT(30), <2>3
    <2>7. k = c \o n
        BY <2>1, <2>2, <2>5
    <2> QED
        BY SMTT(30), <2>3, <2>4, <2>51, <2>6, <2>7
<1>7. \/ k = StoreNextInodeKey
      \/ \E i \in Inode : k = NodeKey(i)
      \/ \E i \in Inode, n \in Name : k = DirentKey(i, n)
    BY SMTT(30) DEF Foreign
<1> QED
    BY <1>3, <1>5, <1>6, <1>7

\* A key of another layer is below every fragment's, and has none of their
\* prefixes.
LEMMA ForeignBelow ==
    ASSUME SetLaws, NEW k \in Foreign, NEW i \in Inode, NEW p \in Seq(Octet), StartsWith(p, StripePrefix(i))
    PROVE  Less(k, p) /\ ~StartsWith(k, p)
<1>1. k \in Seq(Octet) /\ 1 \in 1 .. Len(k) /\ k[1] < tagStripe
    BY ForeignFacts
<1>2. PICK a \in Seq(Octet) : a = StripePrefix(i) /\ Len(a) = 1 + InodeLen /\ a[1] = tagStripe
    BY InodeFacts, StripePrefixFacts
<1>3. 1 \in 1 .. Len(a)
    BY SMTT(30), <1>2, Widths
<1>4. p[1] = tagStripe /\ 1 \in 1 .. Len(p)
    <2>1. p[1] = a[1] /\ Len(a) <= Len(p)
        BY <1>2, <1>3 DEF StartsWith
    <2>2. 1 <= Len(p) /\ Len(p) \in Nat
        BY SMTT(30), <1>2, <1>3, <2>1
    <2> QED
        BY SMTT(30), <1>2, <2>1, <2>2
<1>5. k[1] < p[1] /\ 1 <= Len(p) /\ \A m \in 1 .. 1 - 1 : k[m] = p[m]
    BY SMTT(30), <1>1, <1>4
<1>6. Less(k, p)
    BY <1>1, <1>5, BelowAt
<1>7. ~StartsWith(k, p)
    BY <1>1, <1>6, NotBelowPrefix
<1> QED
    BY <1>6, <1>7

Table(keys) == \A k \in keys : k \in Foreign \/ \E i \in Inode, s \in StripeID : Filed(k, i, s)

\* The keys of inode i, and those of one of its stripes, among keys.
Own(keys, i)        == {k \in keys : \E s \in StripeID : Filed(k, i, s)}

OwnIn(keys, i, s)   == {k \in keys : Filed(k, i, s)}

\* A table's keys are byte strings.
LEMMA TableKeys ==
    ASSUME SetLaws, NEW keys, Table(keys)
    PROVE  keys \subseteq Seq(Octet)
BY FiledFacts, ForeignFacts DEF Table

\* Of a table's keys, an inode's are those with its prefix.
LEMMA OwnPrefix ==
    ASSUME SetLaws, NEW keys, Table(keys), NEW i \in Inode
    PROVE  /\ Own(keys, i) = {k \in keys : StartsWith(k, StripePrefix(i))}
           /\ \A k \in Own(keys, i) : k \in Seq(Octet) /\ IsFragmentKey(k)
<1>1. ASSUME NEW k \in keys, StartsWith(k, StripePrefix(i))
      PROVE  k \in Own(keys, i)
    <2>1. ~(k \in Foreign)
        <3>1. i \in Nat /\ StripePrefix(i) \in Seq(Octet)
            BY InodeFacts, StripePrefixFacts
        <3>2. StartsWith(StripePrefix(i), StripePrefix(i))
            BY <3>1, StartsItself
        <3> QED
            BY <1>1, <3>1, <3>2, ForeignBelow
    <2>2. PICK j \in Inode, s \in StripeID : Filed(k, j, s)
        BY <2>1 DEF Table
    <2>3. i = j
        BY <1>1, <2>2, WhosePrefix
    <2> QED
        BY <2>2, <2>3 DEF Own
<1>2. ASSUME NEW k \in Own(keys, i)
      PROVE  k \in keys /\ StartsWith(k, StripePrefix(i)) /\ k \in Seq(Octet) /\ IsFragmentKey(k)
    BY FiledFacts DEF Own
<1> QED
    BY <1>1, <1>2

\* The prefix scans of Truncate and DeleteInode, and that of Move, visit
\* exactly the keys of the inode and of its stripe.
LEMMA ScansAreExact ==
    ASSUME SetLaws, NEW keys, Table(keys), NEW i \in Inode
    PROVE  /\ PrefixScan(keys, StripePrefix(i)) = Own(keys, i)
           /\ \A s \in StripeID : PrefixScan(keys, FragmentStripePrefix(i, s)) = OwnIn(keys, i, s)
           /\ Fragmental(Own(keys, i)) = Own(keys, i)
           /\ \A s \in StripeID : Fragmental(OwnIn(keys, i, s)) = OwnIn(keys, i, s)
<1>1. i \in Nat /\ StripePrefix(i) \in Seq(Octet) /\ keys \subseteq Seq(Octet)
    BY InodeFacts, StripePrefixFacts, TableKeys
<1>2. PrefixScan(keys, StripePrefix(i)) = Own(keys, i)
    <2>1. PrefixScan(keys, StripePrefix(i)) = {k \in keys : StartsWith(k, StripePrefix(i))}
        BY <1>1, ScanFacts
    <2> QED
        BY <2>1, OwnPrefix
<1>3. ASSUME NEW s \in StripeID
      PROVE  /\ PrefixScan(keys, FragmentStripePrefix(i, s)) = OwnIn(keys, i, s)
             /\ Fragmental(OwnIn(keys, i, s)) = OwnIn(keys, i, s)
    <2>1. s \in Nat
        BY SMTT(30), PowerFacts, Widths DEF StripeID
    <2>2. FragmentStripePrefix(i, s) \in Seq(Octet)
        BY <1>1, <2>1, FragmentStripePrefixFacts
    <2>3. PrefixScan(keys, FragmentStripePrefix(i, s))
              = {k \in keys : StartsWith(k, FragmentStripePrefix(i, s))}
        BY <1>1, <2>2, ScanFacts
    <2>4. ASSUME NEW k \in keys, StartsWith(k, FragmentStripePrefix(i, s))
          PROVE  Filed(k, i, s)
        <3>1. StartsWith(k, StripePrefix(i))
            BY <1>1, <2>1, <2>2, <2>4, FragmentStripePrefixFacts, StartsTwice
        <3>2. PICK t \in StripeID : Filed(k, i, t)
            <4>1. k \in Own(keys, i)
                BY <3>1, OwnPrefix
            <4> QED
                BY <4>1 DEF Own
        <3>3. s = t
            BY <2>4, <3>2, WhosePrefix
        <3> QED
            BY <3>2, <3>3
    <2>5. ASSUME NEW k \in OwnIn(keys, i, s)
          PROVE  k \in keys /\ StartsWith(k, FragmentStripePrefix(i, s)) /\ IsFragmentKey(k)
        BY FiledFacts DEF OwnIn
    <2>6. PrefixScan(keys, FragmentStripePrefix(i, s)) = OwnIn(keys, i, s)
        BY <2>3, <2>4, <2>5 DEF OwnIn
    <2> QED
        BY <2>5, <2>6 DEF Fragmental
<1>4. Fragmental(Own(keys, i)) = Own(keys, i)
    BY OwnPrefix DEF Fragmental
<1> QED
    BY <1>2, <1>3, <1>4

\* The upper end of a range scan: the next stripe, or the inode's own bound
\* after the last.
RangeEnd(i, last) ==
    IF last = Power(StripeLen) - 1 THEN PrefixUpperBound(StripePrefix(i))
    ELSE FragmentStripePrefix(i, last + 1)

\* What is past a prefix that a key is above.
LEMMA NotInScan ==
    ASSUME SetLaws, NEW k \in Seq(Octet), NEW p \in Seq(Octet), ~Less(k, p)
    PROVE  StartsWith(k, p) <=> PrefixUpperBound(p) = NoBound \/ Less(k, PrefixUpperBound(p))
<1>1. PrefixScan({k}, p) = {l \in {k} : StartsWith(l, p)}
    <2>1. {k} \subseteq Seq(Octet)
        OBVIOUS
    <2> QED
        BY <2>1, ScanFacts
<1>2. k \in PrefixScan({k}, p) <=> StartsWith(k, p)
    BY <1>1
<1> QED
    BY <1>2 DEF PrefixScan, Iter

\* The keys below it that are not of a smaller inode.
LEMMA UpperEnd ==
    ASSUME SetLaws, NEW i \in Inode, NEW last \in StripeID, NEW j \in Inode, NEW s \in StripeID,
           NEW k, Filed(k, j, s), ~(j < i), NEW hi, hi = RangeEnd(i, last)
    PROVE  (hi = NoBound \/ Less(k, hi)) <=> i = j /\ s <= last
<1>1. /\ k \in Seq(Octet) /\ s \in Nat /\ s < Power(StripeLen)
      /\ StartsWith(k, FragmentStripePrefix(j, s)) /\ StartsWith(k, StripePrefix(j))
    BY FiledFacts
<1>2. i \in Nat /\ j \in Nat /\ StripePrefix(i) \in Seq(Octet)
    BY InodeFacts, StripePrefixFacts
<1>3. PICK P \in Nat : P = Power(StripeLen)
    BY PowerFacts, Widths
<1>4. last \in 0 .. P - 1 /\ s \in 0 .. P - 1
    BY <1>3 DEF StripeID
<1>5. StartsWith(StripePrefix(i), StripePrefix(i))
    BY <1>2, StartsItself
<1>6. CASE last = P - 1
    <2>1. hi = PrefixUpperBound(StripePrefix(i))
        BY <1>3, <1>6 DEF RangeEnd
    <2>2. ~Less(k, StripePrefix(i))
        <3>1. CASE i = j
            BY <1>1, <1>2, <3>1, NotBelowPrefix
        <3>2. CASE i < j
            BY <1>1, <1>2, <1>5, <3>2, InodeOrder
        <3> QED
            BY SMTT(30), <1>2, <3>1, <3>2
    <2>3. StartsWith(k, StripePrefix(i)) <=> hi = NoBound \/ Less(k, hi)
        BY <1>1, <1>2, <2>1, <2>2, NotInScan
    <2>4. s <= last
        BY SMTT(30), <1>3, <1>4, <1>6
    <2>5. StartsWith(k, StripePrefix(i)) <=> i = j
        BY WhosePrefix
    <2> QED
        BY <2>3, <2>4, <2>5
<1>7. CASE last # P - 1
    <2>1. last + 1 \in 0 .. P - 1
        BY SMTT(30), <1>4, <1>7
    <2>2. last + 1 \in StripeID /\ last + 1 \in Nat
        BY SMTT(30), <1>3, <2>1 DEF StripeID
    <2>3. PICK h \in Seq(Octet) :
              h = FragmentStripePrefix(i, last + 1) /\ StartsWith(h, StripePrefix(i))
        BY <1>2, <2>2, FragmentStripePrefixFacts
    <2>4. hi = h
        BY <1>3, <1>7, <2>3 DEF RangeEnd
    <2>5. h # NoBound
        <3>1. Len(h) = 1 + InodeLen + StripeLen
            BY <1>2, <2>2, <2>3, FragmentStripePrefixFacts
        <3> QED
            BY SMTT(30), <3>1, Widths DEF NoBound
    <2>6. StartsWith(h, FragmentStripePrefix(i, last + 1))
        BY <2>3, StartsItself
    <2>7. CASE i < j
        <3>1. ~Less(k, h)
            BY <1>1, <2>3, <2>7, InodeOrder
        <3>2. i # j
            BY <1>2, <2>7
        <3> QED
            BY <2>4, <2>5, <3>1, <3>2
    <2>8. CASE i = j /\ s < last + 1
        <3>1. Less(k, h) /\ s <= last
            <4>1. Less(k, h)
                BY <1>1, <2>2, <2>6, <2>8, StripeOrder
            <4> QED
                BY SMTT(30), <1>4, <2>8, <4>1
        <3> QED
            BY <2>4, <2>8, <3>1
    <2>9. CASE i = j /\ ~(s < last + 1)
        <3>1. ~(s <= last)
            BY SMTT(30), <1>4, <2>9
        <3>2. CASE s = last + 1
            <4>1. ~Less(k, h)
                BY <1>1, <2>3, <2>9, <3>2, NotBelowPrefix
            <4> QED
                BY <2>4, <2>5, <3>1, <4>1
        <3>3. CASE last + 1 < s
            <4>1. ~Less(k, h)
                BY <1>1, <2>2, <2>6, <2>9, <3>3, StripeOrder
            <4> QED
                BY <2>4, <2>5, <3>1, <4>1
        <3> QED
            BY SMTT(30), <1>4, <2>9, <3>2, <3>3
    <2> QED
        BY SMTT(30), <1>2, <2>7, <2>8, <2>9
<1> QED
    BY <1>6, <1>7

\* fragmentsInRange visits exactly the fragments of the inode that are in one
\* of the stripes, whichever these are.
LEMMA RangeScan ==
    ASSUME SetLaws, NEW keys, Table(keys), NEW i \in Inode, NEW first \in StripeID, NEW last \in StripeID,
           NEW hi, hi = RangeEnd(i, last)
    PROVE  Fragmental(Iter(keys, FragmentStripePrefix(i, first), hi))
               = {k \in keys : \E s \in StripeID : Filed(k, i, s) /\ first <= s /\ s <= last}
<1>1. PICK P \in Nat : P = Power(StripeLen)
    BY PowerFacts, Widths
<1>2. first \in 0 .. P - 1 /\ first \in Nat
    BY SMTT(30), <1>1 DEF StripeID
<1>3. i \in Nat
    BY InodeFacts
<1>4. PICK lo \in Seq(Octet) :
          lo = FragmentStripePrefix(i, first) /\ StartsWith(lo, StripePrefix(i))
    BY <1>2, <1>3, FragmentStripePrefixFacts
<1>5. StartsWith(lo, FragmentStripePrefix(i, first))
    BY <1>4, StartsItself
<1>6. ASSUME NEW k \in keys, NEW j \in Inode, NEW s \in StripeID, Filed(k, j, s)
      PROVE  /\ ~Less(k, lo) <=> i < j \/ (i = j /\ first <= s)
             /\ k \in Seq(Octet) /\ IsFragmentKey(k)
    <2>1. /\ k \in Seq(Octet) /\ IsFragmentKey(k)
          /\ StartsWith(k, FragmentStripePrefix(j, s)) /\ StartsWith(k, StripePrefix(j))
        BY <1>6, FiledFacts
    <2>2. j \in Nat /\ s \in 0 .. P - 1
        BY <1>1, InodeFacts DEF StripeID
    <2>3. CASE i < j
        BY <1>4, <2>1, <2>3, InodeOrder
    <2>4. CASE j < i
        <3>1. Less(k, lo)
            BY <1>4, <2>1, <2>4, InodeOrder
        <3>2. ~(i < j) /\ i # j
            BY SMTT(30), <1>3, <2>2, <2>4
        <3> QED
            BY <2>1, <3>1, <3>2
    <2>5. CASE i = j /\ first < s
        <3>1. ~Less(k, lo)
            BY <1>5, <2>1, <2>5, StripeOrder
        <3>2. first <= s
            BY SMTT(30), <1>2, <2>2, <2>5
        <3> QED
            BY <2>1, <2>5, <3>1, <3>2
    <2>6. CASE i = j /\ first = s
        <3>1. ~Less(k, lo)
            BY <1>4, <2>1, <2>6, NotBelowPrefix
        <3>2. first <= s
            BY SMTT(30), <1>2, <2>2, <2>6
        <3> QED
            BY <2>1, <2>6, <3>1, <3>2
    <2>7. CASE i = j /\ s < first
        <3>1. Less(k, lo)
            BY <1>5, <2>1, <2>7, StripeOrder
        <3>2. ~(first <= s) /\ ~(i < j)
            BY SMTT(30), <1>2, <1>3, <2>2, <2>7
        <3> QED
            BY <2>1, <3>1, <3>2
    <2> QED
        BY SMTT(30), <1>2, <1>3, <2>2, <2>3, <2>4, <2>5, <2>6, <2>7
<1>7. ASSUME NEW k \in Fragmental(Iter(keys, lo, hi))
      PROVE  k \in keys /\ \E s \in StripeID : Filed(k, i, s) /\ first <= s /\ s <= last
    <2>1. k \in keys /\ ~Less(k, lo) /\ (hi = NoBound \/ Less(k, hi))
        BY <1>7 DEF Fragmental, Iter
    <2>2. ~(k \in Foreign)
        BY <1>4, <2>1, ForeignBelow
    <2>3. PICK j \in Inode, s \in StripeID : Filed(k, j, s)
        BY <2>1, <2>2 DEF Table
    <2>4. i < j \/ (i = j /\ first <= s)
        BY <1>6, <2>1, <2>3
    <2>5. ~(j < i)
        <3>1. j \in Nat
            BY InodeFacts
        <3> QED
            BY SMTT(30), <1>3, <2>4, <3>1
    <2>6. i = j /\ s <= last
        BY <2>1, <2>3, <2>5, UpperEnd
    <2>7. first <= s
        BY SMTT(30), <1>3, <2>4, <2>6
    <2> QED
        BY <2>1, <2>3, <2>6, <2>7
<1>8. ASSUME NEW k \in keys, NEW s \in StripeID, Filed(k, i, s), first <= s, s <= last
      PROVE  k \in Fragmental(Iter(keys, lo, hi))
    <2>1. ~Less(k, lo) /\ IsFragmentKey(k)
        BY <1>6, <1>8
    <2>2. ~(i < i)
        BY SMTT(30), <1>3
    <2>3. hi = NoBound \/ Less(k, hi)
        BY <1>8, <2>2, UpperEnd
    <2> QED
        BY <2>1, <2>3 DEF Fragmental, Iter
<1> QED
    BY <1>4, <1>7, <1>8

\* The model's OwnKeys are the keys filed under the inode.
LEMMA OwnKeysAre ==
    ASSUME SetLaws, NEW keys, Table(keys), NEW i \in Inode
    PROVE  {k \in keys : IsFragmentKey(k) /\ SubSeq(k, 1, 1 + InodeLen) = Prefix[i]} = Own(keys, i)
<1>1. PICK p \in Seq(Octet) : p = StripePrefix(i) /\ Len(p) = 1 + InodeLen
    BY InodeFacts, StripePrefixFacts
<1>2. Prefix[i] = p
    BY <1>1 DEF Prefix
<1>3. PICK m \in Nat : m = 1 + InodeLen
    BY SMTT(30), Widths
<1>4. ASSUME NEW k \in Seq(Octet), IsFragmentKey(k)
      PROVE  SubSeq(k, 1, m) = p <=> StartsWith(k, p)
    <2>1. Len(k) \in Nat /\ m <= Len(k)
        BY SMTT(30), <1>3, <1>4, Widths DEF IsFragmentKey
    <2>2. PICK b : b = SubSeq(k, 1, m)
        OBVIOUS
    <2>3. \A n \in 1 .. m : n \in 1 .. Len(k)
        BY SMTT(30), <2>1
    <2>4. b \in Seq(Octet) /\ Len(b) = m /\ \A n \in 1 .. m : b[n] = k[n]
        BY SMTT(30), <1>3, <2>1, <2>2, <2>3, Widths
    <2>5. ASSUME b = p
          PROVE  StartsWith(k, p)
        BY <1>1, <1>3, <2>1, <2>4, <2>5 DEF StartsWith
    <2>6. ASSUME StartsWith(k, p)
          PROVE  b = p
        <3>1. \A n \in 1 .. m : b[n] = p[n]
            BY <1>1, <1>3, <2>4, <2>6 DEF StartsWith
        <3> QED
            BY SMTT(30), <1>1, <1>3, <2>4, <3>1
    <2> QED
        BY <2>2, <2>5, <2>6
<1>5. ASSUME NEW k \in keys
      PROVE  (IsFragmentKey(k) /\ SubSeq(k, 1, m) = p) <=> k \in Own(keys, i)
    <2>1. k \in Seq(Octet)
        BY TableKeys
    <2>2. k \in Own(keys, i) <=> StartsWith(k, p)
        BY <1>1, OwnPrefix
    <2>3. k \in Own(keys, i) => IsFragmentKey(k)
        BY OwnPrefix
    <2> QED
        BY <1>4, <2>1, <2>2, <2>3
<1>6. \A k \in Own(keys, i) : k \in keys
    BY DEF Own
<1> QED
    BY <1>2, <1>3, <1>5, <1>6

-----------------------------------------------------------------------------
(* Stripes of positions *)

\* The sizes are numbers.
LEMMA Sizes ==
    /\ StripeSize \in Nat \ {0} /\ FirstPos \in Nat /\ MaxPos \in Nat /\ FirstPos < MaxPos
    /\ MaxPos <= StripeSize * Power(StripeLen)
    /\ MaxFrags \in Nat /\ MaxEdits \in Nat
BY StripeLogAssumption

\* A fixed-width field tells at least one number apart.
LEMMA FieldsHold ==
    ASSUME SetLaws
    PROVE  Power(StripeLen) \in Nat \ {0} /\ Power(SeqLen) \in Nat \ {0}
BY PowerFacts, Widths

\* Where a number is between two multiples of another.
LEMMA Between ==
    ASSUME NEW S \in Nat \ {0}, NEW p \in Nat
    PROVE  /\ p \div S \in Nat /\ (p \div S) * S <= p /\ p < (p \div S + 1) * S
           /\ \A s \in Nat : s * S <= p /\ p < (s + 1) * S => p \div S = s
<1>1. p \div S \in Nat /\ (p \div S) * S <= p /\ p < (p \div S + 1) * S
    BY SMTT(30)
<1>2. ASSUME NEW s \in Nat, s * S <= p, p < (s + 1) * S
      PROVE  p \div S = s
    <2>1. PICK q \in Nat : q = p \div S /\ q * S <= p /\ p < (q + 1) * S
        BY <1>1
    <2>2. ~(q < s)
        <3>1. q < s => (q + 1) * S <= s * S
            BY SMTT(30)
        <3> QED
            BY SMTT(30), <1>2, <2>1, <3>1
    <2>3. ~(s < q)
        <3>1. s < q => (s + 1) * S <= q * S
            BY SMTT(30)
        <3> QED
            BY SMTT(30), <1>2, <2>1, <3>1
    <2> QED
        BY SMTT(30), <2>1, <2>2, <2>3
<1> QED
    BY <1>1, <1>2

\* The stripe of a position, and which positions it has.
LEMMA StripeOfFacts ==
    ASSUME SetLaws, NEW p \in Nat, p < MaxPos
    PROVE  /\ stripeOf(p) \in StripeID /\ stripeOf(p) \in Nat
           /\ stripeOf(p) * StripeSize <= p /\ p < (stripeOf(p) + 1) * StripeSize
           /\ \A s \in Nat : s * StripeSize <= p /\ p < (s + 1) * StripeSize => stripeOf(p) = s
<1>1. PICK S \in Nat \ {0}, P \in Nat \ {0} : S = StripeSize /\ P = Power(StripeLen)
    BY Sizes, FieldsHold
<1>2. PICK q \in Nat : q = p \div S /\ q * S <= p /\ p < (q + 1) * S
    BY Between
<1>3. p < S * P
    BY SMTT(30), <1>1, Sizes
<1>4. q < P
    <2>1. P <= q => P * S <= q * S
        BY SMTT(30)
    <2>2. P * S = S * P
        BY SMTT(30)
    <2> QED
        BY SMTT(30), <1>2, <1>3, <2>1, <2>2
<1>5. q % P = q
    BY SMTT(30), <1>4
<1>6. stripeOf(p) = q
    BY <1>1, <1>2, <1>5 DEF stripeOf
<1>7. q \in StripeID
    BY SMTT(30), <1>1, <1>4 DEF StripeID
<1> QED
    BY <1>1, <1>2, <1>6, <1>7, Between

\* Stripes are in the order of their positions.
LEMMA StripesInOrder ==
    ASSUME SetLaws, NEW p \in Nat, NEW q \in Nat, p <= q, q < MaxPos
    PROVE  stripeOf(p) <= stripeOf(q)
<1>1. p < MaxPos
    BY SMTT(30), Sizes
<1>2. PICK S \in Nat \ {0} : S = StripeSize
    BY Sizes
<1>3. PICK a \in Nat, b \in Nat : /\ a = stripeOf(p) /\ b = stripeOf(q)
                                  /\ a * S <= p /\ q < (b + 1) * S
    BY <1>1, <1>2, StripeOfFacts
<1>4. b < a => (b + 1) * S <= a * S
    BY SMTT(30)
<1>5. PICK x \in Int, y \in Int : x = a * S /\ y = (b + 1) * S
    BY SMTT(30)
<1> QED
    BY SMTT(30), <1>3, <1>4, <1>5

\* A fragment of a table whose seqs reach n and whose writes reach w: it has
\* positions, all of one stripe, and its bytes are those of one write.
Sound(f, n, w) ==
    /\ f \in Frag /\ f.LogicalOff \in Pos /\ f.Length > 0 /\ FEnd(f) <= MaxPos
    /\ stripeOf(FEnd(f) - 1) = stripeOf(f.LogicalOff)
    /\ f.Seq \in 1 .. n /\ f.Tier \in {Hot, Cold}
    /\ \E v \in 1 .. w : f.SegmentOffset = Home(v, f.LogicalOff)

\* The positions of a fragment.
LEMMA SoundPositions ==
    ASSUME SetLaws, NEW n, NEW w, NEW f, Sound(f, n, w), NEW pos \in Int, Covers(f, pos)
    PROVE  /\ pos \in Nat /\ pos < MaxPos /\ FirstPos <= pos
           /\ stripeOf(pos) = stripeOf(f.LogicalOff)
<1>1. PICK a \in Nat, b \in Nat, m \in Nat, e \in Nat :
          a = f.LogicalOff /\ b = f.Length /\ m = MaxPos /\ e = FirstPos
    BY Sizes DEF Sound, Frag
<1>2. e <= a /\ a + b <= m /\ a <= pos /\ pos < a + b /\ FEnd(f) = a + b
    BY SMTT(30), <1>1 DEF Sound, Pos, FEnd, Covers
<1>3. pos \in Nat /\ pos < m /\ e <= pos /\ a + b - 1 \in Nat /\ pos <= a + b - 1 /\ a + b - 1 < m
    BY SMTT(30), <1>2
<1>4. a < m
    BY SMTT(30), <1>2
<1>5. stripeOf(a) <= stripeOf(pos) /\ stripeOf(pos) <= stripeOf(a + b - 1)
    BY <1>1, <1>2, <1>3, StripesInOrder
<1>6. stripeOf(a + b - 1) = stripeOf(a)
    <2>1. stripeOf(FEnd(f) - 1) = stripeOf(f.LogicalOff)
        BY DEF Sound
    <2> QED
        BY SMTT(30), <1>1, <1>2, <2>1
<1>7. stripeOf(a) \in Nat /\ stripeOf(pos) \in Nat
    BY <1>1, <1>3, <1>4, StripeOfFacts
<1>8. stripeOf(pos) = stripeOf(a)
    BY SMTT(30), <1>5, <1>6, <1>7
<1> QED
    BY <1>1, <1>3, <1>8

\* The stripe of a fragment.
LEMMA SoundStripe ==
    ASSUME SetLaws, NEW n, NEW w, NEW f, Sound(f, n, w)
    PROVE  /\ f.LogicalOff \in Nat /\ f.LogicalOff < MaxPos
           /\ stripeOf(f.LogicalOff) \in StripeID /\ stripeOf(f.LogicalOff) \in Nat
<1>1. f.LogicalOff \in Nat /\ f.LogicalOff < MaxPos
    BY SMTT(30), Sizes DEF Sound, Pos
<1> QED
    BY <1>1, StripeOfFacts

-----------------------------------------------------------------------------
(* The rows of the table *)

\* It is filed under its stripe and its seq.
Entry(k, f, i, n, w) ==
    Sound(f, n, w) /\ k = FragmentKey(i, stripeOf(f.LogicalOff), f.Seq)

\* The key of an entry.
LEMMA EntryFiled ==
    ASSUME SetLaws, NEW n \in Nat, n < Power(SeqLen), NEW w, NEW i \in Inode, NEW k, NEW f,
           Entry(k, f, i, n, w)
    PROVE  Filed(k, i, stripeOf(f.LogicalOff)) /\ stripeOf(f.LogicalOff) \in StripeID
<1>1. f.Seq \in 1 .. n
    BY DEF Entry, Sound
<1>2. f.Seq \in SeqNo
    BY SMTT(30), <1>1, FieldsHold DEF SeqNo
<1> QED
    BY <1>2, SoundStripe DEF Entry, Filed

Rows(d, n, w) ==
    /\ \A k \in Foreign : k \in DOMAIN d /\ d[k] = Garbage
    /\ \A k \in DOMAIN d : k \in Foreign \/ \E i \in Inode : Entry(k, d[k], i, n, w)
    /\ \A i \in Inode : IsFiniteSet(Own(DOMAIN d, i))
    /\ \A i \in Inode : \A k, l \in Own(DOMAIN d, i) : d[k].Seq = d[l].Seq => k = l

\* What the rows of a table are.
LEMMA RowsFacts ==
    ASSUME SetLaws, NEW d, NEW n \in Nat, n < Power(SeqLen), NEW w, Rows(d, n, w)
    PROVE  /\ Table(DOMAIN d)
           /\ \A i \in Inode : \A k \in Own(DOMAIN d, i) :
                 /\ k \in DOMAIN d /\ k \notin Foreign /\ Entry(k, d[k], i, n, w)
                 /\ \A s \in StripeID : Filed(k, i, s) <=> s = stripeOf(d[k].LogicalOff)
<1>1. ASSUME NEW k \in DOMAIN d, k \notin Foreign
      PROVE  \E i \in Inode : /\ Entry(k, d[k], i, n, w) /\ stripeOf(d[k].LogicalOff) \in StripeID
                              /\ Filed(k, i, stripeOf(d[k].LogicalOff))
    BY <1>1, EntryFiled DEF Rows
<1>2. Table(DOMAIN d)
    BY <1>1 DEF Table
<1>3. ASSUME NEW i \in Inode, NEW k \in Own(DOMAIN d, i)
      PROVE  /\ k \in DOMAIN d /\ k \notin Foreign /\ Entry(k, d[k], i, n, w)
             /\ \A s \in StripeID : Filed(k, i, s) <=> s = stripeOf(d[k].LogicalOff)
    <2>1. k \in DOMAIN d
        BY DEF Own
    <2>2. PICK s \in StripeID : Filed(k, i, s)
        BY DEF Own
    <2>3. StartsWith(k, StripePrefix(i)) /\ StripePrefix(i) \in Seq(Octet)
        BY <2>2, FiledFacts, InodeFacts, StripePrefixFacts
    <2>4. StartsWith(StripePrefix(i), StripePrefix(i))
        BY <2>3, StartsItself
    <2>5. k \notin Foreign
        BY <2>3, <2>4, ForeignBelow
    <2>6. PICK j \in Inode : /\ Entry(k, d[k], j, n, w) /\ stripeOf(d[k].LogicalOff) \in StripeID
                             /\ Filed(k, j, stripeOf(d[k].LogicalOff))
        BY <1>1, <2>1, <2>5
    <2>7. i = j
        <3>1. PICK t \in StripeID : Filed(k, j, t)
            BY <2>6
        <3> QED
            BY <2>3, <3>1, WhosePrefix
    <2>8. ASSUME NEW t \in StripeID, Filed(k, i, t)
          PROVE  t = stripeOf(d[k].LogicalOff)
        BY <2>6, <2>7, <2>8, FiledFacts
    <2> QED
        BY <2>1, <2>5, <2>6, <2>7, <2>8
<1> QED
    BY <1>2, <1>3

\* The fragments of one file.
Frags(d, i) == {d[k] : k \in Own(DOMAIN d, i)}

\* The fragments of a file are finitely many, of different seqs.
LEMMA FragsFacts ==
    ASSUME SetLaws, NEW d, NEW n \in Nat, n < Power(SeqLen), NEW w, Rows(d, n, w), NEW i \in Inode,
           NEW F, F \subseteq Frags(d, i)
    PROVE  /\ IsFiniteSet(F) /\ F \subseteq Frag
           /\ \A f, g \in F : f.Seq = g.Seq => f = g
           /\ \A f \in F : Sound(f, n, w)
<1>1. PICK K : K = Own(DOMAIN d, i)
    OBVIOUS
<1>2. \A k \in K : Entry(k, d[k], i, n, w)
    BY <1>1, RowsFacts
<1>3. IsFiniteSet(K)
    BY <1>1 DEF Rows
<1>4. PICK V : V = {d[k] : k \in K}
    OBVIOUS
<1>5. IsFiniteSet(V)
    BY <1>3, <1>4, FiniteValues
<1>6. F \subseteq V
    BY <1>1, <1>4 DEF Frags
<1>7. IsFiniteSet(F)
    BY <1>5, <1>6 DEF SetLaws, SubsetLaw
<1>8. \A f \in V : Sound(f, n, w)
    BY <1>2, <1>4 DEF Entry
<1>9. F \subseteq Frag /\ \A f \in F : Sound(f, n, w)
    BY <1>6, <1>8 DEF Sound
<1>10. ASSUME NEW f \in F, NEW g \in F, f.Seq = g.Seq
       PROVE  f = g
    <2>1. PICK k \in K, l \in K : f = d[k] /\ g = d[l]
        BY <1>4, <1>6
    <2>2. k = l
        BY <1>1, <1>10, <2>1 DEF Rows
    <2> QED
        BY <2>1, <2>2
<1> QED
    BY <1>7, <1>9, <1>10

\* A byte depends only on the fragments over it.
LEMMA SameOver ==
    ASSUME NEW S, NEW T, NEW pos,
           \A f : f \in S /\ Covers(f, pos) <=> f \in T /\ Covers(f, pos)
    PROVE  Byte(S, pos) = Byte(T, pos)
<1> DEFINE B(over) == IF over = {} THEN <<>>
                      ELSE LET f == CHOOSE f \in over : \A g \in over : f.Seq >= g.Seq
                           IN  <<f.Tier, f.SegmentID, f.SegmentOffset + pos - f.LogicalOff>>
<1>1. {f \in S : Covers(f, pos)} = {f \in T : Covers(f, pos)}
    OBVIOUS
<1>2. /\ Byte(S, pos) = B({f \in S : Covers(f, pos)})
      /\ Byte(T, pos) = B({f \in T : Covers(f, pos)})
    BY DEF Byte
<1> HIDE DEF B
<1> QED
    BY <1>1, <1>2

\* The value a position holds: the write of its newest fragment.
Value(F, pos) == WriteOf(Byte(F, pos), pos)

\* The byte of the newest of a set of fragments with different seqs.
LEMMA NewestByte ==
    ASSUME NEW F, F \subseteq Frag, \A f, g \in F : f.Seq = g.Seq => f = g, NEW pos \in Int,
           NEW f \in F, Covers(f, pos), \A g \in F : Covers(g, pos) => f.Seq >= g.Seq
    PROVE  Byte(F, pos) = <<f.Tier, f.SegmentID, f.SegmentOffset + pos - f.LogicalOff>>
<1> DEFINE over == {g \in F : Covers(g, pos)}
<1>1. f \in over /\ \A g \in over : f.Seq >= g.Seq
    OBVIOUS
<1>2. PICK x : x = CHOOSE y \in over : \A g \in over : y.Seq >= g.Seq
    OBVIOUS
<1>3. x \in over /\ \A g \in over : x.Seq >= g.Seq
    BY <1>1, <1>2
<1>4. x = f
    <2>1. x.Seq \in Nat /\ f.Seq \in Nat /\ x.Seq >= f.Seq /\ f.Seq >= x.Seq
        <3>1. x \in Frag /\ f \in Frag
            BY <1>3
        <3>2. x.Seq \in Nat /\ f.Seq \in Nat
            BY <3>1 DEF Frag
        <3> QED
            BY <1>1, <1>3, <3>2
    <2>2. x.Seq = f.Seq
        BY SMTT(30), <2>1
    <2> QED
        BY <1>3, <2>2
<1> QED
    BY <1>1, <1>2, <1>4 DEF Byte

\* Write v made fragment f.
By(f, v) == f.SegmentOffset = Home(v, f.LogicalOff)

\* What the newest fragment over a position says, and what a hole says.
LEMMA NewestValue ==
    ASSUME NEW F, F \subseteq Frag, \A f, g \in F : f.Seq = g.Seq => f = g, NEW pos \in Nat,
           NEW f \in F, Covers(f, pos), \A g \in F : Covers(g, pos) => f.Seq >= g.Seq,
           NEW v \in Nat, By(f, v)
    PROVE  Value(F, pos) = v
<1>1. PICK b : b = Byte(F, pos)
    OBVIOUS
<1>2. b = <<f.Tier, f.SegmentID, f.SegmentOffset + pos - f.LogicalOff>>
    <2>1. pos \in Int
        BY SMTT(30)
    <2> QED
        BY <1>1, <2>1, NewestByte
<1>3. b # <<>> /\ b[3] = f.SegmentOffset + pos - f.LogicalOff
    BY <1>2
<1>4. PICK a \in Nat : a = f.LogicalOff
    BY DEF Frag
<1>5. f.SegmentOffset = 100 * v + a
    BY <1>4 DEF By, Home
<1>6. b[3] - pos = 100 * v
    BY SMTT(30), <1>3, <1>4, <1>5
<1>7. (100 * v) \div 100 = v
    BY SMTT(30)
<1>8. WriteOf(b, pos) = v
    BY <1>3, <1>6, <1>7 DEF WriteOf
<1> QED
    BY <1>1, <1>8 DEF Value

\* A position that no fragment covers reads as never written.
LEMMA HoleValue ==
    ASSUME NEW F, NEW pos, \A f \in F : ~Covers(f, pos)
    PROVE  Value(F, pos) = 0
<1>1. {f \in F : Covers(f, pos)} = {}
    OBVIOUS
<1>2. Byte(F, pos) = <<>>
    BY <1>1 DEF Byte
<1> QED
    BY <1>2 DEF Value, WriteOf

\* Merging two functions.
LEMMA Merge ==
    ASSUME NEW f, NEW g, NEW e, e = Overlay(f, g)
    PROVE  /\ \A x : x \in DOMAIN e <=> x \in DOMAIN f \/ x \in DOMAIN g
           /\ \A x \in DOMAIN f : e[x] = f[x]
           /\ \A x \in DOMAIN g : x \notin DOMAIN f => e[x] = g[x]
<1>1. e = [x \in DOMAIN f \cup DOMAIN g |-> IF x \in DOMAIN f THEN f[x] ELSE g[x]]
    BY DEF Overlay
<1>2. DOMAIN e = DOMAIN f \cup DOMAIN g
    BY <1>1
<1>3. \A x \in DOMAIN f \cup DOMAIN g : e[x] = IF x \in DOMAIN f THEN f[x] ELSE g[x]
    BY <1>1
<1> QED
    BY <1>2, <1>3

\* Two numbers that follow the same bytes of a key are the same.
LEMMA OneNumber ==
    ASSUME SetLaws, NEW a \in Seq(Octet), NEW w \in Nat, NEW x \in Nat, NEW y \in Nat,
           x < Power(w), y < Power(w), NEW k \in Seq(Octet),
           StartsWith(k, a \o PutUint(x, w)), StartsWith(k, a \o PutUint(y, w))
    PROVE  x = y
<1>1. ~(x < y)
    BY OrderOfNumbers
<1>2. ~(y < x)
    BY OrderOfNumbers
<1> QED
    BY SMTT(30), <1>1, <1>2

\* Keys of one inode differ when their fragments' seqs do.
LEMMA KeyIsOne ==
    ASSUME SetLaws, NEW i \in Inode, NEW s \in StripeID, NEW t \in StripeID, NEW q \in SeqNo, NEW r \in SeqNo,
           FragmentKey(i, s, q) = FragmentKey(i, t, r)
    PROVE  s = t /\ q = r
<1>1. PICK k : k = FragmentKey(i, s, q)
    OBVIOUS
<1>2. Filed(k, i, s) /\ Filed(k, i, t)
    BY <1>1 DEF Filed
<1>3. s = t /\ k \in Seq(Octet) /\ s \in Nat
    BY <1>2, FiledFacts
<1>4. PICK P \in Nat : P = Power(SeqLen)
    BY FieldsHold
<1>5. q \in Nat /\ r \in Nat /\ q < P /\ r < P
    BY SMTT(30), <1>4 DEF SeqNo
<1>6. PICK a \in Seq(Octet) : a = FragmentStripePrefix(i, s)
    BY <1>3, InodeFacts, FragmentStripePrefixFacts
<1>7. k = a \o PutUint(q, SeqLen) /\ k = a \o PutUint(r, SeqLen)
    BY <1>1, <1>3, <1>6 DEF FragmentKey
<1>8. StartsWith(k, a \o PutUint(q, SeqLen)) /\ StartsWith(k, a \o PutUint(r, SeqLen))
    BY <1>3, <1>7, StartsItself
<1>9. q = r
    BY <1>3, <1>4, <1>5, <1>6, <1>8, Widths, OneNumber
<1> QED
    BY <1>3, <1>9

\* The key a fragment is filed under.
KeyFor(i, f) == FragmentKey(i, stripeOf(f.LogicalOff), f.Seq)

\* Fragments of different seqs, by their keys.
LEMMA KeyedFacts ==
    ASSUME SetLaws, NEW i \in Inode, NEW n \in Nat, n < Power(SeqLen), NEW w, NEW F,
           \A f \in F : Sound(f, n, w), \A f, g \in F : f.Seq = g.Seq => f = g
    PROVE  /\ \A k : k \in DOMAIN Keyed(i, F) <=> \E f \in F : k = KeyFor(i, f)
           /\ \A f \in F : Keyed(i, F)[KeyFor(i, f)] = f
<1>1. ASSUME NEW f \in F
      PROVE  stripeOf(f.LogicalOff) \in StripeID /\ f.Seq \in SeqNo
    <2>1. f.Seq \in 1 .. n
        BY DEF Sound
    <2>2. f.Seq \in SeqNo
        BY SMTT(30), <2>1, FieldsHold DEF SeqNo
    <2> QED
        BY <2>2, SoundStripe
<1>2. ASSUME NEW f \in F, NEW g \in F, KeyFor(i, f) = KeyFor(i, g)
      PROVE  f = g
    <2>1. PICK s \in StripeID, q \in SeqNo : s = stripeOf(f.LogicalOff) /\ q = f.Seq
        BY <1>1
    <2>2. PICK t \in StripeID, r \in SeqNo : t = stripeOf(g.LogicalOff) /\ r = g.Seq
        BY <1>1
    <2>3. FragmentKey(i, s, q) = FragmentKey(i, t, r)
        BY <1>2, <2>1, <2>2 DEF KeyFor
    <2>4. q = r
        BY SMTT(30), <2>3, KeyIsOne
    <2> QED
        BY <2>1, <2>2, <2>4
<1>3. PICK K : K = Keyed(i, F)
    OBVIOUS
<1>4. K = [k \in {KeyFor(i, f) : f \in F} |-> CHOOSE f \in F : KeyFor(i, f) = k]
    BY <1>3 DEF Keyed, KeyFor
<1>5. DOMAIN K = {KeyFor(i, f) : f \in F}
    BY <1>4
<1>6. ASSUME NEW f \in F
      PROVE  K[KeyFor(i, f)] = f
    <2>1. K[KeyFor(i, f)] = CHOOSE g \in F : KeyFor(i, g) = KeyFor(i, f)
        BY <1>4
    <2>2. PICK x : x = CHOOSE g \in F : KeyFor(i, g) = KeyFor(i, f)
        OBVIOUS
    <2>3. x \in F /\ KeyFor(i, x) = KeyFor(i, f)
        BY <2>2
    <2> QED
        BY <1>2, <2>1, <2>2, <2>3
<1>7. \A k : k \in DOMAIN K <=> \E f \in F : k = KeyFor(i, f)
    BY <1>5
<1> QED
    BY <1>3, <1>6, <1>7

\* A sound fragment stays sound when there are more seqs and writes.
LEMMA SoundLater ==
    ASSUME NEW n \in Nat, NEW m \in Nat, n <= m, NEW w \in Nat, NEW u \in Nat, w <= u,
           NEW f, Sound(f, n, w)
    PROVE  Sound(f, m, u)
<1>1. f.Seq \in 1 .. m
    <2>1. f.Seq \in 1 .. n
        BY DEF Sound
    <2> QED
        BY SMTT(30), <2>1
<1>2. \E v \in 1 .. u : f.SegmentOffset = Home(v, f.LogicalOff)
    <2>1. PICK v \in 1 .. w : f.SegmentOffset = Home(v, f.LogicalOff)
        BY DEF Sound
    <2>2. v \in 1 .. u
        BY SMTT(30)
    <2> QED
        BY <2>1, <2>2
<1> QED
    BY <1>1, <1>2 DEF Sound

\* A change of the rows of one file.
Changes(d, e, i, m, u) ==
    /\ \A k \in DOMAIN d : k \notin Own(DOMAIN d, i) => k \in DOMAIN e /\ e[k] = d[k]
    /\ \A k \in DOMAIN e : \/ k \in DOMAIN d /\ k \notin Own(DOMAIN d, i)
                           \/ Entry(k, e[k], i, m, u)
    /\ IsFiniteSet(Own(DOMAIN e, i))
    /\ \A k, l \in Own(DOMAIN e, i) : e[k].Seq = e[l].Seq => k = l

\* It leaves a table, and the other files as they were.
LEMMA ChangedRows ==
    ASSUME SetLaws, NEW d, NEW n \in Nat, NEW m \in Nat, n <= m, m < Power(SeqLen),
           NEW w \in Nat, NEW u \in Nat, w <= u, Rows(d, n, w), NEW i \in Inode,
           NEW e, Changes(d, e, i, m, u)
    PROVE  Rows(e, m, u) /\ \A j \in Inode : j # i => Frags(e, j) = Frags(d, j)
<1>1. n < Power(SeqLen)
    BY SMTT(30), FieldsHold
<1>2. /\ Table(DOMAIN d)
      /\ \A j \in Inode : \A k \in Own(DOMAIN d, j) :
             k \in DOMAIN d /\ k \notin Foreign /\ Entry(k, d[k], j, n, w)
    BY <1>1, RowsFacts
<1>3. \A k \in Foreign : k \in DOMAIN d /\ d[k] = Garbage /\ k \in DOMAIN e /\ e[k] = d[k]
    BY <1>2 DEF Rows, Changes
<1>4. ASSUME NEW k \in DOMAIN e, k \notin Foreign
      PROVE  \E j \in Inode : Entry(k, e[k], j, m, u)
    <2>1. CASE k \in DOMAIN d /\ k \notin Own(DOMAIN d, i)
        <3>1. PICK j \in Inode : Entry(k, d[k], j, n, w)
            BY <1>4, <2>1 DEF Rows
        <3>2. Entry(k, d[k], j, m, u)
            BY <3>1, SoundLater DEF Entry
        <3>3. e[k] = d[k]
            BY <2>1 DEF Changes
        <3> QED
            BY <3>2, <3>3
    <2> QED
        BY <2>1 DEF Changes
<1>5. ASSUME NEW j \in Inode, NEW l \in Inode, j # l, NEW k, NEW s \in StripeID, Filed(k, j, s),
             NEW t \in StripeID, Filed(k, l, t)
      PROVE  FALSE
    <2>1. StartsWith(k, StripePrefix(j))
        BY <1>5, FiledFacts
    <2> QED
        BY <1>5, <2>1, WhosePrefix
<1>6. ASSUME NEW j \in Inode, j # i
      PROVE  /\ \A k : k \in Own(DOMAIN e, j) <=> k \in Own(DOMAIN d, j)
             /\ \A k \in Own(DOMAIN d, j) : e[k] = d[k]
    <2>1. ASSUME NEW k \in Own(DOMAIN e, j)
          PROVE  k \in Own(DOMAIN d, j)
        <3>1. PICK s \in StripeID : Filed(k, j, s) /\ k \in DOMAIN e
            BY DEF Own
        <3>2. ~Entry(k, e[k], i, m, u)
            <4>1. ASSUME Entry(k, e[k], i, m, u)
                  PROVE  \E t \in StripeID : Filed(k, i, t)
                BY <4>1, EntryFiled
            <4> QED
                BY <1>5, <1>6, <3>1, <4>1
        <3> QED
            BY <3>1, <3>2 DEF Changes, Own
    <2>2. ASSUME NEW k \in Own(DOMAIN d, j)
          PROVE  k \in Own(DOMAIN e, j) /\ e[k] = d[k]
        <3>1. PICK s \in StripeID : Filed(k, j, s) /\ k \in DOMAIN d
            BY DEF Own
        <3>2. k \notin Own(DOMAIN d, i)
            BY <1>5, <1>6, <3>1 DEF Own
        <3> QED
            BY <3>1, <3>2 DEF Changes, Own
    <2> QED
        BY <2>1, <2>2
<1>7. ASSUME NEW j \in Inode
      PROVE  /\ IsFiniteSet(Own(DOMAIN e, j))
             /\ \A k, l \in Own(DOMAIN e, j) : e[k].Seq = e[l].Seq => k = l
    <2>1. CASE j = i
        BY <2>1 DEF Changes
    <2>2. CASE j # i
        <3>1. Own(DOMAIN e, j) = Own(DOMAIN d, j)
            BY <1>6, <2>2
        <3> QED
            BY <1>6, <2>2, <3>1 DEF Rows
    <2> QED
        BY <2>1, <2>2
<1>8. Rows(e, m, u)
    <2>1. \A k \in Foreign : k \in DOMAIN e /\ e[k] = Garbage
        BY SMTT(30), <1>3
    <2>2. \A k \in DOMAIN e : k \in Foreign \/ \E j \in Inode : Entry(k, e[k], j, m, u)
        BY <1>4
    <2> QED
        BY <1>7, <2>1, <2>2 DEF Rows
<1>9. ASSUME NEW j \in Inode, j # i
      PROVE  Frags(e, j) = Frags(d, j)
    BY <1>6, <1>9 DEF Frags
<1> QED
    BY <1>8, <1>9

\* The keys an inode has after a change.
LEMMA OwnEntry ==
    ASSUME SetLaws, NEW keys, NEW i \in Inode, NEW n \in Nat, n < Power(SeqLen), NEW w, NEW f, NEW k \in keys,
           Entry(k, f, i, n, w)
    PROVE  k \in Own(keys, i)
BY EntryFiled DEF Own

\* Seqs and writes only grow, and the seqs fit their field.
Later(n, w, m, u) ==
    /\ n \in Nat /\ m \in Nat /\ n <= m /\ m < Power(SeqLen)
    /\ w \in Nat /\ u \in Nat /\ w <= u

\* Fragments with fresh seqs, and a table without some keys of a file.
Fresh(F, n, m, u) ==
    /\ IsFiniteSet(F)
    /\ \A f \in F : Sound(f, m, u) /\ f.Seq > n
    /\ \A f, g \in F : f.Seq = g.Seq => f = g

Minus(b, d, i, G) ==
    /\ G \subseteq Own(DOMAIN d, i)
    /\ \A k : k \in DOMAIN b <=> k \in DOMAIN d /\ k \notin G
    /\ \A k \in DOMAIN b : b[k] = d[k]

\* Table e is table b with these fragments filed in it.
Puts(e, i, F, b) == e = Overlay(Keyed(i, F), b)

\* Table e is table d with fragments F of a file in place of its keys G.
Refilled(e, d, i, F, G, m, u) ==
    /\ Rows(e, m, u) /\ \A j \in Inode : j # i => Frags(e, j) = Frags(d, j)
    /\ \A f : f \in Frags(e, i) <=>
          f \in F \/ \E k \in Own(DOMAIN d, i) : k \notin G /\ f = d[k]

\* New fragments for a file in place of some of its keys.
LEMMA InsertRows ==
    ASSUME SetLaws, NEW d, NEW n, NEW m, NEW w, NEW u, Later(n, w, m, u), Rows(d, n, w), NEW i \in Inode,
           NEW G, NEW b, Minus(b, d, i, G), NEW F, Fresh(F, n, m, u),
           NEW e, Puts(e, i, F, b)
    PROVE  Refilled(e, d, i, F, G, m, u)
<1> USE DEF Fresh, Minus, Puts
<1>0. /\ n \in Nat /\ m \in Nat /\ n <= m /\ m < Power(SeqLen)
      /\ w \in Nat /\ u \in Nat /\ w <= u
    BY DEF Later
<1> USE <1>0
<1>1. n < Power(SeqLen)
    BY SMTT(30), FieldsHold
<1>2. PICK a : a = Keyed(i, F)
    OBVIOUS
<1>3. /\ \A k : k \in DOMAIN a <=> \E f \in F : k = KeyFor(i, f)
      /\ \A f \in F : a[KeyFor(i, f)] = f
    <2>1. \A f \in F : Sound(f, m, u)
        OBVIOUS
    <2>2. /\ \A k : k \in DOMAIN Keyed(i, F) <=> \E f \in F : k = KeyFor(i, f)
          /\ \A f \in F : Keyed(i, F)[KeyFor(i, f)] = f
        BY <2>1, KeyedFacts
    <2> QED
        BY <1>2, <2>2
<1>4. /\ \A k : k \in DOMAIN e <=> k \in DOMAIN a \/ k \in DOMAIN b
      /\ \A k \in DOMAIN a : e[k] = a[k]
      /\ \A k \in DOMAIN b : k \notin DOMAIN a => e[k] = b[k]
    <2>1. e = Overlay(a, b)
        BY <1>2
    <2> QED
        BY SMTT(30), <2>1, Merge
<1>5. ASSUME NEW k \in DOMAIN a
      PROVE  k \in DOMAIN e /\ e[k] \in F /\ k = KeyFor(i, e[k]) /\ Entry(k, e[k], i, m, u)
    <2>1. PICK f \in F : k = KeyFor(i, f)
        BY <1>3
    <2>2. k \in DOMAIN e /\ e[k] = f
        BY <1>3, <1>4, <2>1
    <2>3. Sound(f, m, u)
        OBVIOUS
    <2> QED
        BY <2>1, <2>2, <2>3 DEF Entry, KeyFor
<1>6. ASSUME NEW j \in Inode, NEW k \in Own(DOMAIN d, j)
      PROVE  k \notin DOMAIN a /\ Entry(k, d[k], j, n, w) /\ k \in DOMAIN d
    <2>1. Entry(k, d[k], j, n, w) /\ k \in DOMAIN d
        BY <1>1, RowsFacts
    <2>2. ASSUME k \in DOMAIN a
          PROVE  FALSE
        <3>1. PICK f \in F : k = KeyFor(i, f)
            BY <1>3, <2>2
        <3>2. PICK s \in StripeID, q \in SeqNo : s = stripeOf(f.LogicalOff) /\ q = f.Seq
            <4>1. Sound(f, m, u)
                OBVIOUS
            <4>2. f.Seq \in 1 .. m
                BY <4>1 DEF Sound
            <4>3. f.Seq \in SeqNo
                BY SMTT(30), <4>2, FieldsHold DEF SeqNo
            <4> QED
                BY <4>1, <4>3, SoundStripe
        <3>3. PICK t \in StripeID, r \in SeqNo : t = stripeOf(d[k].LogicalOff) /\ r = d[k].Seq /\ r <= n
            <4>1. Sound(d[k], n, w)
                BY <2>1 DEF Entry
            <4>2. d[k].Seq \in 1 .. n
                BY <4>1 DEF Sound
            <4>3. d[k].Seq \in SeqNo /\ d[k].Seq <= n
                BY SMTT(30), <1>1, <4>2, FieldsHold DEF SeqNo
            <4> QED
                BY <4>1, <4>3, SoundStripe
        <3>4. k = FragmentKey(i, s, q) /\ k = FragmentKey(j, t, r)
            BY <2>1, <3>1, <3>2, <3>3 DEF KeyFor, Entry
        <3>5. Filed(k, i, s) /\ Filed(k, j, t)
            BY <3>4 DEF Filed
        <3>6. StartsWith(k, StripePrefix(j))
            BY <3>5, FiledFacts
        <3>7. i = j
            BY <3>5, <3>6, WhosePrefix
        <3>8. FragmentKey(i, s, q) = FragmentKey(i, t, r)
            BY <3>4, <3>7
        <3>9. q = r
            BY SMTT(30), <3>8, KeyIsOne
        <3>10. q \in Nat /\ r \in Nat /\ q > n
            BY SMTT(30), <3>2, <3>3, FieldsHold DEF SeqNo
        <3> QED
            BY SMTT(30), <3>3, <3>9, <3>10
    <2> QED
        BY <2>1, <2>2
<1>7. ASSUME NEW k \in Foreign
      PROVE  k \notin DOMAIN a
    <2>1. ASSUME k \in DOMAIN a
          PROVE  FALSE
        <3>1. k \in Own(DOMAIN e, i)
            BY <1>5, <2>1, OwnEntry
        <3>2. PICK s \in StripeID : Filed(k, i, s)
            BY <3>1 DEF Own
        <3>3. k \in Seq(Octet) /\ StartsWith(k, StripePrefix(i))
            BY <3>2, FiledFacts
        <3>4. StripePrefix(i) \in Seq(Octet)
            BY InodeFacts, StripePrefixFacts
        <3>5. StartsWith(StripePrefix(i), StripePrefix(i))
            BY <3>4, StartsItself
        <3> QED
            BY <3>3, <3>4, <3>5, ForeignBelow
    <2> QED
        BY <2>1
<1>8. ASSUME NEW k \in DOMAIN d, k \notin G
      PROVE  k \in DOMAIN e /\ e[k] = d[k] /\ k \notin DOMAIN a
    <2>1. k \notin DOMAIN a
        <3>1. CASE k \in Foreign
            BY <1>7, <3>1
        <3>2. CASE k \notin Foreign
            <4>1. PICK j \in Inode : Entry(k, d[k], j, n, w)
                BY <3>2 DEF Rows
            <4>2. k \in Own(DOMAIN d, j)
                BY <1>1, <4>1, OwnEntry
            <4> QED
                BY <1>6, <4>2
        <3> QED
            BY <3>1, <3>2
    <2> QED
        BY <1>4, <1>8, <2>1
<1>9. ASSUME NEW k \in DOMAIN e
      PROVE  \/ k \in DOMAIN a
             \/ k \in DOMAIN d /\ k \notin G /\ k \notin DOMAIN a /\ e[k] = d[k]
    BY <1>4
<1>10. ASSUME NEW k \in Own(DOMAIN e, i)
       PROVE  \/ k \in DOMAIN a
              \/ k \in Own(DOMAIN d, i) /\ k \notin G /\ k \notin DOMAIN a /\ e[k] = d[k]
    BY <1>9 DEF Own
<1>11. ASSUME NEW k \in DOMAIN a
       PROVE  k \in Own(DOMAIN e, i)
    BY <1>5, OwnEntry
<1>12. ASSUME NEW k \in Own(DOMAIN d, i), k \notin G
       PROVE  k \in Own(DOMAIN e, i) /\ e[k] = d[k]
    <2>1. k \in DOMAIN d
        BY DEF Own
    <2> QED
        BY <1>8, <1>12, <2>1 DEF Own
<1>13. IsFiniteSet(Own(DOMAIN e, i))
    <2> DEFINE key == [f \in F |-> KeyFor(i, f)]
    <2>1. PICK V : V = {key[f] : f \in F}
        OBVIOUS
    <2>2. IsFiniteSet(V)
        <3> HIDE DEF key
        <3> QED
            BY SMTT(30), <2>1, FiniteValues
    <2>3. ASSUME NEW k \in DOMAIN a
          PROVE  k \in V
        <3>1. PICK f \in F : k = KeyFor(i, f)
            BY <1>3
        <3>2. key[f] = k
            BY <3>1
        <3> QED
            BY <2>1, <3>2
    <2>4. IsFiniteSet(Own(DOMAIN d, i))
        BY DEF Rows
    <2>5. IsFiniteSet(Own(DOMAIN d, i) \cup V)
        BY <2>2, <2>4 DEF SetLaws, UnionLaw
    <2>6. Own(DOMAIN e, i) \subseteq Own(DOMAIN d, i) \cup V
        BY <1>10, <2>3
    <2> QED
        BY <2>5, <2>6 DEF SetLaws, SubsetLaw
<1>14. ASSUME NEW k \in Own(DOMAIN e, i), NEW l \in Own(DOMAIN e, i), e[k].Seq = e[l].Seq
       PROVE  k = l
    <2>1. ASSUME NEW x \in DOMAIN a, NEW y \in Own(DOMAIN d, i), e[y] = d[y], e[x].Seq = e[y].Seq
          PROVE  FALSE
        <3>1. PICK q, r : q = e[x].Seq /\ r = d[y].Seq
            OBVIOUS
        <3>2. e[x] \in F /\ Sound(d[y], n, w)
            BY <1>5, <1>6 DEF Entry
        <3>3. q > n /\ Sound(e[x], m, u)
            BY <3>1, <3>2
        <3>4. q \in 1 .. m /\ r \in 1 .. n
            BY <3>1, <3>2, <3>3 DEF Sound
        <3>5. q = r
            BY <2>1, <3>1
        <3> QED
            BY SMTT(30), <3>3, <3>4, <3>5
    <2>2. CASE k \in DOMAIN a /\ l \in DOMAIN a
        <3>1. e[k] \in F /\ e[l] \in F /\ k = KeyFor(i, e[k]) /\ l = KeyFor(i, e[l])
            BY <1>5, <2>2
        <3>2. e[k] = e[l]
            BY <1>14, <3>1
        <3> QED
            BY <3>1, <3>2
    <2>3. CASE k \notin DOMAIN a /\ l \notin DOMAIN a
        <3>1. k \in Own(DOMAIN d, i) /\ l \in Own(DOMAIN d, i) /\ e[k] = d[k] /\ e[l] = d[l]
            BY <1>10, <2>3
        <3>2. d[k].Seq = d[l].Seq
            BY <1>14, <3>1
        <3> QED
            BY <3>1, <3>2 DEF Rows
    <2>4. CASE k \in DOMAIN a /\ l \notin DOMAIN a
        BY <1>10, <1>14, <2>1, <2>4
    <2>5. CASE k \notin DOMAIN a /\ l \in DOMAIN a
        BY <1>10, <1>14, <2>1, <2>5
    <2> QED
        BY <2>2, <2>3, <2>4, <2>5
<1>15. Changes(d, e, i, m, u)
    <2>1. \A k \in DOMAIN d : k \notin Own(DOMAIN d, i) => k \in DOMAIN e /\ e[k] = d[k]
        BY <1>8
    <2>2. ASSUME NEW k \in DOMAIN e
          PROVE  \/ k \in DOMAIN d /\ k \notin Own(DOMAIN d, i)
                 \/ Entry(k, e[k], i, m, u)
        <3>1. CASE k \in DOMAIN a
            BY <1>5, <3>1
        <3>2. CASE k \in Own(DOMAIN d, i) /\ e[k] = d[k]
            <4>1. Entry(k, d[k], i, n, w)
                BY <1>6, <3>2
            <4>2. Entry(k, d[k], i, m, u)
                BY <4>1, SoundLater DEF Entry
            <4> QED
                BY <3>2, <4>2
        <3> QED
            BY <1>9, <3>1, <3>2
    <2> QED
        BY <1>13, <1>14, <2>1, <2>2 DEF Changes
<1>16. Rows(e, m, u) /\ \A j \in Inode : j # i => Frags(e, j) = Frags(d, j)
    BY SMTT(30), <1>15, ChangedRows
<1>17. ASSUME NEW f
       PROVE  f \in Frags(e, i) <=>
                 f \in F \/ \E k \in Own(DOMAIN d, i) : k \notin G /\ f = d[k]
    <2>1. ASSUME f \in Frags(e, i)
          PROVE  f \in F \/ \E k \in Own(DOMAIN d, i) : k \notin G /\ f = d[k]
        <3>1. PICK k \in Own(DOMAIN e, i) : f = e[k]
            BY <2>1 DEF Frags
        <3> QED
            BY <1>5, <1>10, <3>1
    <2>2. ASSUME f \in F
          PROVE  f \in Frags(e, i)
        <3>1. PICK k : k = KeyFor(i, f)
            OBVIOUS
        <3>2. k \in DOMAIN a /\ a[k] = f
            BY <1>3, <2>2, <3>1
        <3>3. e[k] = f /\ k \in Own(DOMAIN e, i)
            BY <1>4, <1>11, <3>2
        <3> QED
            BY <3>3 DEF Frags
    <2>3. ASSUME NEW k \in Own(DOMAIN d, i), k \notin G, f = d[k]
          PROVE  f \in Frags(e, i)
        <3>1. e[k] = f /\ k \in Own(DOMAIN e, i)
            BY <1>12, <2>3
        <3> QED
            BY <3>1 DEF Frags
    <2> QED
        BY <2>1, <2>2, <2>3
<1> QED
    BY <1>16, <1>17 DEF Refilled

\* Some rows of a file go, and the others change but keep key and seq.
Edits(d, e, i, G, n, w) ==
    /\ \A k : k \in DOMAIN e <=> k \in DOMAIN d /\ k \notin G
    /\ G \subseteq Own(DOMAIN d, i)
    /\ \A k \in DOMAIN d : k \notin Own(DOMAIN d, i) => e[k] = d[k]
    /\ \A k \in Own(DOMAIN d, i) :
          k \notin G => Entry(k, e[k], i, n, w) /\ e[k].Seq = d[k].Seq

\* A covered position has a newest fragment over it.
LEMMA HasNewest ==
    ASSUME SetLaws, NEW F, IsFiniteSet(F), F \subseteq Frag, NEW pos, NEW h \in F, Covers(h, pos)
    PROVE  \E f \in F : Covers(f, pos) /\ \A g \in F : Covers(g, pos) => f.Seq >= g.Seq
<1> DEFINE S == {f \in F : Covers(f, pos)}
           wt == [f \in S |-> f.Seq]
<1>1. IsFiniteSet(S) /\ S \in SUBSET S /\ S # {}
    BY DEF SetLaws, SubsetLaw
<1>2. \A f \in S : f.Seq \in Int
    BY SMTT(30) DEF Frag
<1>3. wt \in [S -> Int]
    BY <1>2
<1>4. PICK f \in S : \A g \in S : wt[g] <= wt[f]
    <2> HIDE DEF S, wt
    <2> QED
        BY <1>1, <1>3, Heaviest
<1>5. \A g \in S : g.Seq <= f.Seq
    BY <1>4
<1>6. \A g \in S : f.Seq >= g.Seq
    BY <1>2, <1>5
<1> QED
    BY <1>6

\* The rows of a file past size are gone, and the one across it is clipped.
CutAt(d, e, i, size, G) ==
    /\ \A k : k \in G <=> k \in Own(DOMAIN d, i) /\ d[k].LogicalOff >= size
    /\ \A k : k \in DOMAIN e <=> k \in DOMAIN d /\ k \notin G
    /\ \A k \in DOMAIN d : k \notin Own(DOMAIN d, i) => e[k] = d[k]
    /\ \A k \in Own(DOMAIN d, i) : k \notin G => e[k] = ClipFragment(d[k], size)

Content(d) == [i \in Inode |-> [pos \in Pos |-> Value(Frags(d, i), pos)]]

\* Every row is a fragment in its place, and no operation takes more seqs than
\* a file has positions, so that they fit their field of the key.
IInv ==
    /\ Rows(db, seq, appends)
    /\ seq \in Nat /\ appends \in Nat /\ edits \in Nat /\ appends <= MaxFrags /\ edits <= MaxEdits
    /\ seq <= (appends + edits) * (MaxPos - FirstPos)

\* What an operation on file i does to the arrays.
OthersKept(d, e, i) == \A j \in Inode \ {i} : Content(e)[j] = Content(d)[j]

\* A file whose fragments stay as they are keeps its array.
LEMMA OthersKeep ==
    ASSUME NEW d, NEW e, NEW i \in Inode, \A j \in Inode : j # i => Frags(e, j) = Frags(d, j)
    PROVE  OthersKept(d, e, i)
BY DEF OthersKept, Content

\* A truncate cuts its file at its size.
CutsFile(d, e, i, size) ==
    /\ OthersKept(d, e, i)
    /\ Content(e)[i] = [pos \in Pos |-> IF pos < size THEN Content(d)[i][pos] ELSE 0]

\* One more operation takes so many more.
LEMMA SeqsTaken ==
    ASSUME NEW a \in Nat, NEW q \in Nat, q <= a * (MaxPos - FirstPos), NEW t \in Nat,
           t <= MaxPos - FirstPos
    PROVE  q + t <= (a + 1) * (MaxPos - FirstPos)
<1>1. PICK W \in Nat : W = MaxPos - FirstPos
    BY SMTT(30), Sizes
<1>2. PICK x \in Int, y \in Int : x = a * W /\ y = (a + 1) * W /\ y = x + W
    BY SMTT(30)
<1> QED
    BY SMTT(30), <1>1, <1>2

\* An edit that leaves sound rows and takes no more seqs than a file has positions
\* keeps the invariant.
LEMMA EditStep ==
    ASSUME IInv, Edit, appends' = appends, Rows(db', seq', appends), NEW t \in Nat, seq' = seq + t,
           t <= MaxPos - FirstPos
    PROVE  IInv'
<1>1. PICK n \in Nat, w \in Nat, x \in Nat : n = seq /\ w = appends /\ x = edits
    BY DEF IInv
<1>2. /\ x < MaxEdits /\ edits' = x + 1 /\ n <= (w + x) * (MaxPos - FirstPos) /\ w <= MaxFrags
    BY <1>1 DEF IInv, Edit
<1>3. n + t \in Nat /\ x + 1 \in Nat /\ x + 1 <= MaxEdits
    BY SMTT(30), <1>2, Sizes
<1>4. n + t <= (w + (x + 1)) * (MaxPos - FirstPos)
    <2>1. PICK r \in Nat : r = w + x
        BY SMTT(30)
    <2>2. n + t <= (r + 1) * (MaxPos - FirstPos)
        BY <1>2, <2>1, SeqsTaken
    <2>3. r + 1 = w + (x + 1)
        BY SMTT(30), <2>1
    <2> QED
        BY <2>2, <2>3
<1>5. /\ seq' \in Nat /\ appends' \in Nat /\ edits' \in Nat /\ appends' <= MaxFrags
      /\ edits' <= MaxEdits /\ seq' <= (appends' + edits') * (MaxPos - FirstPos)
      /\ Rows(db', seq', appends')
    BY <1>1, <1>2, <1>3, <1>4
<1> QED
    BY <1>5 DEF IInv

\* The seqs fit.
LEMMA SeqsFit ==
    ASSUME SetLaws, NEW a \in Nat, NEW b \in Nat, a <= MaxFrags, b <= MaxEdits, NEW q \in Nat,
           q <= (a + b) * (MaxPos - FirstPos)
    PROVE  q < Power(SeqLen)
<1>1. PICK W \in Nat, M \in Nat : W = MaxPos - FirstPos /\ M = MaxFrags + MaxEdits /\ a + b <= M
    BY SMTT(30), Sizes
<1>2. PICK P \in Nat : P = Power(SeqLen) /\ M * W < P
    BY <1>1, FieldsHold, StripeLogAssumption
<1>3. (a + b) * W <= M * W
    BY SMTT(30), <1>1
<1>4. PICK x \in Int, y \in Int : x = (a + b) * W /\ y = M * W
    BY SMTT(30)
<1>5. q <= x
    BY <1>1, <1>4
<1> QED
    BY SMTT(30), <1>2, <1>3, <1>4, <1>5

\* What the invariant says of the table of a step.
LEMMA TableOf ==
    ASSUME SetLaws, IInv, NEW i \in Inode
    PROVE  /\ seq < Power(SeqLen) /\ Table(DOMAIN db)
           /\ PrefixScan(DOMAIN db, StripePrefix(i)) = Own(DOMAIN db, i)
           /\ Fragmental(Own(DOMAIN db, i)) = Own(DOMAIN db, i)
           /\ \A s \in StripeID :
                 /\ PrefixScan(DOMAIN db, FragmentStripePrefix(i, s)) = OwnIn(DOMAIN db, i, s)
                 /\ Fragmental(OwnIn(DOMAIN db, i, s)) = OwnIn(DOMAIN db, i, s)
<1>1. seq < Power(SeqLen)
    <2>1. PICK n \in Nat, w \in Nat, x \in Nat : n = seq /\ w = appends /\ x = edits
        BY DEF IInv
    <2>2. w <= MaxFrags /\ x <= MaxEdits /\ n <= (w + x) * (MaxPos - FirstPos)
        BY <2>1 DEF IInv
    <2>3. n < Power(SeqLen)
        BY <2>2, SeqsFit
    <2> QED
        BY <2>1, <2>3
<1>2. PICK keys : keys = DOMAIN db
    OBVIOUS
<1>3. Table(keys)
    BY <1>1, <1>2, RowsFacts DEF IInv
<1>4. /\ PrefixScan(keys, StripePrefix(i)) = Own(keys, i)
      /\ Fragmental(Own(keys, i)) = Own(keys, i)
      /\ \A s \in StripeID : /\ PrefixScan(keys, FragmentStripePrefix(i, s)) = OwnIn(keys, i, s)
                             /\ Fragmental(OwnIn(keys, i, s)) = OwnIn(keys, i, s)
    BY <1>3, ScansAreExact
<1> QED
    BY <1>1, <1>2, <1>3, <1>4

\* A deletion empties its file.
EmptiesFile(d, e, i) ==
    OthersKept(d, e, i) /\ Content(e)[i] = [pos \in Pos |-> 0]

\* Truncate and DeleteInode keep the invariant.
LEMMA CutsKeepIInv ==
    ASSUME SetLaws
    PROVE  /\ \A i \in Inode, size \in Pos :
                 IInv /\ Truncate(i, size)
                 => IInv' /\ CutsFile(db, db', i, size) /\ appends' = appends
           /\ \A i \in Inode :
                 IInv /\ DeleteInode(i)
                 => IInv' /\ EmptiesFile(db, db', i) /\ appends' = appends

\* The table stays sound, and the fragments of the other files the same.
<1>ReplaceRows.
    ASSUME NEW d, NEW n \in Nat, n < Power(SeqLen), NEW w \in Nat, Rows(d, n, w), NEW i \in Inode,
           NEW G, NEW e, Edits(d, e, i, G, n, w)
    PROVE  /\ Rows(e, n, w) /\ \A j \in Inode : j # i => Frags(e, j) = Frags(d, j)
           /\ \A f : f \in Frags(e, i) <=> \E k \in Own(DOMAIN d, i) : k \notin G /\ f = e[k]
    <2> USE <1>ReplaceRows
    <2> USE DEF Edits
    <2>1. \A k : k \in Own(DOMAIN e, i) <=> k \in Own(DOMAIN d, i) /\ k \notin G
        BY DEF Own
    <2>2. IsFiniteSet(Own(DOMAIN e, i))
        <3>1. IsFiniteSet(Own(DOMAIN d, i)) /\ Own(DOMAIN e, i) \subseteq Own(DOMAIN d, i)
            BY <2>1 DEF Rows
        <3> QED
            BY <3>1 DEF SetLaws, SubsetLaw
    <2>3. ASSUME NEW k \in Own(DOMAIN e, i), NEW l \in Own(DOMAIN e, i), e[k].Seq = e[l].Seq
          PROVE  k = l
        <3>1. d[k].Seq = d[l].Seq /\ k \in Own(DOMAIN d, i) /\ l \in Own(DOMAIN d, i)
            BY <2>1, <2>3
        <3> QED
            BY <3>1 DEF Rows
    <2>4. Changes(d, e, i, n, w)
        <3>1. \A k \in DOMAIN d : k \notin Own(DOMAIN d, i) => k \in DOMAIN e /\ e[k] = d[k]
            OBVIOUS
        <3>2. ASSUME NEW k \in DOMAIN e
              PROVE  \/ k \in DOMAIN d /\ k \notin Own(DOMAIN d, i)
                     \/ Entry(k, e[k], i, n, w)
            OBVIOUS
        <3> QED
            BY <2>2, <2>3, <3>1, <3>2 DEF Changes
    <2>5. Rows(e, n, w) /\ \A j \in Inode : j # i => Frags(e, j) = Frags(d, j)
        <3>1. n <= n /\ w <= w
            BY SMTT(30)
        <3> QED
            BY SMTT(30), <2>4, <3>1, ChangedRows
    <2>6. \A f : f \in Frags(e, i) <=> \E k \in Own(DOMAIN d, i) : k \notin G /\ f = e[k]
        BY <2>1 DEF Frags
    <2> QED
        BY <2>5, <2>6

\* A fragment cut at size, when it starts before it.
<1>ClipFacts.
    ASSUME NEW n, NEW w, NEW f, Sound(f, n, w), NEW size \in Pos, f.LogicalOff < size,
           NEW c, c = ClipFragment(f, size)
    PROVE  /\ Sound(c, n, w) /\ c.Seq = f.Seq /\ c.LogicalOff = f.LogicalOff
           /\ c.SegmentOffset = f.SegmentOffset /\ c.Tier = f.Tier
           /\ \A pos \in Int : Covers(c, pos) <=> Covers(f, pos) /\ pos < size
    <2> USE <1>ClipFacts
    <2>1. PICK a \in Nat, b \in Nat, z \in Nat, mp \in Nat :
              a = f.LogicalOff /\ b = f.Length /\ z = size /\ mp = MaxPos
        BY SMTT(30), Sizes DEF Sound, Frag, Pos
    <2>2. f \in Frag /\ b > 0 /\ a + b <= mp /\ FEnd(f) = a + b /\ a < z /\ z < mp
        BY SMTT(30), <2>1, Sizes DEF Sound, FEnd, Pos
    <2>3. PICK t \in Nat : t = IF a + b > z THEN z - a ELSE b
        <3>1. (IF a + b > z THEN z - a ELSE b) \in Nat
            BY SMTT(30), <2>2
        <3> QED
            BY <3>1
    <2>4. c = [f EXCEPT !.Length = t]
        BY <2>1, <2>2, <2>3 DEF ClipFragment
    <2>5. /\ c \in Frag /\ c.Seq = f.Seq /\ c.LogicalOff = a /\ c.SegmentOffset = f.SegmentOffset
          /\ c.Tier = f.Tier /\ c.Length = t
        BY <2>1, <2>2, <2>4 DEF Frag
    <2>6. t > 0 /\ t <= b /\ FEnd(c) = a + t
        BY SMTT(30), <2>2, <2>3, <2>5 DEF FEnd
    <2>7. \A pos \in Int : Covers(c, pos) <=> Covers(f, pos) /\ pos < size
        BY SMTT(30), <2>1, <2>2, <2>3, <2>5 DEF Covers
    <2>8. stripeOf(FEnd(c) - 1) = stripeOf(c.LogicalOff)
        <3>1. PICK p \in Int : p = FEnd(c) - 1
            BY SMTT(30), <2>6
        <3>2. Covers(f, p)
            BY SMTT(30), <2>1, <2>6, <3>1 DEF Covers
        <3> QED
            BY <2>1, <2>5, <3>1, <3>2, SoundPositions
    <2>9. FEnd(c) <= MaxPos /\ c.Length > 0
        BY SMTT(30), <2>1, <2>2, <2>5, <2>6
    <2>10. Sound(c, n, w)
        <3>1. f.LogicalOff \in Pos /\ f.Seq \in 1 .. n /\ f.Tier \in {Hot, Cold}
            BY DEF Sound
        <3>2. \E v \in 1 .. w : c.SegmentOffset = Home(v, c.LogicalOff)
            BY <2>1, <2>5 DEF Sound
        <3> QED
            BY <2>1, <2>5, <2>8, <2>9, <3>1, <3>2 DEF Sound
    <2> QED
        BY <2>1, <2>5, <2>7, <2>10

\* Truncate goes by a fragment's own offset: its stripe tells nothing else.
<1>PastIsOffset.
    ASSUME NEW n, NEW w, NEW f, Sound(f, n, w), NEW size \in Pos,
           stripeOf(f.LogicalOff) * StripeSize >= size
    PROVE  f.LogicalOff >= size
    <2> USE <1>PastIsOffset
    <2>1. f.LogicalOff \in Nat /\ f.LogicalOff < MaxPos
        BY SoundStripe
    <2>2. PICK S \in Nat, s \in Nat : S = StripeSize /\ s = stripeOf(f.LogicalOff)
        BY <2>1, Sizes, StripeOfFacts
    <2>3. s * S <= f.LogicalOff
        BY <2>1, <2>2, StripeOfFacts
    <2>4. PICK x \in Int : x = s * S
        BY SMTT(30)
    <2>5. x >= size
        BY <2>2, <2>4
    <2>6. size \in Int
        BY SMTT(30), Sizes DEF Pos
    <2> QED
        BY SMTT(30), <2>1, <2>3, <2>4, <2>5, <2>6

\* A file cut at size: what lies past it reads as a hole, the rest as before.
<1>CutRows.
    ASSUME NEW d, NEW n \in Nat, n < Power(SeqLen), NEW w \in Nat, Rows(d, n, w), NEW i \in Inode,
           NEW size \in Pos, NEW G, NEW e, CutAt(d, e, i, size, G)
    PROVE  /\ Rows(e, n, w) /\ \A j \in Inode : j # i => Frags(e, j) = Frags(d, j)
           /\ \A pos \in Pos : Value(Frags(e, i), pos) =
                 IF pos < size THEN Value(Frags(d, i), pos) ELSE 0
    <2> USE <1>CutRows
    <2> USE DEF CutAt
    <2>1. ASSUME NEW k \in Own(DOMAIN d, i)
          PROVE  Entry(k, d[k], i, n, w) /\ Sound(d[k], n, w) /\ d[k].LogicalOff \in Nat
        BY RowsFacts, SoundStripe DEF Entry
    <2>2. size \in Nat
        BY SMTT(30), Sizes DEF Pos
    <2>3. ASSUME NEW k \in Own(DOMAIN d, i), k \notin G
          PROVE  d[k].LogicalOff < size
        BY SMTT(30), <2>1, <2>2, <2>3
    <2>4. ASSUME NEW k \in Own(DOMAIN d, i), k \notin G
          PROVE  /\ Sound(e[k], n, w) /\ e[k].Seq = d[k].Seq /\ e[k].LogicalOff = d[k].LogicalOff
                 /\ e[k].SegmentOffset = d[k].SegmentOffset
                 /\ \A pos \in Int : Covers(e[k], pos) <=> Covers(d[k], pos) /\ pos < size
        <3>1. e[k] = ClipFragment(d[k], size)
            BY <2>4
        <3>2. PICK f, c : f = d[k] /\ c = e[k]
            OBVIOUS
        <3>3. Sound(f, n, w) /\ f.LogicalOff < size /\ c = ClipFragment(f, size)
            BY <2>1, <2>3, <2>4, <3>1, <3>2
        <3>4. /\ Sound(c, n, w) /\ c.Seq = f.Seq /\ c.LogicalOff = f.LogicalOff
              /\ c.SegmentOffset = f.SegmentOffset
              /\ \A pos \in Int : Covers(c, pos) <=> Covers(f, pos) /\ pos < size
            BY SMTT(30), <3>3, <1>ClipFacts
        <3> QED
            BY <3>2, <3>4
    <2>5. ASSUME NEW k \in Own(DOMAIN d, i), k \notin G
          PROVE  Entry(k, e[k], i, n, w) /\ e[k].Seq = d[k].Seq
        BY <2>1, <2>4, <2>5 DEF Entry
    <2>6. G \subseteq Own(DOMAIN d, i)
        OBVIOUS
    <2>7. /\ Rows(e, n, w) /\ \A j \in Inode : j # i => Frags(e, j) = Frags(d, j)
          /\ \A f : f \in Frags(e, i) <=> \E k \in Own(DOMAIN d, i) : k \notin G /\ f = e[k]
        <3>1. Edits(d, e, i, G, n, w)
            BY <2>5, <2>6 DEF Edits
        <3> QED
            BY <3>1, <1>ReplaceRows
    <2>8. \A f : f \in Frags(d, i) <=> \E k \in Own(DOMAIN d, i) : f = d[k]
        BY DEF Frags
    <2>9. /\ IsFiniteSet(Frags(d, i)) /\ Frags(d, i) \subseteq Frag
          /\ \A f, g \in Frags(d, i) : f.Seq = g.Seq => f = g
        <3>1. Frags(d, i) \subseteq Frags(d, i)
            OBVIOUS
        <3> QED
            BY <3>1, FragsFacts
    <2>10. Frags(e, i) \subseteq Frag /\ \A f, g \in Frags(e, i) : f.Seq = g.Seq => f = g
        <3>1. Frags(e, i) \subseteq Frags(e, i)
            OBVIOUS
        <3> QED
            BY <2>7, <3>1, FragsFacts
    <2>11. ASSUME NEW pos \in Pos, ~(pos < size)
           PROVE  Value(Frags(e, i), pos) = 0
        <3>1. pos \in Int
            BY SMTT(30), Sizes DEF Pos
        <3>2. ASSUME NEW f \in Frags(e, i)
              PROVE  ~Covers(f, pos)
            <4>1. PICK k \in Own(DOMAIN d, i) : k \notin G /\ f = e[k]
                BY <2>7
            <4> QED
                BY <2>4, <2>11, <3>1, <4>1
        <3> QED
            BY <3>2, HoleValue
    <2>12. ASSUME NEW pos \in Pos, pos < size, \A f \in Frags(d, i) : ~Covers(f, pos)
           PROVE  Value(Frags(e, i), pos) = Value(Frags(d, i), pos)
        <3>1. pos \in Int
            BY SMTT(30), Sizes DEF Pos
        <3>2. ASSUME NEW f \in Frags(e, i)
              PROVE  ~Covers(f, pos)
            <4>1. PICK k \in Own(DOMAIN d, i) : k \notin G /\ f = e[k]
                BY <2>7
            <4>2. d[k] \in Frags(d, i)
                BY <2>8
            <4> QED
                BY <2>4, <2>12, <3>1, <4>1, <4>2
        <3> QED
            BY <2>12, <3>2, HoleValue
    <2>13. ASSUME NEW pos \in Pos, pos < size, NEW h \in Frags(d, i), Covers(h, pos)
           PROVE  Value(Frags(e, i), pos) = Value(Frags(d, i), pos)
        <3>1. pos \in Int /\ pos \in Nat
            BY SMTT(30), Sizes DEF Pos
        <3>2. PICK f \in Frags(d, i) : Covers(f, pos) /\ \A g \in Frags(d, i) : Covers(g, pos) => f.Seq >= g.Seq
            BY <2>9, <2>13, HasNewest
        <3>3. PICK k \in Own(DOMAIN d, i) : f = d[k]
            BY <2>8
        <3>4. k \notin G
            <4>1. d[k].LogicalOff <= pos /\ d[k].LogicalOff \in Nat
                BY <2>1, <3>2, <3>3 DEF Covers
            <4>2. d[k].LogicalOff < size
                BY SMTT(30), <2>2, <2>13, <3>1, <4>1
            <4> QED
                BY SMTT(30), <2>2, <4>1, <4>2
        <3>5. /\ e[k] \in Frags(e, i) /\ Covers(e[k], pos) /\ e[k].Seq = f.Seq
              /\ e[k].SegmentOffset = f.SegmentOffset /\ e[k].LogicalOff = f.LogicalOff
            BY <2>4, <2>7, <2>13, <3>1, <3>2, <3>3, <3>4
        <3>6. ASSUME NEW g \in Frags(e, i), Covers(g, pos)
              PROVE  e[k].Seq >= g.Seq
            <4>1. PICK l \in Own(DOMAIN d, i) : l \notin G /\ g = e[l]
                BY <2>7
            <4>2. Covers(d[l], pos) /\ g.Seq = d[l].Seq /\ d[l] \in Frags(d, i)
                BY <2>4, <2>8, <3>1, <3>6, <4>1
            <4> QED
                BY <3>2, <3>5, <4>2
        <3>7. PICK v \in 1 .. w : f.SegmentOffset = Home(v, f.LogicalOff)
            BY <2>1, <3>3 DEF Sound
        <3>8. v \in Nat /\ By(f, v) /\ By(e[k], v)
            <4>1. v \in Nat
                BY SMTT(30)
            <4> QED
                BY <3>5, <3>7, <4>1 DEF By
        <3>9. Value(Frags(d, i), pos) = v
            BY <2>9, <3>1, <3>2, <3>8, NewestValue
        <3>10. PICK c : c = e[k]
            OBVIOUS
        <3>11. /\ c \in Frags(e, i) /\ Covers(c, pos) /\ By(c, v)
               /\ \A g \in Frags(e, i) : Covers(g, pos) => c.Seq >= g.Seq
            BY <3>5, <3>6, <3>8, <3>10
        <3>12. Value(Frags(e, i), pos) = v
            BY <2>10, <3>1, <3>8, <3>11, NewestValue
        <3> QED
            BY <3>9, <3>12
    <2> QED
        BY <2>7, <2>11, <2>12, <2>13

\* A file without rows: it reads as a hole throughout.
<1>DropRows.
    ASSUME NEW d, NEW n \in Nat, n < Power(SeqLen), NEW w \in Nat, Rows(d, n, w), NEW i \in Inode,
           NEW e, Minus(e, d, i, Own(DOMAIN d, i))
    PROVE  /\ Rows(e, n, w) /\ \A j \in Inode : j # i => Frags(e, j) = Frags(d, j)
           /\ \A pos \in Pos : Value(Frags(e, i), pos) = 0
    <2> USE <1>DropRows
    <2>1. PICK G : G = Own(DOMAIN d, i)
        OBVIOUS
    <2>2. Edits(d, e, i, G, n, w)
        BY <2>1 DEF Minus, Edits
    <2>3. /\ Rows(e, n, w) /\ \A j \in Inode : j # i => Frags(e, j) = Frags(d, j)
          /\ \A f : f \in Frags(e, i) <=> \E k \in Own(DOMAIN d, i) : k \notin G /\ f = e[k]
        BY SMTT(30), <2>2, <1>ReplaceRows
    <2>4. \A pos \in Pos : Value(Frags(e, i), pos) = 0
        BY <2>1, <2>3, HoleValue
    <2> QED
        BY <2>3, <2>4

\* Truncate keeps the invariant and cuts its file only.
<1>TruncateStep.
    ASSUME IInv, NEW i \in Inode, NEW size \in Pos, Truncate(i, size)
    PROVE  IInv' /\ CutsFile(db, db', i, size) /\ appends' = appends
    <2> USE <1>TruncateStep
    <2>1. PICK d, e, K : d = db /\ e = db' /\ K = Own(DOMAIN d, i)
        OBVIOUS
    <2>2. PICK n \in Nat, w \in Nat : n = seq /\ w = appends /\ n < Power(SeqLen) /\ Rows(d, n, w)
        BY <2>1, TableOf DEF IInv
    <2>3. PICK G : G = {k \in K : Past(k, size)}
        OBVIOUS
    <2>4. Fragmental(PrefixScan(DOMAIN db, StripePrefix(i))) = K
        BY <2>1, TableOf
    <2>5. /\ Edit /\ seq' = seq /\ appends' = appends
          /\ e = Overlay([k \in K \ G |-> ClipFragment(d[k], size)], Without(G))
        BY <2>1, <2>3, <2>4 DEF Truncate
    <2>6. PICK rows, rest : /\ rows = [k \in K \ G |-> ClipFragment(d[k], size)] /\ rest = Without(G)
                            /\ e = Overlay(rows, rest)
        BY <2>5
    <2>7. /\ \A x : x \in DOMAIN e <=> x \in DOMAIN rows \/ x \in DOMAIN rest
          /\ \A x \in DOMAIN rows : e[x] = rows[x]
          /\ \A x \in DOMAIN rest : x \notin DOMAIN rows => e[x] = rest[x]
        BY SMTT(30), <2>6, Merge
    <2>8. /\ \A x : x \in DOMAIN rows <=> x \in K /\ x \notin G
          /\ \A x \in DOMAIN rows : rows[x] = ClipFragment(d[x], size)
          /\ \A x : x \in DOMAIN rest <=> x \in DOMAIN d /\ x \notin G
          /\ \A x \in DOMAIN rest : rest[x] = d[x]
        BY <2>1, <2>6 DEF Without
    <2>9. ASSUME NEW k \in K
          PROVE  k \in DOMAIN d /\ (k \in G <=> d[k].LogicalOff >= size)
        <3>1. /\ k \in DOMAIN d /\ Entry(k, d[k], i, n, w) /\ Sound(d[k], n, w)
              /\ Filed(k, i, stripeOf(d[k].LogicalOff)) /\ stripeOf(d[k].LogicalOff) \in StripeID
            <4>1. k \in Own(DOMAIN d, i)
                BY <2>1
            <4>2. k \in DOMAIN d /\ Entry(k, d[k], i, n, w)
                BY <2>2, <4>1, RowsFacts
            <4>3. Filed(k, i, stripeOf(d[k].LogicalOff)) /\ stripeOf(d[k].LogicalOff) \in StripeID
                BY <2>2, <4>2, EntryFiled
            <4> QED
                BY <4>2, <4>3 DEF Entry
        <3>2. StripeIDFromFragmentKey(k) = stripeOf(d[k].LogicalOff)
            BY <3>1, FiledFacts
        <3>3. PICK f : f = d[k]
            OBVIOUS
        <3>4. Sound(f, n, w)
            BY <3>1, <3>3
        <3>5. stripeOf(f.LogicalOff) * StripeSize >= size => f.LogicalOff >= size
            BY <3>4, <1>PastIsOffset
        <3>6. k \in G <=> StripeIDFromFragmentKey(k) * StripeSize >= size \/ d[k].LogicalOff >= size
            BY <2>1, <2>3 DEF Past
        <3> QED
            BY <3>1, <3>2, <3>3, <3>5, <3>6
    <2>10. CutAt(d, e, i, size, G)
        <3>1. \A k : k \in G <=> k \in Own(DOMAIN d, i) /\ d[k].LogicalOff >= size
            BY <2>1, <2>3, <2>9
        <3>2. \A k : k \in DOMAIN e <=> k \in DOMAIN d /\ k \notin G
            BY <2>7, <2>8, <2>9
        <3>3. \A k \in DOMAIN d : k \notin Own(DOMAIN d, i) => e[k] = d[k]
            BY <2>1, <2>3, <2>7, <2>8
        <3>4. \A k \in Own(DOMAIN d, i) : k \notin G => e[k] = ClipFragment(d[k], size)
            BY <2>1, <2>7, <2>8
        <3> QED
            BY <3>1, <3>2, <3>3, <3>4 DEF CutAt
    <2>11. /\ Rows(e, n, w) /\ \A j \in Inode : j # i => Frags(e, j) = Frags(d, j)
           /\ \A pos \in Pos : Value(Frags(e, i), pos) = IF pos < size THEN Value(Frags(d, i), pos) ELSE 0
        BY SMTT(30), <2>2, <2>10, <1>CutRows
    <2>12. IInv'
        <3>1. 0 \in Nat /\ seq' = seq + 0 /\ 0 <= MaxPos - FirstPos
            BY SMTT(30), <2>2, <2>5, Sizes
        <3>2. Rows(db', seq', appends)
            BY <2>1, <2>2, <2>5, <2>11
        <3> QED
            BY <2>5, <3>1, <3>2, EditStep
    <2>13. CutsFile(d, e, i, size)
        <3>1. OthersKept(d, e, i)
            BY <2>11, OthersKeep
        <3>2. Content(e)[i] = [pos \in Pos |-> IF pos < size THEN Content(d)[i][pos] ELSE 0]
            BY <2>11 DEF Content
        <3> QED
            BY <3>1, <3>2 DEF CutsFile
    <2> QED
        BY <2>1, <2>5, <2>12, <2>13

\* DeleteInode keeps the invariant and empties its file only.
<1>DeleteStep.
    ASSUME IInv, NEW i \in Inode, DeleteInode(i)
    PROVE  IInv' /\ EmptiesFile(db, db', i) /\ appends' = appends
    <2> USE <1>DeleteStep
    <2>1. PICK d, e : d = db /\ e = db'
        OBVIOUS
    <2>2. PICK n \in Nat, w \in Nat : n = seq /\ w = appends /\ n < Power(SeqLen) /\ Rows(d, n, w)
        BY <2>1, TableOf DEF IInv
    <2>3. /\ Edit /\ seq' = seq /\ appends' = appends /\ e = Without(Own(DOMAIN d, i))
        BY <2>1, TableOf DEF DeleteInode
    <2>4. PICK K : K = Own(DOMAIN d, i)
        OBVIOUS
    <2>5. e = [k \in DOMAIN d \ K |-> d[k]]
        BY <2>1, <2>3, <2>4 DEF Without
    <2>6. Minus(e, d, i, Own(DOMAIN d, i))
        BY <2>4, <2>5 DEF Minus
    <2>7. /\ Rows(e, n, w) /\ \A j \in Inode : j # i => Frags(e, j) = Frags(d, j)
          /\ \A pos \in Pos : Value(Frags(e, i), pos) = 0
        BY SMTT(30), <2>2, <2>6, <1>DropRows
    <2>8. IInv'
        <3>1. 0 \in Nat /\ seq' = seq + 0 /\ 0 <= MaxPos - FirstPos
            BY SMTT(30), <2>2, <2>3, Sizes
        <3>2. Rows(db', seq', appends)
            BY <2>1, <2>2, <2>3, <2>7
        <3> QED
            BY <2>3, <3>1, <3>2, EditStep
    <2>9. EmptiesFile(d, e, i)
        <3>1. OthersKept(d, e, i)
            BY <2>7, OthersKeep
        <3>2. Content(e)[i] = [pos \in Pos |-> 0]
            BY <2>7 DEF Content
        <3> QED
            BY <3>1, <3>2 DEF EmptiesFile
    <2> QED
        BY <2>1, <2>3, <2>8, <2>9

<1> QED
    BY <1>TruncateStep, <1>DeleteStep

-----------------------------------------------------------------------------
(* The inductive invariant *)

\* The invariant holds of the empty table.
LEMMA InitIInv ==
    ASSUME SetLaws, Init
    PROVE  IInv /\ Content(db) = [i \in Inode |-> [pos \in Pos |-> 0]]
<1>1. PICK d : d = db
    OBVIOUS
<1>2. /\ DOMAIN d = Foreign /\ (\A k \in Foreign : d[k] = Garbage)
      /\ seq = 0 /\ appends = 0 /\ edits = 0
    BY <1>1 DEF Init
<1>3. ASSUME NEW i \in Inode
      PROVE  Own(DOMAIN d, i) = {} /\ Frags(d, i) = {}
    <2>1. ASSUME NEW k \in Own(DOMAIN d, i)
          PROVE  FALSE
        <3>1. PICK s \in StripeID : Filed(k, i, s)
            BY DEF Own
        <3>2. StartsWith(k, StripePrefix(i)) /\ StripePrefix(i) \in Seq(Octet)
            BY <3>1, FiledFacts, InodeFacts, StripePrefixFacts
        <3>3. StartsWith(StripePrefix(i), StripePrefix(i))
            BY <3>2, StartsItself
        <3>4. k \in Foreign
            BY <1>2 DEF Own
        <3> QED
            BY <3>2, <3>3, <3>4, ForeignBelow
    <2> QED
        BY <2>1 DEF Frags
<1>4. Rows(d, 0, 0)
    <2>1. \A i \in Inode : IsFiniteSet(Own(DOMAIN d, i))
        BY <1>3 DEF SetLaws, EmptyLaw
    <2> QED
        BY <1>2, <1>3, <2>1 DEF Rows
<1>5. 0 <= (0 + 0) * (MaxPos - FirstPos) /\ 0 <= MaxFrags /\ 0 <= MaxEdits
    BY SMTT(30), Sizes
<1>6. IInv
    BY <1>1, <1>2, <1>4, <1>5, Sizes DEF IInv
<1>7. \A i \in Inode : \A pos \in Pos : Value(Frags(d, i), pos) = 0
    BY <1>3, HoleValue
<1>8. Content(d) = [i \in Inode |-> [pos \in Pos |-> 0]]
    BY <1>7 DEF Content
<1> QED
    BY <1>1, <1>6, <1>8

-----------------------------------------------------------------------------
(* Appends *)

\* The extent that an append of len bytes at off leaves in stripe s.
Extent(off, len, q, w, s) ==
    LET a == Higher(off, s * StripeSize)
        b == Lower(off + len, (s + 1) * StripeSize)
    IN  Fragment(q + 1 + s - stripeOf(off), a, b - a, Hot, w, Home(w, a))

\* The extents of an append.
Extents(F, off, len, q, w) ==
    \A f : f \in F <=> \E s \in stripeOf(off) .. stripeOf(off + len - 1) :
                          f = Extent(off, len, q, w, s)

Wrote(d, e, i, off, len, w) ==
    /\ \A j \in Inode : j # i => Frags(e, j) = Frags(d, j)
    /\ \A pos \in Pos : Value(Frags(e, i), pos) =
          IF off <= pos /\ pos <= off + len - 1 THEN w + 1 ELSE Value(Frags(d, i), pos)

\* An append writes its range of its file.
WritesRange(d, e, i, a, b, w) ==
    /\ OthersKept(d, e, i)
    /\ Content(e)[i] = [pos \in Pos |-> IF a <= pos /\ pos <= b THEN w + 1 ELSE Content(d)[i][pos]]

\* AppendExtents keeps the invariant.
LEMMA AppendKeepsIInv ==
    ASSUME SetLaws
    PROVE  \A x \in Writes :
              IInv /\ AppendExtents(x[1], x[2], x[3])
              => /\ IInv' /\ appends' = appends + 1
                 /\ WritesRange(db, db', x[1], x[2], x[2] + x[3] - 1, appends)

\* A range touches no more stripes than it has positions.
<1>FewStripes.
    ASSUME NEW p \in Nat, NEW q \in Nat, p <= q, q < MaxPos
    PROVE  stripeOf(q) - stripeOf(p) <= q - p
    <2> USE <1>FewStripes
    <2>1. p < MaxPos
        BY SMTT(30), Sizes
    <2>2. PICK S \in Nat \ {0} : S = StripeSize
        BY Sizes
    <2>3. PICK a \in Nat, b \in Nat : /\ a = stripeOf(p) /\ b = stripeOf(q)
                                      /\ p < (a + 1) * S /\ b * S <= q
        BY <2>1, <2>2, StripeOfFacts
    <2>4. a <= b
        BY <2>3, StripesInOrder
    <2>5. CASE a = b
        BY SMTT(30), <2>3, <2>5
    <2>6. CASE a < b
        <3>1. PICK c \in Nat : b = a + 1 + c
            <4>1. b - a - 1 \in Nat /\ b = a + 1 + (b - a - 1)
                BY SMTT(30), <2>6
            <4> QED
                BY <4>1
        <3>2. b * S = (a + 1) * S + c * S
            BY SMTT(30), <3>1
        <3>3. c <= c * S
            BY SMTT(30)
        <3>4. PICK x \in Int, y \in Int, z \in Int : x = b * S /\ y = (a + 1) * S /\ z = c * S
            BY SMTT(30)
        <3>5. c < q - p
            BY SMTT(30), <2>3, <3>2, <3>3, <3>4
        <3> QED
            BY SMTT(30), <2>3, <3>1, <3>5
    <2> QED
        BY SMTT(30), <2>4, <2>5, <2>6

\* It is sound, and its positions are those of the range in the stripe.
<1>ExtentFacts.
    ASSUME NEW off \in Pos, NEW len \in Nat \ {0}, off + len <= MaxPos, NEW q \in Nat,
           NEW w \in Nat \ {0}, NEW s \in stripeOf(off) .. stripeOf(off + len - 1),
           NEW m \in Nat, q + 1 + stripeOf(off + len - 1) - stripeOf(off) <= m,
           NEW f, f = Extent(off, len, q, w, s)
    PROVE  /\ Sound(f, m, w) /\ f.Seq = q + 1 + s - stripeOf(off) /\ f.Seq > q
           /\ stripeOf(f.LogicalOff) = s /\ By(f, w)
           /\ \A pos \in Int : Covers(f, pos) => off <= pos /\ pos < off + len
           /\ \A pos \in Int : off <= pos /\ pos < off + len /\ stripeOf(pos) = s => Covers(f, pos)
    <2> USE <1>ExtentFacts
    <2>1. PICK S \in Nat \ {0}, mp \in Nat, fp \in Nat : S = StripeSize /\ mp = MaxPos /\ fp = FirstPos
        BY Sizes
    <2>2. /\ off \in Nat /\ fp <= off /\ off < mp /\ off + len <= mp
          /\ off + len - 1 \in Nat /\ off + len - 1 < mp
        BY SMTT(30), <2>1 DEF Pos
    <2>3. PICK x \in Nat, y \in Nat : /\ x = stripeOf(off) /\ y = stripeOf(off + len - 1)
                                      /\ off < (x + 1) * S /\ y * S <= off + len - 1
        BY <2>1, <2>2, StripeOfFacts
    <2>4. s \in x .. y
        BY <2>3
    <2>5. s \in Nat /\ x <= s /\ s <= y
        BY SMTT(30), <2>4
    <2>6. PICK lo \in Nat, hi \in Nat : lo = s * S /\ hi = (s + 1) * S /\ hi = lo + S
        BY SMTT(30), <2>5
    <2>7. lo <= off + len - 1 /\ off < hi
        <3>1. lo <= y * S /\ (x + 1) * S <= hi
            BY SMTT(30), <2>5, <2>6
        <3>2. PICK u \in Int, v \in Int : u = y * S /\ v = (x + 1) * S
            BY SMTT(30)
        <3> QED
            BY SMTT(30), <2>2, <2>3, <2>6, <3>1, <3>2
    <2>8. PICK a \in Nat, b \in Nat : /\ a = Higher(off, lo) /\ b = Lower(off + len, hi)
                                      /\ a < b /\ off <= a /\ lo <= a /\ a < hi /\ b <= off + len /\ b <= hi
                                      /\ (a = off \/ a = lo) /\ (b = off + len \/ b = hi)
        <3>1. Higher(off, lo) \in Nat /\ Lower(off + len, hi) \in Nat
            BY SMTT(30), <2>2 DEF Higher, Lower
        <3>2. PICK a \in Nat, b \in Nat : a = Higher(off, lo) /\ b = Lower(off + len, hi)
            BY <3>1
        <3>3. /\ off <= a /\ lo <= a /\ b <= off + len /\ b <= hi
              /\ (a = off \/ a = lo) /\ (b = off + len \/ b = hi)
            BY SMTT(30), <2>2, <3>2 DEF Higher, Lower
        <3>4. a < b /\ a < hi
            BY SMTT(30), <2>1, <2>2, <2>6, <2>7, <3>3
        <3> QED
            BY <3>2, <3>3, <3>4
    <2>9. PICK r \in Nat : r = q + 1 + s - stripeOf(off) /\ r > q /\ r <= m
        BY SMTT(30), <2>3, <2>5
    <2>10. f = Fragment(r, a, b - a, Hot, w, Home(w, a))
        BY <2>1, <2>6, <2>8, <2>9 DEF Extent
    <2>11. PICK t \in Nat : t = b - a /\ t > 0
        BY SMTT(30), <2>8
    <2>12. PICK h \in Nat : h = Home(w, a)
        BY SMTT(30) DEF Home
    <2>13. f = [Seq |-> r, LogicalOff |-> a, Length |-> t, Tier |-> Hot, SegmentID |-> w,
                SegmentOffset |-> h]
        BY <2>10, <2>11, <2>12 DEF Fragment
    <2>14. /\ f \in Frag /\ f.Seq = r /\ f.LogicalOff = a /\ f.Length = t /\ f.Tier = Hot
           /\ f.SegmentOffset = h /\ FEnd(f) = b
        BY SMTT(30), <2>11, <2>13 DEF Frag, FEnd, Hot
    <2>15. ASSUME NEW p \in Nat, lo <= p, p < hi, p < mp
           PROVE  stripeOf(p) = s
        BY <2>1, <2>5, <2>6, <2>15, StripeOfFacts
    <2>16. stripeOf(a) = s /\ stripeOf(b - 1) = s
        <3>1. a < mp /\ b - 1 \in Nat /\ lo <= b - 1 /\ b - 1 < hi /\ b - 1 < mp
            BY SMTT(30), <2>2, <2>8
        <3> QED
            BY <2>8, <2>15, <3>1
    <2>17. Sound(f, m, w)
        <3>1. a \in Pos /\ b <= MaxPos
            BY SMTT(30), <2>1, <2>2, <2>8 DEF Pos
        <3>2. r \in 1 .. m /\ w \in 1 .. w
            BY SMTT(30), <2>9
        <3>3. f.Length > 0
            BY <2>11, <2>14
        <3>4. stripeOf(FEnd(f) - 1) = stripeOf(f.LogicalOff)
            BY <2>14, <2>16
        <3>5. f.SegmentOffset = Home(w, f.LogicalOff)
            BY <2>12, <2>14
        <3> QED
            BY <2>14, <3>1, <3>2, <3>3, <3>4, <3>5 DEF Sound
    <2>18. By(f, w)
        BY <2>12, <2>14 DEF By
    <2>19. ASSUME NEW pos \in Int, Covers(f, pos)
           PROVE  off <= pos /\ pos < off + len
        BY SMTT(30), <2>2, <2>8, <2>11, <2>14, <2>19 DEF Covers
    <2>20. ASSUME NEW pos \in Int, off <= pos, pos < off + len, stripeOf(pos) = s
           PROVE  Covers(f, pos)
        <3>1. pos \in Nat /\ pos < mp
            BY SMTT(30), <2>2, <2>20
        <3>2. lo <= pos /\ pos < hi
            <4>1. pos < MaxPos
                BY <2>1, <3>1
            <4>2. stripeOf(pos) * StripeSize <= pos /\ pos < (stripeOf(pos) + 1) * StripeSize
                BY <3>1, <4>1, StripeOfFacts
            <4> QED
                BY <2>1, <2>6, <2>20, <4>2
        <3>3. a <= pos /\ pos < b
            BY <2>2, <2>8, <2>20, <3>1, <3>2
        <3>4. pos < a + t
            BY SMTT(30), <2>8, <2>11, <3>1, <3>3
        <3> QED
            BY <2>14, <3>3, <3>4 DEF Covers
    <2> QED
        BY <2>9, <2>14, <2>16, <2>17, <2>18, <2>19, <2>20

\* New fragments for a file, next to the ones it has.
<1>AddRows.
    ASSUME NEW d, NEW n, NEW m, NEW w, NEW u, Later(n, w, m, u), Rows(d, n, w), NEW i \in Inode,
           NEW F, Fresh(F, n, m, u), NEW e, Puts(e, i, F, d)
    PROVE  /\ Rows(e, m, u) /\ \A j \in Inode : j # i => Frags(e, j) = Frags(d, j)
           /\ \A f : f \in Frags(e, i) <=> f \in F \/ f \in Frags(d, i)
    <2> USE <1>AddRows
    <2>1. PICK G : G = {}
        OBVIOUS
    <2>2. PICK b : b = d
        OBVIOUS
    <2>3. Minus(b, d, i, G)
        BY <2>1, <2>2 DEF Minus
    <2>4. Puts(e, i, F, b)
        BY <2>2
    <2>5. /\ Rows(e, m, u) /\ \A j \in Inode : j # i => Frags(e, j) = Frags(d, j)
          /\ \A f : f \in Frags(e, i) <=>
                f \in F \/ \E k \in Own(DOMAIN d, i) : k \notin G /\ f = d[k]
        <3>1. Refilled(e, d, i, F, G, m, u)
            BY <2>3, <2>4, InsertRows
        <3> QED
            BY <3>1 DEF Refilled
    <2>6. \A f : f \in Frags(d, i) <=> \E k \in Own(DOMAIN d, i) : f = d[k]
        BY DEF Frags
    <2> QED
        BY <2>1, <2>5, <2>6

\* An append: its positions read as the new write, the others as before.
<1>AppendRows.
    ASSUME NEW d, NEW n \in Nat, NEW w \in Nat, Rows(d, n, w), NEW i \in Inode,
           NEW off \in Pos, NEW len \in Nat \ {0}, off + len <= MaxPos,
           NEW m \in Nat, n + 1 + stripeOf(off + len - 1) - stripeOf(off) <= m, m < Power(SeqLen),
           NEW F, Extents(F, off, len, n, w + 1),
           NEW e, Puts(e, i, F, d)
    PROVE  Rows(e, m, w + 1) /\ Wrote(d, e, i, off, len, w)
    <2> USE <1>AppendRows
    <2>1. PICK u \in Nat \ {0} : u = w + 1
        BY SMTT(30)
    <2>2. PICK x \in Nat, y \in Nat : x = stripeOf(off) /\ y = stripeOf(off + len - 1) /\ x <= y
        <3>1. PICK p \in Nat, q \in Nat : p = off /\ q = off + len - 1 /\ p <= q /\ p < MaxPos /\ q < MaxPos
            BY SMTT(30), Sizes DEF Pos
        <3>2. stripeOf(p) \in Nat /\ stripeOf(q) \in Nat /\ stripeOf(p) <= stripeOf(q)
            BY <3>1, StripeOfFacts, StripesInOrder
        <3> QED
            BY <3>1, <3>2
    <2> DEFINE ext == [s \in x .. y |-> Extent(off, len, n, u, s)]
    <2>3. \A f : f \in F <=> \E s \in x .. y : f = ext[s]
        BY <2>1, <2>2 DEF Extents
    <2>4. ASSUME NEW s \in x .. y, NEW f, f = ext[s]
          PROVE  /\ Sound(f, m, u) /\ f.Seq = n + 1 + s - x /\ f.Seq > n
                 /\ stripeOf(f.LogicalOff) = s /\ By(f, u)
                 /\ \A pos \in Int : Covers(f, pos) => off <= pos /\ pos < off + len
                 /\ \A pos \in Int : off <= pos /\ pos < off + len /\ stripeOf(pos) = s => Covers(f, pos)
        <3>1. f = Extent(off, len, n, u, s) /\ s \in stripeOf(off) .. stripeOf(off + len - 1)
            BY <2>2, <2>4
        <3> QED
            BY SMTT(30), <2>2, <3>1, <1>ExtentFacts
    <2>5. IsFiniteSet(F)
        <3>1. IsFiniteSet(x .. y)
            BY SMTT(30) DEF SetLaws, IntervalLaw
        <3>2. IsFiniteSet({ext[s] : s \in x .. y})
            <4> HIDE DEF ext
            <4> QED
                BY <3>1, FiniteValues
        <3>3. F = {ext[s] : s \in x .. y}
            BY <2>3
        <3> QED
            BY <3>2, <3>3
    <2> HIDE DEF ext
    <2>6. \A f \in F : Sound(f, m, u) /\ f.Seq > n
        BY <2>3, <2>4
    <2>7. ASSUME NEW f \in F, NEW g \in F, f.Seq = g.Seq
          PROVE  f = g
        <3>1. PICK s \in x .. y : f = ext[s]
            BY <2>3
        <3>2. PICK t \in x .. y : g = ext[t]
            BY <2>3
        <3>3. n + 1 + s - x = n + 1 + t - x
            BY <2>4, <2>7, <3>1, <3>2
        <3>4. s = t
            BY SMTT(30), <3>3
        <3> QED
            BY <3>1, <3>2, <3>4
    <2>8. n <= m /\ w <= u /\ u \in Nat
        BY SMTT(30), <2>1, <2>2
    <2>9. /\ Rows(e, m, u) /\ \A j \in Inode : j # i => Frags(e, j) = Frags(d, j)
          /\ \A f : f \in Frags(e, i) <=> f \in F \/ f \in Frags(d, i)
        <3>1. Fresh(F, n, m, u)
            BY <2>5, <2>6, <2>7 DEF Fresh
        <3>2. Later(n, w, m, u)
            BY <2>8 DEF Later
        <3> QED
            BY <3>1, <3>2, <1>AddRows
    <2>11. /\ Frags(e, i) \subseteq Frag /\ \A f, g \in Frags(e, i) : f.Seq = g.Seq => f = g
        <3>1. Frags(e, i) \subseteq Frags(e, i)
            OBVIOUS
        <3> QED
            BY <2>9, <3>1, FragsFacts
    <2>12. n < Power(SeqLen)
        BY SMTT(30), <2>8, FieldsHold
    <2>13. \A f \in Frags(d, i) : Sound(f, n, w)
        BY <2>12, FragsFacts
    <2>14. ASSUME NEW pos \in Pos, off <= pos, pos <= off + len - 1
           PROVE  Value(Frags(e, i), pos) = u
        <3>1. pos \in Nat /\ pos \in Int /\ pos < off + len
            BY SMTT(30), <2>14, Sizes DEF Pos
        <3>2. PICK s \in x .. y : s = stripeOf(pos)
            <4>1. /\ off \in Nat /\ off + len - 1 \in Nat /\ off + len - 1 < MaxPos
                  /\ pos < MaxPos
                BY SMTT(30), Sizes DEF Pos
            <4>2. x <= stripeOf(pos) /\ stripeOf(pos) <= y /\ stripeOf(pos) \in Nat
                BY <2>2, <2>14, <3>1, <4>1, StripeOfFacts, StripesInOrder
            <4> QED
                BY SMTT(30), <4>2
        <3>3. PICK f \in F : f = ext[s]
            BY <2>3
        <3>4. Covers(f, pos) /\ By(f, u) /\ f.Seq > n /\ f \in Frags(e, i) /\ Sound(f, m, u)
            BY <2>4, <2>9, <2>14, <3>1, <3>2, <3>3
        <3>5. ASSUME NEW g \in Frags(e, i), Covers(g, pos)
              PROVE  f.Seq >= g.Seq
            <4>1. f.Seq \in Nat /\ g.Seq \in Nat
                BY <2>11, <3>4, <3>5 DEF Frag
            <4>2. CASE g \in F
                <5>1. PICK t \in x .. y : g = ext[t]
                    BY <2>3, <4>2
                <5>2. Sound(g, m, u) /\ stripeOf(g.LogicalOff) = t
                    BY <2>4, <5>1
                <5>3. stripeOf(pos) = stripeOf(g.LogicalOff)
                    BY <3>1, <3>5, <5>2, SoundPositions
                <5>4. g = f
                    BY <3>2, <3>3, <5>1, <5>2, <5>3
                <5> QED
                    BY SMTT(30), <4>1, <5>4
            <4>3. CASE g \in Frags(d, i)
                <5>1. g.Seq \in 1 .. n
                    BY <2>13, <4>3 DEF Sound
                <5> QED
                    BY SMTT(30), <3>4, <4>1, <5>1
            <4> QED
                BY <2>9, <3>5, <4>2, <4>3
        <3>6. u \in Nat
            OBVIOUS
        <3> QED
            BY <2>11, <3>1, <3>4, <3>5, <3>6, NewestValue
    <2>15. ASSUME NEW pos \in Pos, ~(off <= pos /\ pos <= off + len - 1)
           PROVE  Value(Frags(e, i), pos) = Value(Frags(d, i), pos)
        <3>1. pos \in Int /\ ~(off <= pos /\ pos < off + len)
            BY SMTT(30), <2>15, Sizes DEF Pos
        <3>2. \A f \in F : ~Covers(f, pos)
            BY <2>3, <2>4, <3>1
        <3>3. \A f : f \in Frags(e, i) /\ Covers(f, pos) <=> f \in Frags(d, i) /\ Covers(f, pos)
            BY <2>9, <3>2
        <3>4. Byte(Frags(e, i), pos) = Byte(Frags(d, i), pos)
            BY <3>3, SameOver
        <3> QED
            BY <3>4 DEF Value
    <2> QED
        BY <2>1, <2>9, <2>14, <2>15 DEF Wrote

\* AppendExtents keeps the invariant and writes its range of one file only.
<1>AppendStep.
    ASSUME IInv, NEW x \in Writes, AppendExtents(x[1], x[2], x[3])
    PROVE  /\ IInv' /\ appends' = appends + 1
           /\ WritesRange(db, db', x[1], x[2], x[2] + x[3] - 1, appends)
    <2> USE <1>AppendStep
    <2>1. PICK i \in Inode, off \in Pos, len \in Nat \ {0} :
              x[1] = i /\ x[2] = off /\ x[3] = len /\ off + len <= MaxPos
        BY StripeLogAssumption DEF Pos
    <2>2. PICK d, e : d = db /\ e = db'
        OBVIOUS
    <2>3. PICK n \in Nat, w \in Nat, t \in Nat : n = seq /\ w = appends /\ t = edits
        BY DEF IInv
    <2>4. PICK m : m = seq'
        OBVIOUS
    <2> DEFINE F == {Extent(off, len, n, w + 1, s) : s \in stripeOf(off) .. stripeOf(off + len - 1)}
    <2>5. AppendExtents(i, off, len)
        BY <2>1
    <2>6. /\ w < MaxFrags /\ appends' = w + 1 /\ edits' = t
          /\ m = n + 1 + stripeOf(off + len - 1) - stripeOf(off)
          /\ e = Overlay(Keyed(i, F), d)
        BY <2>2, <2>3, <2>4, <2>5 DEF AppendExtents, Extent
    <2>7. /\ Rows(d, n, w) /\ w <= MaxFrags /\ t <= MaxEdits
          /\ n <= (w + t) * (MaxPos - FirstPos)
        BY <2>2, <2>3 DEF IInv
    <2>8. PICK a \in Nat, b \in Nat, p \in Nat, q \in Nat, fp \in Nat, mp \in Nat :
              /\ a = off /\ b = off + len - 1 /\ p = stripeOf(off) /\ q = stripeOf(off + len - 1)
              /\ fp = FirstPos /\ mp = MaxPos
              /\ a <= b /\ fp <= a /\ b < mp /\ p <= q /\ q - p <= b - a
        <3>1. PICK a \in Nat, b \in Nat, fp \in Nat, mp \in Nat :
                  /\ a = off /\ b = off + len - 1 /\ fp = FirstPos /\ mp = MaxPos
                  /\ a <= b /\ fp <= a /\ b < mp /\ a < mp
            BY SMTT(30), <2>1, Sizes DEF Pos
        <3>2. stripeOf(a) \in Nat /\ stripeOf(b) \in Nat /\ stripeOf(a) <= stripeOf(b)
            BY <3>1, StripeOfFacts, StripesInOrder
        <3>3. stripeOf(b) - stripeOf(a) <= b - a
            BY <3>1, <1>FewStripes
        <3> QED
            BY <3>1, <3>2, <3>3
    <2>9. PICK z \in Nat : z = q - p + 1 /\ z <= MaxPos - FirstPos
        BY SMTT(30), <2>8
    <2>10. m = n + z
        BY SMTT(30), <2>6, <2>8, <2>9
    <2>11. m \in Nat /\ m <= (w + t + 1) * (MaxPos - FirstPos)
        <3>1. n + z <= (w + t + 1) * (MaxPos - FirstPos)
            <4>1. PICK r \in Nat : r = w + t
                BY SMTT(30)
            <4>2. n + z <= (r + 1) * (MaxPos - FirstPos)
                BY <2>7, <2>9, <4>1, SeqsTaken
            <4> QED
                BY <4>1, <4>2
        <3> QED
            BY SMTT(30), <2>10, <3>1
    <2>12. m <= (w + 1 + t) * (MaxPos - FirstPos) /\ w + 1 <= MaxFrags /\ w + 1 \in Nat
        <3>1. w + t + 1 = w + 1 + t
            BY SMTT(30)
        <3>2. w + 1 <= MaxFrags /\ w + 1 \in Nat
            BY SMTT(30), <2>6, Sizes
        <3> QED
            BY <2>11, <3>1, <3>2
    <2>13. m < Power(SeqLen)
        BY <2>7, <2>11, <2>12, SeqsFit
    <2>14. Rows(e, m, w + 1) /\ Wrote(d, e, i, off, len, w)
        <3>1. PICK H : H = F
            OBVIOUS
        <3>2. Extents(H, off, len, n, w + 1)
            BY <3>1 DEF Extents
        <3>3. Puts(e, i, H, d)
            BY <2>6, <3>1 DEF Puts
        <3>4. n + 1 + stripeOf(off + len - 1) - stripeOf(off) <= m
            BY SMTT(30), <2>6, <2>11
        <3> HIDE DEF F
        <3> QED
            BY <2>1, <2>7, <2>11, <2>13, <3>2, <3>3, <3>4, <1>AppendRows
    <2> HIDE DEF F
    <2>15. IInv'
        <3>1. Rows(db', seq', appends')
            BY <2>2, <2>4, <2>6, <2>14
        <3>2. /\ seq' \in Nat /\ appends' \in Nat /\ edits' \in Nat /\ appends' <= MaxFrags
              /\ edits' <= MaxEdits /\ seq' <= (appends' + edits') * (MaxPos - FirstPos)
            BY <2>4, <2>6, <2>7, <2>11, <2>12
        <3> QED
            BY <3>1, <3>2 DEF IInv
    <2>16. WritesRange(d, e, x[1], x[2], x[2] + x[3] - 1, w)
        <3>1. OthersKept(d, e, i)
            BY <2>14, OthersKeep DEF Wrote
        <3>2. Content(e)[i] = [pos \in Pos |-> IF off <= pos /\ pos <= b THEN w + 1 ELSE Content(d)[i][pos]]
            BY <2>8, <2>14 DEF Content, Wrote
        <3>3. x[1] = i /\ x[2] = off /\ x[2] + x[3] - 1 = b
            BY <2>1, <2>8
        <3> QED
            BY <3>1, <3>2, <3>3 DEF WritesRange
    <2> QED
        BY <2>2, <2>3, <2>6, <2>15, <2>16

<1> QED
    BY <1>AppendStep

-----------------------------------------------------------------------------
(* Moves *)

\* A piece o of the view with its new seq and its new home.
MovedTo(o, q, k, target) ==
    [o EXCEPT !.Seq = q + k, !.Tier = target,
              !.SegmentID = IF o.Tier = target THEN @ ELSE MaxFrags + q + k]

\* A set of fragments of a table: finite, sound, and each with its own seq.
FragSet(F, n, w) ==
    /\ IsFiniteSet(F) /\ F \subseteq Frag
    /\ \A f, g \in F : f.Seq = g.Seq => f = g
    /\ \A f \in F : Sound(f, n, w)

\* Pieces of fragments S, one over each position they cover, none empty.
Tiles(view, S) ==
    /\ \E l \in Nat : l = Len(view) /\ DOMAIN view = 1 .. l /\ l <= MaxPos - FirstPos
    /\ \A k \in DOMAIN view : view[k].Length > 0 /\ \E f \in S : Piece(view[k], f)
    /\ \A k \in DOMAIN view : \A pos \in Int : \A f \in S :
          Covers(view[k], pos) /\ Covers(f, pos) /\ (\A g \in S : Covers(g, pos) => f.Seq >= g.Seq)
              => Piece(view[k], f)
    /\ \A pos \in Int : \A f \in S : Covers(f, pos) => \E k \in DOMAIN view : Covers(view[k], pos)
    /\ \A k, l \in DOMAIN view : \A pos \in Int :
          Covers(view[k], pos) /\ Covers(view[l], pos) => k = l

\* The fragments of a stripe, its view, and what a Move writes.
StripeFrags(d, i, s) == {d[k] : k \in OwnIn(DOMAIN d, i, s)}

ViewOf(d, i, s) == ByOffset(canonicalView(StripeFrags(d, i, s)))

MovedRows(d, i, s, n, target) ==
    {MovedTo(ViewOf(d, i, s)[k], n, k, target) : k \in DOMAIN ViewOf(d, i, s)}

\* The fragments of a stripe are those of the file that lie in it.
InStripe(d, i, s) ==
    /\ \A f : f \in StripeFrags(d, i, s) <=> f \in Frags(d, i) /\ stripeOf(f.LogicalOff) = s
    /\ \A k \in Own(DOMAIN d, i) : k \in OwnIn(DOMAIN d, i, s) <=> stripeOf(d[k].LogicalOff) = s
    /\ OwnIn(DOMAIN d, i, s) \subseteq Own(DOMAIN d, i)

\* The fragments F may take the place of the fragments S of stripe s.
Rewrites(F, S, s, n, m, w) ==
    /\ Fresh(F, n, m, w)
    /\ \A f \in F : stripeOf(f.LogicalOff) = s
    /\ \A pos \in Int : \A f \in F : Covers(f, pos) => \E g \in S : Covers(g, pos)
    /\ \A f, g \in F : \A pos \in Int : Covers(f, pos) /\ Covers(g, pos) => f = g
    /\ \A pos \in Int : \A g \in S : \A v \in Nat :
          Covers(g, pos) /\ By(g, v) /\ (\A h \in S : Covers(h, pos) => g.Seq >= h.Seq)
              => \E f \in F : Covers(f, pos) /\ By(f, v)

\* A Move keeps the invariant.
LEMMA MoveKeepsIInv ==
    ASSUME SetLaws
    PROVE  \A i \in Inode, s \in StripeID, target \in {Hot, Cold} :
              IInv /\ Move(i, s, target)
              => IInv' /\ Content(db') = Content(db) /\ appends' = appends

\* It keeps its positions, its stripe and its write.
<1>MovedFacts.
    ASSUME NEW n \in Nat, NEW m \in Nat, NEW w \in Nat, NEW f, Sound(f, n, w), NEW o, Piece(o, f),
           o.Length > 0, NEW k \in Nat \ {0}, n + k <= m, NEW target \in {Hot, Cold},
           NEW c, c = MovedTo(o, n, k, target)
    PROVE  /\ Sound(c, m, w) /\ c.Seq = n + k /\ stripeOf(c.LogicalOff) = stripeOf(f.LogicalOff)
           /\ c.LogicalOff = o.LogicalOff
           /\ \A pos \in Int : Covers(c, pos) <=> Covers(o, pos)
           /\ \A v \in Nat : By(f, v) => By(c, v)
    <2> USE <1>MovedFacts
    <2>1. PICK a \in Nat, b \in Nat, g \in Nat, r \in Nat, t \in Nat :
              /\ a = o.LogicalOff /\ b = o.Length /\ g = o.SegmentOffset /\ r = n + k
              /\ t = IF o.Tier = target THEN o.SegmentID ELSE MaxFrags + n + k
        <3>1. o \in Frag
            BY DEF Piece
        <3>2. o.LogicalOff \in Nat /\ o.Length \in Nat /\ o.SegmentOffset \in Nat /\ o.SegmentID \in Nat
            BY <3>1 DEF Frag
        <3>3. n + k \in Nat /\ MaxFrags + n + k \in Nat
            BY SMTT(30), Sizes
        <3>4. (IF o.Tier = target THEN o.SegmentID ELSE MaxFrags + n + k) \in Nat
            BY <3>2, <3>3
        <3> QED
            BY <3>2, <3>3, <3>4
    <2>2. o \in Frag /\ b > 0
        BY <2>1 DEF Piece
    <2>3. c = [o EXCEPT !.Seq = r, !.Tier = target, !.SegmentID = t]
        BY <2>1 DEF MovedTo
    <2>4. /\ c \in Frag /\ c.Seq = r /\ c.LogicalOff = a /\ c.Length = b /\ c.Tier = target
          /\ c.SegmentOffset = g /\ FEnd(c) = a + b
        <3>1. PICK tier \in Nat : tier = target
            BY DEF Hot, Cold
        <3>2. c = [o EXCEPT !.Seq = r, !.Tier = tier, !.SegmentID = t]
            BY <2>3, <3>1
        <3>3. /\ c \in Frag /\ c.Seq = r /\ c.LogicalOff = o.LogicalOff /\ c.Length = o.Length
              /\ c.Tier = tier /\ c.SegmentOffset = o.SegmentOffset
            BY <2>2, <3>2 DEF Frag
        <3> QED
            BY <2>1, <3>1, <3>3 DEF FEnd
    <2>5. PICK x \in Nat, y \in Nat, z \in Nat, mp \in Nat, fp \in Nat :
              /\ x = f.LogicalOff /\ y = f.Length /\ z = f.SegmentOffset /\ mp = MaxPos /\ fp = FirstPos
              /\ fp <= x /\ x + y <= mp
        BY SMTT(30), Sizes DEF Sound, Frag, Pos, FEnd
    <2>6. x <= a /\ a + b <= x + y /\ g - a = z - x
        BY <2>1, <2>5 DEF Piece, FEnd
    <2>7. stripeOf(a) = stripeOf(x) /\ stripeOf(a + b - 1) = stripeOf(x)
        <3>1. PICK e \in Int : e = a + b - 1
            BY SMTT(30)
        <3>2. Covers(f, a) /\ Covers(f, e) /\ a \in Int
            BY SMTT(30), <2>2, <2>5, <2>6, <3>1 DEF Covers
        <3> QED
            BY <2>5, <3>1, <3>2, SoundPositions
    <2>8. ASSUME NEW v \in Nat, By(f, v)
          PROVE  By(c, v)
        <3>1. z = 100 * v + x
            BY <2>5, <2>8 DEF By, Home
        <3>2. g = 100 * v + a
            BY SMTT(30), <2>6, <3>1
        <3> QED
            BY <2>4, <3>2 DEF By, Home
    <2>9. Sound(c, m, w)
        <3>1. PICK v \in 1 .. w : f.SegmentOffset = Home(v, f.LogicalOff)
            BY DEF Sound
        <3>2. v \in Nat
            BY SMTT(30)
        <3>3. c.SegmentOffset = Home(v, c.LogicalOff)
            BY <2>8, <3>1, <3>2 DEF By
        <3>4. a \in Pos /\ a + b <= MaxPos /\ r \in 1 .. m
            BY SMTT(30), <2>1, <2>2, <2>5, <2>6 DEF Pos
        <3>5. c.Length > 0
            BY <2>2, <2>4
        <3>6. stripeOf(FEnd(c) - 1) = stripeOf(c.LogicalOff)
            BY SMTT(30), <2>4, <2>7
        <3>7. c.LogicalOff \in Pos /\ FEnd(c) <= MaxPos /\ c.Seq \in 1 .. m /\ c.Tier \in {Hot, Cold}
            BY <2>4, <3>4
        <3> QED
            BY <2>4, <3>3, <3>5, <3>6, <3>7 DEF Sound
    <2>10. \A pos \in Int : Covers(c, pos) <=> Covers(o, pos)
        BY <2>1, <2>4 DEF Covers
    <2> QED
        BY <2>1, <2>4, <2>5, <2>7, <2>8, <2>9, <2>10

\* The view of a stripe: pieces of its fragments, one over each position they
\* cover, none empty; written in the order of their offsets, once each.
<1>StripeView.
    ASSUME NEW n \in Nat, NEW w \in Nat, NEW S, FragSet(S, n, w), S # {},
           NEW view, view = ByOffset(canonicalView(S))
    PROVE  Tiles(view, S)
    <2> USE <1>StripeView
    <2>0. /\ IsFiniteSet(S) /\ S \subseteq Frag /\ \A f \in S : Sound(f, n, w)
          /\ \A f, g \in S : f.Seq = g.Seq => f = g
        BY DEF FragSet
    <2> USE <2>0
    <2>1. PICK V : V = canonicalView(S)
        OBVIOUS
    <2>2. /\ IsFiniteSet(V)
          /\ \A o \in V : \E f \in S : /\ Piece(o, f)
                                       /\ \A pos \in Int : Covers(o, pos) =>
                                             \A g \in S : Covers(g, pos) => f.Seq >= g.Seq
          /\ \A pos \in Int : (\E f \in S : Covers(f, pos)) => \E o \in V : Covers(o, pos)
          /\ \A o, p \in V : \A pos \in Int : Covers(o, pos) /\ Covers(p, pos) => o = p
        BY <2>1, ViewFacts
    <2>3. \A o \in V : o.Length > 0
        <3>1. \A f \in S : f.Length > 0
            BY DEF Sound
        <3> QED
            BY <2>1, <3>1, ViewSolid
    <2>4. ASSUME NEW o \in V
          PROVE  /\ o.LogicalOff \in Int /\ o.LogicalOff \in Pos /\ Covers(o, o.LogicalOff)
                 /\ \E f \in S : Piece(o, f)
        <3>1. PICK f \in S : Piece(o, f)
            BY <2>2
        <3>2. PICK a \in Nat, b \in Nat : a = o.LogicalOff /\ b = o.Length
            BY <3>1 DEF Piece, Frag
        <3>3. PICK x \in Nat, y \in Nat, mp \in Nat, fp \in Nat :
                  /\ x = f.LogicalOff /\ y = f.Length /\ mp = MaxPos /\ fp = FirstPos /\ fp <= x /\ x + y <= mp
            BY SMTT(30), Sizes DEF Sound, Frag, Pos, FEnd
        <3>4. x <= a /\ a + b <= x + y /\ b > 0
            BY <2>3, <3>1, <3>2, <3>3 DEF Piece, FEnd
        <3>5. a \in Pos /\ a \in Int /\ a <= a /\ a < a + b
            BY SMTT(30), <3>3, <3>4 DEF Pos
        <3> QED
            BY <3>1, <3>2, <3>5 DEF Covers
    <2>5. /\ view \in Seq(V) /\ \A x : x \in V <=> \E j \in 1 .. Len(view) : view[j] = x
          /\ \A j, k \in 1 .. Len(view) : view[j] = view[k] => j = k
        <3>1. \A f \in V : f.LogicalOff \in Int
            BY <2>4
        <3>2. /\ ByOffset(V) \in Seq(V)
              /\ \A x : x \in V <=> \E j \in 1 .. Len(ByOffset(V)) : ByOffset(V)[j] = x
              /\ \A j, k \in 1 .. Len(ByOffset(V)) : ByOffset(V)[j] = ByOffset(V)[k] => j = k
            BY <2>2, <3>1, SortFacts
        <3> QED
            BY <2>1, <3>2
    <2>6. PICK l \in Nat : l = Len(view) /\ DOMAIN view = 1 .. l
        BY SMTT(30), <2>5
    <2>7. \A k \in DOMAIN view : view[k] \in V
        BY <2>5, <2>6
    <2>8. ASSUME NEW j \in DOMAIN view, NEW k \in DOMAIN view, NEW pos \in Int,
                 Covers(view[j], pos), Covers(view[k], pos)
          PROVE  j = k
        <3>1. view[j] = view[k]
            BY <2>2, <2>7, <2>8
        <3> QED
            BY <2>5, <2>6, <3>1
    <2>9. l <= MaxPos - FirstPos
        <3> DEFINE at == [k \in 1 .. l |-> view[k].LogicalOff]
        <3>1. at \in [1 .. l -> Pos]
            BY <2>4, <2>6, <2>7
        <3>2. ASSUME NEW j \in 1 .. l, NEW k \in 1 .. l, at[j] = at[k]
              PROVE  j = k
            <4>1. view[j].LogicalOff = view[k].LogicalOff
                BY <3>2
            <4>2. view[j] \in V /\ view[k] \in V
                BY <2>6, <2>7
            <4> QED
                BY <2>4, <2>6, <2>8, <4>1, <4>2
        <3>3. IsFiniteSet(Pos) /\ Cardinality(Pos) = MaxPos - FirstPos
            <4>1. PICK fp \in Nat, mp \in Nat : fp = FirstPos /\ mp = MaxPos /\ fp < mp
                BY Sizes
            <4>2. IsFiniteSet(fp .. mp - 1) /\ Cardinality(fp .. mp - 1) = mp - fp
                BY SMTT(30), <4>1 DEF SetLaws, IntervalLaw
            <4> QED
                BY <4>1, <4>2 DEF Pos
        <3>4. IsFiniteSet(1 .. l) /\ Cardinality(1 .. l) = l
            BY SMTT(30) DEF SetLaws, IntervalLaw
        <3>5. Cardinality(1 .. l) <= Cardinality(Pos)
            <4> HIDE DEF at
            <4> QED
                BY <3>1, <3>2, <3>3, <3>4 DEF SetLaws, InjectionLaw
        <3> QED
            BY <3>3, <3>4, <3>5
    <2>10. ASSUME NEW k \in DOMAIN view, NEW pos \in Int, NEW f \in S, Covers(view[k], pos),
                  Covers(f, pos), \A g \in S : Covers(g, pos) => f.Seq >= g.Seq
           PROVE  Piece(view[k], f)
        <3>1. PICK h \in S : Piece(view[k], h) /\ f.Seq <= h.Seq
            <4>1. PICK h \in S : /\ Piece(view[k], h)
                                 /\ \A g \in S : Covers(g, pos) => h.Seq >= g.Seq
                BY <2>2, <2>7, <2>10
            <4>2. h.Seq >= f.Seq
                BY <2>10, <4>1
            <4>3. h.Seq \in Nat /\ f.Seq \in Nat
                BY DEF Frag
            <4>4. f.Seq <= h.Seq
                BY <4>2, <4>3
            <4> QED
                BY <4>1, <4>4
        <3>2. Covers(h, pos)
            <4>1. PICK a \in Nat, b \in Nat : a = view[k].LogicalOff /\ b = view[k].Length
                BY <3>1 DEF Piece, Frag
            <4>2. PICK x \in Nat, y \in Nat : x = h.LogicalOff /\ y = h.Length
                BY DEF Frag
            <4>3. x <= a /\ a + b <= x + y
                BY <3>1, <4>1, <4>2 DEF Piece, FEnd
            <4>4. a <= pos /\ pos < a + b
                BY <2>10, <4>1 DEF Covers
            <4> QED
                BY SMTT(30), <4>2, <4>3, <4>4 DEF Covers
        <3>3. f.Seq >= h.Seq
            BY <2>10, <3>2
        <3>4. h.Seq = f.Seq
            <4>1. h.Seq \in Nat /\ f.Seq \in Nat
                BY DEF Frag
            <4> QED
                BY SMTT(30), <3>1, <3>3, <4>1
        <3> QED
            BY <3>1, <3>4
    <2>11. ASSUME NEW pos \in Int, NEW f \in S, Covers(f, pos)
           PROVE  \E k \in DOMAIN view : Covers(view[k], pos)
        <3>1. PICK o \in V : Covers(o, pos)
            BY <2>2, <2>11
        <3>2. PICK k \in 1 .. Len(view) : view[k] = o
            BY <2>5
        <3> QED
            BY <2>6, <3>1, <3>2
    <2>12. \A k \in DOMAIN view : view[k].Length > 0 /\ \E f \in S : Piece(view[k], f)
        BY <2>3, <2>4, <2>7
    <2> QED
        BY <2>6, <2>8, <2>9, <2>10, <2>11, <2>12 DEF Tiles

\* The fragments of a file.
<1>FragsAre.
    ASSUME NEW d, NEW n \in Nat, n < Power(SeqLen), NEW w, Rows(d, n, w), NEW i \in Inode
    PROVE  FragSet(Frags(d, i), n, w)
    <2> USE <1>FragsAre
    <2>1. Frags(d, i) \subseteq Frags(d, i)
        OBVIOUS
    <2> QED
        BY <2>1, FragsFacts DEF FragSet

\* They are such a set.
<1>StripeFragsFacts.
    ASSUME NEW d, NEW n \in Nat, n < Power(SeqLen), NEW w \in Nat, Rows(d, n, w), NEW i \in Inode,
           NEW s \in StripeID
    PROVE  FragSet(StripeFrags(d, i, s), n, w) /\ InStripe(d, i, s)
    <2> USE <1>StripeFragsFacts
    <2>1. PICK S : S = StripeFrags(d, i, s)
        OBVIOUS
    <2>2. \A k : k \in OwnIn(DOMAIN d, i, s) <=> k \in Own(DOMAIN d, i) /\ Filed(k, i, s)
        BY DEF Own, OwnIn
    <2>3. \A k \in Own(DOMAIN d, i) : Filed(k, i, s) <=> s = stripeOf(d[k].LogicalOff)
        BY RowsFacts
    <2>4. \A f : f \in S <=> \E k \in Own(DOMAIN d, i) : f = d[k] /\ stripeOf(d[k].LogicalOff) = s
        BY <2>1, <2>2, <2>3 DEF StripeFrags
    <2>5. \A f : f \in Frags(d, i) <=> \E k \in Own(DOMAIN d, i) : f = d[k]
        BY DEF Frags
    <2>6. \A f : f \in S <=> f \in Frags(d, i) /\ stripeOf(f.LogicalOff) = s
        BY <2>4, <2>5
    <2>7. S \subseteq Frags(d, i)
        BY <2>6
    <2>8. /\ IsFiniteSet(S) /\ S \subseteq Frag /\ \A f, g \in S : f.Seq = g.Seq => f = g
          /\ \A f \in S : Sound(f, n, w)
        BY <2>7, FragsFacts
    <2>9. FragSet(StripeFrags(d, i, s), n, w)
        BY <2>1, <2>8 DEF FragSet
    <2> QED
        BY <2>1, <2>2, <2>3, <2>6, <2>9 DEF InStripe

\* What a Move writes may, and fits into the seqs that it takes.
<1>MovedRowsFacts.
    ASSUME NEW d, NEW n \in Nat, n < Power(SeqLen), NEW w \in Nat, Rows(d, n, w), NEW i \in Inode,
           NEW s \in StripeID, StripeFrags(d, i, s) # {}, NEW target \in {Hot, Cold},
           NEW m \in Nat, n + Len(ViewOf(d, i, s)) <= m
    PROVE  Rewrites(MovedRows(d, i, s, n, target), StripeFrags(d, i, s), s, n, m, w)
    <2> USE <1>MovedRowsFacts
    <2>0. PICK F : F = MovedRows(d, i, s, n, target)
        OBVIOUS
    <2>1. PICK S, view : S = StripeFrags(d, i, s) /\ view = ByOffset(canonicalView(S))
        OBVIOUS
    <2>2. /\ IsFiniteSet(S) /\ S \subseteq Frag /\ \A f, g \in S : f.Seq = g.Seq => f = g
          /\ \A f \in S : Sound(f, n, w) /\ stripeOf(f.LogicalOff) = s
        <3>1. FragSet(StripeFrags(d, i, s), n, w) /\ InStripe(d, i, s)
            BY <1>StripeFragsFacts
        <3>2. FragSet(S, n, w) /\ \A f \in S : stripeOf(f.LogicalOff) = s
            BY <2>1, <3>1 DEF InStripe
        <3> QED
            BY <3>2 DEF FragSet
    <2>3. /\ \E l \in Nat : l = Len(view) /\ DOMAIN view = 1 .. l /\ l <= MaxPos - FirstPos
          /\ \A k \in DOMAIN view : view[k].Length > 0 /\ \E f \in S : Piece(view[k], f)
          /\ \A k \in DOMAIN view : \A pos \in Int : \A f \in S :
                Covers(view[k], pos) /\ Covers(f, pos) /\ (\A g \in S : Covers(g, pos) => f.Seq >= g.Seq)
                    => Piece(view[k], f)
          /\ \A pos \in Int : \A f \in S : Covers(f, pos) => \E k \in DOMAIN view : Covers(view[k], pos)
          /\ \A k, l \in DOMAIN view : \A pos \in Int :
                Covers(view[k], pos) /\ Covers(view[l], pos) => k = l
        <3>1. FragSet(S, n, w) /\ S # {}
            BY <2>1, <2>2 DEF FragSet
        <3>2. Tiles(view, S)
            BY <2>1, <3>1, <1>StripeView
        <3> QED
            BY <3>2 DEF Tiles
    <2>4. PICK l \in Nat : l = Len(view) /\ DOMAIN view = 1 .. l
        BY <2>3
    <2>5. n + l <= m
        BY <2>1, <2>4 DEF ViewOf
    <2> DEFINE to == [k \in 1 .. l |-> MovedTo(view[k], n, k, target)]
    <2>6. \A f : f \in F <=> \E k \in 1 .. l : f = to[k]
        BY <2>0, <2>1, <2>4 DEF MovedRows, ViewOf
    <2>7. ASSUME NEW k \in 1 .. l, NEW f \in S, Piece(view[k], f)
          PROVE  /\ Sound(to[k], m, w) /\ to[k].Seq = n + k
                 /\ stripeOf(to[k].LogicalOff) = s
                 /\ \A pos \in Int : Covers(to[k], pos) <=> Covers(view[k], pos)
                 /\ \A v \in Nat : By(f, v) => By(to[k], v)
        <3>1. PICK o, c : o = view[k] /\ c = to[k]
            OBVIOUS
        <3>2. k \in Nat \ {0} /\ n + k <= m
            BY SMTT(30), <2>5
        <3>3. c = MovedTo(o, n, k, target)
            BY <3>1
        <3>4. Piece(o, f) /\ o.Length > 0 /\ Sound(f, n, w) /\ stripeOf(f.LogicalOff) = s
            BY <2>2, <2>3, <2>4, <2>7, <3>1
        <3> HIDE DEF to
        <3>5. /\ Sound(c, m, w) /\ c.Seq = n + k /\ stripeOf(c.LogicalOff) = stripeOf(f.LogicalOff)
              /\ \A pos \in Int : Covers(c, pos) <=> Covers(o, pos)
              /\ \A v \in Nat : By(f, v) => By(c, v)
            BY SMTT(30), <3>2, <3>3, <3>4, <1>MovedFacts
        <3> QED
            BY <3>1, <3>4, <3>5
    <2> HIDE DEF to
    <2>8. ASSUME NEW k \in 1 .. l
          PROVE  /\ Sound(to[k], m, w) /\ to[k].Seq = n + k /\ stripeOf(to[k].LogicalOff) = s
                 /\ \A pos \in Int : Covers(to[k], pos) <=> Covers(view[k], pos)
                 /\ \E f \in S : Piece(view[k], f)
        BY <2>3, <2>4, <2>7
    <2>9. IsFiniteSet(F)
        <3>1. IsFiniteSet(1 .. l)
            BY SMTT(30) DEF SetLaws, IntervalLaw
        <3>2. IsFiniteSet({to[k] : k \in 1 .. l})
            BY <3>1, FiniteValues
        <3>3. F = {to[k] : k \in 1 .. l}
            BY <2>6
        <3> QED
            BY <3>2, <3>3
    <2>10. ASSUME NEW f \in F, NEW g \in F, f.Seq = g.Seq
           PROVE  f = g
        <3>1. PICK j \in 1 .. l : f = to[j]
            BY <2>6
        <3>2. PICK k \in 1 .. l : g = to[k]
            BY <2>6
        <3>3. n + j = n + k
            BY <2>8, <2>10, <3>1, <3>2
        <3>4. j = k
            BY SMTT(30), <3>3
        <3> QED
            BY <3>1, <3>2, <3>4
    <2>11. ASSUME NEW f \in F
           PROVE  Sound(f, m, w) /\ f.Seq > n /\ stripeOf(f.LogicalOff) = s
        <3>1. PICK k \in 1 .. l : f = to[k]
            BY <2>6
        <3>2. n + k > n
            BY SMTT(30)
        <3> QED
            BY <2>8, <3>1, <3>2
    <2>12. ASSUME NEW pos \in Int, NEW f \in F, Covers(f, pos)
           PROVE  \E g \in S : Covers(g, pos)
        <3>1. PICK k \in 1 .. l : f = to[k]
            BY <2>6
        <3>2. Covers(view[k], pos)
            BY <2>8, <2>12, <3>1
        <3>3. PICK g \in S : Piece(view[k], g)
            BY <2>8
        <3>4. PICK a \in Nat, b \in Nat, x \in Nat, y \in Nat :
                  a = view[k].LogicalOff /\ b = view[k].Length /\ x = g.LogicalOff /\ y = g.Length
            <4>1. g \in Frag /\ view[k] \in Frag
                BY <2>2, <3>3 DEF Piece
            <4> QED
                BY <4>1 DEF Frag
        <3>5. x <= a /\ a + b <= x + y
            BY <3>3, <3>4 DEF Piece, FEnd
        <3>6. a <= pos /\ pos < a + b
            BY <3>2, <3>4 DEF Covers
        <3>7. x <= pos /\ pos < x + y
            BY SMTT(30), <3>5, <3>6
        <3> QED
            BY <3>4, <3>7 DEF Covers
    <2>13. ASSUME NEW f \in F, NEW g \in F, NEW pos \in Int, Covers(f, pos), Covers(g, pos)
           PROVE  f = g
        <3>1. PICK j \in 1 .. l : f = to[j]
            BY <2>6
        <3>2. PICK k \in 1 .. l : g = to[k]
            BY <2>6
        <3>3. Covers(view[j], pos) /\ Covers(view[k], pos)
            BY <2>8, <2>13, <3>1, <3>2
        <3>4. j = k
            BY <2>3, <2>4, <3>3
        <3> QED
            BY <3>1, <3>2, <3>4
    <2>14. ASSUME NEW pos \in Int, NEW g \in S, NEW v \in Nat, Covers(g, pos), By(g, v),
                  \A h \in S : Covers(h, pos) => g.Seq >= h.Seq
           PROVE  \E f \in F : Covers(f, pos) /\ By(f, v)
        <3>1. PICK k \in 1 .. l : Covers(view[k], pos)
            BY <2>3, <2>4, <2>14
        <3>2. Piece(view[k], g)
            BY <2>3, <2>4, <2>14, <3>1
        <3>3. Covers(to[k], pos) /\ By(to[k], v) /\ to[k] \in F
            BY <2>6, <2>7, <2>14, <3>1, <3>2
        <3> QED
            BY <3>3
    <2>15. Fresh(F, n, m, w)
        BY <2>9, <2>10, <2>11 DEF Fresh
    <2>16. Rewrites(F, S, s, n, m, w)
        BY <2>11, <2>12, <2>13, <2>14, <2>15 DEF Rewrites
    <2> QED
        BY <2>0, <2>1, <2>16

\* A stripe rewritten to its view: every position reads as before.
<1>MoveRows.
    ASSUME NEW d, NEW n \in Nat, n < Power(SeqLen), NEW w \in Nat, Rows(d, n, w), NEW i \in Inode,
           NEW s \in StripeID, StripeFrags(d, i, s) # {}, NEW target \in {Hot, Cold},
           NEW m \in Nat, n + Len(ViewOf(d, i, s)) <= m, n <= m, m < Power(SeqLen),
           NEW b, Minus(b, d, i, OwnIn(DOMAIN d, i, s)),
           NEW e, Puts(e, i, MovedRows(d, i, s, n, target), b)
    PROVE  /\ Rows(e, m, w) /\ \A j \in Inode : j # i => Frags(e, j) = Frags(d, j)
           /\ \A pos \in Pos : Value(Frags(e, i), pos) = Value(Frags(d, i), pos)
    <2> USE <1>MoveRows
    <2>0. PICK F : F = MovedRows(d, i, s, n, target)
        OBVIOUS
    <2>1. PICK S, G : S = StripeFrags(d, i, s) /\ G = OwnIn(DOMAIN d, i, s)
        OBVIOUS
    <2>2. /\ \A f : f \in S <=> f \in Frags(d, i) /\ stripeOf(f.LogicalOff) = s
          /\ \A k \in Own(DOMAIN d, i) : k \in G <=> stripeOf(d[k].LogicalOff) = s
        <3>1. InStripe(d, i, s)
            BY <1>StripeFragsFacts
        <3> QED
            BY <2>1, <3>1 DEF InStripe
    <2>3. /\ Fresh(F, n, m, w)
          /\ \A f \in F : stripeOf(f.LogicalOff) = s
          /\ \A pos \in Int : \A f \in F : Covers(f, pos) => \E g \in S : Covers(g, pos)
          /\ \A f, g \in F : \A pos \in Int : Covers(f, pos) /\ Covers(g, pos) => f = g
          /\ \A pos \in Int : \A g \in S : \A v \in Nat :
                Covers(g, pos) /\ By(g, v) /\ (\A h \in S : Covers(h, pos) => g.Seq >= h.Seq)
                    => \E f \in F : Covers(f, pos) /\ By(f, v)
        <3>1. Rewrites(MovedRows(d, i, s, n, target), StripeFrags(d, i, s), s, n, m, w)
            BY <1>MovedRowsFacts
        <3>2. Rewrites(F, S, s, n, m, w)
            BY <2>0, <2>1, <3>1
        <3> QED
            BY <3>2 DEF Rewrites
    <2>4. Later(n, w, m, w)
        BY SMTT(30) DEF Later
    <2>5. /\ Rows(e, m, w) /\ \A j \in Inode : j # i => Frags(e, j) = Frags(d, j)
          /\ \A f : f \in Frags(e, i) <=> f \in F \/ \E k \in Own(DOMAIN d, i) : k \notin G /\ f = d[k]
        <3>1. Minus(b, d, i, G) /\ Puts(e, i, F, b)
            BY <2>0, <2>1
        <3>2. Fresh(F, n, m, w)
            BY <2>3
        <3>3. Refilled(e, d, i, F, G, m, w)
            BY <2>4, <3>1, <3>2, InsertRows
        <3> QED
            BY <3>3 DEF Refilled
    <2>6. \A f : f \in Frags(d, i) <=> \E k \in Own(DOMAIN d, i) : f = d[k]
        BY DEF Frags
    <2>7. \A f : f \in Frags(e, i) <=> f \in F \/ (f \in Frags(d, i) /\ stripeOf(f.LogicalOff) # s)
        <3>1. \A f : (\E k \in Own(DOMAIN d, i) : k \notin G /\ f = d[k])
                         <=> f \in Frags(d, i) /\ stripeOf(f.LogicalOff) # s
            BY <2>2, <2>6
        <3> QED
            BY <2>5, <3>1
    <2>8. /\ IsFiniteSet(Frags(d, i)) /\ Frags(d, i) \subseteq Frag
          /\ \A f, g \in Frags(d, i) : f.Seq = g.Seq => f = g
          /\ \A f \in Frags(d, i) : Sound(f, n, w)
        BY <1>FragsAre DEF FragSet
    <2>9. Frags(e, i) \subseteq Frag /\ \A f, g \in Frags(e, i) : f.Seq = g.Seq => f = g
        BY <2>5, <1>FragsAre DEF FragSet
    <2>10. ASSUME NEW pos \in Int, NEW f \in Frags(d, i), Covers(f, pos)
           PROVE  stripeOf(f.LogicalOff) = stripeOf(pos)
        BY <2>8, <2>10, SoundPositions
    <2>11. ASSUME NEW pos \in Int, NEW f \in F, Covers(f, pos)
           PROVE  stripeOf(pos) = s
        <3>1. Sound(f, m, w) /\ stripeOf(f.LogicalOff) = s
            BY <2>3 DEF Fresh
        <3>2. stripeOf(pos) = stripeOf(f.LogicalOff)
            BY <2>11, <3>1, SoundPositions
        <3> QED
            BY <3>1, <3>2
    <2>12. ASSUME NEW pos \in Pos
           PROVE  Value(Frags(e, i), pos) = Value(Frags(d, i), pos)
        <3>1. pos \in Int /\ pos \in Nat
            BY SMTT(30), Sizes DEF Pos
        <3>2. CASE stripeOf(pos) # s
            <4>1. \A f : f \in Frags(e, i) /\ Covers(f, pos) <=> f \in Frags(d, i) /\ Covers(f, pos)
                BY <2>7, <2>10, <2>11, <3>1, <3>2
            <4>2. Byte(Frags(e, i), pos) = Byte(Frags(d, i), pos)
                BY <4>1, SameOver
            <4> QED
                BY <4>2 DEF Value
        <3>3. CASE stripeOf(pos) = s /\ \A f \in Frags(d, i) : ~Covers(f, pos)
            <4>1. \A f \in S : ~Covers(f, pos)
                BY <2>2, <3>3
            <4>2. \A f \in Frags(e, i) : ~Covers(f, pos)
                BY <2>3, <2>7, <3>1, <3>3, <4>1
            <4>3. Value(Frags(e, i), pos) = 0 /\ Value(Frags(d, i), pos) = 0
                BY <3>3, <4>2, HoleValue
            <4> QED
                BY <4>3
        <3>4. ASSUME stripeOf(pos) = s, NEW h \in Frags(d, i), Covers(h, pos)
              PROVE  Value(Frags(e, i), pos) = Value(Frags(d, i), pos)
            <4>1. PICK g \in Frags(d, i) : /\ Covers(g, pos)
                                           /\ \A x \in Frags(d, i) : Covers(x, pos) => g.Seq >= x.Seq
                BY <2>8, <3>4, HasNewest
            <4>2. PICK v \in 1 .. w : g.SegmentOffset = Home(v, g.LogicalOff)
                BY <2>8 DEF Sound
            <4>3. v \in Nat /\ By(g, v)
                <5>1. v \in Nat
                    BY SMTT(30)
                <5> QED
                    BY <4>2, <5>1 DEF By
            <4>4. Value(Frags(d, i), pos) = v
                BY <2>8, <3>1, <4>1, <4>3, NewestValue
            <4>5. g \in S /\ \A x \in S : Covers(x, pos) => g.Seq >= x.Seq
                BY <2>2, <2>10, <3>1, <3>4, <4>1
            <4>6. PICK f \in F : Covers(f, pos) /\ By(f, v)
                BY <2>3, <3>1, <4>1, <4>3, <4>5
            <4>7. f \in Frags(e, i) /\ f.Seq \in Nat
                <5>1. f \in Frags(e, i)
                    BY <2>7
                <5>2. f \in Frag
                    BY <2>9, <5>1
                <5> QED
                    BY <5>1, <5>2 DEF Frag
            <4>8. ASSUME NEW x \in Frags(e, i), Covers(x, pos)
                  PROVE  f.Seq >= x.Seq
                <5>1. x \in F
                    BY <2>7, <2>10, <3>1, <3>4, <4>8
                <5>2. x = f
                    BY <2>3, <3>1, <4>6, <4>8, <5>1
                <5> QED
                    BY SMTT(30), <4>7, <5>2
            <4>9. Value(Frags(e, i), pos) = v
                BY <2>9, <3>1, <4>3, <4>6, <4>7, <4>8, NewestValue
            <4> QED
                BY <4>4, <4>9
        <3> QED
            BY <3>2, <3>3, <3>4
    <2> QED
        BY <2>5, <2>12

\* The view of a stripe has a position for each of its pieces.
<1>ViewLength.
    ASSUME NEW d, NEW n \in Nat, n < Power(SeqLen), NEW w \in Nat, Rows(d, n, w), NEW i \in Inode,
           NEW s \in StripeID, StripeFrags(d, i, s) # {}
    PROVE  \E l \in Nat : l = Len(ViewOf(d, i, s)) /\ l <= MaxPos - FirstPos
    <2> USE <1>ViewLength
    <2>1. PICK S, view : S = StripeFrags(d, i, s) /\ view = ByOffset(canonicalView(S))
        OBVIOUS
    <2>2. FragSet(S, n, w)
        BY <2>1, <1>StripeFragsFacts
    <2>3. Tiles(view, S)
        <3>1. S # {}
            BY <2>1
        <3> QED
            BY <2>1, <2>2, <3>1, <1>StripeView
    <2>4. \E l \in Nat : l = Len(view) /\ DOMAIN view = 1 .. l /\ l <= MaxPos - FirstPos
        BY <2>3 DEF Tiles
    <2> QED
        BY <2>1, <2>4 DEF ViewOf

\* Move keeps the invariant and every byte of every file.
<1>MoveStep.
    ASSUME IInv, NEW i \in Inode, NEW s \in StripeID, NEW target \in {Hot, Cold}, Move(i, s, target)
    PROVE  IInv' /\ Content(db') = Content(db) /\ appends' = appends
    <2> USE <1>MoveStep
    <2>1. PICK d, e : d = db /\ e = db'
        OBVIOUS
    <2>2. PICK n \in Nat, w \in Nat : n = seq /\ w = appends /\ n < Power(SeqLen) /\ Rows(d, n, w)
        BY <2>1, TableOf DEF IInv
    <2>3. Fragmental(PrefixScan(DOMAIN db, FragmentStripePrefix(i, s))) = OwnIn(DOMAIN d, i, s)
        BY <2>1, TableOf
    <2>4. Values(OwnIn(DOMAIN d, i, s)) = StripeFrags(d, i, s)
        BY <2>1 DEF Values, StripeFrags
    <2>5. Sorted(canonicalView(StripeFrags(d, i, s)), LAMBDA f, g : f.LogicalOff < g.LogicalOff)
              = ViewOf(d, i, s)
        BY DEF ViewOf, ByOffset
    <2>6. PICK view : view = ViewOf(d, i, s)
        OBVIOUS
    <2>7. /\ Edit /\ OwnIn(DOMAIN d, i, s) # {} /\ seq' = seq + Len(view) /\ appends' = appends
          /\ e = Overlay(Keyed(i, {[view[k] EXCEPT
                                      !.Seq = seq + k, !.Tier = target,
                                      !.SegmentID = IF view[k].Tier = target THEN @
                                                    ELSE MaxFrags + seq + k] : k \in DOMAIN view}),
                         Without(OwnIn(DOMAIN d, i, s)))
        BY <2>1, <2>3, <2>4, <2>5, <2>6 DEF Move
    <2>8. {[view[k] EXCEPT !.Seq = seq + k, !.Tier = target,
                           !.SegmentID = IF view[k].Tier = target THEN @
                                         ELSE MaxFrags + seq + k] : k \in DOMAIN view}
              = MovedRows(d, i, s, n, target)
        BY <2>2, <2>6 DEF MovedRows, MovedTo
    <2>9. PICK b : b = Without(OwnIn(DOMAIN d, i, s))
        OBVIOUS
    <2>10. Puts(e, i, MovedRows(d, i, s, n, target), b)
        BY <2>7, <2>8, <2>9 DEF Puts
    <2>11. Minus(b, d, i, OwnIn(DOMAIN d, i, s))
        <3>1. OwnIn(DOMAIN d, i, s) \subseteq Own(DOMAIN d, i)
            BY DEF Own, OwnIn
        <3>2. PICK K : K = OwnIn(DOMAIN d, i, s)
            OBVIOUS
        <3>3. b = [k \in DOMAIN d \ K |-> d[k]]
            BY <2>1, <2>9, <3>2 DEF Without
        <3> QED
            BY <3>1, <3>2, <3>3 DEF Minus
    <2>12. StripeFrags(d, i, s) # {}
        BY <2>7 DEF StripeFrags
    <2>13. PICK t \in Nat : t = Len(view) /\ t <= MaxPos - FirstPos
        BY <2>2, <2>6, <2>12, <1>ViewLength
    <2>14. PICK m \in Nat : m = n + t
        BY SMTT(30)
    <2>15. n + t <= m /\ n <= m
        BY SMTT(30), <2>14
    <2>16. m < Power(SeqLen)
        <3>1. PICK x \in Nat : x = edits
            BY DEF IInv
        <3>2. /\ x < MaxEdits /\ n <= (w + x) * (MaxPos - FirstPos) /\ w <= MaxFrags
            BY <2>2, <2>7, <3>1 DEF IInv, Edit
        <3>3. PICK r \in Nat : r = w + x
            BY SMTT(30)
        <3>4. m <= (r + 1) * (MaxPos - FirstPos)
            BY <2>13, <2>14, <3>2, <3>3, SeqsTaken
        <3>5. r + 1 = w + (x + 1) /\ x + 1 \in Nat /\ x + 1 <= MaxEdits
            BY SMTT(30), <3>2, <3>3, Sizes
        <3>6. m <= (w + (x + 1)) * (MaxPos - FirstPos)
            BY <3>4, <3>5
        <3> QED
            BY <3>2, <3>5, <3>6, SeqsFit
    <2>17. /\ Rows(e, m, w) /\ \A j \in Inode : j # i => Frags(e, j) = Frags(d, j)
           /\ \A pos \in Pos : Value(Frags(e, i), pos) = Value(Frags(d, i), pos)
        <3>1. n + Len(ViewOf(d, i, s)) <= m
            BY <2>6, <2>13, <2>15
        <3> QED
            BY SMTT(30), <2>2, <2>10, <2>11, <2>12, <2>15, <2>16, <3>1, <1>MoveRows
    <2>18. IInv'
        <3>1. seq' = seq + t
            BY <2>7, <2>13
        <3>2. Rows(db', seq', appends)
            BY <2>1, <2>2, <2>14, <2>17, <3>1
        <3> QED
            BY <2>7, <2>13, <3>1, <3>2, EditStep
    <2>19. Content(e) = Content(d)
        <3>1. \A j \in Inode : \A pos \in Pos : Value(Frags(e, j), pos) = Value(Frags(d, j), pos)
            BY <2>17
        <3> QED
            BY <3>1 DEF Content
    <2> QED
        BY <2>1, <2>7, <2>18, <2>19

<1> QED
    BY <1>MoveStep

-----------------------------------------------------------------------------
(* Every step *)

\* A plan made of the fragments in the stripes of a range is right by all the
\* fragments of the file.
LEMMA ReadRange ==
    ASSUME SetLaws, NEW d, NEW n \in Nat, n < Power(SeqLen), NEW w, Rows(d, n, w), NEW i \in Inode,
           NEW off \in Pos, NEW len \in Nat \ {0}, off + len <= MaxPos,
           NEW R, R \subseteq Frags(d, i),
           \A f \in Frags(d, i) :
               stripeOf(off) <= stripeOf(f.LogicalOff)
                   /\ stripeOf(f.LogicalOff) <= stripeOf(off + len - 1) => f \in R
    PROVE  PlanMatches(planRead(R, off, len), Frags(d, i), off, len)
<1>1. off \in Nat /\ len \in Nat /\ off + len - 1 \in Nat /\ off + len - 1 < MaxPos
    BY SMTT(30), Sizes DEF Pos
<1>3. IsFiniteSet(R) /\ R \subseteq Frag /\ \A f, g \in R : f.Seq = g.Seq => f = g
    BY FragsFacts
<1>4. PICK plan : plan = planRead(R, off, len)
    OBVIOUS
<1>5. PlanMatches(plan, R, off, len)
    BY <1>1, <1>3, <1>4, PlanFacts
<1>6. ASSUME NEW pos \in off .. off + len - 1
      PROVE  Byte(R, pos) = Byte(Frags(d, i), pos)
    <2>1. /\ pos \in Nat /\ pos \in Int /\ off <= pos /\ pos <= off + len - 1 /\ pos < MaxPos
          /\ off < MaxPos
        BY SMTT(30), <1>1, Sizes
    <2>2. stripeOf(off) <= stripeOf(pos) /\ stripeOf(pos) <= stripeOf(off + len - 1)
        BY <1>1, <2>1, StripesInOrder
    <2>3. ASSUME NEW f \in Frags(d, i), Covers(f, pos)
          PROVE  f \in R
        <3>1. Sound(f, n, w)
            <4>1. Frags(d, i) \subseteq Frags(d, i)
                OBVIOUS
            <4> QED
                BY <4>1, FragsFacts
        <3>2. stripeOf(pos) = stripeOf(f.LogicalOff)
            BY <2>1, <2>3, <3>1, SoundPositions
        <3> QED
            BY <2>2, <3>2
    <2>5. \A f : f \in R /\ Covers(f, pos) <=> f \in Frags(d, i) /\ Covers(f, pos)
        BY <2>3
    <2> QED
        BY <2>5, SameOver
<1>7. PlanMatches(plan, Frags(d, i), off, len)
    BY <1>5, <1>6 DEF PlanMatches
<1> QED
    BY <1>4, <1>7

\* As the refinement mapping has them.
KeysOf(d, i) == {k \in DOMAIN d : IsFragmentKey(k) /\ SubSeq(k, 1, 1 + InodeLen) = Prefix[i]}

ArraysOf(F) == {[pos \in Pos |-> WriteOf(Byte(fs, pos), pos)] : fs \in {F}}

MapOf(d) ==
    [i \in Inode |-> CHOOSE array \in ArraysOf({d[k] : k \in KeysOf(d, i)}) : TRUE]

\* The refinement mapping yields just these arrays.
LEMMA ContentIs ==
    ASSUME SetLaws, NEW d, NEW n \in Nat, n < Power(SeqLen), NEW w, Rows(d, n, w)
    PROVE  MapOf(d) = Content(d) /\ \A i \in Inode : {d[k] : k \in KeysOf(d, i)} = Frags(d, i)
<1>1. Table(DOMAIN d)
    BY RowsFacts
<1>2. ASSUME NEW i \in Inode
      PROVE  KeysOf(d, i) = Own(DOMAIN d, i)
    <2>1. {k \in DOMAIN d : IsFragmentKey(k) /\ SubSeq(k, 1, 1 + InodeLen) = Prefix[i]} = Own(DOMAIN d, i)
        BY <1>1, OwnKeysAre
    <2> QED
        BY <2>1 DEF KeysOf
<1>3. \A i \in Inode : {d[k] : k \in KeysOf(d, i)} = Frags(d, i)
    BY <1>2 DEF Frags
<1>4. ASSUME NEW F, NEW x, x = CHOOSE array \in ArraysOf(F) : TRUE
      PROVE  x = [pos \in Pos |-> Value(F, pos)]
    <2>1. PICK y : y = [pos \in Pos |-> WriteOf(Byte(F, pos), pos)]
        OBVIOUS
    <2>2. y \in ArraysOf(F) /\ \A z \in ArraysOf(F) : z = y
        BY <2>1 DEF ArraysOf
    <2>3. x \in ArraysOf(F)
        BY <1>4, <2>2
    <2>4. x = y
        BY <2>2, <2>3
    <2> QED
        BY <2>1, <2>4 DEF Value
<1>5. MapOf(d) = Content(d)
    <2>1. ASSUME NEW i \in Inode
          PROVE  (CHOOSE array \in ArraysOf({d[k] : k \in KeysOf(d, i)}) : TRUE)
                     = [pos \in Pos |-> Value(Frags(d, i), pos)]
        BY <1>3, <1>4
    <2> QED
        BY <2>1 DEF MapOf, Content
<1> QED
    BY <1>3, <1>5

\* One whose fragments alone change is the one whose array may.
LEMMA OneFile ==
    ASSUME NEW d, NEW e, NEW i \in Inode, OthersKept(d, e, i), NEW x, Content(e)[i] = x
    PROVE  Content(e) = [Content(d) EXCEPT ![i] = x]
<1>1. PICK was, now : /\ was = Content(d) /\ now = Content(e)
                      /\ was = [j \in Inode |-> was[j]] /\ now = [j \in Inode |-> now[j]]
    BY DEF Content
<1>2. /\ DOMAIN was = Inode /\ DOMAIN now = Inode /\ now[i] = x
      /\ \A j \in Inode : j # i => now[j] = was[j]
    BY <1>1 DEF OthersKept
<1>3. now = [was EXCEPT ![i] = x]
    BY SMTT(30), <1>1, <1>2
<1> QED
    BY <1>1, <1>3

\* Every stripe of the model is one a key can carry.
LEMMA StripesFit ==
    ASSUME SetLaws
    PROVE  Stripes \subseteq StripeID
<1>1. ASSUME NEW pos \in Pos
      PROVE  stripeOf(pos) \in StripeID
    <2>1. pos \in Nat
        BY SMTT(30), Sizes DEF Pos
    <2>2. PICK P \in Nat : P = Power(StripeLen) /\ P > 0
        BY SMTT(30), PowerFacts, Widths
    <2>3. pos \div StripeSize \in Int
        BY SMTT(30), <2>1, Sizes
    <2>4. (pos \div StripeSize) % P \in 0 .. P - 1
        BY SMTT(30), <2>2, <2>3
    <2> QED
        BY <2>2, <2>4 DEF stripeOf, StripeID
<1> QED
    BY <1>1 DEF Stripes

\* A step keeps the invariant.
LEMMA NextIInv ==
    ASSUME SetLaws, IInv, Next
    PROVE  IInv'
<1>1. ASSUME NEW x \in Writes, AppendExtents(x[1], x[2], x[3])
      PROVE  IInv'
    BY <1>1, AppendKeepsIInv
<1>2. ASSUME NEW i \in Inode, NEW size \in Pos, Truncate(i, size)
      PROVE  IInv'
    BY <1>2, CutsKeepIInv
<1>3. ASSUME NEW i \in Inode, DeleteInode(i)
      PROVE  IInv'
    BY <1>3, CutsKeepIInv
<1>4. ASSUME NEW i \in Inode, NEW s \in Stripes, NEW target \in {Hot, Cold}, Move(i, s, target)
      PROVE  IInv'
    BY <1>4, StripesFit, MoveKeepsIInv
<1> QED
    BY <1>1, <1>2, <1>3, <1>4 DEF Next

\* And so does one that changes nothing.
LEMMA StutterIInv ==
    ASSUME IInv, UNCHANGED vars
    PROVE  IInv'
BY DEF IInv, vars

\* What a fragment in its place has of TypeOK.
LEMMA RowTyped ==
    ASSUME SetLaws, IInv, NEW i \in Inode, NEW k \in Own(DOMAIN db, i)
    PROVE  LET f == db[k]
           IN  /\ k = FragmentKey(i, stripeOf(f.LogicalOff), f.Seq)
               /\ f.LogicalOff \in Pos /\ f.Length > 0 /\ FEnd(f) <= MaxPos
               /\ stripeOf(FEnd(f) - 1) = stripeOf(f.LogicalOff)
               /\ f.Seq \in 1 .. seq /\ f.Tier \in {Hot, Cold}
<1>0. PICK n \in Nat, w \in Nat : n = seq /\ w = appends /\ n < Power(SeqLen) /\ Rows(db, n, w)
    BY TableOf DEF IInv
<1>1. PICK f : f = db[k]
    OBVIOUS
<1>2. Entry(k, f, i, n, w)
    BY <1>0, <1>1, RowsFacts
<1> QED
    BY <1>0, <1>1, <1>2 DEF Entry, Sound

\* The keys of a file, as the model tells them.
LEMMA KeysAre ==
    ASSUME SetLaws, IInv, NEW i \in Inode
    PROVE  OwnKeys(i) = Own(DOMAIN db, i) /\ Values(OwnKeys(i)) = Frags(db, i)
<1>1. PICK keys : keys = DOMAIN db /\ Table(keys)
    BY TableOf
<1>2. {k \in keys : IsFragmentKey(k) /\ SubSeq(k, 1, 1 + InodeLen) = Prefix[i]} = Own(keys, i)
    BY <1>1, OwnKeysAre
<1>3. OwnKeys(i) = Own(DOMAIN db, i)
    BY <1>1, <1>2 DEF OwnKeys
<1> QED
    BY <1>3 DEF Values, Frags

\* The fragments that a read's scan finds.
LEMMA ScanFinds ==
    ASSUME SetLaws, IInv, NEW i \in Inode, NEW first \in StripeID, NEW last \in StripeID
    PROVE  \A f : f \in fragmentsInRange(i, first, last) <=>
                     \E k \in Own(DOMAIN db, i) :
                         /\ f = db[k]
                         /\ first <= stripeOf(f.LogicalOff) /\ stripeOf(f.LogicalOff) <= last
<1>1. PICK keys : keys = DOMAIN db /\ Table(keys)
    BY TableOf
<1>2. PICK hi : hi = RangeEnd(i, last)
    OBVIOUS
<1>3. PICK found : found = {k \in keys : \E s \in StripeID : Filed(k, i, s) /\ first <= s /\ s <= last}
    OBVIOUS
<1>4. Fragmental(Iter(keys, FragmentStripePrefix(i, first), hi)) = found
    BY SMTT(30), <1>1, <1>2, <1>3, RangeScan
<1>5. fragmentsInRange(i, first, last) = {db[k] : k \in found}
    BY <1>1, <1>2, <1>4 DEF fragmentsInRange, RangeEnd, Values
<1>6. PICK n \in Nat, w \in Nat : n = seq /\ w = appends /\ n < Power(SeqLen) /\ Rows(db, n, w)
    BY TableOf DEF IInv
<1>7. \A k \in Own(keys, i) : \A s \in StripeID : Filed(k, i, s) <=> s = stripeOf(db[k].LogicalOff)
    BY <1>1, <1>6, RowsFacts
<1>8. \A k : k \in found <=> /\ k \in Own(keys, i)
                             /\ first <= stripeOf(db[k].LogicalOff) /\ stripeOf(db[k].LogicalOff) <= last
    <2>1. \A k : k \in Own(keys, i) <=> k \in keys /\ \E s \in StripeID : Filed(k, i, s)
        BY DEF Own
    <2> QED
        BY <1>3, <1>7, <2>1
<1> QED
    BY <1>1, <1>5, <1>8

\* The stripe of a position of the model.
LEMMA StripeFits ==
    ASSUME SetLaws, NEW pos \in Pos
    PROVE  stripeOf(pos) \in StripeID
BY StripesFit DEF Stripes

\* The array of bytes that the table stands for, now and after a step.
ArrayNow == [i \in Inode |-> CHOOSE array \in Arrays(Values(OwnKeys(i))) : TRUE]

\* It is what the fragments of the table make up,
LEMMA BytesAre ==
    ASSUME SetLaws, IInv
    PROVE  ArrayNow = Content(db)
<1>1. ArrayNow = MapOf(db)
    BY DEF ArrayNow, MapOf, Arrays, ArraysOf, Values, OwnKeys, KeysOf
<1>2. PICK n \in Nat, w \in Nat, x \in Nat : n = seq /\ w = appends /\ x = edits
    BY DEF IInv
<1>3. w <= MaxFrags /\ x <= MaxEdits /\ n <= (w + x) * (MaxPos - FirstPos) /\ Rows(db, n, w)
    BY <1>2 DEF IInv
<1>4. n < Power(SeqLen)
    BY <1>3, SeqsFit
<1> QED
    BY <1>1, <1>3, <1>4, ContentIs

\* and so it is after a step.
LEMMA BytesNext ==
    ASSUME SetLaws, IInv'
    PROVE  ArrayNow' = Content(db')
<1>1. ArrayNow' = MapOf(db')
    BY DEF ArrayNow, MapOf, Arrays, ArraysOf, Values, OwnKeys, KeysOf
<1>2. PICK n \in Nat, w \in Nat, x \in Nat : n = seq' /\ w = appends' /\ x = edits'
    BY DEF IInv
<1>3. w <= MaxFrags /\ x <= MaxEdits /\ n <= (w + x) * (MaxPos - FirstPos) /\ Rows(db', n, w)
    BY <1>2 DEF IInv
<1>4. n < Power(SeqLen)
    BY <1>3, SeqsFit
<1> QED
    BY <1>1, <1>3, <1>4, ContentIs

-----------------------------------------------------------------------------
(* The laws, from the library *)

INSTANCE FiniteSetTheorems

\* The laws of finite sets that the lemmas assume hold.
LEMMA SetLawsHold == SetLaws
<1>1. SizeLaw /\ EmptyLaw /\ SingletonLaw
    BY FS_CardinalityType, FS_EmptySet, FS_Singleton DEF SizeLaw, EmptyLaw, SingletonLaw
<1>2. AddLaw
    BY FS_AddElement DEF AddLaw
<1>3. RemoveLaw
    BY FS_RemoveElement DEF RemoveLaw
<1>4. SubsetLaw
    BY FS_Subset DEF SubsetLaw
<1>5. IntervalLaw
    BY FS_Interval DEF IntervalLaw
<1>6. UnionLaw
    BY FS_Union DEF UnionLaw
<1>7. MeetLaw
    BY FS_Intersection DEF MeetLaw
<1>8. DifferenceLaw
    BY FS_Difference DEF DifferenceLaw
<1>9. FamilyLaw
    BY FS_UNION DEF FamilyLaw
<1>10. SurjectionLaw
    <2>1. ASSUME NEW S, NEW T, NEW f \in [S -> T], IsFiniteSet(S),
                 \A t \in T : \E s \in S : f[s] = t
          PROVE  IsFiniteSet(T) /\ Cardinality(T) <= Cardinality(S)
        <3>1. f \in Surjection(S, T)
            BY <2>1 DEF Surjection
        <3> QED
            BY <2>1, <3>1, FS_Surjection
    <2> QED
        BY <2>1 DEF SurjectionLaw
<1>11. InjectionLaw
    BY FS_Injection DEF InjectionLaw, Injection, IsInjective
<1>12. PigeonLaw
    BY FS_PigeonHole DEF PigeonLaw
<1>13. LeastLaw
    <2>1. SUFFICES ASSUME NEW S \in SUBSET Nat, S # {}
                   PROVE  \E x \in S : \A y \in S : x <= y
        BY DEF LeastLaw
    <2>2. PICK x \in S : \A y \in S : ~(<<y, x>> \in OpToRel(<, Nat))
        <3>1. S \subseteq Nat
            OBVIOUS
        <3> QED
            BY <2>1, <3>1, NatLessThanWellFounded, WFMin
    <2>3. ASSUME NEW y \in S PROVE x <= y
        <3>1. x \in Nat /\ y \in Nat
            OBVIOUS
        <3>2. ~(y < x)
            BY <2>2, <3>1 DEF OpToRel
        <3> QED
            BY SMTT(30), <3>1, <3>2
    <2> QED
        BY <2>3
<1> QED
    BY <1>1, <1>2, <1>3, <1>4, <1>5, <1>6, <1>7, <1>8, <1>9, <1>10, <1>11, <1>12, <1>13
    DEF SetLaws

-----------------------------------------------------------------------------
(* Theorems *)

\* A scan from a prefix to PrefixUpperBound of it (kv/keys.go, DB.Iter) visits
\* the keys with that prefix and no others, whatever bytes the prefix ends in:
\* no neighbour's key, no key of another layer, and none left out.
THEOREM PrefixScanIsExact ==
    ASSUME NEW keys, keys \subseteq Seq(Octet), NEW p \in Seq(Octet)
    PROVE  PrefixScan(keys, p) = {k \in keys : StartsWith(k, p)}
BY ScanFacts, SetLawsHold

\* The inductive invariant: every row of the table is a sound fragment, filed
\* under its inode, its stripe and its seq.
THEOREM TableInvariant == Spec => []IInv
<1>1. Init => IInv
    BY InitIInv, SetLawsHold
<1>2. IInv /\ [Next]_vars => IInv'
    BY NextIInv, StutterIInv, SetLawsHold
<1> QED
    BY <1>1, <1>2, PTL DEF Spec

\* The type invariant, for any widths, radix, stripe size and workload: every
\* key of the table is another layer's or a fragment's, filed under its own
\* stripe and seq and inside that stripe, and the seqs never outgrow their
\* field of the key.
THEOREM TypeCorrect == Spec => []TypeOK
<1>1. IInv => TypeOK
    <2> SUFFICES ASSUME IInv
                 PROVE  TypeOK
        OBVIOUS
    <2>1. \A i \in Inode : OwnKeys(i) = Own(DOMAIN db, i)
        BY KeysAre, SetLawsHold
    <2>2. /\ \A k \in Foreign : k \in DOMAIN db /\ db[k] = Garbage
          /\ \A k \in DOMAIN db : k \in Foreign \/ \E i \in Inode : k \in Own(DOMAIN db, i)
        <3>1. /\ \A k \in Foreign : k \in DOMAIN db /\ db[k] = Garbage
            BY DEF IInv, Rows
        <3>2. ASSUME NEW k \in DOMAIN db, k \notin Foreign
              PROVE  \E i \in Inode : k \in Own(DOMAIN db, i)
            <4>1. Rows(db, seq, appends) /\ seq \in Nat
                BY DEF IInv
            <4>2. PICK i \in Inode : Entry(k, db[k], i, seq, appends)
                BY <3>2, <4>1 DEF Rows
            <4>3. seq < Power(SeqLen)
                BY TableOf, SetLawsHold
            <4>4. PICK f : f = db[k]
                OBVIOUS
            <4>5. Entry(k, f, i, seq, appends)
                BY <4>2, <4>4
            <4>6. Filed(k, i, stripeOf(f.LogicalOff)) /\ stripeOf(f.LogicalOff) \in StripeID
                BY <4>1, <4>3, <4>5, EntryFiled, SetLawsHold
            <4> QED
                BY <4>6 DEF Own
        <3> QED
            BY <3>1, <3>2
    <2>3. DOMAIN db = Foreign \cup UNION {OwnKeys(i) : i \in Inode}
        <3>1. \A i \in Inode : \A k \in OwnKeys(i) : k \in DOMAIN db
            BY DEF OwnKeys
        <3>2. \A k : k \in UNION {OwnKeys(i) : i \in Inode} <=> \E i \in Inode : k \in OwnKeys(i)
            OBVIOUS
        <3> QED
            BY <2>1, <2>2, <3>1, <3>2
    <2>4. \A i \in Inode : \A k \in OwnKeys(i) :
              LET f == db[k]
              IN  /\ k = FragmentKey(i, stripeOf(f.LogicalOff), f.Seq)
                  /\ f.LogicalOff \in Pos /\ f.Length > 0 /\ FEnd(f) <= MaxPos
                  /\ stripeOf(FEnd(f) - 1) = stripeOf(f.LogicalOff)
                  /\ f.Seq \in 1 .. seq /\ f.Tier \in {Hot, Cold}
        BY <2>1, RowTyped, SetLawsHold
    <2>5. seq < Power(SeqLen)
        <3>1. CASE Inode = {}
            <4>1. PICK n \in Nat, w \in Nat, x \in Nat : n = seq /\ w = appends /\ x = edits
                BY DEF IInv
            <4>2. w <= MaxFrags /\ x <= MaxEdits /\ n <= (w + x) * (MaxPos - FirstPos)
                BY <4>1 DEF IInv
            <4>3. n < Power(SeqLen)
                BY <4>2, SeqsFit, SetLawsHold
            <4> QED
                BY <4>1, <4>3
        <3>2. CASE Inode # {}
            BY <3>2, TableOf, SetLawsHold
        <3> QED
            BY <3>1, <3>2
    <2> QED
        BY <2>2, <2>3, <2>4, <2>5 DEF TypeOK
<1> QED
    BY <1>1, TableInvariant, PTL

\* PlanRead serves, for every range of every file and whatever operations came
\* before, each byte from the newest fragment over it and nothing where there
\* is none: the range scan of the keys misses no stripe of the range, not even
\* the last that a key can carry, and finds no neighbour's fragment.
THEOREM PlansAreNewest == Spec => []PlanIsNewestWins
<1>1. IInv => PlanIsNewestWins
    <2> SUFFICES ASSUME IInv, NEW i \in Inode, NEW off \in Pos, NEW len \in 1 .. MaxPos - FirstPos,
                        off + len <= MaxPos
                 PROVE  PlanMatches(PlanRead(i, off, len), Values(OwnKeys(i)), off, len)
        BY DEF PlanIsNewestWins
    <2>1. len \in Nat \ {0} /\ off + len - 1 \in Pos
        BY SMTT(30), Sizes DEF Pos
    <2>2. PICK first \in StripeID, last \in StripeID :
              first = stripeOf(off) /\ last = stripeOf(off + len - 1)
        BY <2>1, StripeFits, SetLawsHold
    <2>3. PICK R : R = fragmentsInRange(i, first, last)
        OBVIOUS
    <2>4. PICK n \in Nat, w \in Nat : n = seq /\ w = appends /\ n < Power(SeqLen) /\ Rows(db, n, w)
        BY TableOf, SetLawsHold DEF IInv
    <2>5. \A f : f \in R <=> \E k \in Own(DOMAIN db, i) :
                                 /\ f = db[k]
                                 /\ first <= stripeOf(f.LogicalOff) /\ stripeOf(f.LogicalOff) <= last
        BY <2>3, ScanFinds, SetLawsHold
    <2>6. \A f : f \in Frags(db, i) <=> \E k \in Own(DOMAIN db, i) : f = db[k]
        BY DEF Frags
    <2>7. R \subseteq Frags(db, i)
        BY <2>5, <2>6
    <2>8. \A f \in Frags(db, i) :
              stripeOf(off) <= stripeOf(f.LogicalOff)
                  /\ stripeOf(f.LogicalOff) <= stripeOf(off + len - 1) => f \in R
        BY <2>2, <2>5, <2>6
    <2>9. PlanMatches(planRead(R, off, len), Frags(db, i), off, len)
        BY <2>1, <2>4, <2>7, <2>8, ReadRange, SetLawsHold
    <2>10. PlanRead(i, off, len) = planRead(R, off, len)
        BY <2>2, <2>3 DEF PlanRead
    <2> QED
        BY <2>9, <2>10, KeysAre, SetLawsHold
<1> QED
    BY <1>1, TableInvariant, PTL

\* The refinement: whatever sequence of operations came before, an append
\* writes its whole range of its file, a truncate cuts its file at its size, a
\* deletion empties its file, a move changes nothing, and none of them touches
\* a neighbour.
THEOREM TableIsByteArray == Spec => ImplementsByteArray
<1>1. Init => BA!Init
    <2> SUFFICES ASSUME Init
                 PROVE  BA!Init
        OBVIOUS
    <2>1. ArrayNow = [i \in Inode |-> [pos \in Pos |-> 0]]
        BY InitIInv, BytesAre, SetLawsHold
    <2> QED
        BY <2>1 DEF BA!Init, ArrayNow, Init
<1>2. ASSUME IInv, IInv'
      PROVE  Does
    <2>1. ArrayNow = Content(db) /\ ArrayNow' = Content(db')
        BY <1>2, BytesAre, BytesNext, SetLawsHold
    <2>2. ASSUME NEW w \in Writes, AppendExtents(w[1], w[2], w[3])
          PROVE  BA!Write(w[1], w[2], w[2] + w[3] - 1)
        <3>1. PICK i \in Inode, a \in Nat, b \in Int : w[1] = i /\ w[2] = a /\ w[2] + w[3] - 1 = b
            <4>1. PICK i \in Inode, a \in Nat, n \in Nat : w[1] = i /\ w[2] = a /\ w[3] = n
                <5>1. w[1] \in Inode /\ w[2] \in FirstPos .. MaxPos - 1 /\ w[3] \in Nat
                    BY <2>2, StripeLogAssumption
                <5>2. w[2] \in Nat
                    BY SMTT(30), <5>1, Sizes
                <5> QED
                    BY <5>1, <5>2
            <4>2. a + n - 1 \in Int
                BY SMTT(30)
            <4> QED
                BY <4>1, <4>2
        <3>2. appends' = appends + 1 /\ WritesRange(db, db', i, a, b, appends)
            BY <1>2, <2>2, <3>1, AppendKeepsIInv, SetLawsHold
        <3>3. PICK was, now : was = Content(db) /\ now = Content(db')
            OBVIOUS
        <3>4. \A pos \in Pos : (a <= pos /\ pos <= b) <=> pos \in a .. b
            BY SMTT(30), Sizes DEF Pos
        <3>5. now[i] = BA!Written(was[i], a, b)
            BY <3>2, <3>3, <3>4 DEF WritesRange, BA!Written
        <3>6. now = [was EXCEPT ![i] = BA!Written(was[i], a, b)]
            <4>1. OthersKept(db, db', i)
                BY <3>2 DEF WritesRange
            <4>2. PICK x : x = BA!Written(was[i], a, b)
                OBVIOUS
            <4>3. Content(db')[i] = x
                BY <3>3, <3>5, <4>2
            <4>4. Content(db') = [Content(db) EXCEPT ![i] = x]
                BY SMTT(30), <3>1, <4>1, <4>3, OneFile
            <4> QED
                BY <3>3, <3>5, <4>2, <4>4
        <3>7. ArrayNow' = [ArrayNow EXCEPT ![i] = BA!Written(ArrayNow[i], a, b)]
            BY <2>1, <3>3, <3>6
        <3> QED
            BY <3>1, <3>2, <3>7 DEF BA!Write, ArrayNow
    <2>3. ASSUME NEW i \in Inode, NEW size \in Pos, Truncate(i, size)
          PROVE  BA!Truncate(i, size)
        <3>1. appends' = appends /\ CutsFile(db, db', i, size)
            BY <1>2, <2>3, CutsKeepIInv, SetLawsHold
        <3>2. PICK was, now : was = Content(db) /\ now = Content(db')
            OBVIOUS
        <3>3. now[i] = BA!Cut(was[i], size)
            BY <3>1, <3>2 DEF CutsFile, BA!Cut
        <3>4. now = [was EXCEPT ![i] = BA!Cut(was[i], size)]
            <4>1. OthersKept(db, db', i)
                BY <3>1 DEF CutsFile
            <4>2. PICK x : x = BA!Cut(was[i], size)
                OBVIOUS
            <4>3. Content(db')[i] = x
                BY <3>2, <3>3, <4>2
            <4>4. Content(db') = [Content(db) EXCEPT ![i] = x]
                BY SMTT(30), <4>1, <4>3, OneFile
            <4> QED
                BY <3>2, <3>3, <4>2, <4>4
        <3>5. ArrayNow' = [ArrayNow EXCEPT ![i] = BA!Cut(ArrayNow[i], size)]
            BY <2>1, <3>2, <3>4
        <3> QED
            BY <3>1, <3>5 DEF BA!Truncate, ArrayNow
    <2>4. ASSUME NEW i \in Inode, DeleteInode(i)
          PROVE  BA!Delete(i)
        <3>1. appends' = appends /\ EmptiesFile(db, db', i)
            BY <1>2, <2>4, CutsKeepIInv, SetLawsHold
        <3>2. Content(db')[i] = BA!Emptied
            BY <3>1 DEF EmptiesFile, BA!Emptied
        <3>3. Content(db') = [Content(db) EXCEPT ![i] = BA!Emptied]
            <4>1. OthersKept(db, db', i)
                BY <3>1 DEF EmptiesFile
            <4>2. PICK x : x = BA!Emptied
                OBVIOUS
            <4>3. Content(db')[i] = x
                BY <3>2, <4>2
            <4>4. Content(db') = [Content(db) EXCEPT ![i] = x]
                BY SMTT(30), <4>1, <4>3, OneFile
            <4> QED
                BY <3>2, <4>2, <4>4
        <3>4. ArrayNow' = [ArrayNow EXCEPT ![i] = BA!Emptied]
            BY <2>1, <3>3
        <3> QED
            BY <3>1, <3>4 DEF BA!Delete, ArrayNow
    <2>5. ASSUME NEW i \in Inode, NEW s \in Stripes, NEW target \in {Hot, Cold}, Move(i, s, target)
          PROVE  UNCHANGED BA!vars
        <3>1. Content(db') = Content(db) /\ appends' = appends
            BY <1>2, <2>5, StripesFit, MoveKeepsIInv, SetLawsHold
        <3>2. ArrayNow' = ArrayNow
            BY <2>1, <3>1
        <3> QED
            BY <3>1, <3>2 DEF BA!vars, ArrayNow
    <2> QED
        BY <2>2, <2>3, <2>4, <2>5 DEF Does
<1>3. IInv /\ IInv' => [Does]_vars
    BY <1>2
<1> QED
    BY <1>1, <1>3, TableInvariant, PTL DEF Spec, ImplementsByteArray

=============================================================================
