---------------------------- MODULE FiniteLaws ----------------------------
(***************************************************************************)
(* The laws of finite sets and of the natural numbers that the proofs rest *)
(* on, one formula each.  A lemma that needs them assumes SetLaws, and the *)
(* modules that prove something of a specification derive SetLaws from the *)
(* theorems of the library, after their last lemma.  The provers are       *)
(* handed the whole context of a step, and the library would be most of    *)
(* it.                                                                     *)
(***************************************************************************)
EXTENDS Integers, FiniteSets

SizeLaw       == \A S : IsFiniteSet(S) => Cardinality(S) \in Nat
EmptyLaw      == /\ IsFiniteSet({}) /\ Cardinality({}) = 0
                 /\ \A S : IsFiniteSet(S) => (Cardinality(S) = 0 <=> S = {})
SingletonLaw  == /\ \A x : IsFiniteSet({x}) /\ Cardinality({x}) = 1
                 /\ \A S : IsFiniteSet(S) => (Cardinality(S) = 1 <=> \E x : S = {x})
AddLaw        == \A S, x : IsFiniteSet(S) =>
                    /\ IsFiniteSet(S \cup {x})
                    /\ Cardinality(S \cup {x}) = IF x \in S THEN Cardinality(S)
                                                 ELSE Cardinality(S) + 1
RemoveLaw     == \A S, x : IsFiniteSet(S) =>
                    /\ IsFiniteSet(S \ {x})
                    /\ Cardinality(S \ {x}) = IF x \in S THEN Cardinality(S) - 1
                                              ELSE Cardinality(S)
SubsetLaw     == \A S : IsFiniteSet(S) => \A T \in SUBSET S :
                    /\ IsFiniteSet(T) /\ Cardinality(T) <= Cardinality(S)
                    /\ Cardinality(S) = Cardinality(T) => S = T
IntervalLaw   == \A a, b \in Int : /\ IsFiniteSet(a .. b)
                                   /\ Cardinality(a .. b) = IF a > b THEN 0 ELSE b - a + 1
UnionLaw      == \A S, T : IsFiniteSet(S) /\ IsFiniteSet(T) =>
                    /\ IsFiniteSet(S \cup T)
                    /\ Cardinality(S \cup T) =
                          Cardinality(S) + Cardinality(T) - Cardinality(S \cap T)
MeetLaw       == \A S, T : IsFiniteSet(S) =>
                    /\ IsFiniteSet(S \cap T) /\ IsFiniteSet(T \cap S)
                    /\ Cardinality(S \cap T) <= Cardinality(S)
                    /\ Cardinality(T \cap S) <= Cardinality(S)
DifferenceLaw == \A S, T : IsFiniteSet(S) =>
                    /\ IsFiniteSet(S \ T)
                    /\ Cardinality(S \ T) = Cardinality(S) - Cardinality(S \cap T)
FamilyLaw     == \A S : IsFiniteSet(S) /\ (\A T \in S : IsFiniteSet(T)) => IsFiniteSet(UNION S)
SurjectionLaw == \A S, T : \A f \in [S -> T] :
                    IsFiniteSet(S) /\ (\A t \in T : \E s \in S : f[s] = t) =>
                       IsFiniteSet(T) /\ Cardinality(T) <= Cardinality(S)
InjectionLaw  == \A S, T : \A f \in [S -> T] :
                    IsFiniteSet(T) /\ (\A x, y \in S : f[x] = f[y] => x = y) =>
                       IsFiniteSet(S) /\ Cardinality(S) <= Cardinality(T)
PigeonLaw     == \A S, T : \A f \in [S -> T] :
                    IsFiniteSet(S) /\ IsFiniteSet(T) /\ Cardinality(T) < Cardinality(S) =>
                       \E x, y \in S : x # y /\ f[x] = f[y]
LeastLaw      == \A S \in SUBSET Nat : S # {} => \E x \in S : \A y \in S : x <= y

SetLaws == /\ SizeLaw /\ EmptyLaw /\ SingletonLaw /\ AddLaw /\ RemoveLaw
           /\ SubsetLaw /\ IntervalLaw /\ UnionLaw /\ MeetLaw /\ DifferenceLaw
           /\ FamilyLaw /\ SurjectionLaw /\ InjectionLaw /\ PigeonLaw /\ LeastLaw
=============================================================================
