----------------------------- MODULE MCNamespace -----------------------------
(* A small namespace for TLC. *)
EXTENDS Namespace, TLC

\* How many operations, flushes, bulk writes, truncates, path lookups and
\* crashes a behaviour has.
Limits(o, f, b, s, w, x) ==
    [op |-> o, flush |-> f, bulk |-> b, setattr |-> s, walk |-> w, crash |-> x]

Mixes ==
    {Limits(5, 0, 0, 0, 0, 0),      \* names and links
     Limits(3, 1, 0, 0, 0, 1),      \* freed inodes
     Limits(3, 1, 1, 1, 0, 0),      \* sizes
     Limits(2, 1, 1, 0, 0, 1),
     Limits(4, 0, 0, 0, 1, 0)}      \* paths

Symmetry == Permutations(Client) \cup Permutations(Name)
=============================================================================
