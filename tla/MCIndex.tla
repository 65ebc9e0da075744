------------------------------- MODULE MCIndex -------------------------------
(* Small instances of the index for TLC. *)
EXTENDS Index, TLC

\* How many appends, bulk sessions, moves, collections, drops, reads, short
\* writes, failures and crashes a behaviour has.
Limits(a, b, m, g, d, r, s, f, c) ==
    [append |-> a, bulk |-> b, move |-> m, gc |-> g, drop |-> d, read |-> r,
     short |-> s, fail |-> f, crash |-> c]

SafetyWorkload ==
    {Limits(2, 0, 1, 1, 0, 0, 0, 1, 1),      \* recovery
     Limits(2, 0, 1, 0, 0, 0, 1, 0, 1),      \* short writes
     Limits(1, 1, 1, 1, 1, 0, 0, 0, 0),      \* a bulk session, drops
     Limits(2, 0, 1, 1, 1, 1, 0, 0, 0),      \* reads
     Limits(2, 0, 0, 1, 0, 1, 0, 0, 1),      \* reads after a restart
     Limits(1, 0, 1, 2, 0, 0, 0, 1, 0)}      \* a failed unlink, swept later

CollectWorkload == {Limits(2, 0, 0, 1, 0, 0, 0, 0, 0)}

Symmetry == Permutations(Proc)

=============================================================================
