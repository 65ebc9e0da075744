----------------------------- MODULE MCCoalescer -----------------------------
(* Small instances of the coalescer for TLC. *)
EXTENDS Coalescer, TLC

\* How many writes, fsyncs, truncates, chmods, unlinks, closes, cancellations,
\* I/O failures and crashes a behaviour has.
Limits(w, f, t, m, u, c, k, e, x) ==
    [write |-> w, fsync |-> f, truncate |-> t, chmod |-> m, unlink |-> u,
     close |-> c, cancel |-> k, fail |-> e, crash |-> x]

SafetyWorkload ==
    {Limits(2, 1, 1, 0, 0, 0, 0, 0, 0),      \* truncates
     Limits(2, 1, 0, 0, 0, 0, 1, 1, 1),      \* failures, cancellation, crash
     Limits(2, 0, 0, 1, 0, 1, 0, 1, 0),      \* chmod, shutdown
     Limits(2, 1, 0, 0, 1, 0, 0, 0, 0)}      \* unlink
ProgressWorkload == {Limits(3, 2, 0, 0, 0, 0, 0, 1, 0)}
RaceWorkload     == {Limits(3, 1, 1, 0, 0, 0, 0, 0, 0)}

Symmetry == Permutations(Client) \cup Permutations(Worker)
=============================================================================
