------------------------------ MODULE MCPlacefs ------------------------------
(* A small placefs process for TLC. *)
EXTENDS Placefs, TLC

\* How many failures of the mover, boot failures, FUSE requests (writes among
\* them, and how many at a time), failed flushes, signals and unmounts a
\* behaviour has, whether there is an admin server, and how many requests it gets.
Limits(f, b, c, w, p, l, s, u, a, r) ==
    [fail |-> f, boot |-> b, call |-> c, write |-> w, parallel |-> p,
     flushfail |-> l, signal |-> s, umount |-> u, admin |-> a,
     request |-> r]

Days ==
    {Limits(1, 0, 3, 3, 1, 0, 1, 0, 0, 0),      \* hot pressure
     Limits(3, 0, 0, 0, 0, 0, 1, 0, 1, 1),      \* errors and health
     Limits(0, 1, 2, 1, 2, 1, 1, 1, 1, 0),      \* start and shutdown
     Limits(0, 0, 2, 0, 2, 0, 0, 0, 1, 2)}      \* metrics
=============================================================================
