-------------------------------- MODULE Mover --------------------------------
(***************************************************************************)
(* The background mover (mover/mover.go): a loop that on every tick moves  *)
(* stripes from hot to cold while the hot tier is over its cap, collects   *)
(* unreferenced segments, and backs off after errors.  The index below it  *)
(* is reduced to where the hot bytes are: which segment holds how many     *)
(* bytes of which stripe (module Index has Move and GC in full).  Module   *)
(* Placefs runs the mover inside its process.                              *)
(***************************************************************************)
EXTENDS Integers, Sequences, FiniteSets, Folds

CONSTANTS NumStripes,
          SegmentMaxSize,   \* bytes of a hot segment
          HotMaxBytes, HotTargetBytes,
          Tick, MaxBackoff, \* the loop's delays, in seconds
          MaxWrites,        \* bound: bytes written
          Workload          \* bound: budgets, how often each event happens

Event == {"fail",           \* a scan, a move or a collection fails
          "boot", "call", "write", "parallel", "flushfail", "signal",
          "umount", "admin", "request"}     \* see Placefs

ASSUME MoverAssumption ==
    /\ NumStripes \in Nat \ {0} /\ SegmentMaxSize \in Nat \ {0}
    /\ HotMaxBytes \in Nat /\ HotTargetBytes \in 0 .. HotMaxBytes
    /\ Tick \in Nat \ {0} /\ MaxBackoff \in Nat /\ Tick <= MaxBackoff
    /\ MaxWrites \in Nat /\ Workload \subseteq [Event -> Nat]
    /\ \A w \in Workload : w.write <= MaxWrites

VARIABLES
    hot,       \* hot[s][g]: bytes of stripe s its fragments have in segment g
    used,      \* used[g]: Segment.size of hot segment g; 0 once removed
    active,    \* the hot set's active segment
    pc,        \* the loop: "off", "sleep", "evict", "gc", "end", "exited"
    cands,     \* evictOnce's candidates still to move
    hadErr, consecErrs, delay,
    ticked,    \* lastTickUnix is not 0
    age,       \* seconds since lastTickUnix, or since Start before the first
    stop,      \* Stop has cancelled the context
    late,      \* ... while the loop slept, so that its timer may still win
    writes,
    budget     \* the events that may still happen

times == <<delay, ticked, age>>
mover == <<hot, used, active, pc, cands, hadErr, consecErrs, times,
           stop, late, writes>>
loop  == <<pc, cands, hadErr, consecErrs, times>>

Spend(event) ==
    /\ budget[event] > 0
    /\ budget' = [budget EXCEPT ![event] = @ - 1]

Stripe == 1 .. NumStripes
Seg    == 1 .. MaxWrites + 1     \* a write fills at most one more segment

Sum(f, S) == MapThenFoldSet(+, 0, LAMBDA x : f[x],
                            LAMBDA T : CHOOSE x \in T : TRUE, S)

HotBytes(s)  == Sum(hot[s], Seg)
HotUsedBytes == Sum(used, Seg)

MoverInit ==
    /\ hot = [s \in Stripe |-> [g \in Seg |-> 0]]
    /\ used = [g \in Seg |-> 0] /\ active = 1
    /\ pc = "off" /\ cands = <<>> /\ hadErr = FALSE
    /\ consecErrs = 0 /\ delay = Tick /\ ticked = FALSE /\ age = 0
    /\ stop = FALSE /\ late = FALSE /\ writes = 0
    /\ budget \in Workload

-----------------------------------------------------------------------------
\* A byte appended to stripe s on the hot tier, rotating when full.
Write(s) ==
    LET g == IF used[active] < SegmentMaxSize THEN active ELSE active + 1
    IN  /\ writes < MaxWrites
        /\ writes' = writes + 1
        /\ active' = g
        /\ used' = [used EXCEPT ![g] = @ + 1]
        /\ hot' = [hot EXCEPT ![s][g] = @ + 1]
        /\ UNCHANGED <<loop, stop, late>>

\* Start launches the loop, whose first sleep is a tick.
Start ==
    /\ pc = "off" /\ pc' = "sleep"
    /\ UNCHANGED <<hot, used, active, cands, hadErr, consecErrs, times,
                   stop, late, writes>>

\* Stop's cancel; it then waits for the loop to exit.
Stop ==
    /\ ~stop /\ stop' = TRUE
    /\ late' = (pc = "sleep")
    /\ UNCHANGED <<hot, used, active, loop, writes>>

\* backoff: double base until consec doublings or max.
backoff(base, max, consec) ==
    LET d[n \in 0 .. consec] ==
            IF n = 0 THEN base
            ELSE IF d[n - 1] < max THEN 2 * d[n - 1] ELSE d[n - 1]
    IN  IF d[consec] > max THEN max ELSE d[consec]

\* MUTANT: a stripe larger than the excess ends the list.
CandidatesShort(want) ==
    LET queued(s) == Sum([r \in Stripe |-> HotBytes(r)], 1 .. s)
    IN  SelectSeq([s \in Stripe |-> s],
                  LAMBDA s : HotBytes(s) > 0 /\ queued(s) < want)

\* evictOnce's list: hot stripes in key order until twice the excess is
\* queued.
Candidates(want) ==
    LET queued(s) == Sum([r \in Stripe |-> HotBytes(r)], 1 .. s - 1)
    IN  SelectSeq([s \in Stripe |-> s],
                  LAMBDA s : HotBytes(s) > 0 /\ queued(s) < want * 2)

\* MUTANT: the loop does not look at its context between two passes.
WakeUpDeaf ==
    /\ pc = "sleep" /\ age >= delay
    /\ late' = FALSE
    /\ hadErr' = FALSE
    /\ IF HotMaxBytes > 0 /\ HotUsedBytes > HotMaxBytes
       THEN /\ pc' = "evict"
            /\ cands' = Candidates(HotUsedBytes - HotTargetBytes)
       ELSE pc' = "gc" /\ cands' = <<>>
    /\ UNCHANGED <<hot, used, active, consecErrs, times, stop, writes,
                   budget>>

\* The timer wins the select, as it still may when ctx.Done became ready
\* during the same sleep; then the pressure check.
WakeUp ==
    /\ pc = "sleep" /\ age >= delay /\ (stop => late)
    /\ late' = FALSE
    /\ hadErr' = FALSE
    /\ IF HotMaxBytes > 0 /\ HotUsedBytes > HotMaxBytes
       THEN /\ pc' = "evict"
            /\ cands' = Candidates(HotUsedBytes - HotTargetBytes)
       ELSE pc' = "gc" /\ cands' = <<>>
    /\ UNCHANGED <<hot, used, active, consecErrs, times, stop, writes,
                   budget>>

\* IterStripes fails: no candidates, and the pass goes on to collect.
ScanFail ==
    /\ pc = "sleep" /\ age >= delay /\ (stop => late)
    /\ HotMaxBytes > 0 /\ HotUsedBytes > HotMaxBytes
    /\ Spend("fail")
    /\ late' = FALSE /\ hadErr' = TRUE /\ cands' = <<>>
    /\ pc' = IF stop THEN "exited" ELSE "gc"
    /\ UNCHANGED <<hot, used, active, consecErrs, times, stop, writes>>

\* ctx.Done in the loop's select, or before the next candidate.
Exit ==
    /\ stop /\ pc \in {"sleep", "evict"}
    /\ pc = "evict" => cands # <<>>
    /\ pc' = "exited" /\ cands' = <<>>
    /\ UNCHANGED <<hot, used, active, hadErr, consecErrs, times, stop,
                   late, writes, budget>>

OverTarget == HotUsedBytes > HotTargetBytes

\* One candidate: Move, which takes every hot fragment of the stripe away.
\* The old bytes stay in their segments.
EvictMove ==
    /\ pc = "evict" /\ ~stop /\ cands # <<>> /\ OverTarget
    /\ hot' = [hot EXCEPT ![Head(cands)] = [g \in Seg |-> 0]]
    /\ cands' = Tail(cands)
    /\ UNCHANGED <<used, active, pc, hadErr, consecErrs, times, stop,
                   late, writes, budget>>

\* A failed move is counted and skipped; evictOnce still returns nil.
EvictFail ==
    /\ pc = "evict" /\ ~stop /\ cands # <<>> /\ OverTarget
    /\ Spend("fail")
    /\ cands' = Tail(cands)
    /\ UNCHANGED <<hot, used, active, pc, hadErr, consecErrs, times,
                   stop, late, writes>>

EvictEnd ==
    /\ pc = "evict"
    /\ cands = <<>> \/ (~stop /\ ~OverTarget)
    /\ pc' = "gc" /\ cands' = <<>>
    /\ UNCHANGED <<hot, used, active, hadErr, consecErrs, times, stop,
                   late, writes, budget>>

Referenced(g) == g = active \/ \E s \in Stripe : hot[s][g] > 0

gcOnce ==
    /\ pc = "gc" /\ pc' = "end"
    /\ used' = [g \in Seg |-> IF Referenced(g) THEN used[g] ELSE 0]
    /\ UNCHANGED <<hot, active, cands, hadErr, consecErrs, times, stop,
                   late, writes, budget>>

GcFail ==
    /\ pc = "gc" /\ pc' = "end"
    /\ Spend("fail")
    /\ hadErr' = TRUE
    /\ UNCHANGED <<hot, used, active, cands, consecErrs, times, stop,
                   late, writes>>

\* The end of a pass, failed or not, is a tick.
TickEnd ==
    /\ pc = "end" /\ pc' = "sleep"
    /\ consecErrs' = IF hadErr THEN consecErrs + 1 ELSE 0
    /\ delay' = IF hadErr THEN backoff(Tick, MaxBackoff, consecErrs + 1)
                ELSE Tick
    /\ ticked' = TRUE /\ age' = 0
    /\ UNCHANGED <<hot, used, active, cands, hadErr, stop, late, writes, budget>>

LoopStep == \/ WakeUp \/ ScanFail \/ Exit \/ EvictMove \/ EvictFail \/ EvictEnd
            \/ gcOnce \/ GcFail \/ TickEnd

-----------------------------------------------------------------------------
(* Properties *)

\* The retry delay stays between the tick and the cap, and is the tick after
\* a clean pass.
TypeOK ==
    /\ pc \in {"off", "sleep", "evict", "gc", "end", "exited"}
    /\ delay \in Tick .. MaxBackoff
    /\ consecErrs = 0 => delay = Tick

=============================================================================
