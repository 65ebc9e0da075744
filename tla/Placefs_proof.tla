---------------------------- MODULE Placefs_proof ----------------------------
(***************************************************************************)
(* What holds of the placefs process for any number of request handlers,   *)
(* stripes and events: the index is closed last, the process ends clean    *)
(* whichever step of its start failed, /healthz says "ok" only after the   *)
(* mount and "stale" of a running mover only when its sleep has reached    *)
(* the limit, and no request is lost to the metrics.                       *)
(*                                                                         *)
(* None of these is inductive.  Control relates where main is to what is   *)
(* open, mounted and running; CountInv relates the handlers to the row of  *)
(* counters they have found; TickInv bounds the age of the last tick by    *)
(* the mover's delay.                                                      *)
(***************************************************************************)
EXTENDS Placefs, WellFoundedInduction, TLAPS

Unmounting == {"cancel", "stop", "join", "drain"}
Opened     == {"store", "mover", "admin", "mount", "ready", "wait", "cancel",
               "stop", "join"}
Booting    == {"start", "index", "store", "mover", "admin", "mount"}

Quiet == \A c \in Handler : Idle(c)

\* Where main is, and what the process has at that point.
Control ==
    /\ main \in Booting \cup Unmounting \cup {"ready", "wait", "exited"}
    /\ code = running <=> main # "exited"
    /\ status \in {0, 1}
    /\ main \in {"start", "index"} => open = "no"
    /\ main \in Opened => open = "open"
    /\ main = "drain" => open = "draining" /\ pc = "exited"
    /\ main \in {"start", "index", "store", "mover"} => pc = "off"
    /\ main \in Booting => mount = "no" /\ sig = "off"
    /\ main \in {"ready", "wait"} => mount # "no"
    /\ main \in Unmounting => mount # "mounted" /\ Quiet
    /\ open = "closed" => main = "exited"
    /\ mount = "no" => dirty = 0 /\ Quiet /\ ready = FALSE
    /\ dirty \in Nat

Counters == [calls : Nat, errors : Nat]

\* A handler that counts has found the one row there is.
Handlers ==
    /\ op \in [Handler -> [pc : OpPc, row : Nat, err : BOOLEAN]]
    /\ \A c \in Handler : op[c].pc \in {"calls", "errors"} =>
           op[c].row = ops /\ ops # nil

Rows ==
    /\ row \in Seq(Counters) /\ ops \in 0 .. Len(row) /\ served \in Counters
    /\ ObservationsCounted

\* What a scrape has reported is no more than what was counted.
Scraped ==
    /\ seen \in Counters
    /\ seen.calls <= served.calls /\ seen.errors <= served.errors

ProcInv == Control /\ ClosedLast /\ ExitIsClean /\ HealthyOnceMounted

CountInv == Handlers /\ Rows /\ Scraped

\* What the delay and a pass can make the age of the last tick.
Stretch == delay + (IF pc = "sleep" THEN 0 ELSE MaxPass)

\* The loop wakes up when its delay is over, and exits only when it is told to.
TickInv ==
    /\ delay \in 0 .. MaxBackoff /\ consecErrs \in Nat /\ age \in Nat
    /\ pc = "off" => age = 0
    /\ stop \/ (pc # "exited" /\ age <= Stretch)

-----------------------------------------------------------------------------
(* Start and shutdown *)

\* The process starts with nothing open, and nothing to clean up.
LEMMA ProcInit == SysInit => ProcInv
    BY DEF SysInit, MoverInit, ProcInv, Control, ClosedLast, ExitIsClean,
           HealthyOnceMounted, Quiet, Idle, IdleOp, Booting, Unmounting, Opened,
           running

\* A step of the start opens one part, or ends the process with what it has.
LEMMA BootStep ==
    ASSUME ProcInv, code = running, Boot
    PROVE  ProcInv'
<1> USE DEF ProcInv, Control, ClosedLast, ExitIsClean, HealthyOnceMounted, Quiet,
            Idle, Booting, Unmounting, Opened, running, proc, fuse, met, term,
            http, mover, Quit, Boots
<1>1. CASE ParseFlags
    BY <1>1 DEF ParseFlags
<1>2. CASE OpenIndex
    BY <1>2 DEF OpenIndex
<1>3. CASE OpenStore
    BY <1>3 DEF OpenStore
<1>4. CASE StartMover
    BY <1>4 DEF StartMover, Start
<1>5. CASE ServeAdmin
    BY <1>5 DEF ServeAdmin
<1>6. CASE MountFails
    BY <1>6 DEF MountFails
<1>7. CASE Mount
    BY <1>7 DEF Mount
<1>8. CASE MarkReady
    BY <1>8 DEF MarkReady
<1> QED
    BY Zenon, <1>1, <1>2, <1>3, <1>4, <1>5, <1>6, <1>7, <1>8 DEF Boot

\* The shutdown closes the store after all that uses it has ended.
LEMMA ShutdownStep ==
    ASSUME ProcInv, code = running, Shutdown
    PROVE  ProcInv'
<1> USE DEF ProcInv, Control, ClosedLast, ExitIsClean, HealthyOnceMounted, Quiet,
            Idle, Booting, Unmounting, Opened, running, proc, fuse, met, term,
            http, mover, Quit, Boots
<1>1. CASE ServerWait
    BY <1>1 DEF ServerWait, LoopsEnded
<1>2. CASE CancelAdmin
    BY <1>2 DEF CancelAdmin
<1>3. CASE StopMover
    BY <1>3 DEF StopMover, Stop, loop
<1>4. CASE JoinMover
    BY <1>4 DEF JoinMover
<1>5. CASE CloseStore
    BY <1>5 DEF CloseStore
<1> QED
    BY Zenon, <1>1, <1>2, <1>3, <1>4, <1>5 DEF Shutdown

\* The mover's loop ends once, and does not begin by itself.
LEMMA MoverStep ==
    ASSUME ProcInv, code = running, MoverRuns \/ Second
    PROVE  ProcInv'
<1>1. pc \notin {"off", "exited"} \/ pc' = pc
    BY DEF Second, MoverRuns, LoopStep, WakeUp, ScanFail, Exit, EvictMove, EvictFail,
           EvictEnd, gcOnce, GcFail, TickEnd
<1>2. UNCHANGED <<proc, fuse, met, term, http>>
    BY DEF MoverRuns, Second, http
<1> QED
    BY <1>1, <1>2 DEF ProcInv, Control, ClosedLast, ExitIsClean,
           HealthyOnceMounted, Quiet, Idle, Booting, Unmounting, Opened, running,
           proc, fuse, met, term, http

\* Requests are served while the file system is mounted, and flushes run
\* while the index is open.
LEMMA ServeStep ==
    ASSUME ProcInv, code = running,
           Flush \/ Serving \/ (\E c \in Handler : Call(c) \/ Handle(c))
                 \/ (\E kind \in {"health", "calls"} : Request(kind))
    PROVE  ProcInv'
<1> USE DEF ProcInv, Control, ClosedLast, ExitIsClean, HealthyOnceMounted,
            Booting, Unmounting, Opened, running, proc, fuse, met, term, http
<1>1. CASE Flush
  <2>1. pc' = pc
      BY <1>1 DEF Flush, Write, loop, mover
  <2> QED
      BY <1>1, <2>1 DEF Flush, Quiet, Idle
<1>2. CASE Serving
    BY Zenon, <1>2 DEF Serving, Healthz, ScrapeCalls, ScrapeErrors, ShutdownAdmin,
                       mover, Quiet, Idle
<1>3. ASSUME NEW c \in Handler, Call(c) \/ Handle(c)
      PROVE  ProcInv'
  <2>1. ~Quiet \/ mount = "mounted"
      BY Zenon, <1>3 DEF Call, Handle, ServeOp, FindRow, CreateRow, CountCall, CountError,
                 Quiet, Idle
  <2>2. /\ UNCHANGED <<mover, proc, lost, term, http>>
        /\ dirty' \in {dirty, dirty + 1}
      BY Zenon, <1>3 DEF Call, Handle, ServeOp, FindRow, CreateRow, CountCall, CountError
  <2> QED
      BY <2>1, <2>2 DEF mover
<1>4. ASSUME NEW kind \in {"health", "calls"}, Request(kind)
      PROVE  ProcInv'
    BY <1>4 DEF Request, mover, Quiet, Idle
<1> QED
    BY Zenon, <1>1, <1>2, <1>3, <1>4

\* A signal unmounts, or ends the process when the grace period is over.
LEMMA SignalStep ==
    ASSUME ProcInv, code = running,
           Signal \/ Unmounted \/ UnmountReturns \/ UnmountBusy \/ GraceOver
    PROVE  ProcInv'
    BY DEF ProcInv, Control, ClosedLast, ExitIsClean, HealthyOnceMounted, Quiet,
           Idle, Booting, Unmounting, Opened, running, proc, fuse, met, term,
           http, mover, Quit, Signal, Unmounted, UnmountReturns, UnmountBusy,
           GraceOver, LoopsEnded

-----------------------------------------------------------------------------
(* Metrics *)

\* Before the first request nothing is counted.
LEMMA CountInit == SysInit => CountInv
    BY DEF SysInit, CountInv, Handlers, Rows, Scraped, ObservationsCounted, Counters,
           opRow, IdleOp, OpPc, nil

\* A handler's record, with another step in it.
LEMMA SetPc ==
    ASSUME NEW o \in [pc : OpPc, row : Nat, err : BOOLEAN], NEW p
    PROVE  [o EXCEPT !.pc = p] = [pc |-> p, row |-> o.row, err |-> o.err]
    OBVIOUS

\* A handler moves on, and still counts only in the row there is.
LEMMA OpMoves ==
    ASSUME Handlers, NEW c \in Handler, NEW p \in OpPc, NEW r \in Nat,
           NEW e \in BOOLEAN,
           op' = [op EXCEPT ![c] = [pc |-> p, row |-> r, err |-> e]],
           ops' = ops \/ ops = nil,
           p \in {"calls", "errors"} => r = ops' /\ ops' # nil
    PROVE  Handlers'
    BY DEF Handlers, nil

\* One of the counters of the row goes up, with what was served.
LEMMA RowCounts ==
    ASSUME Rows, Scraped, NEW n \in Counters, ops # nil, ops' = ops, seen' = seen,
           n.calls >= served.calls, n.errors >= served.errors,
           row' = [row EXCEPT ![ops] = n], served' = n
    PROVE  Rows' /\ Scraped'
<1>1. ops \in 1 .. Len(row)
    BY DEF Rows, nil
<1>2. row' \in Seq(Counters) /\ Len(row') = Len(row) /\ row'[ops] = n
    BY <1>1 DEF Rows
<1> QED
    BY <1>1, <1>2 DEF Rows, ObservationsCounted, Scraped, Counters

\* A handler at one of the steps of Observe leaves the others as they are.
LEMMA HandlerCounts ==
    ASSUME CountInv, NEW c \in Handler, Call(c) \/ Handle(c)
    PROVE  CountInv'
<1>1. /\ Handlers /\ Rows /\ Scraped
      /\ op[c] \in [pc : OpPc, row : Nat, err : BOOLEAN] /\ ops \in Nat
      /\ op[c].row \in Nat /\ op[c].err \in BOOLEAN
    BY DEF CountInv, Handlers, Rows
<1>2. ASSUME UNCHANGED <<ops, row, served, seen>> PROVE Rows' /\ Scraped'
    BY <1>1, <1>2 DEF Rows, ObservationsCounted, Scraped
<1>3. CASE Call(c)
  <2>1. op' = [op EXCEPT ![c] = [pc |-> "serve", row |-> op[c].row, err |-> op[c].err]]
    <3>1. op' = [op EXCEPT ![c] = [op[c] EXCEPT !.pc = "serve"]]
        BY <1>3 DEF Call
    <3> QED
        BY Zenon, <1>1, <3>1, SetPc
  <2>2. UNCHANGED <<ops, row, served, seen>>
      BY <1>3 DEF Call, met, http
  <2> QED
      BY Zenon, <1>1, <1>2, <2>1, <2>2, OpMoves DEF CountInv, OpPc
<1>4. CASE ServeOp(c)
  <2>1. PICK e \in BOOLEAN :
            op' = [op EXCEPT ![c] = [pc |-> "row", row |-> op[c].row, err |-> e]]
    <3>1. CASE op' = [op EXCEPT ![c].pc = "row"]
      <4>1. op' = [op EXCEPT ![c] = [op[c] EXCEPT !.pc = "row"]]
          BY <3>1
      <4> QED
          BY Zenon, <1>1, <4>1, SetPc
    <3>2. CASE \E e \in BOOLEAN : op' = [op EXCEPT ![c].pc = "row", ![c].err = e]
        BY Zenon, <1>1, <3>2 DEF Handlers
    <3> QED
        BY <1>4, <3>1, <3>2 DEF ServeOp
  <2>2. UNCHANGED <<ops, row, served, seen>>
      BY <1>4 DEF ServeOp, met, http
  <2> QED
      BY Zenon, <1>1, <1>2, <2>1, <2>2, OpMoves DEF CountInv, OpPc
<1>5. CASE FindRow(c)
  <2>1. PICK p \in {"create", "calls"} :
            /\ op' = [op EXCEPT ![c] = [pc |-> p, row |-> ops, err |-> op[c].err]]
            /\ p = "calls" => ops # nil
      BY <1>1, <1>5 DEF FindRow, Handlers
  <2>2. UNCHANGED <<ops, row, served, seen>>
      BY <1>5 DEF FindRow, met, http
  <2> QED
      BY Zenon, <1>1, <1>2, <2>1, <2>2, OpMoves DEF CountInv, OpPc
<1>6. CASE CreateRow(c)
  <2>1. /\ op' = [op EXCEPT ![c] = [pc |-> "calls", row |-> ops', err |-> op[c].err]]
        /\ ops' \in Nat \ {0} /\ (ops' = ops \/ ops = nil)
      BY <1>1, <1>6 DEF CreateRow, Handlers, Rows, nil
  <2>2. served' = served /\ seen' = seen
      BY <1>6 DEF CreateRow, http
  <2>3. ASSUME ops # nil PROVE Rows' /\ Scraped'
      BY <1>2, <1>6, <2>2, <2>3 DEF CreateRow
  <2>4. ASSUME ops = nil PROVE Rows' /\ Scraped'
    <3>1. /\ row' = Append(row, opRow) /\ ops' = Len(row) + 1
          /\ opRow \in Counters /\ served = opRow
        BY <1>1, <1>6, <2>4 DEF CreateRow, Rows, ObservationsCounted, opRow, Counters
    <3>2. row' \in Seq(Counters) /\ ops' \in 0 .. Len(row') /\ row'[ops'] = opRow
        BY <1>1, <3>1 DEF Rows
    <3> QED
        BY <1>1, <2>1, <2>2, <3>1, <3>2 DEF Rows, ObservationsCounted, Scraped, nil
  <2>5. Handlers'
    <3>1. "calls" \in OpPc /\ ops' # nil /\ ops' \in Nat
        BY <2>1 DEF OpPc, nil
    <3> QED
        BY Zenon, <1>1, <2>1, <3>1, OpMoves
  <2> QED
      BY <2>3, <2>4, <2>5 DEF CountInv
<1>7. CASE CountCall(c)
  <2>1. ops # nil /\ op[c].row = ops /\ served = row[ops] /\ served \in Counters
      BY <1>1, <1>7 DEF CountCall, Handlers, Rows, ObservationsCounted
  <2> DEFINE n == [calls |-> served.calls + 1, errors |-> served.errors]
  <2>2. /\ n \in Counters /\ n.calls >= served.calls /\ n.errors >= served.errors
        /\ n = [served EXCEPT !.calls = @ + 1]
      BY <2>1 DEF Counters
  <2> HIDE DEF n
  <2>3. row' = [row EXCEPT ![ops] = n] /\ served' = n /\ ops' = ops /\ seen' = seen
      BY <1>7, <2>1, <2>2 DEF CountCall, http
  <2>4. Rows' /\ Scraped'
      BY Zenon, <1>1, <2>1, <2>2, <2>3, RowCounts
  <2>5. PICK p \in {"errors", "idle"}, r \in {nil, ops}, e \in BOOLEAN :
            /\ op' = [op EXCEPT ![c] = [pc |-> p, row |-> r, err |-> e]]
            /\ p = "errors" => r = ops
    <3>1. CASE op[c].err
      <4>1. op' = [op EXCEPT ![c] = [op[c] EXCEPT !.pc = "errors"]]
          BY <1>7, <3>1 DEF CountCall
      <4> QED
          BY Zenon, <1>1, <2>1, <4>1, SetPc
    <3>2. CASE ~op[c].err
        BY Zenon, <1>1, <1>7, <3>2 DEF CountCall, IdleOp
    <3> QED
        BY <3>1, <3>2
  <2> QED
    <3>1. p \in OpPc /\ r \in Nat /\ (p \in {"calls", "errors"} => r = ops')
        BY <1>1, <2>3, <2>5 DEF OpPc, nil
    <3>2. Handlers'
        BY Zenon, <1>1, <2>1, <2>3, <2>5, <3>1, OpMoves
    <3> QED
        BY <2>4, <3>2 DEF CountInv
<1>8. CASE CountError(c)
  <2>1. ops # nil /\ op[c].row = ops /\ served = row[ops] /\ served \in Counters
      BY <1>1, <1>8 DEF CountError, Handlers, Rows, ObservationsCounted
  <2> DEFINE n == [calls |-> served.calls, errors |-> served.errors + 1]
  <2>2. /\ n \in Counters /\ n.calls >= served.calls /\ n.errors >= served.errors
        /\ n = [served EXCEPT !.errors = @ + 1]
      BY <2>1 DEF Counters
  <2> HIDE DEF n
  <2>3. row' = [row EXCEPT ![ops] = n] /\ served' = n /\ ops' = ops /\ seen' = seen
      BY <1>8, <2>1, <2>2 DEF CountError, http
  <2>4. Rows' /\ Scraped'
      BY Zenon, <1>1, <2>1, <2>2, <2>3, RowCounts
  <2>5. op' = [op EXCEPT ![c] = [pc |-> "idle", row |-> nil, err |-> FALSE]]
      BY <1>8 DEF CountError, IdleOp
  <2> QED
      BY Zenon, <1>1, <2>3, <2>4, <2>5, OpMoves DEF CountInv, OpPc, nil
<1> QED
    BY <1>3, <1>4, <1>5, <1>6, <1>7, <1>8 DEF Handle

\* A scrape reports what has been counted, no less than the one before.
LEMMA ScrapeStep ==
    ASSUME CountInv, ScrapeCalls \/ ScrapeErrors
    PROVE  /\ CountInv'
           /\ seen'.calls >= seen.calls /\ seen'.errors >= seen.errors
<1>1. UNCHANGED <<op, ops, row, served>>
    BY DEF ScrapeCalls, ScrapeErrors, fuse, met
<1>2. \E field \in {"calls", "errors"} :
          seen' = [seen EXCEPT ![field] = served[field]]
    BY DEF ScrapeCalls, ScrapeErrors, Snapshot, CountInv, Handlers, Rows,
           ObservationsCounted
<1> QED
    BY <1>1, <1>2 DEF CountInv, Handlers, Rows, Scraped, ObservationsCounted, Counters

\* Nothing else touches the counters.
LEMMA OthersCountNothing ==
    ASSUME SysNext, \A c \in Handler : ~Call(c) /\ ~Handle(c),
           ~ScrapeCalls, ~ScrapeErrors
    PROVE  UNCHANGED <<op, met, seen>>
<1> USE DEF fuse, http, sys
<1>1. CASE Boot
    BY <1>1 DEF Boot, ParseFlags, OpenIndex, OpenStore, StartMover, ServeAdmin,
              MountFails, Mount, MarkReady
<1>2. CASE Shutdown
    BY <1>2 DEF Shutdown, ServerWait, CancelAdmin, StopMover, JoinMover, CloseStore
<1>3. CASE MoverRuns \/ Second \/ Flush \/ Healthz \/ ShutdownAdmin \/ Exited
    BY Zenon, <1>3 DEF MoverRuns, Second, Flush, Healthz, ShutdownAdmin, Exited
<1>4. CASE \E kind \in {"health", "calls"} : Request(kind)
    BY <1>4 DEF Request
<1>5. CASE Signal \/ Unmounted \/ UnmountReturns \/ UnmountBusy \/ GraceOver
    BY <1>5 DEF Signal, Unmounted, UnmountReturns, UnmountBusy, GraceOver
<1> QED
    BY <1>1, <1>2, <1>3, <1>4, <1>5 DEF SysNext, Step, Serving

-----------------------------------------------------------------------------
(* The mover's delay *)

\* A non-empty set of naturals has a least element.
LEMMA LeastNatural ==
    ASSUME NEW S, S \subseteq Nat, S # {}
    PROVE  \E x \in S : \A y \in S : x <= y
<1> DEFINE R == OpToRel(<, Nat)
<1>1. PICK x \in S : \A y \in S : ~(<<y, x>> \in R)
    BY NatLessThanWellFounded, WFMin, Zenon
<1>2. \A y \in S : x \in Nat /\ y \in Nat /\ ~(y < x)
    BY Zenon, <1>1 DEF OpToRel
<1> QED
    BY <1>2

\* One more doubling of delay d, as long as it is below max.
Doubled(d, max) == IF d < max THEN 2 * d ELSE d

\* f is the function that backoff computes, up to k doublings.
Doublings(f, base, max, k) ==
    f = [n \in 0 .. k |-> IF n = 0 THEN base ELSE Doubled(f[n - 1], max)]

\* There is such a function.
LEMMA DoublingsExist ==
    ASSUME NEW base, NEW max, NEW k \in Nat
    PROVE  \E f : Doublings(f, base, max, k)
<1> DEFINE S == {n \in Nat : ~\E f : Doublings(f, base, max, n)}
<1> SUFFICES ASSUME S # {} PROVE FALSE
    OBVIOUS
<1>1. PICK x \in S : \A y \in S : x <= y
    <2>1. S \subseteq Nat
        OBVIOUS
    <2> HIDE DEF S
    <2> QED
        BY Zenon, <2>1, LeastNatural
<1>2. CASE x = 0
    <2> DEFINE f == [n \in 0 .. 0 |-> base]
    <2>1. Doublings(f, base, max, 0)
        BY DEF Doublings
    <2> QED
        BY <1>1, <1>2, <2>1
<1>3. CASE x # 0
    <2>1. x \in Nat /\ x - 1 \in Nat /\ x - 1 \notin S
        BY <1>1, <1>3
    <2>2. PICK f : Doublings(f, base, max, x - 1)
        BY <2>1
    <2> DEFINE g == [n \in 0 .. x |-> IF n = x THEN Doubled(f[x - 1], max) ELSE f[n]]
    <2>3. ASSUME NEW n \in 0 .. x
          PROVE  g[n] = IF n = 0 THEN base ELSE Doubled(g[n - 1], max)
        <3>1. CASE n = x
            <4>1. x - 1 \in 0 .. x /\ x - 1 # x /\ n # 0 /\ n - 1 = x - 1
                BY <1>3, <2>1, <3>1
            <4>2. g[n] = Doubled(f[x - 1], max) /\ g[x - 1] = f[x - 1]
                BY <3>1, <4>1
            <4> HIDE DEF g
            <4> QED
                BY <4>1, <4>2
        <3>2. CASE n # x
            <4>1. n \in 0 .. x - 1 /\ g[n] = f[n]
                BY <2>1, <3>2
            <4>2. f[n] = IF n = 0 THEN base ELSE Doubled(f[n - 1], max)
                BY <2>2, <4>1 DEF Doublings
            <4>3. CASE n = 0
                BY <4>1, <4>2, <4>3
            <4>4. CASE n # 0
                <5>1. n - 1 \in 0 .. x /\ n - 1 # x
                    BY <2>1, <4>1, <4>4
                <5>2. g[n - 1] = f[n - 1]
                    BY <5>1
                <5> HIDE DEF g
                <5> QED
                    BY <4>1, <4>2, <4>4, <5>2
            <4> QED
                BY <4>3, <4>4
        <3> QED
            BY <3>1, <3>2
    <2>4. g = [n \in 0 .. x |-> g[n]]
        OBVIOUS
    <2>5. Doublings(g, base, max, x)
        <3> HIDE DEF g
        <3> QED
            BY Zenon, <2>3, <2>4 DEF Doublings
    <2> QED
        BY <1>1, <2>5
<1> QED
    BY <1>2, <1>3

\* backoff never sleeps longer than its cap.
LEMMA BackoffCapped ==
    ASSUME NEW base \in Nat, NEW max \in Nat, NEW consec \in Nat
    PROVE  backoff(base, max, consec) \in 0 .. max
<1> DEFINE d == CHOOSE f : Doublings(f, base, max, consec)
<1>1. Doublings(d, base, max, consec)
    BY DoublingsExist
<1>2. backoff(base, max, consec) = IF d[consec] > max THEN max ELSE d[consec]
    BY DEF backoff, Doublings, Doubled
<1> HIDE DEF d
<1>3. \A n \in 0 .. consec : d[n] = IF n = 0 THEN base ELSE Doubled(d[n - 1], max)
    BY <1>1 DEF Doublings
<1> DEFINE S == {n \in 0 .. consec : d[n] \notin Nat}
<1>4. ASSUME S # {} PROVE FALSE
    <2>1. S \subseteq Nat
        OBVIOUS
    <2>2. PICK x \in S : \A y \in S : x <= y
        <3> HIDE DEF S
        <3> QED
            BY Zenon, <1>4, <2>1, LeastNatural
    <2>3. x \in 0 .. consec /\ d[x] \notin Nat /\ x # 0
        BY <1>3, <2>2
    <2>4. x - 1 \in 0 .. consec /\ x - 1 \notin S
        BY <2>2, <2>3
    <2>5. d[x - 1] \in Nat
        BY <2>4
    <2>6. d[x] = Doubled(d[x - 1], max)
        BY <1>3, <2>3
    <2> QED
        BY <2>3, <2>5, <2>6 DEF Doubled
<1>5. d[consec] \in Nat
    BY <1>4
<1> QED
    BY <1>2, <1>5

\* The process starts with a delay of one tick, and no time gone by.
LEMMA TickInit == SysInit => TickInv
    BY MoverAssumption, PlacefsAssumption DEF SysInit, MoverInit, TickInv, Stretch

\* Only the loop sets its delay, and only ctx.Done ends it.
LEMMA LoopTicks ==
    ASSUME TickInv, LoopStep
    PROVE  TickInv'
<1> USE MoverAssumption, PlacefsAssumption DEF TickInv, Stretch, times
<1>1. CASE WakeUp
    BY <1>1 DEF WakeUp
<1>2. CASE ScanFail \/ Exit
    BY <1>2 DEF ScanFail, Exit
<1>3. CASE EvictMove \/ EvictFail \/ EvictEnd
    BY <1>3 DEF EvictMove, EvictFail, EvictEnd
<1>4. CASE gcOnce \/ GcFail
    BY <1>4 DEF gcOnce, GcFail
<1>5. CASE TickEnd
    <2>1. backoff(Tick, MaxBackoff, consecErrs + 1) \in 0 .. MaxBackoff
        BY BackoffCapped
    <2>2. Tick \in 0 .. MaxBackoff
        OBVIOUS
    <2> QED
        BY <1>5, <2>1, <2>2 DEF TickEnd
<1> QED
    BY <1>1, <1>2, <1>3, <1>4, <1>5 DEF LoopStep

\* Every step of the process keeps TickInv.
LEMMA TickStep ==
    ASSUME TickInv, SysNext
    PROVE  TickInv'
<1> USE DEF mover, times
<1>1. ASSUME UNCHANGED <<pc, delay, consecErrs, age, stop>> PROVE TickInv'
    BY <1>1 DEF TickInv, Stretch
<1>2. CASE StartMover \/ StopMover
    BY <1>2, MoverAssumption, PlacefsAssumption
       DEF StartMover, StopMover, Start, Stop, loop, TickInv, Stretch
<1>3. CASE Boot /\ ~StartMover
    BY <1>1, <1>3 DEF Boot, ParseFlags, OpenIndex, OpenStore, ServeAdmin, MountFails,
              Mount, MarkReady
<1>4. CASE Shutdown /\ ~StopMover
    BY <1>1, <1>4 DEF Shutdown, ServerWait, CancelAdmin, JoinMover, CloseStore
<1>5. CASE MoverRuns
    BY <1>5, LoopTicks DEF MoverRuns
<1>6. CASE Flush
    BY <1>1, <1>6 DEF Flush, Write, loop
<1>7. CASE Serving
    BY <1>1, <1>7 DEF Serving, Healthz, ScrapeCalls, ScrapeErrors, ShutdownAdmin
<1>8. ASSUME NEW c \in Handler, Call(c) \/ Handle(c) PROVE TickInv'
    BY <1>1, <1>8 DEF Call, Handle, ServeOp, FindRow, CreateRow, CountCall, CountError
<1>9. CASE \E kind \in {"health", "calls"} : Request(kind)
    BY <1>1, <1>9 DEF Request
<1>10. CASE Signal \/ Unmounted \/ UnmountReturns \/ UnmountBusy \/ GraceOver \/ Exited
    BY <1>1, <1>10 DEF Signal, Unmounted, UnmountReturns, UnmountBusy, GraceOver, Exited, sys
<1>11. CASE Second
    BY <1>11, MoverAssumption, PlacefsAssumption DEF Second, TickInv, Stretch
<1> QED
    BY <1>2, <1>3, <1>4, <1>5, <1>6, <1>7, <1>8, <1>9, <1>10, <1>11 DEF SysNext, Step

\* An age that exceeds the limit is at least the limit.
LEMMA StaleIsOld ==
    ASSUME TickInv, Healthz, health' = "stale"
    PROVE  stop \/ Stretch >= HealthMaxTickGap
<1>1. PICK part \in BOOLEAN, uptime \in Uptimes : Stale(part, uptime)
    BY DEF Healthz
<1>2. CASE ticked
    BY <1>1, <1>2, MoverAssumption, PlacefsAssumption
       DEF Stale, Exceeds, TickInv, Stretch
<1>3. CASE ~ticked
  <2>1. uptime = age
      BY <1>3 DEF Uptimes
  <2> QED
      BY <1>1, <2>1, MoverAssumption, PlacefsAssumption
         DEF Stale, Exceeds, Grace, TickInv, Stretch
<1> QED
    BY <1>2, <1>3

-----------------------------------------------------------------------------
(* The theorems *)

\* ProcInv and CountInv are inductive.
THEOREM Invariance == SysSpec => [](ProcInv /\ CountInv)
<1>1. SysInit => ProcInv /\ CountInv
    BY ProcInit, CountInit
<1>2. ASSUME ProcInv, CountInv, SysNext
      PROVE  ProcInv'
  <2>1. CASE Exited
      BY <1>2, <2>1 DEF Exited, sys, proc, fuse, met, term, http, mover, ProcInv,
                        Control, ClosedLast, ExitIsClean, HealthyOnceMounted,
                        Quiet, Idle
  <2>2. CASE code = running /\ Step
      BY <1>2, <2>2, BootStep, ShutdownStep, MoverStep, ServeStep, SignalStep
         DEF Step, CountInv
  <2> QED
      BY <1>2, <2>1, <2>2 DEF SysNext
<1>3. ASSUME CountInv, SysNext
      PROVE  CountInv'
  <2>1. CASE \E c \in Handler : Call(c) \/ Handle(c)
      BY <1>3, <2>1, HandlerCounts
  <2>2. CASE ScrapeCalls \/ ScrapeErrors
      BY <1>3, <2>2, ScrapeStep
  <2>3. CASE UNCHANGED <<op, met, seen>>
      BY <1>3, <2>3 DEF met, CountInv, Handlers, Rows, Scraped, ObservationsCounted
  <2> QED
      BY <1>3, <2>1, <2>2, <2>3, OthersCountNothing
<1>4. ProcInv /\ CountInv /\ UNCHANGED sys => ProcInv' /\ CountInv'
    BY DEF sys, proc, fuse, met, term, http, mover, ProcInv, Control, ClosedLast,
           ExitIsClean, HealthyOnceMounted, Quiet, Idle, CountInv, Handlers, Rows,
           Scraped, ObservationsCounted
<1> QED
    BY <1>1, <1>2, <1>3, <1>4, PTL DEF SysSpec

\* st.Close closes the index when no handler, mover or flush uses it any more
\* (main.go:224-229), and on every failed start.
THEOREM IndexClosedLast == SysSpec => []ClosedLast
    BY Invariance, PTL DEF ProcInv

\* The process leaves no mount, open index or buffered byte behind, unless
\* the grace period ended it (main.go:219-221).
THEOREM CleanExit == SysSpec => []ExitIsClean
    BY Invariance, PTL DEF ProcInv

\* /healthz is not "ok" before the mount (admin.go:107-114).
THEOREM HealthNotEarly == SysSpec => []HealthyOnceMounted
    BY Invariance, PTL DEF ProcInv

\* /healthz calls a mover nobody stopped dead only when its delay, with the
\* pass it may be in, has reached the limit (admin.go:128-146).
THEOREM AliveUnlessBackedOff == SysSpec => StaleMeansBackoff
<1>1. TickInv /\ UNCHANGED sys => TickInv'
    BY DEF sys, mover, times, TickInv, Stretch
<1>2. TickInv /\ [SysNext]_sys =>
          [web = "health" /\ web' = "idle" /\ health' = "stale" =>
              \/ stop
              \/ delay + (IF pc = "sleep" THEN 0 ELSE MaxPass) >= HealthMaxTickGap]_web
  <2> SUFFICES ASSUME TickInv, SysNext, web = "health", web' = "idle",
                      health' = "stale"
               PROVE  stop \/ Stretch >= HealthMaxTickGap
      BY DEF sys, http, Stretch
  <2>1. Healthz
    <3> USE DEF http
    <3>1. ~Boot
        BY DEF Boot, ParseFlags, OpenIndex, OpenStore, StartMover, ServeAdmin,
               MountFails, Mount, MarkReady
    <3>2. ~Shutdown
        BY DEF Shutdown, ServerWait, CancelAdmin, StopMover, JoinMover, CloseStore
    <3>3. ~MoverRuns /\ ~Second /\ ~Flush /\ ~Exited
        BY DEF MoverRuns, Second, Flush, Exited, sys
    <3>4. \A c \in Handler : ~Call(c) /\ ~Handle(c)
        BY DEF Call, Handle, ServeOp, FindRow, CreateRow, CountCall, CountError
    <3>5. \A kind \in {"health", "calls"} : ~Request(kind)
        BY DEF Request
    <3>6. ~Signal /\ ~Unmounted /\ ~UnmountReturns /\ ~UnmountBusy /\ ~GraceOver
        BY DEF Signal, Unmounted, UnmountReturns, UnmountBusy, GraceOver
    <3>7. ~ScrapeCalls /\ ~ScrapeErrors /\ ~ShutdownAdmin
        BY DEF ScrapeCalls, ScrapeErrors, ShutdownAdmin
    <3> QED
        BY <3>1, <3>2, <3>3, <3>4, <3>5, <3>6, <3>7 DEF SysNext, Step, Serving
  <2> QED
      BY <2>1, StaleIsOld
<1> QED
    BY <1>1, <1>2, TickInit, TickStep, PTL DEF SysSpec, StaleMeansBackoff

\* Every observed request is in the row the scrapes read (metrics.go:30-58).
THEOREM NoObservationLost == SysSpec => []ObservationsCounted
    BY Invariance, PTL DEF CountInv, Handlers, Rows

\* The counters of /metrics never go back.
THEOREM CountersMonotone == SysSpec => ScrapesMonotone
<1>1. CountInv /\ [SysNext]_sys =>
          [seen'.calls >= seen.calls /\ seen'.errors >= seen.errors]_seen
  <2> SUFFICES ASSUME CountInv, SysNext, seen' # seen
               PROVE  seen'.calls >= seen.calls /\ seen'.errors >= seen.errors
      BY DEF sys, http
  <2>1. \A c \in Handler : ~Call(c) /\ ~Handle(c)
      BY DEF Call, Handle, ServeOp, FindRow, CreateRow, CountCall, CountError, http
  <2> QED
      BY <2>1, ScrapeStep, OthersCountNothing
<1> QED
    BY <1>1, Invariance, PTL DEF SysSpec, ScrapesMonotone
=============================================================================
