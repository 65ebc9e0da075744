------------------------------- MODULE Placefs -------------------------------
(***************************************************************************)
(* The placefs process: main's start and shutdown (cmd/placefs/main.go),   *)
(* the FUSE request handlers with their metrics (fuselayer), the admin     *)
(* server (admin), and the mover (module Mover), all over one index.       *)
(*                                                                         *)
(* What the store buffers is a number of dirty bytes; a flush turns one    *)
(* into a byte of a hot segment (modules Coalescer and Index have both in  *)
(* full).  go-fuse and the kernel are external: Wait and Unmount return    *)
(* once the file system is unmounted and every handler has returned.       *)
(***************************************************************************)
EXTENDS Mover

CONSTANTS Handler,           \* go-fuse's request loops
          HealthMaxTickGap,  \* 0 disables the check
          MaxPass            \* bound: the seconds a pass of the mover takes

ASSUME PlacefsAssumption == HealthMaxTickGap \in Nat /\ MaxPass \in Nat

VARIABLES
    main,      \* where main is
    status,    \* the exit status main is heading for
    code,      \* the exit status of the process; running before
    open,      \* the index and the store: "no", "open", "draining", "closed"
    dirty,     \* bytes the coalescer holds
    lost,      \* a flush has failed
    mount,     \* "no", "mounted", "unmounted"
    op,        \* the request each handler is at
    ops,       \* Metrics.ops, for one operation name: its row, nil if absent
    row,       \* the opRow objects; ops' rows ever allocated
    served,    \* history: requests that were observed, and how many failed
    sig,       \* the signal goroutine: "off", "wait", "unmount", "done", "killed"
    busy,      \* Unmount gave up
    adm,       \* the admin server: "off", "up", "cancelled", "down"
    ready,     \* readinessFlag
    web,       \* the request the admin server is at
    health,    \* the last answer of /healthz
    seen       \* the last answer of /metrics, for that operation

proc == <<main, status, code, open>>
fuse == <<dirty, lost, op>>
met  == <<ops, row, served>>
term == <<mount, sig, busy>>
http == <<adm, ready, web, health, seen>>
sys  == <<mover, budget, proc, fuse, met, term, http>>

nil     == 0
running == -1
opRow   == [calls |-> 0, errors |-> 0]
IdleOp  == [pc |-> "idle", row |-> nil, err |-> FALSE]
OpPc    == {"idle", "serve", "row", "create", "calls", "errors"}

SysInit ==
    /\ MoverInit
    /\ main = "start" /\ status = 0 /\ code = running
    /\ open = "no" /\ dirty = 0 /\ lost = FALSE
    /\ mount = "no" /\ sig = "off" /\ busy = FALSE
    /\ op = [c \in Handler |-> IdleOp]
    /\ ops = nil /\ row = <<>> /\ served = opRow
    /\ adm = "off" /\ ready = FALSE /\ web = "idle"
    /\ health = "none" /\ seen = opRow

-----------------------------------------------------------------------------
(* main: start *)

\* os.Exit, or the return from main: every goroutine ends.
Quit(c) ==
    /\ code' = c /\ main' = "exited"

Boots(from, to) == main = from /\ main' = to

\* Flags, logger, tracing and directories: nothing is open yet.
ParseFlags ==
    /\ main = "start"
    /\ \/ main' = "index" /\ UNCHANGED <<code, budget>>
       \/ Spend("boot") /\ \E c \in {1, 2} : Quit(c)
    /\ UNCHANGED <<mover, status, open, fuse, met, term, http>>

OpenIndex ==
    /\ main = "index"
    /\ \/ /\ main' = "store" /\ open' = "open"
          /\ UNCHANGED <<code, budget>>
       \/ /\ Spend("boot") /\ Quit(1)
          /\ UNCHANGED open
    /\ UNCHANGED <<mover, status, fuse, met, term, http>>

\* When the store does not open, main closes the index itself.
OpenStore ==
    /\ main = "store"
    /\ \/ /\ main' = "mover"
          /\ UNCHANGED <<code, open, budget>>
       \/ /\ Spend("boot") /\ Quit(1) /\ open' = "closed"
    /\ UNCHANGED <<mover, status, fuse, met, term, http>>

StartMover ==
    /\ Boots("mover", "admin")
    /\ Start
    /\ UNCHANGED <<budget, status, code, open, fuse, met, term, http>>

\* Without an address there is no admin server.  Serve listens, or main stops
\* the mover and closes the store.
ServeAdmin ==
    /\ main = "admin"
    /\ \/ /\ budget["admin"] = 0 /\ main' = "mount"
          /\ UNCHANGED <<status, budget, adm>>
       \/ /\ budget["admin"] > 0 /\ main' = "mount" /\ adm' = "up"
          /\ UNCHANGED <<status, budget>>
       \/ /\ budget["admin"] > 0
          /\ Spend("boot") /\ main' = "stop" /\ status' = 1
          /\ UNCHANGED adm
    /\ UNCHANGED <<mover, code, open, fuse, met, term, ready, web,
                   health, seen>>

\* MUTANT: a failed mount ends the process as it is.
MountFailsAsIs ==
    /\ main = "mount"
    /\ Spend("boot") /\ Quit(1)
    /\ UNCHANGED <<mover, status, open, fuse, met, term, http>>

MountFails ==
    /\ main = "mount"
    /\ Spend("boot") /\ main' = "cancel" /\ status' = 1
    /\ UNCHANGED <<mover, code, open, fuse, met, term, http>>

Mount ==
    /\ Boots("mount", "ready")
    /\ mount' = "mounted"
    /\ UNCHANGED <<mover, budget, status, code, open, fuse, met, sig, busy, http>>

\* MUTANT: the process is marked ready as soon as the admin server is up.
MarkReadyEarly ==
    \/ /\ main = "mount" /\ ~ready /\ ready' = TRUE
       /\ UNCHANGED <<mover, budget, proc, fuse, met, term, adm, web,
                      health, seen>>
    \/ /\ Boots("ready", "wait")
       /\ sig' = "wait"
       /\ UNCHANGED <<mover, budget, status, code, open, fuse, met, mount,
                      busy, http>>

\* MarkReady, signal.Notify and the signal goroutine.
MarkReady ==
    /\ Boots("ready", "wait")
    /\ ready' = TRUE /\ sig' = "wait"
    /\ UNCHANGED <<mover, budget, status, code, open, fuse, met, mount, busy,
                   adm, web, health, seen>>

-----------------------------------------------------------------------------
(* FUSE requests: trackOp around the store call *)

Idle(c) == op[c].pc = "idle"

\* The kernel hands a request to a loop.
Call(c) ==
    /\ mount = "mounted" /\ Idle(c)
    /\ Cardinality({d \in Handler : ~Idle(d)}) < budget["parallel"]
    /\ Spend("call")
    /\ op' = [op EXCEPT ![c].pc = "serve"]
    /\ UNCHANGED <<mover, proc, dirty, lost, met, term, http>>

\* The entrypoint's store call: a write that buffers a byte, a request that
\* changes nothing here, or one that fails.
ServeOp(c) ==
    /\ op[c].pc = "serve"
    /\ \/ /\ Spend("write") /\ dirty' = dirty + 1
          /\ op' = [op EXCEPT ![c].pc = "row"]
       \/ /\ \E e \in BOOLEAN : op' = [op EXCEPT ![c].pc = "row", ![c].err = e]
          /\ UNCHANGED <<budget, dirty>>
    /\ UNCHANGED <<mover, proc, lost, met, term, http>>

\* Metrics.row, under RLock.
FindRow(c) ==
    /\ op[c].pc = "row"
    /\ op' = [op EXCEPT ![c].row = ops,
                        ![c].pc = IF ops = nil THEN "create" ELSE "calls"]
    /\ UNCHANGED <<mover, budget, proc, dirty, lost, met, term, http>>

\* MUTANT: the map is not looked at again under the lock.
CreateRowBlind(c) ==
    /\ op[c].pc = "create"
    /\ row' = Append(row, opRow) /\ ops' = Len(row) + 1
    /\ op' = [op EXCEPT ![c].row = ops', ![c].pc = "calls"]
    /\ UNCHANGED <<mover, budget, proc, dirty, lost, served, term, http>>

\* Metrics.row, under Lock.
CreateRow(c) ==
    /\ op[c].pc = "create"
    /\ IF ops # nil THEN UNCHANGED <<ops, row>>
       ELSE row' = Append(row, opRow) /\ ops' = Len(row) + 1
    /\ op' = [op EXCEPT ![c].row = ops', ![c].pc = "calls"]
    /\ UNCHANGED <<mover, budget, proc, dirty, lost, served, term, http>>

\* Observe's atomic adds; after the last one the request is answered.
CountCall(c) ==
    /\ op[c].pc = "calls"
    /\ row' = [row EXCEPT ![op[c].row].calls = @ + 1]
    /\ served' = [served EXCEPT !.calls = @ + 1]
    /\ op' = [op EXCEPT ![c] = IF @.err THEN [@ EXCEPT !.pc = "errors"]
                               ELSE IdleOp]
    /\ UNCHANGED <<mover, budget, proc, dirty, lost, ops, term, http>>

CountError(c) ==
    /\ op[c].pc = "errors"
    /\ row' = [row EXCEPT ![op[c].row].errors = @ + 1]
    /\ served' = [served EXCEPT !.errors = @ + 1]
    /\ op' = [op EXCEPT ![c] = IdleOp]
    /\ UNCHANGED <<mover, budget, proc, dirty, lost, ops, term, http>>

Handle(c) == \/ ServeOp(c) \/ FindRow(c) \/ CreateRow(c) \/ CountCall(c)
             \/ CountError(c)

-----------------------------------------------------------------------------
(* The coalescer's flushers *)

\* A flush appends a buffered byte to a stripe, or fails and drops it.
Flush ==
    /\ open \in {"open", "draining"} /\ dirty > 0
    /\ dirty' = dirty - 1
    /\ \/ /\ \E s \in Stripe : Write(s)
          /\ UNCHANGED <<budget, lost>>
       \/ /\ Spend("flushfail") /\ lost' = TRUE
          /\ UNCHANGED mover
    /\ UNCHANGED <<proc, op, met, term, http>>

-----------------------------------------------------------------------------
(* Signals and unmounting *)

LoopsEnded == mount = "unmounted" /\ \A c \in Handler : Idle(c)

\* SIGINT or SIGTERM reaches the signal goroutine.
Signal ==
    /\ sig = "wait" /\ Spend("signal")
    /\ sig' = "unmount"
    /\ UNCHANGED <<mover, proc, fuse, met, mount, busy, http>>

\* The kernel unmounts: for server.Unmount, or for somebody's umount.
Unmounted ==
    /\ mount = "mounted" /\ mount' = "unmounted"
    /\ IF sig = "unmount" THEN UNCHANGED budget ELSE Spend("umount")
    /\ UNCHANGED <<mover, proc, fuse, met, sig, busy, http>>

\* server.Unmount returns: done is closed and the goroutine ends.
UnmountReturns ==
    /\ sig = "unmount" /\ LoopsEnded
    /\ sig' = "done"
    /\ UNCHANGED <<mover, budget, proc, fuse, met, mount, busy, http>>

\* server.Unmount gives up on a busy mount; its error is dropped.
UnmountBusy ==
    /\ sig = "unmount" /\ mount = "mounted" /\ Spend("umount")
    /\ sig' = "done" /\ busy' = TRUE
    /\ UNCHANGED <<mover, proc, fuse, met, mount, http>>

\* MUTANT: the grace period only starts once the file system is unmounted.
GraceOverLate ==
    /\ sig = "unmount" /\ LoopsEnded /\ sig' = "killed"
    /\ Quit(1)
    /\ UNCHANGED <<mover, budget, status, open, fuse, met, mount, busy, http>>

\* shutdownGrace is over before Unmount has returned.
GraceOver ==
    /\ sig = "unmount" /\ sig' = "killed"
    /\ Quit(1)
    /\ UNCHANGED <<mover, budget, status, open, fuse, met, mount, busy, http>>

-----------------------------------------------------------------------------
(* The admin server *)

\* Until Shutdown has closed the listener; the requests that have begun end.
Request(kind) ==
    /\ adm \in {"up", "cancelled"} /\ web = "idle" /\ Spend("request")
    /\ web' = kind
    /\ UNCHANGED <<mover, proc, fuse, met, term, adm, ready, health,
                   seen>>

Grace == HealthMaxTickGap + 2

\* A second goes by.  The loop's timer fires when the delay is over.
Second ==
    /\ pc # "off"
    /\ age < CASE pc = "sleep"  -> delay
               [] pc = "exited" -> Grace + 1
               [] OTHER         -> delay + MaxPass
    /\ age' = age + 1
    /\ UNCHANGED <<hot, used, active, pc, cands, hadErr, consecErrs, delay,
                   ticked, stop, late, writes, budget, proc, fuse, met, term,
                   adm, ready, web, health, seen>>

\* Since is finer than the second: it exceeds a limit of as many seconds, too,
\* when part of the next has gone by.
Exceeds(seconds, limit, part) == seconds > limit \/ (part /\ seconds = limit)

\* MUTANT: the grace period after the start is forgotten.
StaleFromStart(part, uptime) ==
    HealthMaxTickGap > 0 /\ (~ticked \/ Exceeds(age, HealthMaxTickGap, part))

\* The check of the last tick, from the end of the grace period on.  The
\* uptime is the age before the first tick, and anything above it afterwards.
Stale(part, uptime) ==
    /\ HealthMaxTickGap > 0 /\ Exceeds(uptime, Grace, part)
    /\ ~ticked \/ Exceeds(age, HealthMaxTickGap, part)

Uptimes == IF ticked THEN {age, Grace + 1} ELSE {age}

Healthz ==
    /\ web = "health" /\ web' = "idle"
    /\ IF ~ready THEN health' = "not ready"
       ELSE \E part \in BOOLEAN, uptime \in Uptimes :
                health' = IF Stale(part, uptime) THEN "stale" ELSE "ok"
    /\ UNCHANGED <<mover, budget, proc, fuse, met, term, adm, ready,
                   seen>>

\* Snapshot loads the counters of a row one by one, while handlers add.
Snapshot(field) ==
    LET now == IF ops = nil THEN opRow ELSE row[ops]
    IN  seen' = [seen EXCEPT ![field] = now[field]]

ScrapeCalls ==
    /\ web = "calls" /\ web' = "errors"
    /\ Snapshot("calls")
    /\ UNCHANGED <<mover, budget, proc, fuse, met, term, adm, ready,
                   health>>

ScrapeErrors ==
    /\ web = "errors" /\ web' = "idle"
    /\ Snapshot("errors")
    /\ UNCHANGED <<mover, budget, proc, fuse, met, term, adm, ready,
                   health>>

-----------------------------------------------------------------------------
(* main: shutdown *)

\* server.Wait returns.
ServerWait ==
    /\ Boots("wait", "cancel") /\ LoopsEnded
    /\ UNCHANGED <<mover, budget, status, code, open, fuse, met, term, http>>

\* The context's cancel, which waits for nobody ...
CancelAdmin ==
    /\ Boots("cancel", "stop")
    /\ adm' = IF adm = "up" THEN "cancelled" ELSE adm
    /\ UNCHANGED <<mover, budget, status, code, open, fuse, met, term,
                   ready, web, health, seen>>

\* ... so that the server shuts down while main goes on.
ShutdownAdmin ==
    /\ adm = "cancelled" /\ adm' = "down"
    /\ UNCHANGED <<mover, budget, proc, fuse, met, term, ready, web,
                   health, seen>>

StopMover ==
    /\ Boots("stop", "join")
    /\ Stop
    /\ UNCHANGED <<budget, status, code, open, fuse, met, term, http>>

\* MUTANT: Stop does not wait for the loop.
JoinMoverNot ==
    /\ Boots("join", "drain")
    /\ open' = "draining"
    /\ UNCHANGED <<mover, budget, status, code, fuse, met, term, http>>

\* Stop returns, and Store.Close starts to drain the coalescer.
JoinMover ==
    /\ Boots("join", "drain") /\ pc = "exited"
    /\ open' = "draining"
    /\ UNCHANGED <<mover, budget, status, code, fuse, met, term, http>>

\* The flushers have ended; the index is closed and main returns.
CloseStore ==
    /\ main = "drain" /\ dirty = 0 /\ Quit(status)
    /\ open' = "closed"
    /\ UNCHANGED <<mover, budget, status, fuse, met, term, http>>

-----------------------------------------------------------------------------
Boot == \/ ParseFlags \/ OpenIndex \/ OpenStore \/ StartMover \/ ServeAdmin
        \/ MountFails \/ Mount \/ MarkReady

Shutdown == \/ ServerWait \/ CancelAdmin \/ StopMover \/ JoinMover \/ CloseStore

MoverRuns == LoopStep /\ UNCHANGED <<proc, fuse, met, term, http>>

Serving == \/ Healthz \/ ScrapeCalls \/ ScrapeErrors \/ ShutdownAdmin

\* What happens while the process runs.
Step ==
    \/ Boot \/ Shutdown \/ MoverRuns \/ Second \/ Flush \/ Serving
    \/ \E c \in Handler : Call(c) \/ Handle(c)
    \/ \E kind \in {"health", "calls"} : Request(kind)
    \/ Signal \/ Unmounted \/ UnmountReturns \/ UnmountBusy \/ GraceOver

Exited == code # running /\ UNCHANGED sys

SysNext == (code = running /\ Step) \/ Exited

\* Goroutines are scheduled, time goes by, and a handler's store call returns;
\* nobody has to send a request or a signal, and Unmount may hang.
SysFairness ==
    /\ WF_sys(code = running /\ Boot)
    /\ WF_sys(code = running /\ Shutdown)
    /\ WF_sys(code = running /\ MoverRuns)
    /\ WF_sys(code = running /\ Second)
    /\ WF_sys(code = running /\ Flush)
    /\ WF_sys(code = running /\ UnmountReturns)
    /\ WF_sys(code = running /\ GraceOver)
    /\ WF_sys(code = running /\ Serving)
    /\ \A c \in Handler : WF_sys(code = running /\ Handle(c))

SysSpec == SysInit /\ [][SysNext]_sys /\ SysFairness

-----------------------------------------------------------------------------
(* Properties *)

SysTypeOK ==
    /\ TypeOK
    /\ main \in {"start", "index", "store", "mover", "admin", "mount", "ready",
                 "wait", "cancel", "stop", "join", "drain", "exited"}
    /\ code \in {running, 0, 1, 2} /\ status \in {0, 1}
    /\ dirty \in 0 .. MaxWrites
    /\ \A c \in Handler : op[c].pc \in OpPc /\ op[c].row \in 0 .. Len(row)
    /\ ops \in 0 .. Len(row) /\ Len(row) <= 1

\* The index is closed last: when st.Close closes it, no FUSE handler is in
\* the store, the mover's loop has exited, and no flush is left to run.
ClosedLast ==
    open = "closed" => /\ \A c \in Handler : Idle(c)
                       /\ pc \in {"off", "exited"}
                       /\ dirty = 0

\* Unless the grace period ended the process, it does not end with a mount,
\* an open index or buffered bytes left behind, on whichever step of the
\* start it failed.
ExitIsClean ==
    code # running /\ sig # "killed" =>
        mount # "mounted" /\ open \in {"no", "closed"} /\ dirty = 0

\* /healthz says "ok" only once the file system has been mounted ...
HealthyOnceMounted == health = "ok" => mount # "no"

\* ... and calls a mover that nobody stopped dead only when errors have
\* stretched its sleep, with the pass that follows it, to the limit: one whose
\* passes succeed is "alive" (admin.go:3-4) before and after its first tick.
StaleMeansBackoff ==
    [][web = "health" /\ web' = "idle" /\ health' = "stale" =>
          \/ stop
          \/ delay + (IF pc = "sleep" THEN 0 ELSE MaxPass) >= HealthMaxTickGap]_web

\* No request is lost to the metrics, although two handlers may create the
\* same row.
ObservationsCounted == served = IF ops = nil THEN opRow ELSE row[ops]

\* The counters that successive scrapes report never go back.
ScrapesMonotone ==
    [][seen'.calls >= seen.calls /\ seen'.errors >= seen.errors]_seen

\* Once writing is over, the mover brings hot usage down to the cap and it
\* stays there, unless it is stopped - although one pass may not be enough,
\* since a segment only goes when all its stripes have moved.
PressureRelieved ==
    <>[](HotUsedBytes <= HotMaxBytes) \/ <>(stop \/ code # running)

\* "Stop signals the loop to exit and waits for it": it does exit.
StopReturns == stop ~> (pc = "exited" \/ code # running)

\* A signal ends the process, whatever is in flight - unless Unmount gives
\* up on a busy mount, whose error nobody looks at.
SignalledExits == sig = "unmount" ~> (code # running \/ busy)

=============================================================================
