---------------------------- MODULE WorkerProcess -----------------------------
(***************************************************************************)
(* The life of one worker process (src/src/index.ts with heartbeat.ts and   *)
(* shutdown.ts): its workers poll from the imports on, main() connects the  *)
(* heartbeat and registers the crons, a signal stops the heartbeat and then *)
(* drains the workers against a timer, while the platform counts down to    *)
(* SIGKILL.  Each signal starts a shutdown of its own over the same         *)
(* heartbeat connection, which executes its commands in order.              *)
(*                                                                          *)
(* Abstractions: jobs are those of all workers together; a heartbeat        *)
(* interval is one unit of time or more; what a job does is its module's.   *)
(***************************************************************************)
EXTENDS Integers, Sequences

CONSTANTS
    Jobs,               \* jobs that may be active at a time
    Signals,            \* SIGTERM and SIGINT, in the order they are sent
    Interval,           \* HEARTBEAT_INTERVAL_MS
    TTL,                \* the EX of the heartbeat key
    ShutdownTimeout,    \* SHUTDOWN_TIMEOUT_MS
    KillAfter,          \* the platform's grace before SIGKILL
    None,
    MaxTime,            \* bound: the clock stops here
    MaxFaults           \* bound: failed commands, connections, registrations, closes

ASSUME ProcessAssumption ==
    /\ Interval \in Nat \ {0}
    /\ TTL \in Nat
    /\ ShutdownTimeout \in Nat
    /\ KillAfter \in Nat
    /\ MaxTime \in Nat
    /\ MaxFaults \in Nat
    /\ None \notin Nat

VARIABLES
    now,
    sentry,     \* SENTRY_DSN is set: an unhandled rejection is logged, not fatal
    phase,      \* how far main() has come
    exit,       \* the exit code, or None
    active,     \* the jobs under way (when exit # None, the jobs cut off)
    closing,    \* the workers have been closed: they take no job any more
    call,       \* signal -> how far its shutdown() has come
    termAt,     \* when the first signal arrived
    drainAt,    \* when the first gracefulShutdown set its timer
    interval,   \* the heartbeat interval is running
    nextBeat,   \* when it fires next
    wire,       \* the heartbeat connection: commands not yet executed, oldest first
    closed,     \* QUIT has been executed: every further command is rejected
    keyUntil,   \* when worker:heartbeat:<id> expires, or None when there is no key
    missed,     \* history: beats failed since the last one that succeeded
    faults      \* faults so far (bound)

heartVars == <<interval, nextBeat, wire, closed, keyUntil, missed>>
shutdownVars == <<call, termAt, drainAt, closing>>
vars == <<now, sentry, phase, exit, active, faults, heartVars, shutdownVars>>

\* A command and the signal whose shutdown issued it (None for a heartbeat).
Command == {[op |-> o, by |-> None] : o \in {"first", "beat"}}
               \cup [op : {"del", "quit"}, by : Signals]
Send(o, k) == wire' = Append(wire, [op |-> o, by |-> k])

Running == exit = None
\* What the platform sees of a process that a signal ended.
Killed == 137
Exit(code) == exit' = code
Signalled == \E k \in Signals : call[k] # "none"

Init ==
    /\ now = 0
    /\ sentry \in BOOLEAN
    /\ phase = "boot"
    /\ exit = None
    /\ active = {}
    /\ closing = FALSE
    /\ call = [k \in Signals |-> "none"]
    /\ termAt = None
    /\ drainAt = None
    /\ interval = FALSE
    /\ nextBeat = 0
    /\ wire = <<>>
    /\ closed = FALSE
    /\ keyUntil = None
    /\ missed = 0
    /\ faults = 0

-----------------------------------------------------------------------------
(* Start-up *)

\* The imports are done; without its API key the process exits before any job.
Boot ==
    /\ Running
    /\ phase = "boot"
    /\ \/ phase' = "connecting" /\ UNCHANGED exit
       \/ Exit(1) /\ UNCHANGED phase
    /\ UNCHANGED <<now, sentry, active, faults, heartVars, shutdownVars>>

\* createHeartbeat connects and issues the first beat.
Connect ==
    /\ Running
    /\ phase = "connecting"
    /\ phase' = "beating"
    /\ Send("first", None)
    /\ UNCHANGED <<now, sentry, exit, active, faults, shutdownVars,
                   interval, nextBeat, closed, keyUntil, missed>>

\* registerScheduledJobs is through, and the signal handlers are installed.
Register ==
    /\ Running
    /\ phase = "registering"
    /\ phase' = "serving"
    /\ UNCHANGED <<now, sentry, exit, active, faults, heartVars, shutdownVars>>

\* Connecting or registering fails: startup.failed, whatever the workers run.
StartFails ==
    /\ Running
    /\ phase \in {"connecting", "registering"}
    /\ faults < MaxFaults
    /\ faults' = faults + 1
    /\ Exit(1)
    /\ UNCHANGED <<now, sentry, phase, active, heartVars, shutdownVars>>

-----------------------------------------------------------------------------
(* The workers *)

\* A worker takes a job: from the imports on, ready or not.
TakeJob(j) ==
    /\ Running
    /\ phase # "boot"
    /\ ~closing
    /\ active' = active \cup {j}
    /\ UNCHANGED <<now, sentry, phase, exit, faults, heartVars, shutdownVars>>

FinishJob(j) ==
    /\ Running
    /\ j \in active
    /\ active' = active \ {j}
    /\ UNCHANGED <<now, sentry, phase, exit, faults, heartVars, shutdownVars>>

-----------------------------------------------------------------------------
(* The heartbeat connection *)

\* The interval fires.
Beat ==
    /\ Running
    /\ interval
    /\ now >= nextBeat
    /\ nextBeat' = now + Interval
    /\ Send("beat", None)
    /\ UNCHANGED <<now, sentry, phase, exit, active, faults, shutdownVars,
                   interval, closed, keyUntil, missed>>

\* Mutant: SET without EX.
KeyExpiryNever == -1
KeyExpiry == now + TTL

\* SET ... EX is executed: the first one lets main() go on.
BeatExecuted ==
    /\ Running
    /\ wire # <<>>
    /\ Head(wire).op \in {"first", "beat"}
    /\ ~closed
    /\ wire' = Tail(wire)
    /\ keyUntil' = KeyExpiry
    /\ missed' = 0
    /\ IF Head(wire).op = "first"
       THEN phase' = "registering" /\ interval' = TRUE /\ nextBeat' = now + Interval
       ELSE UNCHANGED <<phase, interval, nextBeat>>
    /\ UNCHANGED <<now, sentry, exit, active, faults, shutdownVars, closed>>

\* DEL is executed: stopHeartbeat goes on to QUIT.
DelExecuted ==
    /\ Running
    /\ wire # <<>>
    /\ Head(wire).op = "del"
    /\ ~closed
    /\ keyUntil' = None
    /\ wire' = Append(Tail(wire), [op |-> "quit", by |-> Head(wire).by])
    /\ call' = [call EXCEPT ![Head(wire).by] = "quit"]
    /\ UNCHANGED <<now, sentry, phase, exit, active, faults, interval, nextBeat, closed,
                   missed, termAt, drainAt, closing>>

\* QUIT is executed: gracefulShutdown sets its timer and closes the workers.
QuitExecuted ==
    /\ Running
    /\ wire # <<>>
    /\ Head(wire).op = "quit"
    /\ ~closed
    /\ wire' = Tail(wire)
    /\ closed' = TRUE
    /\ call' = [call EXCEPT ![Head(wire).by] = "draining"]
    /\ closing' = TRUE
    /\ drainAt' = now
    /\ UNCHANGED <<now, sentry, phase, exit, active, faults, interval, nextBeat, keyUntil,
                   missed, termAt>>

\* The oldest command is rejected, by a fault or because the connection is closed.
\* A beat's catch swallows it, the first one ends the start-up, and a rejection in
\* shutdown() is nobody's to handle: it ends the process, or with Sentry is logged
\* and leaves that shutdown where it is.
CommandRejected ==
    /\ Running
    /\ wire # <<>>
    /\ \/ closed /\ UNCHANGED faults
       \/ ~closed /\ faults < MaxFaults /\ faults' = faults + 1
    /\ wire' = Tail(wire)
    /\ LET c == Head(wire) IN
         \/ c.op = "beat" /\ missed' = missed + 1 /\ UNCHANGED <<exit, call>>
         \/ c.op = "first" /\ Exit(1) /\ UNCHANGED <<missed, call>>
         \/ /\ c.op \in {"del", "quit"}
            /\ IF sentry
               THEN call' = [call EXCEPT ![c.by] = "stuck"] /\ UNCHANGED <<exit, missed>>
               ELSE Exit(1) /\ UNCHANGED <<call, missed>>
    /\ UNCHANGED <<now, sentry, phase, active, interval, nextBeat, closed, keyUntil,
                   termAt, drainAt, closing>>

-----------------------------------------------------------------------------
(* Signals and the shutdown *)

\* Mutant: the interval goes on.
SignalBeating(k) ==
    /\ Running
    /\ call[k] = "none"
    /\ termAt' = IF termAt = None THEN now ELSE termAt
    /\ IF phase = "serving"
       THEN /\ call' = [call EXCEPT ![k] = "del"]
            /\ Send("del", k)
            /\ UNCHANGED exit
       ELSE /\ Exit(Killed)
            /\ UNCHANGED <<call, wire>>
    /\ UNCHANGED <<now, sentry, phase, active, faults, interval, nextBeat, closed, keyUntil,
                   missed, drainAt, closing>>

\* A signal: shutdown() clears the interval and issues DEL; before the handlers
\* are installed it kills the process.
Signal(k) ==
    /\ Running
    /\ call[k] = "none"
    /\ termAt' = IF termAt = None THEN now ELSE termAt
    /\ IF phase = "serving"
       THEN /\ call' = [call EXCEPT ![k] = "del"]
            /\ interval' = FALSE
            /\ Send("del", k)
            /\ UNCHANGED exit
       ELSE /\ Exit(Killed)
            /\ UNCHANGED <<call, interval, wire>>
    /\ UNCHANGED <<now, sentry, phase, active, faults, nextBeat, closed, keyUntil, missed,
                   drainAt, closing>>

\* Mutant: one closed worker is enough.
DrainedPartly ==
    /\ Running
    /\ \E k \in Signals : call[k] = "draining"
    /\ active # Jobs
    /\ Exit(0)
    /\ UNCHANGED <<now, sentry, phase, active, faults, heartVars, shutdownVars>>

\* Every worker has closed.
Drained ==
    /\ Running
    /\ \E k \in Signals : call[k] = "draining"
    /\ active = {}
    /\ Exit(0)
    /\ UNCHANGED <<now, sentry, phase, active, faults, heartVars, shutdownVars>>

\* A worker's close() rejects: shutdown.error.
CloseFails ==
    /\ Running
    /\ \E k \in Signals : call[k] = "draining"
    /\ faults < MaxFaults
    /\ faults' = faults + 1
    /\ Exit(1)
    /\ UNCHANGED <<now, sentry, phase, active, heartVars, shutdownVars>>

\* Mutant: the timer only matters once the workers are idle.
TimesOutIdle ==
    /\ Running
    /\ drainAt # None
    /\ now >= drainAt + ShutdownTimeout
    /\ active = {}
    /\ Exit(1)
    /\ UNCHANGED <<now, sentry, phase, active, faults, heartVars, shutdownVars>>

\* shutdown.timeout.
TimesOut ==
    /\ Running
    /\ drainAt # None
    /\ now >= drainAt + ShutdownTimeout
    /\ Exit(1)
    /\ UNCHANGED <<now, sentry, phase, active, faults, heartVars, shutdownVars>>

\* The platform's patience is over.
Sigkill ==
    /\ Running
    /\ termAt # None
    /\ now >= termAt + KillAfter
    /\ Exit(Killed)
    /\ UNCHANGED <<now, sentry, phase, active, faults, heartVars, shutdownVars>>

\* Time passes: timers fire when due, and while the interval runs Valkey answers
\* within a unit.  Bound: a shutdown starts to drain only when the clock can still
\* reach its deadline.
Tick ==
    /\ Running
    /\ now < MaxTime
    /\ interval => wire = <<>> /\ now < nextBeat
    /\ drainAt # None => now < drainAt + ShutdownTimeout
    /\ drainAt = None => now + 1 + ShutdownTimeout <= MaxTime
    /\ now' = now + 1
    /\ keyUntil' = IF keyUntil # None /\ keyUntil <= now + 1 THEN None ELSE keyUntil
    /\ UNCHANGED <<sentry, phase, exit, active, faults, shutdownVars,
                   interval, nextBeat, wire, closed, missed>>

Next ==
    \/ Tick
    \/ Boot
    \/ Connect
    \/ Register
    \/ StartFails
    \/ \E j \in Jobs : TakeJob(j) \/ FinishJob(j)
    \/ Beat
    \/ BeatExecuted
    \/ DelExecuted
    \/ QuitExecuted
    \/ CommandRejected
    \/ \E k \in Signals : Signal(k)
    \/ Drained
    \/ CloseFails
    \/ TimesOut
    \/ Sigkill

Spec == Init /\ [][Next]_vars

\* The event loop runs timers and continuations.  Nothing is owed by the jobs,
\* which may run on for ever, by Valkey or by the platform.
Fairness == WF_vars(Tick) /\ WF_vars(Drained) /\ WF_vars(TimesOut)
FairSpec == Spec /\ Fairness

-----------------------------------------------------------------------------
(* Properties *)

\* Types of the process, its heartbeat and its shutdowns.
ProcessTypeOK ==
    /\ now \in Nat
    /\ sentry \in BOOLEAN
    /\ phase \in {"boot", "connecting", "beating", "registering", "serving"}
    /\ exit \in {None, 0, 1, Killed}
    /\ active \subseteq Jobs
    /\ closing \in BOOLEAN
    /\ call \in [Signals -> {"none", "del", "quit", "draining", "stuck"}]
    /\ termAt \in Nat \cup {None}
    /\ drainAt \in Nat \cup {None}
    /\ interval \in BOOLEAN
    /\ nextBeat \in Nat
    /\ wire \in Seq(Command)
    /\ closed \in BOOLEAN
    /\ keyUntil \in Nat \cup {None}
    /\ missed \in Nat
    /\ faults \in 0..MaxFaults

\* The heartbeat key tells the infrastructure the truth: a serving process is
\* visible unless it has missed two beats in a row, and one that drains is not,
\* not even by a beat that was on its way when the signal came.
KeyTellsService ==
    /\ phase = "serving" /\ Running /\ ~Signalled /\ missed < 2 => keyUntil # None
    /\ drainAt # None \/ exit = 0 => keyUntil = None

\* A job is cut off only by the end of its grace, by a fault, by a signal before the
\* process was ready, or by a second signal that finds no Sentry: never by a
\* process that reports success.
CutHasCause ==
    ~Running /\ active # {} =>
        \/ exit = 1 /\ \/ faults > 0
                       \/ drainAt # None /\ now >= drainAt + ShutdownTimeout
                       \/ ~sentry /\ \E k, l \in Signals :
                                        k # l /\ call[k] # "none" /\ call[l] # "none"
        \/ exit = Killed /\ \/ phase # "serving"
                              \/ now >= termAt + KillAfter

\* A drain ends by itself, even when a job never does and whatever further signals
\* come: it does not rely on the platform's SIGKILL.
DrainEnds == (drainAt # None) ~> ~Running
=============================================================================
