---------------------------- MODULE AuditPartition ----------------------------
(***************************************************************************)
(* The monthly partition job of the two audit tables                        *)
(* (src/src/workers/audit-log-partition.worker.ts), the scheduler that fires *)
(* it (src/src/scheduler.ts) and the Postgres tables it maintains.  One      *)
(* action per SQL statement: the job may throw or its process die between    *)
(* any two of them, and a retry starts again from the first table.           *)
(* Months are numbered: the YYYYMM integers and the UTC date arithmetic of   *)
(* the code compare and step as the numbers do.                              *)
(***************************************************************************)
EXTENDS Integers

CONSTANTS
    Detach, Drop,   \* detachMonths and dropMonths of each table's config
    WithDefault,    \* the tables with a _default partition (decided by migrations)
    MaxMonth,       \* bound: months
    MaxFaults       \* bound: statements that throw, process crashes

Tables == {"rule_audit_log", "scan_audit_log"}
Months == 0..(MaxMonth + 1)

ASSUME PartitionAssumption ==
    /\ Detach \in [Tables -> Nat]
    /\ Drop \in [Tables -> Nat]
    /\ \A t \in Tables : Detach[t] <= Drop[t]
    /\ WithDefault \subseteq Tables
    /\ MaxMonth \in Nat
    /\ MaxFaults \in Nat

VARIABLES
    month,      \* the current month
    template,   \* the month the scheduler was last registered in: its triggeredAt
    fired,      \* the month whose cron (the 25th) fired last
    job,        \* the partition job and how far it is; missed is history: the
                \* partitions whose DROP has failed in this attempt
    part,       \* part[t][m]: the state of table t's partition for month m
    revoked,    \* rule_audit_log partitions that tachyon_app cannot DELETE from
    inDefault,  \* inDefault[t]: the months with rows in t's default partition
    faults      \* faults so far (bound)

tableVars == <<part, revoked, inDefault>>
vars == <<month, template, fired, job, tableVars, faults>>

NoJob == [phase |-> "idle", table |-> "rule_audit_log", base |-> 0,
          attempts |-> 0, stalled |-> FALSE, todo |-> {}, missed |-> {}]

Running(phase) == job.phase = phase
Existing(t) == {m \in Months : part[t][m] # "none"}

\* The month whose partition a job creates.
NextMonth == job.base + 1

\* Whether the active window, or the retention, of month m of table t is over for
\* a job triggered in month base.
PastDetach(t, base, m) == m <= base - Detach[t]
\* Mutant: the detach cutoff for both.
PastDropAtDetach(t, base, m) == m <= base - Detach[t]

PastDrop(t, base, m) == m <= base - Drop[t]

Detachable(t, base, m) == PastDetach(t, base, m) /\ ~PastDrop(t, base, m)

\* The partition the loop is at: the partitions come in the order of their names.
Current(m) ==
    /\ Running("expire")
    /\ m \in job.todo
    /\ \A n \in job.todo : m <= n

GoTo(phase) == job' = [job EXCEPT !.phase = phase]

\* Mutant: one attempt too many.
ThrowFourTimes ==
    job' = IF job.attempts < 3
           THEN [NoJob EXCEPT !.phase = "create", !.base = job.base,
                              !.attempts = job.attempts + 1, !.stalled = job.stalled]
           ELSE NoJob

\* BullMQ: a job that throws is retried from its start, three attempts in all.
Throw ==
    job' = IF job.attempts + 1 < 3
           THEN [NoJob EXCEPT !.phase = "create", !.base = job.base,
                              !.attempts = job.attempts + 1, !.stalled = job.stalled]
           ELSE NoJob

Fault == faults < MaxFaults /\ faults' = faults + 1

Init ==
    /\ month = 0
    /\ template = 0
    /\ fired = -1
    /\ job = NoJob
    /\ part = [t \in Tables |->
                 [m \in Months |-> IF m = 0 THEN "attached" ELSE "none"]]
    /\ revoked = {0}
    /\ inDefault = [t \in Tables |-> {}]
    /\ faults = 0

\* A deploy or restart: registerScheduledJobs writes its own time into the
\* template that every job of the scheduler is made from.
Restart ==
    /\ template' = month
    /\ UNCHANGED <<month, fired, job, tableVars, faults>>

\* 00:00 UTC on the 25th.
FireCron ==
    /\ Running("idle")
    /\ fired < month
    /\ fired' = month
    /\ job' = [NoJob EXCEPT !.phase = "create", !.base = template]
    /\ UNCHANGED <<month, template, tableVars, faults>>

\* The month ends, five days or more after its job.
MonthEnds ==
    /\ Running("idle")
    /\ fired = month
    /\ month < MaxMonth
    /\ month' = month + 1
    /\ UNCHANGED <<template, fired, job, tableVars, faults>>

\* An audit row of this month finds no partition of its own.
InsertIntoDefault(t) ==
    /\ t \in WithDefault
    /\ part[t][month] # "attached"
    /\ inDefault' = [inDefault EXCEPT ![t] = @ \cup {month}]
    /\ UNCHANGED <<month, template, fired, job, part, revoked, faults>>

\* Postgres refuses a partition whose rows are already in the default one.
Refused == job.table \in WithDefault /\ NextMonth \in inDefault[job.table]

\* Mutant: DELETE is revoked only by the attempt that creates the partition.
CreatePartitionRevokingOnce ==
    /\ Running("create")
    /\ NextMonth \in Existing(job.table) \/ ~Refused
    /\ part' = IF NextMonth \in Existing(job.table) THEN part
               ELSE [part EXCEPT ![job.table][NextMonth] = "attached"]
    /\ GoTo(IF job.table = "rule_audit_log" /\ NextMonth \notin Existing(job.table)
            THEN "revoke" ELSE "list")
    /\ UNCHANGED <<month, template, fired, revoked, inDefault, faults>>

\* Step 1: tableExists, then CREATE TABLE ... PARTITION OF.
CreatePartition ==
    /\ Running("create")
    /\ NextMonth \in Existing(job.table) \/ ~Refused
    /\ part' = IF NextMonth \in Existing(job.table) THEN part
               ELSE [part EXCEPT ![job.table][NextMonth] = "attached"]
    /\ GoTo(IF job.table = "rule_audit_log" THEN "revoke" ELSE "list")
    /\ UNCHANGED <<month, template, fired, revoked, inDefault, faults>>

CreateRefused ==
    /\ Running("create")
    /\ NextMonth \notin Existing(job.table)
    /\ Refused
    /\ Throw
    /\ UNCHANGED <<month, template, fired, tableVars, faults>>

\* Step 2, rule_audit_log only.
RevokeDelete ==
    /\ Running("revoke")
    /\ revoked' = revoked \cup {NextMonth}
    /\ GoTo("list")
    /\ UNCHANGED <<month, template, fired, part, inDefault, faults>>

\* findAllPartitionTables: attached or detached, by name.
ListPartitions ==
    /\ Running("list")
    /\ job' = [job EXCEPT !.phase = "expire", !.todo = Existing(job.table)]
    /\ UNCHANGED <<month, template, fired, tableVars, faults>>

\* A statement of steps 1 and 2, or one of the catalog queries, throws.
StatementThrows ==
    /\ \/ job.phase \in {"create", "revoke", "list"}
       \/ \E m \in Months : Current(m) /\ Detachable(job.table, job.base, m)
    /\ Fault
    /\ Throw
    /\ UNCHANGED <<month, template, fired, tableVars>>

\* Steps 3 and 4: the loop goes on to the next partition.
Take(m) ==
    /\ Current(m)
    /\ job' = [job EXCEPT !.todo = @ \ {m}]

DropPartition(m) ==
    /\ Take(m)
    /\ PastDrop(job.table, job.base, m)
    /\ part' = [part EXCEPT ![job.table][m] = "none"]
    /\ UNCHANGED <<month, template, fired, revoked, inDefault, faults>>

\* Postgres also refuses DETACH ... CONCURRENTLY on a table with a default
\* partition.
DetachPartition(m) ==
    /\ Take(m)
    /\ Detachable(job.table, job.base, m)
    /\ part[job.table][m] = "attached"
    /\ job.table \notin WithDefault
    /\ part' = [part EXCEPT ![job.table][m] = "detached"]
    /\ UNCHANGED <<month, template, fired, revoked, inDefault, faults>>

\* The DROP, or the DETACH, of a partition fails.
DropFails(m) ==
    /\ Current(m)
    /\ PastDrop(job.table, job.base, m)
    /\ Fault

DetachFails(m) ==
    /\ Current(m)
    /\ Detachable(job.table, job.base, m)
    /\ part[job.table][m] = "attached"
    /\ IF job.table \in WithDefault THEN UNCHANGED faults ELSE Fault

\* Mutant: the first failure ends the loop over the table's partitions.
ExpiryFailsStopping(m) ==
    /\ \/ /\ DropFails(m)
          /\ job' = [job EXCEPT !.todo = {}, !.missed = @ \cup {<<job.table, m>>}]
       \/ DetachFails(m) /\ job' = [job EXCEPT !.todo = {}]
    /\ UNCHANGED <<month, template, fired, tableVars>>

\* A failure is logged, and the loop goes on.
ExpiryFails(m) ==
    /\ \/ /\ DropFails(m)
          /\ job' = [job EXCEPT !.todo = @ \ {m}, !.missed = @ \cup {<<job.table, m>>}]
       \/ DetachFails(m) /\ Take(m)
    /\ UNCHANGED <<month, template, fired, tableVars>>

KeepPartition(m) ==
    /\ Take(m)
    /\ ~PastDrop(job.table, job.base, m)
    /\ Detachable(job.table, job.base, m) => part[job.table][m] = "detached"
    /\ UNCHANGED <<month, template, fired, tableVars, faults>>

\* The end of processTablePartitions: the other table, or the end of the job.
FinishTable ==
    /\ Running("expire")
    /\ job.todo = {}
    /\ job' = IF job.table = "rule_audit_log"
              THEN [job EXCEPT !.phase = "create", !.table = "scan_audit_log"]
              ELSE NoJob
    /\ UNCHANGED <<month, template, fired, tableVars, faults>>

\* The process dies: a stalled job is delivered once more, from its start, and
\* the process that comes back registers the scheduler again.
Crash ==
    /\ ~Running("idle")
    /\ Fault
    /\ job' = IF job.stalled THEN NoJob
              ELSE [NoJob EXCEPT !.phase = "create", !.base = job.base,
                                 !.attempts = job.attempts, !.stalled = TRUE]
    /\ template' = month
    /\ UNCHANGED <<month, fired, tableVars>>

Next ==
    \/ Restart \/ FireCron \/ MonthEnds
    \/ \E t \in Tables : InsertIntoDefault(t)
    \/ CreatePartition \/ CreateRefused \/ RevokeDelete \/ ListPartitions
    \/ StatementThrows \/ FinishTable \/ Crash
    \/ \E m \in Months : DropPartition(m) \/ DetachPartition(m)
                            \/ ExpiryFails(m) \/ KeepPartition(m)

Spec == Init /\ [][Next]_vars

-----------------------------------------------------------------------------
(* Properties *)

\* Types of the job and the catalog: in particular no job is attempted a fourth
\* time.
AuditTypeOK ==
    /\ month \in 0..MaxMonth
    /\ template \in 0..MaxMonth
    /\ fired \in -1..MaxMonth
    /\ job \in [phase : {"idle", "create", "revoke", "list", "expire"},
               table : Tables, base : 0..MaxMonth, attempts : 0..2,
               stalled : BOOLEAN, todo : SUBSET Months,
               missed : SUBSET (Tables \X Months)]
    /\ part \in [Tables -> [Months -> {"none", "attached", "detached"}]]
    /\ revoked \subseteq Months
    /\ inDefault \in [Tables -> SUBSET Months]
    /\ faults \in Nat

\* However stale the job's triggeredAt, and whatever is retried, a month stays
\* attached for its whole active window and exists for its whole retention.
RetentionKept ==
    [][\A t \in Tables, m \in Months :
         /\ part[t][m] = "attached" /\ part'[t][m] # "attached"
            => m <= month - Detach[t]
         /\ part[t][m] # "none" /\ part'[t][m] = "none"
            => m <= month - Drop[t]]_vars

\* The job ends without having thrown.
Completes ==
    /\ Running("expire")
    /\ job.table = "scan_audit_log" /\ job.todo = {}
    /\ job' = NoJob
    /\ UNCHANGED faults

\* A job that completes leaves next month's partitions attached, DELETE revoked on
\* the rule_audit_log one, also when an earlier attempt died half-way.
CompletedRunPrepares ==
    [][Completes => /\ \A t \in Tables : part[t][NextMonth] = "attached"
                    /\ NextMonth \in revoked]_vars

\* A job that completes leaves no partition beyond its retention but those whose own DROP
\* has failed in its last attempt: neither a refused detach, as every one is on a table
\* with a default partition, nor the failure on another partition or the other table, nor
\* an earlier attempt that threw or died stands in the way of a drop.
CompletedRunDrops ==
    [][Completes => \A t \in Tables, m \in Months :
         m <= job.base - Drop[t] /\ <<t, m>> \notin job.missed => part[t][m] = "none"]_vars

\* A month's partitions are there when its first rows arrive.
PartitionReady == \A t \in Tables : part[t][month] = "attached"
=============================================================================
