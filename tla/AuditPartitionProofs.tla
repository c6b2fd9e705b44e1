------------------------- MODULE AuditPartitionProofs -------------------------
(***************************************************************************)
(* Theorems about AuditPartition, for every pair of windows, every number of *)
(* months and of faults, with and without a default partition.               *)
(***************************************************************************)
EXTENDS AuditPartition, TLAPS

\* A job's month may be stale, but it is never in the future: the template is
\* written with the time of a registration, and a job copies the template.
NeverAhead ==
    /\ template <= month
    /\ job.base <= month

PartitionInv == AuditTypeOK /\ NeverAhead

Jobs == [phase : {"idle", "create", "revoke", "list", "expire"},
         table : Tables, base : 0..MaxMonth, attempts : 0..2,
         stalled : BOOLEAN, todo : SUBSET Months, missed : SUBSET (Tables \X Months)]

\* A retry of a job is a job of the same month, from its start.
LEMMA ThrowType ==
    ASSUME AuditTypeOK, Throw
    PROVE  /\ job' \in Jobs
           /\ job'.base = job.base \/ job'.base = 0
<1>1. job \in Jobs
  BY DEF AuditTypeOK, Jobs
<1>2. CASE job.attempts + 1 < 3
  <2>1. job.attempts + 1 \in 0..2
    BY <1>1, <1>2 DEF Jobs
  <2>2. job' = [phase |-> "create", table |-> "rule_audit_log", base |-> job.base,
                attempts |-> job.attempts + 1, stalled |-> job.stalled, todo |-> {},
                missed |-> {}]
    BY <1>2 DEF Throw, NoJob
  <2> QED
    BY <1>1, <2>1, <2>2 DEF Jobs, Tables
<1>3. CASE ~(job.attempts + 1 < 3)
  <2>1. job' = NoJob
    BY <1>3 DEF Throw
  <2> QED
    BY <2>1, PartitionAssumption DEF NoJob, Jobs, Tables
<1> QED
  BY <1>2, <1>3

\* The loop takes the partition off its list and keeps the job's table and month.
LEMMA TakeType ==
    ASSUME AuditTypeOK, NEW m \in Months,
           DropPartition(m) \/ DetachPartition(m) \/ ExpiryFails(m) \/ KeepPartition(m)
    PROVE  /\ job' \in Jobs
           /\ job.phase = "expire" /\ job'.phase = "expire"
           /\ job'.table = job.table /\ job'.base = job.base
           /\ job'.todo = job.todo \ {m}
           /\ job.missed \subseteq job'.missed
           /\ ExpiryFails(m) => \/ <<job.table, m>> \in job'.missed
                                \/ ~(m <= job.base - Drop[job.table])
<1>1. job \in Jobs
  BY DEF AuditTypeOK, Jobs
<1>2. CASE Take(m) /\ (ExpiryFails(m) => ~PastDrop(job.table, job.base, m))
  BY <1>1, <1>2 DEF Jobs, Take, Current, Running, PastDrop
<1>3. CASE /\ DropFails(m)
           /\ job' = [job EXCEPT !.todo = @ \ {m}, !.missed = @ \cup {<<job.table, m>>}]
  <2>1. <<job.table, m>> \in Tables \X Months
    BY <1>1 DEF Jobs
  <2> QED
    BY <1>1, <1>3, <2>1 DEF Jobs, DropFails, Current, Running
<1>4. ExpiryFails(m) => \/ /\ DropFails(m)
                           /\ job' = [job EXCEPT !.todo = @ \ {m},
                                                 !.missed = @ \cup {<<job.table, m>>}]
                        \/ Take(m) /\ ~PastDrop(job.table, job.base, m)
  BY DEF ExpiryFails, DetachFails, Detachable
<1>5. \/ Take(m) /\ ~ExpiryFails(m)
      \/ ExpiryFails(m)
  BY DEF DropPartition, DetachPartition, KeepPartition
<1> QED
  BY <1>2, <1>3, <1>4, <1>5

\* Going to the next statement keeps the job's month.
LEMMA GoToType ==
    ASSUME AuditTypeOK, NEW p \in {"create", "revoke", "list", "expire"}, GoTo(p)
    PROVE  job' \in Jobs /\ job'.base = job.base
BY DEF AuditTypeOK, Jobs, GoTo

\* The initial state satisfies the invariant.
LEMMA InitPartition == Init => PartitionInv
BY PartitionAssumption DEF Init, PartitionInv, AuditTypeOK, NeverAhead, NoJob, Tables, Months

\* Every step keeps it.
LEMMA StepPartition == PartitionInv /\ [Next]_vars => PartitionInv'
<1> SUFFICES ASSUME PartitionInv, [Next]_vars
             PROVE  PartitionInv'
  OBVIOUS
<1> USE DEF PartitionInv
<1>a. MaxMonth \in Nat /\ MaxFaults \in Nat
  BY PartitionAssumption
<1>1. CASE Restart
  BY <1>1, <1>a DEF Restart, AuditTypeOK, NeverAhead, tableVars
<1>2. CASE FireCron
  <2>1. job' = [phase |-> "create", table |-> "rule_audit_log", base |-> template,
                attempts |-> 0, stalled |-> FALSE, todo |-> {}, missed |-> {}]
    BY <1>2 DEF FireCron, NoJob
  <2>2. job' \in Jobs /\ job'.base = template
    BY <2>1, <1>a DEF AuditTypeOK, Jobs, Tables
  <2>3. fired' = month /\ UNCHANGED <<month, template, part, revoked, inDefault, faults>>
    BY <1>2 DEF FireCron, tableVars
  <2> QED
    BY <1>a, <2>2, <2>3 DEF AuditTypeOK, NeverAhead, Jobs
<1>3. CASE MonthEnds
  BY <1>3, <1>a DEF MonthEnds, AuditTypeOK, NeverAhead, tableVars
<1>4. CASE \E t \in Tables : InsertIntoDefault(t)
  BY <1>4, <1>a DEF InsertIntoDefault, AuditTypeOK, NeverAhead, Months
<1>5. CASE CreatePartition
  <2>1. job' \in Jobs /\ job'.base = job.base
    BY <1>5, GoToType DEF CreatePartition
  <2>2. NextMonth \in Months /\ job.table \in Tables
    BY <1>a DEF AuditTypeOK, NextMonth, Months
  <2>3. part' \in [Tables -> [Months -> {"none", "attached", "detached"}]]
    BY <1>5, <2>2 DEF CreatePartition, AuditTypeOK
  <2> QED
    BY <1>5, <2>1, <2>3 DEF CreatePartition, AuditTypeOK, NeverAhead, Jobs
<1>6. CASE CreateRefused
  <2>1. job' \in Jobs /\ (job'.base = job.base \/ job'.base = 0)
    BY <1>6, ThrowType DEF CreateRefused
  <2> QED
    BY <1>6, <1>a, <2>1 DEF CreateRefused, AuditTypeOK, NeverAhead, Jobs, tableVars
<1>7. CASE RevokeDelete
  <2>1. job' \in Jobs /\ job'.base = job.base
    BY <1>7, GoToType DEF RevokeDelete
  <2>2. NextMonth \in Months
    BY <1>a DEF AuditTypeOK, NextMonth, Months
  <2> QED
    BY <1>7, <2>1, <2>2 DEF RevokeDelete, AuditTypeOK, NeverAhead, Jobs
<1>8. CASE ListPartitions
  BY <1>8, <1>a DEF ListPartitions, AuditTypeOK, NeverAhead, tableVars, Existing
<1>9. CASE StatementThrows
  <2>1. job' \in Jobs /\ (job'.base = job.base \/ job'.base = 0)
    BY <1>9, ThrowType DEF StatementThrows
  <2> QED
    BY <1>9, <1>a, <2>1 DEF StatementThrows, Fault, AuditTypeOK, NeverAhead, Jobs,
                            tableVars
<1>10. CASE FinishTable
  <2>1. NoJob \in Jobs /\ NoJob.base = 0
    BY <1>a DEF NoJob, Jobs, Tables
  <2>2. [job EXCEPT !.phase = "create", !.table = "scan_audit_log"] \in Jobs
    BY DEF AuditTypeOK, Jobs, Tables
  <2>3. [job EXCEPT !.phase = "create", !.table = "scan_audit_log"].base = job.base
    BY DEF AuditTypeOK
  <2>4. job' \in Jobs /\ (job'.base = job.base \/ job'.base = 0)
    BY <1>10, <2>1, <2>2, <2>3, Zenon DEF FinishTable
  <2> QED
    BY <1>10, <1>a, <2>4 DEF FinishTable, AuditTypeOK, NeverAhead, Jobs, tableVars
<1>11. CASE Crash
  <2>1. NoJob \in Jobs /\ NoJob.base = 0
    BY <1>a DEF NoJob, Jobs, Tables
  <2> DEFINE again == [NoJob EXCEPT !.phase = "create", !.base = job.base,
                                    !.attempts = job.attempts, !.stalled = TRUE]
  <2>2. again \in Jobs /\ again.base = job.base
    BY DEF NoJob, AuditTypeOK, Jobs, Tables
  <2>3. job' = NoJob \/ job' = again
    BY <1>11, Zenon DEF Crash
  <2> HIDE DEF again
  <2>4. job' \in Jobs /\ (job'.base = job.base \/ job'.base = 0)
    BY <2>1, <2>2, <2>3
  <2> QED
    BY <1>11, <1>a, <2>4 DEF Crash, Fault, AuditTypeOK, NeverAhead, Jobs, tableVars
<1>12. ASSUME NEW m \in Months,
              DropPartition(m) \/ DetachPartition(m) \/ ExpiryFails(m) \/ KeepPartition(m)
       PROVE  PartitionInv'
  <2>1. job' \in Jobs /\ job'.base = job.base
    BY <1>12, TakeType
  <2>2. part' \in [Tables -> [Months -> {"none", "attached", "detached"}]]
    BY <1>12 DEF DropPartition, DetachPartition, ExpiryFails, KeepPartition,
                 AuditTypeOK, tableVars
  <2>3. faults' \in Nat
    BY <1>12 DEF DropPartition, DetachPartition, ExpiryFails, DropFails, DetachFails,
                 KeepPartition, Fault, AuditTypeOK
  <2>4. UNCHANGED <<month, template, fired, revoked, inDefault>>
    BY <1>12 DEF DropPartition, DetachPartition, ExpiryFails, KeepPartition, tableVars
  <2> QED
    BY <2>1, <2>2, <2>3, <2>4 DEF AuditTypeOK, NeverAhead, Jobs
<1>13. CASE UNCHANGED vars
  BY <1>13 DEF vars, tableVars, AuditTypeOK, NeverAhead
<1> QED
  BY <1>1, <1>2, <1>3, <1>4, <1>5, <1>6, <1>7, <1>8, <1>9, <1>10, <1>11, <1>12,
     <1>13 DEF Next

\* Whatever is taken away is past its window by the job's own month, and the job's
\* month is not ahead of the calendar.
LEMMA StepRetention ==
    ASSUME PartitionInv, [Next]_vars, NEW t \in Tables, NEW m \in Months
    PROVE  /\ part[t][m] = "attached" /\ part'[t][m] # "attached"
              => m <= month - Detach[t]
           /\ part[t][m] # "none" /\ part'[t][m] = "none"
              => m <= month - Drop[t]
<1> USE DEF PartitionInv
<1>a. /\ Detach[t] \in Nat /\ Drop[t] \in Nat /\ Detach[t] <= Drop[t]
      /\ job.base \in Nat /\ month \in Nat /\ job.base <= month /\ m \in Nat
  BY PartitionAssumption DEF AuditTypeOK, NeverAhead, Months
<1>1. CASE UNCHANGED part
  BY <1>1
<1>2. CASE CreatePartition
  <2>1. part'[t][m] = part[t][m] \/ (part[t][m] = "none" /\ part'[t][m] = "attached")
    BY <1>2 DEF CreatePartition, Existing, AuditTypeOK
  <2> QED
    BY <2>1
<1>3. ASSUME NEW n \in Months, DropPartition(n)
      PROVE  part'[t][m] = part[t][m] \/ (n = m /\ job.table = t)
  BY <1>3 DEF DropPartition, AuditTypeOK
<1>4. ASSUME NEW n \in Months, DropPartition(n)
      PROVE  part'[t][m] = part[t][m] \/ m <= month - Drop[t]
  BY <1>3, <1>4, <1>a DEF DropPartition, PastDrop
<1>5. ASSUME NEW n \in Months, DetachPartition(n)
      PROVE  \/ part'[t][m] = part[t][m]
             \/ part'[t][m] = "detached" /\ m <= month - Detach[t]
  <2>1. \/ part'[t][m] = part[t][m]
        \/ part'[t][m] = "detached" /\ n = m /\ job.table = t
    BY <1>5 DEF DetachPartition, AuditTypeOK
  <2> QED
    BY <2>1, <1>5, <1>a DEF DetachPartition, Detachable, PastDetach
<1>6. CASE \E n \in Months : DropPartition(n)
  BY <1>4, <1>6, <1>a
<1>7. CASE \E n \in Months : DetachPartition(n)
  BY <1>5, <1>7
<1>8. \/ UNCHANGED part \/ CreatePartition
      \/ \E n \in Months : DropPartition(n)
      \/ \E n \in Months : DetachPartition(n)
  BY Zenon DEF Next, vars, tableVars, Restart, FireCron, MonthEnds, InsertIntoDefault,
     CreateRefused, RevokeDelete, ListPartitions, StatementThrows, FinishTable, Crash,
     ExpiryFails, KeepPartition
<1> QED
  BY <1>1, <1>2, <1>6, <1>7, <1>8

\* The job, the calendar and the tables keep their types (audit-log-partition).
THEOREM PartitionTypes == Spec => []AuditTypeOK
<1> QED
  BY InitPartition, StepPartition, PTL DEF Spec, PartitionInv

\* No audit month leaves the queryable window, or the database, before its time,
\* however stale the scheduler's triggeredAt and wherever a run was cut off.
THEOREM RetentionHolds == Spec => RetentionKept
<1>1. PartitionInv /\ [Next]_vars
      => [\A t \in Tables, m \in Months :
            /\ part[t][m] = "attached" /\ part'[t][m] # "attached"
               => m <= month - Detach[t]
            /\ part[t][m] # "none" /\ part'[t][m] = "none"
               => m <= month - Drop[t]]_vars
  BY StepRetention
<1> QED
  BY <1>1, InitPartition, StepPartition, PTL DEF Spec, RetentionKept

-----------------------------------------------------------------------------
(* What a completed job has done *)

\* Whatever has been detached is older than the month of the job under way, and of any
\* job to come: months and templates only grow.
DetachedPast ==
    /\ job.base <= template
    /\ \A t \in Tables, m \in Months : part[t][m] = "detached" =>
         m <= template /\ (~Running("idle") => m <= job.base)

Created(t) == part[t][NextMonth] = "attached"

\* What the job under way has behind it: at the second table all of the first, and within
\* a table its statements in their order.
Prepared ==
    ~Running("idle") =>
        /\ job.table = "scan_audit_log" \/ job.phase \in {"revoke", "list", "expire"}
             => Created("rule_audit_log")
        /\ job.table = "scan_audit_log" \/ job.phase \in {"list", "expire"}
             => NextMonth \in revoked
        /\ job.table = "scan_audit_log" /\ job.phase # "create"
             => Created("scan_audit_log") /\ job.phase # "revoke"

PreparedInv == PartitionInv /\ DetachedPast /\ Prepared

\* A job that is idle, or at its start, has nothing behind it.
FromStart(j) == j.phase = "idle" \/ (j.phase = "create" /\ j.table = "rule_audit_log")

\* A step that leaves it there keeps what Prepared says.
LEMMA Restarted ==
    ASSUME FromStart(job')
    PROVE  Prepared'
BY DEF FromStart, Prepared, Running

\* After a failed statement, and after a crash, the job is idle or at its start.
LEMMA ThrowRestarts ==
    ASSUME AuditTypeOK, Throw
    PROVE  FromStart(job') /\ (job'.phase = "idle" \/ job'.base = job.base)
           /\ job'.base \in {0, job.base}
<1>1. CASE job.attempts + 1 < 3
  <2>1. job' = [phase |-> "create", table |-> "rule_audit_log", base |-> job.base,
                attempts |-> job.attempts + 1, stalled |-> job.stalled, todo |-> {},
                missed |-> {}]
    BY <1>1 DEF Throw, NoJob
  <2> QED
    BY <2>1 DEF FromStart
<1>2. CASE ~(job.attempts + 1 < 3)
  BY <1>2 DEF Throw, NoJob, FromStart
<1> QED
  BY <1>1, <1>2

\* A crash leaves a job that is over or at its start, with the date it had.
LEMMA CrashRestarts ==
    ASSUME AuditTypeOK, Crash
    PROVE  FromStart(job') /\ (job'.phase = "idle" \/ job'.base = job.base)
           /\ job'.base \in {0, job.base}
<1>1. CASE job.stalled
  BY <1>1 DEF Crash, NoJob, FromStart
<1>2. CASE ~job.stalled
  <2>1. job' = [phase |-> "create", table |-> "rule_audit_log", base |-> job.base,
                attempts |-> job.attempts, stalled |-> TRUE, todo |-> {}, missed |-> {}]
    BY <1>2 DEF Crash, NoJob
  <2> QED
    BY <2>1 DEF FromStart
<1> QED
  BY <1>1, <1>2

\* A step of the job that keeps its table and month.
LEMMA GoesOnAt ==
    ASSUME AuditTypeOK, NEW p, GoTo(p)
    PROVE  job'.phase = p /\ job'.table = job.table /\ job'.base = job.base
BY DEF AuditTypeOK, GoTo

\* Every step keeps what has been detached in the past of the job.
LEMMA StepDetachedPast == PreparedInv /\ [Next]_vars => DetachedPast'
<1> SUFFICES ASSUME PreparedInv, [Next]_vars
             PROVE  DetachedPast'
  OBVIOUS
<1>a. /\ AuditTypeOK /\ DetachedPast
      /\ job.base \in Nat /\ template \in Nat /\ month \in Nat
      /\ template <= month /\ job.base <= template /\ Months \subseteq Nat
  BY PartitionAssumption DEF PreparedInv, PartitionInv, NeverAhead, AuditTypeOK, DetachedPast,
     Months
<1>1. CASE Restart \/ MonthEnds \/ (\E t \in Tables : InsertIntoDefault(t))
           \/ UNCHANGED vars
  <2>1. UNCHANGED <<part, job>> /\ template' \in {template, month}
    BY <1>1 DEF Restart, MonthEnds, InsertIntoDefault, vars, tableVars
  <2> QED
    BY <1>a, <2>1 DEF DetachedPast, Running
<1>2. CASE FireCron
  <2>1. job'.base = template /\ UNCHANGED <<part, template>>
    BY <1>2 DEF FireCron, NoJob, tableVars
  <2> QED
    BY <1>a, <2>1 DEF DetachedPast
<1>3. CASE CreateRefused \/ StatementThrows \/ Crash
  <2>1. /\ job'.phase = "idle" \/ job'.base = job.base
        /\ job'.base \in {0, job.base}
    BY <1>3, <1>a, ThrowRestarts, CrashRestarts DEF CreateRefused, StatementThrows
  <2>2. ~Running("idle")
    BY <1>3 DEF CreateRefused, StatementThrows, Crash, Current, Running
  <2>3. UNCHANGED part /\ template' \in {template, month}
    BY <1>3 DEF CreateRefused, StatementThrows, Crash, tableVars
  <2> QED
    BY <1>a, <2>1, <2>2, <2>3 DEF DetachedPast, Running
<1>4. CASE FinishTable
  <2>1. \/ job'.base = job.base
        \/ job'.phase = "idle" /\ job'.base = 0
    BY <1>4, <1>a DEF FinishTable, NoJob, AuditTypeOK
  <2>2. ~Running("idle") /\ UNCHANGED <<part, template>>
    BY <1>4 DEF FinishTable, Running, tableVars
  <2> QED
    BY <1>a, <2>1, <2>2 DEF DetachedPast, Running
<1>5. CASE CreatePartition \/ RevokeDelete \/ ListPartitions
  <2>1. ~Running("idle") /\ job'.base = job.base /\ UNCHANGED template
    BY <1>5, <1>a, GoesOnAt DEF CreatePartition, RevokeDelete, ListPartitions, Running, AuditTypeOK
  <2>2. ASSUME NEW t \in Tables, NEW m \in Months, part'[t][m] = "detached"
        PROVE  part[t][m] = "detached"
    BY <1>5, <1>a, <2>2 DEF CreatePartition, RevokeDelete, ListPartitions, AuditTypeOK, tableVars
  <2> QED
    BY <1>a, <2>1, <2>2 DEF DetachedPast, Running
<1>6. ASSUME NEW n \in Months,
             DropPartition(n) \/ DetachPartition(n) \/ ExpiryFails(n) \/ KeepPartition(n)
      PROVE  DetachedPast'
  <2>1. ~Running("idle") /\ job'.base = job.base /\ UNCHANGED template
    BY <1>6, <1>a, TakeType DEF DropPartition, DetachPartition, ExpiryFails, KeepPartition,
       Running
  <2>2. ASSUME NEW t \in Tables, NEW m \in Months, part'[t][m] = "detached"
        PROVE  part[t][m] = "detached" \/ m <= job.base
    <3>1. Detach[t] \in Nat /\ m \in Nat
      BY <1>a, PartitionAssumption
    <3>2. CASE DropPartition(n)
      BY <1>a, <2>2, <3>2 DEF DropPartition, AuditTypeOK
    <3>3. CASE DetachPartition(n)
      <4>1. part'[t][m] = part[t][m] \/ (n = m /\ job.table = t)
        BY <1>a, <3>3 DEF DetachPartition, AuditTypeOK
      <4>2. n <= job.base - Detach[job.table]
        BY <3>3 DEF DetachPartition, Detachable, PastDetach
      <4> QED
        BY <1>a, <2>2, <3>1, <4>1, <4>2
    <3>4. CASE ExpiryFails(n) \/ KeepPartition(n)
      BY <2>2, <3>4 DEF ExpiryFails, KeepPartition, tableVars
    <3> QED
      BY <1>6, <3>2, <3>3, <3>4
  <2> QED
    BY <1>a, <2>1, <2>2 DEF DetachedPast, Running
<1> QED
  BY <1>1, <1>2, <1>3, <1>4, <1>5, <1>6 DEF Next

\* Every step keeps what the job has behind it.
LEMMA StepPrepared == PreparedInv /\ [Next]_vars => Prepared'
<1> SUFFICES ASSUME PreparedInv, [Next]_vars
             PROVE  Prepared'
  OBVIOUS
<1>a. /\ AuditTypeOK /\ DetachedPast /\ Prepared
      /\ job.base \in Nat /\ NextMonth \in Months /\ job.table \in Tables
      /\ "rule_audit_log" \in Tables /\ "scan_audit_log" \in Tables
  <2>1. /\ AuditTypeOK /\ DetachedPast /\ Prepared
        /\ "rule_audit_log" \in Tables /\ "scan_audit_log" \in Tables
    BY DEF PreparedInv, PartitionInv, Tables
  <2>2. job.base \in 0..MaxMonth /\ job.table \in Tables
    BY <2>1 DEF AuditTypeOK
  <2> QED
    BY <2>1, <2>2, PartitionAssumption DEF NextMonth, Months
<1>1. CASE FireCron \/ CreateRefused \/ StatementThrows \/ Crash
  <2>1. CASE FireCron
    BY <2>1, Restarted DEF FireCron, NoJob, FromStart
  <2> QED
    BY <1>1, <1>a, <2>1, ThrowRestarts, CrashRestarts, Restarted
       DEF CreateRefused, StatementThrows
<1>2. CASE Restart \/ MonthEnds \/ (\E t \in Tables : InsertIntoDefault(t))
           \/ UNCHANGED vars
  <2>1. UNCHANGED <<part, job, revoked>>
    BY <1>2 DEF Restart, MonthEnds, InsertIntoDefault, vars, tableVars
  <2> QED
    BY <1>a, <2>1 DEF Prepared, Running, Created, NextMonth
<1>3. CASE CreatePartition
  <2>1. /\ ~Running("idle") /\ UNCHANGED revoked
        /\ job'.table = job.table /\ job'.base = job.base
        /\ job'.phase = IF job.table = "rule_audit_log" THEN "revoke" ELSE "list"
    BY <1>3, <1>a, GoesOnAt DEF CreatePartition, Running
  \* A partition that exists for next month is attached: what is detached is older.
  <2>2. NextMonth \in Existing(job.table) => Created(job.table)
    <3>1. part[job.table][NextMonth] # "detached"
      BY <1>a, <2>1 DEF DetachedPast, NextMonth
    <3> QED
      BY <1>a, <3>1 DEF Existing, AuditTypeOK, Created
  <2>3. /\ part'[job.table][NextMonth] = "attached"
        /\ \A t \in Tables : Created(t) => part'[t][NextMonth] = "attached"
    BY <1>3, <1>a, <2>2 DEF CreatePartition, AuditTypeOK, Created
  <2>4. NextMonth' = NextMonth
    BY <2>1 DEF NextMonth
  <2> QED
    BY <1>a, <2>1, <2>3, <2>4 DEF Prepared, Running, Created, Tables
<1>4. CASE RevokeDelete
  <2>1. /\ Running("revoke") /\ UNCHANGED part /\ revoked' = revoked \cup {NextMonth}
        /\ job'.table = job.table /\ job'.base = job.base /\ job'.phase = "list"
    BY <1>4, <1>a, GoesOnAt DEF RevokeDelete
  <2> QED
    BY <1>a, <2>1 DEF Prepared, Running, Created, NextMonth, Tables
<1>5. CASE ListPartitions
  <2>1. /\ Running("list") /\ UNCHANGED <<part, revoked>>
        /\ job'.table = job.table /\ job'.base = job.base /\ job'.phase = "expire"
    BY <1>5, <1>a DEF ListPartitions, AuditTypeOK, tableVars
  <2> QED
    BY <1>a, <2>1 DEF Prepared, Running, Created, NextMonth, Tables
<1>6. CASE FinishTable
  <2>1. Running("expire") /\ UNCHANGED <<part, revoked>>
    BY <1>6 DEF FinishTable, tableVars
  <2>2. CASE job.table = "rule_audit_log"
    <3>1. /\ job'.phase = "create" /\ job'.table = "scan_audit_log"
          /\ job'.base = job.base
      BY <1>6, <1>a, <2>2 DEF FinishTable, AuditTypeOK
    <3> QED
      BY <1>a, <2>1, <2>2, <3>1 DEF Prepared, Running, Created, NextMonth
  <2>3. CASE job.table # "rule_audit_log"
    BY <1>6, <2>3, Restarted DEF FinishTable, NoJob, FromStart
  <2> QED
    BY <2>2, <2>3
<1>7. ASSUME NEW n \in Months,
             DropPartition(n) \/ DetachPartition(n) \/ ExpiryFails(n) \/ KeepPartition(n)
      PROVE  Prepared'
  <2>1. /\ job.phase = "expire" /\ job'.phase = "expire" /\ UNCHANGED revoked
        /\ job'.table = job.table /\ job'.base = job.base
    BY <1>7, <1>a, TakeType DEF DropPartition, DetachPartition, ExpiryFails, KeepPartition,
       tableVars
  \* What is dropped or detached is past a window, and next month is not.
  <2>2. ASSUME NEW t \in Tables, Created(t)
        PROVE  part'[t][NextMonth] = "attached"
    <3>1. Detach[job.table] \in Nat /\ Drop[job.table] \in Nat
      BY <1>a, PartitionAssumption
    <3>2. CASE DropPartition(n) \/ DetachPartition(n)
      <4>1. n <= job.base
        <5>1. n \in Int
          BY DEF Months
        <5>2. n <= job.base - Drop[job.table] \/ n <= job.base - Detach[job.table]
          BY <3>2 DEF DropPartition, DetachPartition, Detachable, PastDetach, PastDrop
        <5> QED
          BY <1>a, <3>1, <5>1, <5>2
      <4>2. n # NextMonth
        BY <1>a, <4>1 DEF NextMonth
      <4> QED
        BY <1>a, <2>2, <3>2, <4>2 DEF DropPartition, DetachPartition, Created, AuditTypeOK
    <3>3. CASE ExpiryFails(n) \/ KeepPartition(n)
      BY <2>2, <3>3 DEF ExpiryFails, KeepPartition, tableVars, Created
    <3> QED
      BY <1>7, <3>2, <3>3
  <2>3. NextMonth' = NextMonth
    BY <2>1 DEF NextMonth
  <2> QED
    BY <1>a, <2>1, <2>2, <2>3 DEF Prepared, Running, Created
<1> QED
  BY <1>1, <1>2, <1>3, <1>4, <1>5, <1>6, <1>7 DEF Next

\* A job that completes has created both of next month's partitions and revoked DELETE on
\* the rule_audit_log one, whatever its earlier attempts left half done.
THEOREM CompletedHasPrepared == Spec => CompletedRunPrepares
<1>1. Init => PreparedInv
  <2>1. Init => DetachedPast
    BY PartitionAssumption DEF Init, DetachedPast, NoJob, Running, Months
  <2>2. Init => Prepared
    BY DEF Init, Prepared, NoJob, Running
  <2> QED
    BY <2>1, <2>2, InitPartition DEF PreparedInv
<1>2. PreparedInv /\ [Next]_vars => PreparedInv'
  BY StepPartition, StepDetachedPast, StepPrepared DEF PreparedInv
<1>3. PreparedInv /\ [Next]_vars
      => [Completes => /\ \A t \in Tables : part[t][NextMonth] = "attached"
                       /\ NextMonth \in revoked]_vars
  BY DEF PreparedInv, Prepared, Completes, Running, Created, Tables
<1> QED
  BY <1>1, <1>2, <1>3, PTL DEF Spec, CompletedRunPrepares

-----------------------------------------------------------------------------
(* What a completed job has dropped *)

\* Month m is past the retention of table t, still there, and not for a failed DROP.
Overdue(t, m) ==
    m <= job.base - Drop[t] /\ <<t, m>> \notin job.missed /\ part[t][m] # "none"

\* No partition is overdue but those still on the list of the table at hand; at the
\* second table, none of the first.
Swept ==
    /\ Running("expire") =>
         \A m \in Months \ job.todo : ~Overdue(job.table, m)
    /\ ~Running("idle") /\ job.table = "scan_audit_log" =>
         \A m \in Months : ~Overdue("rule_audit_log", m)

\* A job that is idle, or at its start, has swept nothing yet.
LEMMA StartsUnswept ==
    ASSUME FromStart(job')
    PROVE  Swept'
BY DEF FromStart, Swept, Running

\* Every step keeps it.
LEMMA StepSwept == PartitionInv /\ Swept /\ [Next]_vars => Swept'
<1> SUFFICES ASSUME PartitionInv, Swept, [Next]_vars
             PROVE  Swept'
  OBVIOUS
<1>a. /\ AuditTypeOK /\ Swept
      /\ job.base \in Nat /\ Months \subseteq Nat /\ NextMonth \in Months
      /\ job.table \in Tables /\ "rule_audit_log" \in Tables
      /\ \A t \in Tables : Drop[t] \in Nat
  BY PartitionAssumption DEF PartitionInv, AuditTypeOK, NextMonth, Months, Tables
<1>1. CASE FireCron \/ CreateRefused \/ StatementThrows \/ Crash
  <2>1. CASE FireCron
    BY <2>1, StartsUnswept DEF FireCron, NoJob, FromStart
  <2> QED
    BY <1>1, <1>a, <2>1, ThrowRestarts, CrashRestarts, StartsUnswept
       DEF CreateRefused, StatementThrows
<1>2. CASE Restart \/ MonthEnds \/ (\E t \in Tables : InsertIntoDefault(t))
           \/ UNCHANGED vars
  <2>1. UNCHANGED <<part, job>>
    BY <1>2 DEF Restart, MonthEnds, InsertIntoDefault, vars, tableVars
  <2> QED
    BY <1>a, <2>1 DEF Swept, Running, Overdue
\* The month created is in the job's future.
<1>3. CASE CreatePartition \/ RevokeDelete
  <2>1. /\ ~Running("idle") /\ job'.missed = job.missed
        /\ job'.table = job.table /\ job'.base = job.base /\ job'.phase # "expire"
    <3>1. \E p \in {"revoke", "list"} : GoTo(p)
      BY <1>3 DEF CreatePartition, RevokeDelete
    <3>2. PICK p \in {"revoke", "list"} : job' = [job EXCEPT !.phase = p]
      BY <3>1 DEF GoTo
    <3> QED
      BY <1>3, <1>a, <3>2 DEF CreatePartition, RevokeDelete, Running, AuditTypeOK
  <2>2. ASSUME NEW m \in Months, Overdue("rule_audit_log", m)'
        PROVE  Overdue("rule_audit_log", m)
    <3>1. m # NextMonth
      BY <1>a, <2>1, <2>2 DEF Overdue, NextMonth
    <3>2. part'["rule_audit_log"][m] = part["rule_audit_log"][m]
      BY <1>3, <1>a, <3>1 DEF CreatePartition, RevokeDelete, AuditTypeOK
    <3> QED
      BY <2>1, <2>2, <3>2 DEF Overdue
  <2> QED
    BY <1>a, <2>1, <2>2 DEF Swept, Running
\* What is not on the list does not exist.
<1>4. CASE ListPartitions
  <2>1. /\ Running("list") /\ UNCHANGED part
        /\ job'.table = job.table /\ job'.base = job.base /\ job'.phase = "expire"
        /\ job'.todo = Existing(job.table) /\ job'.missed = job.missed
    BY <1>4, <1>a DEF ListPartitions, AuditTypeOK, tableVars
  <2> QED
    BY <1>a, <2>1 DEF Swept, Running, Overdue, Existing
<1>5. CASE FinishTable
  <2>1. Running("expire") /\ job.todo = {} /\ UNCHANGED part
    BY <1>5 DEF FinishTable, tableVars
  <2>2. CASE job.table = "rule_audit_log"
    <3>1. /\ job'.phase = "create" /\ job'.table = "scan_audit_log"
          /\ job'.base = job.base /\ job'.missed = job.missed
      BY <1>5, <1>a, <2>2 DEF FinishTable, AuditTypeOK
    <3> QED
      BY <1>a, <2>1, <2>2, <3>1 DEF Swept, Running, Overdue
  <2>3. CASE job.table # "rule_audit_log"
    BY <1>5, <2>3, StartsUnswept DEF FinishTable, NoJob, FromStart
  <2> QED
    BY <2>2, <2>3
\* The partition taken off the list is gone, is not past its retention, or its DROP has
\* failed; no other becomes overdue.
<1>6. ASSUME NEW n \in Months,
             DropPartition(n) \/ DetachPartition(n) \/ ExpiryFails(n) \/ KeepPartition(n)
      PROVE  Swept'
  <2>1. /\ job.phase = "expire" /\ job'.phase = "expire"
        /\ job'.table = job.table /\ job'.base = job.base
        /\ job'.todo = job.todo \ {n} /\ job.missed \subseteq job'.missed
        /\ ExpiryFails(n) => \/ <<job.table, n>> \in job'.missed
                             \/ ~(n <= job.base - Drop[job.table])
    BY <1>6, <1>a, TakeType
  <2>2. ASSUME NEW t \in Tables, NEW m \in Months, Overdue(t, m)'
        PROVE  Overdue(t, m)
    <3>1. part'[t][m] # "none" => part[t][m] # "none"
      <4>1. CASE DropPartition(n) \/ DetachPartition(n)
        BY <4>1, <1>a DEF DropPartition, DetachPartition, AuditTypeOK
      <4>2. CASE ExpiryFails(n) \/ KeepPartition(n)
        BY <4>2 DEF ExpiryFails, KeepPartition, tableVars
      <4> QED
        BY <1>6, <4>1, <4>2
    <3> QED
      BY <2>1, <2>2, <3>1 DEF Overdue
  <2>3. ~Overdue(job.table, n)'
    <3>1. CASE DropPartition(n)
      BY <1>a, <3>1, <2>1 DEF DropPartition, Overdue, AuditTypeOK
    <3>2. CASE DetachPartition(n)
      BY <2>1, <3>2 DEF DetachPartition, Detachable, PastDrop, Overdue
    <3>3. CASE ExpiryFails(n)
      BY <2>1, <3>3 DEF Overdue
    <3>4. CASE KeepPartition(n)
      BY <2>1, <3>4 DEF KeepPartition, PastDrop, Overdue
    <3> QED
      BY <1>6, <3>1, <3>2, <3>3, <3>4
  <2> QED
    BY <1>a, <2>1, <2>2, <2>3 DEF Swept, Running
<1> QED
  BY <1>1, <1>2, <1>3, <1>4, <1>5, <1>6 DEF Next

\* For any windows, months and faults, and with a default partition or without: a job that
\* completes leaves no partition past its retention but those whose own DROP has failed
\* in its last attempt.
THEOREM CompletedHasDropped == Spec => CompletedRunDrops
<1>1. Init => Swept
  BY DEF Init, Swept, NoJob, Running
<1>2. PartitionInv /\ Swept /\ [Next]_vars
      => [Completes => \A t \in Tables, m \in Months :
            m <= job.base - Drop[t] /\ <<t, m>> \notin job.missed
            => part[t][m] = "none"]_vars
  BY DEF Swept, Completes, Running, Overdue, Tables
<1> QED
  BY <1>1, <1>2, InitPartition, StepPartition, StepSwept, PTL DEF Spec, CompletedRunDrops
=============================================================================
