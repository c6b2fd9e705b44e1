-------------------------- MODULE ScanPipelineProofs --------------------------
(***************************************************************************)
(* Theorems about module ScanPipeline, for any bots, number of jobs, ticks,   *)
(* concurrency, pauses and faults: what a scan has written and handed on is   *)
(* a function of the step it is at and of whether it has been redelivered.    *)
(* And about MarketSession, the calendar its ticks are instances of.          *)
(***************************************************************************)
EXTENDS ScanPipeline, MarketSession, TLAPS

SomeBot == Bots # {}

PCs == {"none", "waiting"} \cup Awaits \cup Ended
Outcomes == {"none", "served", "SKIPPED"}
ScanJob == [bot : Bots, pc : PCs, attempts : 0..3, stalled : BOOLEAN, outcome : Outcomes]
Dispatch == [pc : {"idle", "read", "add", "complete"}, bots : SUBSET Bots, job : DispatchJob]

\* The steps before the audit row is written, and those behind the first guard.
Unwritten == {"none", "waiting", "bot", "broker", "tier", "config", "gate", "audit"}
Validated == {"broker", "tier", "config", "gate", "audit", "chain"}

\* Job s: it has attempts left while it is not over; its gate has an outcome before
\* the audit row and served before the chain; what it handed on was audited
\* before, and one row more while it holds candidates; one row per delivery, none yet
\* in this one before the step that writes it; and behind the first guard its bot has
\* been ACTIVE in this delivery, or is not at that guard.
AttemptsLeft(s) == scan[s].pc \notin Ended => scan[s].attempts <= 2
Decided(s) ==
    /\ scan[s].pc = "audit" => scan[s].outcome # "none"
    /\ scan[s].pc = "chain" => scan[s].outcome = "served"
Audited(s) ==
    /\ handed[s] <= rows[s]
    /\ scan[s].pc = "chain" => handed[s] < rows[s]
OneRowADelivery(s) ==
    /\ rows[s] <= IF scan[s].stalled THEN 2 ELSE 1
    /\ scan[s].pc \in Unwritten => rows[s] <= IF scan[s].stalled THEN 1 ELSE 0
    /\ scan[s].pc = "none" => ~scan[s].stalled
SeenActive(s) ==
    /\ scan[s].pc \in Validated => wasActive[s]
    /\ scan[s].pc = "bot" /\ status[scan[s].bot] = "ACTIVE" => wasActive[s]
ScanInv(s) ==
    AttemptsLeft(s) /\ Decided(s) /\ Audited(s) /\ OneRowADelivery(s) /\ SeenActive(s)

PipelineInv == PipelineTyped /\ \A s \in Scans : ScanInv(s)

-----------------------------------------------------------------------------
(* How a step changes a job *)

\* Job s is at p from now on, with a attempts and outcome o.
Becomes(s, p, a, o) ==
    scan' = [r \in Scans |->
               IF r = s THEN [bot |-> scan[s].bot, pc |-> p, attempts |-> a,
                              stalled |-> scan[s].stalled, outcome |-> o]
               ELSE scan[r]]

\* The fields of a scan and of what it leaves behind.
LEMMA JobIs ==
    ASSUME PipelineTyped, NEW s \in Scans
    PROVE  /\ scan[s].bot \in Bots /\ scan[s].pc \in PCs /\ scan[s].attempts \in 0..3
           /\ scan[s].stalled \in BOOLEAN /\ scan[s].outcome \in Outcomes
           /\ rows[s] \in Nat /\ handed[s] \in Nat /\ wasActive[s] \in BOOLEAN
BY DEF PipelineTyped, PCs, Outcomes

\* A scan at another place.
LEMMA PcIs ==
    ASSUME NEW j \in ScanJob, NEW p
    PROVE  [j EXCEPT !.pc = p]
             = [bot |-> j.bot, pc |-> p, attempts |-> j.attempts, stalled |-> j.stalled,
                outcome |-> j.outcome]
BY DEF ScanJob

\* A scan that waits again, with its redelivery noted.
LEMMA StalledIs ==
    ASSUME NEW j \in ScanJob, NEW b
    PROVE  [j EXCEPT !.pc = "waiting", !.stalled = b]
             = [bot |-> j.bot, pc |-> "waiting", attempts |-> j.attempts, stalled |-> b,
                outcome |-> j.outcome]
<1> DEFINE k == [j EXCEPT !.pc = "waiting"]
<1>1. k = [bot |-> j.bot, pc |-> "waiting", attempts |-> j.attempts, stalled |-> j.stalled,
           outcome |-> j.outcome]
  BY PcIs
<1>2. k \in ScanJob
  BY <1>1 DEF ScanJob, PCs
<1>3. [j EXCEPT !.pc = "waiting", !.stalled = b] = [k EXCEPT !.stalled = b]
  OBVIOUS
<1> HIDE DEF k
<1>4. [k EXCEPT !.stalled = b]
        = [bot |-> k.bot, pc |-> k.pc, attempts |-> k.attempts, stalled |-> b,
           outcome |-> k.outcome]
  BY <1>2 DEF ScanJob
<1> QED
  BY <1>1, <1>3, <1>4

\* GoTo changes the place of one scan.
LEMMA GoToIs ==
    ASSUME PipelineTyped, NEW s \in Scans, NEW p \in PCs, GoTo(s, p)
    PROVE  Becomes(s, p, scan[s].attempts, scan[s].outcome)
<1>1. scan \in [Scans -> ScanJob]
  BY DEF PipelineTyped, ScanJob, PCs, Outcomes
<1>2. scan' = [r \in Scans |-> IF r = s THEN [scan[s] EXCEPT !.pc = p] ELSE scan[r]]
  BY <1>1 DEF GoTo
<1>3. [scan[s] EXCEPT !.pc = p]
        = [bot |-> scan[s].bot, pc |-> p, attempts |-> scan[s].attempts,
           stalled |-> scan[s].stalled, outcome |-> scan[s].outcome]
  BY <1>1 DEF ScanJob
<1> QED
  BY <1>2, <1>3 DEF Becomes

\* Throw counts the attempt and ends or requeues one scan.
LEMMA ThrowIs ==
    ASSUME PipelineTyped, NEW s \in Scans, Throw(s)
    PROVE  Becomes(s, IF scan[s].attempts + 1 < 3 THEN "waiting" ELSE "failed",
                   scan[s].attempts + 1, scan[s].outcome)
<1> DEFINE p == IF scan[s].attempts + 1 < 3 THEN "waiting" ELSE "failed"
<1>1. scan \in [Scans -> ScanJob]
  BY DEF PipelineTyped, ScanJob, PCs, Outcomes
<1>2. scan' = [scan EXCEPT ![s].pc = p, ![s].attempts = scan[s].attempts + 1]
  BY DEF Throw
<1> HIDE DEF p
<1>3. scan' = [r \in Scans |->
                 IF r = s THEN [[scan[s] EXCEPT !.pc = p]
                                  EXCEPT !.attempts = scan[s].attempts + 1]
                 ELSE scan[r]]
  <2>1. [scan EXCEPT ![s].pc = p]
          = [r \in Scans |-> IF r = s THEN [scan[s] EXCEPT !.pc = p] ELSE scan[r]]
    BY <1>1
  <2>2. scan' = [[scan EXCEPT ![s].pc = p] EXCEPT ![s].attempts = scan[s].attempts + 1]
    BY <1>2
  <2> QED
    BY <2>1, <2>2
<1>4. [[scan[s] EXCEPT !.pc = p] EXCEPT !.attempts = scan[s].attempts + 1]
        = [bot |-> scan[s].bot, pc |-> p, attempts |-> scan[s].attempts + 1,
           stalled |-> scan[s].stalled, outcome |-> scan[s].outcome]
  <2>1. [scan[s] EXCEPT !.pc = p]
          = [bot |-> scan[s].bot, pc |-> p, attempts |-> scan[s].attempts,
             stalled |-> scan[s].stalled, outcome |-> scan[s].outcome]
    BY <1>1 DEF ScanJob
  <2>2. [[bot |-> scan[s].bot, pc |-> p, attempts |-> scan[s].attempts,
          stalled |-> scan[s].stalled, outcome |-> scan[s].outcome]
           EXCEPT !.attempts = scan[s].attempts + 1]
          = [bot |-> scan[s].bot, pc |-> p, attempts |-> scan[s].attempts + 1,
             stalled |-> scan[s].stalled, outcome |-> scan[s].outcome]
    OBVIOUS
  <2> QED
    BY <2>1, <2>2
<1>5. Becomes(s, p, scan[s].attempts + 1, scan[s].outcome)
  BY <1>3, <1>4 DEF Becomes
<1> QED
  BY <1>5 DEF p

\* The gate notes its outcome and goes on to the audit row.
LEMMA GateIs ==
    ASSUME PipelineTyped, NEW s \in Scans, NEW o \in Outcomes,
           scan' = [scan EXCEPT ![s].pc = "audit", ![s].outcome = o]
    PROVE  Becomes(s, "audit", scan[s].attempts, o)
<1>1. scan \in [Scans -> ScanJob]
  BY DEF PipelineTyped, ScanJob, PCs, Outcomes
<1>2. scan' = [r \in Scans |->
                 IF r = s THEN [[scan[s] EXCEPT !.pc = "audit"] EXCEPT !.outcome = o]
                 ELSE scan[r]]
  <2>1. [scan EXCEPT ![s].pc = "audit"]
          = [r \in Scans |-> IF r = s THEN [scan[s] EXCEPT !.pc = "audit"] ELSE scan[r]]
    BY <1>1
  <2>2. scan' = [[scan EXCEPT ![s].pc = "audit"] EXCEPT ![s].outcome = o]
    OBVIOUS
  <2> QED
    BY <2>1, <2>2
<1>3. [[scan[s] EXCEPT !.pc = "audit"] EXCEPT !.outcome = o]
        = [bot |-> scan[s].bot, pc |-> "audit", attempts |-> scan[s].attempts,
           stalled |-> scan[s].stalled, outcome |-> o]
  <2>1. [scan[s] EXCEPT !.pc = "audit"]
          = [bot |-> scan[s].bot, pc |-> "audit", attempts |-> scan[s].attempts,
             stalled |-> scan[s].stalled, outcome |-> scan[s].outcome]
    BY <1>1 DEF ScanJob
  <2>2. [[bot |-> scan[s].bot, pc |-> "audit", attempts |-> scan[s].attempts,
          stalled |-> scan[s].stalled, outcome |-> scan[s].outcome] EXCEPT !.outcome = o]
          = [bot |-> scan[s].bot, pc |-> "audit", attempts |-> scan[s].attempts,
             stalled |-> scan[s].stalled, outcome |-> o]
    OBVIOUS
  <2> QED
    BY <2>1, <2>2
<1> QED
  BY <1>2, <1>3 DEF Becomes

\* What Becomes says of the fields of every scan.
LEMMA BecomesIs ==
    ASSUME PipelineTyped, NEW s \in Scans, NEW p \in PCs, NEW a \in 0..3,
           NEW o \in Outcomes, Becomes(s, p, a, o)
    PROVE  /\ scan' \in [Scans -> ScanJob]
           /\ \A r \in Scans : r # s => scan'[r] = scan[r]
           /\ scan'[s].bot = scan[s].bot /\ scan'[s].pc = p
           /\ scan'[s].attempts = a /\ scan'[s].stalled = scan[s].stalled
           /\ scan'[s].outcome = o
<1>1. scan \in [Scans -> ScanJob]
  BY DEF PipelineTyped, ScanJob, PCs, Outcomes
<1>2. [bot |-> scan[s].bot, pc |-> p, attempts |-> a, stalled |-> scan[s].stalled,
       outcome |-> o] \in ScanJob
  BY <1>1 DEF ScanJob
<1> QED
  BY <1>1, <1>2 DEF Becomes

\* A scan nobody touches keeps its invariant.
LEMMA Untouched ==
    ASSUME NEW r \in Scans, ScanInv(r), scan'[r] = scan[r], rows'[r] = rows[r],
           handed'[r] = handed[r], wasActive'[r] = wasActive[r], status' = status
    PROVE  ScanInv(r)'
BY DEF ScanInv, AttemptsLeft, Decided, Audited, OneRowADelivery, SeenActive

-----------------------------------------------------------------------------
(* Types *)

\* The types, variable by variable.
LEMMA TypeIs ==
    PipelineTyped <=>
      /\ now \in Time /\ status \in [Bots -> {"ACTIVE", "PAUSED"}]
      /\ ticks \subseteq DispatchJob /\ dispatch \in Dispatch
      /\ scan \in [Scans -> ScanJob]
      /\ rows \in [Scans -> Nat] /\ handed \in [Scans -> Nat]
      /\ pauses \in Nat /\ faults \in Nat /\ wasActive \in [Scans -> BOOLEAN]
BY DEF PipelineTyped, Dispatch, ScanJob, PCs, Outcomes

\* The invariant holds at the start.
LEMMA InitPipeline == ASSUME SomeBot PROVE Init => PipelineInv
<1> SUFFICES ASSUME Init
             PROVE  PipelineInv
  OBVIOUS
<1> DEFINE b0 == CHOOSE b \in Bots : TRUE
<1>1. b0 \in Bots
  BY DEF SomeBot
<1> HIDE DEF b0
<1>2. scan = [s \in Scans |-> [bot |-> b0, pc |-> "none", attempts |-> 0,
                              stalled |-> FALSE, outcome |-> "none"]]
  BY DEF Init, NoScan, b0
<1>3. scan \in [Scans -> ScanJob]
  BY <1>1, <1>2 DEF ScanJob, PCs, Outcomes
<1>4. dispatch \in Dispatch
  BY PipelineAssumption DEF Init, NoDispatch, Dispatch, DispatchJob, Time
<1>5. PipelineTyped
  <2>1. now \in Time /\ ticks \subseteq DispatchJob
    BY PipelineAssumption DEF Init, Time
  <2> QED
    BY <1>3, <1>4, <2>1, TypeIs DEF Init
<1>6. ASSUME NEW s \in Scans
      PROVE  ScanInv(s)
  <2>1. scan[s].pc = "none" /\ scan[s].attempts = 0 /\ scan[s].stalled = FALSE
    BY <1>2
  <2>2. rows[s] = 0 /\ handed[s] = 0
    BY DEF Init
  <2> QED
    BY <2>1, <2>2 DEF ScanInv, AttemptsLeft, Decided, Audited, OneRowADelivery, SeenActive,
                      Unwritten, Validated, Ended
<1> QED
  BY <1>5, <1>6 DEF PipelineInv

-----------------------------------------------------------------------------
(* Steps of a scan *)

\* A step of job s, and of nothing else but the outputs and counts it writes.
LEMMA ScanMoves ==
    ASSUME PipelineInv, NEW s \in Scans, ScanInv(s)',
           scan' \in [Scans -> ScanJob],
           \A r \in Scans : r # s => scan'[r] = scan[r],
           now' = now /\ status' = status /\ ticks' = ticks /\ dispatch' = dispatch,
           pauses' = pauses /\ faults' \in Nat,
           rows' \in [Scans -> Nat] /\ handed' \in [Scans -> Nat],
           wasActive' \in [Scans -> BOOLEAN],
           \A r \in Scans : r # s => /\ rows'[r] = rows[r] /\ handed'[r] = handed[r]
                                    /\ wasActive'[r] = wasActive[r]
    PROVE  PipelineInv'
<1>1. PipelineTyped
  BY DEF PipelineInv
<1>2. /\ scan' \in [Scans -> ScanJob]
      /\ \A r \in Scans : r # s => scan'[r] = scan[r]
  OBVIOUS
<1>3. PipelineTyped'
  <2>1. /\ now' \in Time /\ status' \in [Bots -> {"ACTIVE", "PAUSED"}]
        /\ ticks' \subseteq DispatchJob /\ dispatch' \in Dispatch /\ pauses' \in Nat
    BY <1>1, TypeIs DEF dispatchVars
  <2> QED
    BY <1>2, <2>1 DEF PipelineTyped, Dispatch, ScanJob, PCs, Outcomes
<1>4. ASSUME NEW r \in Scans, r # s
      PROVE  ScanInv(r)'
  BY <1>2, <1>4, Untouched DEF PipelineInv
<1> QED
  BY <1>3, <1>4 DEF PipelineInv

\* A scan that starts has nothing behind it in this attempt.
LEMMA StartScanStep ==
    ASSUME PipelineInv, NEW s \in Scans, StartScan(s)
    PROVE  PipelineInv'
<1>1. PipelineTyped /\ ScanInv(s)
  BY DEF PipelineInv
<1>2. Becomes(s, "bot", scan[s].attempts, scan[s].outcome)
  BY <1>1, GoToIs DEF StartScan, PCs, Awaits
<1>3. /\ scan' \in [Scans -> ScanJob]
      /\ \A r \in Scans : r # s => scan'[r] = scan[r]
      /\ scan'[s].bot = scan[s].bot /\ scan'[s].pc = "bot"
      /\ scan'[s].attempts = scan[s].attempts /\ scan'[s].stalled = scan[s].stalled
  <2>1. "bot" \in PCs /\ scan[s].attempts \in 0..3 /\ scan[s].outcome \in Outcomes
    BY <1>1, JobIs DEF PCs, Awaits
  <2> QED
    BY <1>1, <1>2, <2>1, BecomesIs
<1>4. /\ wasActive' \in [Scans -> BOOLEAN]
      /\ wasActive'[s] = (status[scan[s].bot] = "ACTIVE")
      /\ \A r \in Scans : r # s => wasActive'[r] = wasActive[r]
  BY <1>1 DEF StartScan, PipelineTyped
<1>5. /\ now' = now /\ status' = status /\ ticks' = ticks /\ dispatch' = dispatch
      /\ pauses' = pauses /\ faults' \in Nat /\ rows' = rows /\ handed' = handed
      /\ rows \in [Scans -> Nat] /\ handed \in [Scans -> Nat]
  BY <1>1 DEF StartScan, outputVars, boundVars, dispatchVars, PipelineTyped
<1>6. ScanInv(s)'
  BY <1>1, <1>3, <1>4, <1>5
     DEF StartScan, ScanInv, AttemptsLeft, Decided, Audited, OneRowADelivery, SeenActive, Unwritten,
         Validated, Ended
<1> QED
  BY <1>3, <1>4, <1>5, <1>6, ScanMoves

\* The guards, the narrowing and the gate: the next step, or the end.
LEMMA AdvanceStep ==
    ASSUME PipelineInv, NEW s \in Scans,
           RevalidateBot(s) \/ CheckOwner(s) \/ Narrow(s) \/ Gate(s)
    PROVE  PipelineInv'
<1>1. PipelineTyped /\ ScanInv(s)
  BY DEF PipelineInv
<1>2. \E p \in {"broker", "tier", "config", "gate", "audit", "done"}, o \in Outcomes :
        Becomes(s, p, scan[s].attempts, o) /\ (p = "audit" => o # "none")
  <2>1. CASE RevalidateBot(s)
    <3>1. \E p \in {"broker", "done"} : GoTo(s, p)
      BY <2>1 DEF RevalidateBot
    <3> QED
      BY <1>1, <3>1, GoToIs, JobIs DEF PCs, Awaits, Ended
  <2>2. CASE CheckOwner(s)
    <3>1. \E p \in {"tier", "config", "done"} : GoTo(s, p)
      BY <2>2 DEF CheckOwner
    <3> QED
      BY <1>1, <3>1, GoToIs, JobIs DEF PCs, Awaits, Ended
  <2>3. CASE Narrow(s)
    <3>1. \E p \in {"gate", "done"} : GoTo(s, p)
      BY <2>3 DEF Narrow
    <3> QED
      BY <1>1, <3>1, GoToIs, JobIs DEF PCs, Awaits, Ended
  <2>4. CASE Gate(s)
    <3>1. PICK o \in {"served", "SKIPPED"} :
            scan' = [scan EXCEPT ![s].pc = "audit", ![s].outcome = o]
      BY <2>4 DEF Gate
    <3>2. Becomes(s, "audit", scan[s].attempts, o)
      BY <1>1, <3>1, GateIs DEF Outcomes
    <3> QED
      BY <3>2 DEF Outcomes
  <2> QED
    BY <2>1, <2>2, <2>3, <2>4
<1>3. PICK p \in {"broker", "tier", "config", "gate", "audit", "done"}, o \in Outcomes :
        Becomes(s, p, scan[s].attempts, o) /\ (p = "audit" => o # "none")
  BY <1>2
<1>4. /\ scan' \in [Scans -> ScanJob]
      /\ \A r \in Scans : r # s => scan'[r] = scan[r]
      /\ scan'[s].bot = scan[s].bot /\ scan'[s].pc = p
      /\ scan'[s].attempts = scan[s].attempts /\ scan'[s].stalled = scan[s].stalled
      /\ scan'[s].outcome = o
  <2>1. p \in PCs /\ scan[s].attempts \in 0..3
    BY <1>1, <1>3, JobIs DEF PCs, Awaits, Ended
  <2> QED
    BY <1>1, <1>3, <2>1, BecomesIs
<1>5. /\ now' = now /\ status' = status /\ ticks' = ticks /\ dispatch' = dispatch
      /\ pauses' = pauses /\ faults' = faults /\ rows' = rows /\ handed' = handed
      /\ wasActive' = wasActive
  BY DEF RevalidateBot, CheckOwner, Narrow, Gate, outputVars, boundVars, dispatchVars
<1>6. /\ scan[s].pc \in {"bot", "broker", "tier", "config", "gate"}
      /\ p # "done" /\ scan[s].pc = "bot" => status[scan[s].bot] = "ACTIVE"
  <2>1. scan[s].pc \in {"bot", "broker", "tier", "config", "gate"}
    BY DEF RevalidateBot, CheckOwner, Narrow, Gate
  <2>2. ASSUME scan[s].pc = "bot", status[scan[s].bot] # "ACTIVE"
        PROVE  p = "done"
    <3>1. GoTo(s, "done")
      BY <2>2 DEF RevalidateBot, CheckOwner, Narrow, Gate
    <3>2. Becomes(s, "done", scan[s].attempts, scan[s].outcome)
      BY <1>1, <3>1, GoToIs DEF PCs, Ended
    <3>3. scan'[s].pc = "done"
      BY <1>1, <3>2, JobIs, BecomesIs DEF PCs, Ended
    <3> QED
      BY <1>4, <3>3
  <2> QED
    BY <2>1, <2>2
<1>7. ScanInv(s)'
  BY <1>1, <1>3, <1>4, <1>5, <1>6
     DEF ScanInv, AttemptsLeft, Decided, Audited, OneRowADelivery, SeenActive, Unwritten,
         Validated, Ended
<1> QED
  BY <1>1, <1>4, <1>5, <1>7, ScanMoves DEF PipelineTyped

\* A throwing guard: the attempt fails.
LEMMA GuardThrowsStep ==
    ASSUME PipelineInv, NEW s \in Scans, GuardThrows(s)
    PROVE  PipelineInv'
<1>1. PipelineTyped /\ ScanInv(s)
  BY DEF PipelineInv
<1>2. /\ scan[s].pc \in {"bot", "broker", "tier"} /\ Throw(s)
      /\ now' = now /\ status' = status /\ ticks' = ticks /\ dispatch' = dispatch
      /\ pauses' = pauses /\ faults' = faults + 1 /\ rows' = rows /\ handed' = handed
      /\ wasActive' = wasActive
  BY DEF GuardThrows, Fault, outputVars, dispatchVars
<1>3. scan[s].attempts \in 0..2
  BY <1>1, <1>2, JobIs DEF ScanInv, AttemptsLeft, Ended
<1> DEFINE p == IF scan[s].attempts + 1 < 3 THEN "waiting" ELSE "failed"
<1>4. p \in {"waiting", "failed"} /\ (scan[s].attempts + 1 > 2 => p = "failed")
  BY <1>3
<1>5. Becomes(s, p, scan[s].attempts + 1, scan[s].outcome)
  BY <1>1, <1>2, ThrowIs
<1> HIDE DEF p
<1>6. /\ scan' \in [Scans -> ScanJob]
      /\ \A r \in Scans : r # s => scan'[r] = scan[r]
      /\ scan'[s].bot = scan[s].bot /\ scan'[s].pc = p
      /\ scan'[s].attempts = scan[s].attempts + 1 /\ scan'[s].stalled = scan[s].stalled
  <2>1. p \in PCs /\ scan[s].attempts + 1 \in 0..3 /\ scan[s].outcome \in Outcomes
    BY <1>1, <1>3, <1>4, JobIs DEF PCs, Ended
  <2> QED
    BY <1>1, <1>5, <2>1, BecomesIs
<1>7. ScanInv(s)'
  BY <1>1, <1>2, <1>3, <1>4, <1>6
     DEF ScanInv, AttemptsLeft, Decided, Audited, OneRowADelivery, SeenActive, Unwritten,
         Validated, Ended
<1>8. faults' \in Nat
  BY <1>1, <1>2 DEF PipelineTyped
<1> QED
  BY <1>1, <1>2, <1>6, <1>7, <1>8, ScanMoves DEF PipelineTyped

\* The steps from the audit row on, failures included: the row comes first.
LEMMA OutputStep ==
    ASSUME PipelineInv, NEW s \in Scans,
           WriteAuditRow(s) \/ HandOff(s) \/ PipelineThrows(s)
    PROVE  PipelineInv'
<1>1. PipelineTyped /\ ScanInv(s)
  BY DEF PipelineInv
<1>2. /\ now' = now /\ status' = status /\ ticks' = ticks /\ dispatch' = dispatch
      /\ pauses' = pauses /\ wasActive' = wasActive /\ faults' \in Nat
  BY <1>1 DEF WriteAuditRow, HandOff, PipelineThrows, Fault, outputVars, boundVars, dispatchVars,
              PipelineTyped
<1>3. \E p \in {"chain", "done"} :
        GoTo(s, p) /\ (p = "chain" => scan[s].pc = "audit" /\ scan[s].outcome # "SKIPPED")
  BY DEF WriteAuditRow, HandOff, PipelineThrows
<1>4. PICK p \in {"chain", "done"} :
        GoTo(s, p) /\ (p = "chain" => scan[s].pc = "audit" /\ scan[s].outcome # "SKIPPED")
  BY <1>3
<1>5. /\ scan' \in [Scans -> ScanJob]
      /\ \A r \in Scans : r # s => scan'[r] = scan[r]
      /\ scan'[s].bot = scan[s].bot /\ scan'[s].pc = p
      /\ scan'[s].attempts = scan[s].attempts /\ scan'[s].stalled = scan[s].stalled
      /\ scan'[s].outcome = scan[s].outcome
  <2>1. p \in PCs /\ scan[s].attempts \in 0..3 /\ scan[s].outcome \in Outcomes
    BY <1>1, <1>4, JobIs DEF PCs, Awaits, Ended
  <2>2. Becomes(s, p, scan[s].attempts, scan[s].outcome)
    BY <1>1, <1>4, <2>1, GoToIs
  <2> QED
    BY <1>1, <2>1, <2>2, BecomesIs
<1>6. \/ /\ scan[s].pc = "audit" /\ handed' = handed
         /\ rows' = [rows EXCEPT ![s] = rows[s] + 1]
      \/ /\ scan[s].pc = "chain" /\ rows' = rows /\ p = "done"
         /\ handed' = [handed EXCEPT ![s] = handed[s] + 1]
      \/ /\ scan[s].pc \in {"config", "gate", "audit", "chain"} /\ p = "done"
         /\ rows' = rows /\ handed' = handed
  <2>1. CASE WriteAuditRow(s)
    BY <2>1 DEF WriteAuditRow
  <2>2. CASE HandOff(s)
    <3>1. Becomes(s, "done", scan[s].attempts, scan[s].outcome)
      BY <1>1, <2>2, GoToIs DEF HandOff, PCs, Ended
    <3>2. scan'[s].pc = "done"
      BY <1>1, <3>1, JobIs, BecomesIs DEF PCs, Ended
    <3> QED
      BY <1>5, <2>2, <3>2 DEF HandOff
  <2>3. CASE PipelineThrows(s)
    <3>1. Becomes(s, "done", scan[s].attempts, scan[s].outcome)
      BY <1>1, <2>3, GoToIs DEF PipelineThrows, PCs, Ended
    <3>2. scan'[s].pc = "done"
      BY <1>1, <3>1, JobIs, BecomesIs DEF PCs, Ended
    <3> QED
      BY <1>5, <2>3, <3>2 DEF PipelineThrows
  <2> QED
    BY <2>1, <2>2, <2>3
<1>7. /\ rows' \in [Scans -> Nat] /\ handed' \in [Scans -> Nat]
      /\ \A r \in Scans : r # s => rows'[r] = rows[r] /\ handed'[r] = handed[r]
      /\ \/ scan[s].pc = "audit" /\ rows'[s] = rows[s] + 1 /\ handed'[s] = handed[s]
         \/ scan[s].pc = "chain" /\ rows'[s] = rows[s] /\ handed'[s] = handed[s] + 1
            /\ p = "done"
         \/ /\ scan[s].pc \in {"config", "gate", "audit", "chain"} /\ p = "done"
            /\ rows'[s] = rows[s] /\ handed'[s] = handed[s]
  <2>1. rows \in [Scans -> Nat] /\ handed \in [Scans -> Nat]
    BY <1>1 DEF PipelineTyped
  <2> QED
    BY <1>6, <2>1
<1>8. rows[s] \in Nat /\ handed[s] \in Nat /\ scan[s].stalled \in BOOLEAN
      /\ scan[s].outcome \in {"none", "served", "SKIPPED"}
  BY <1>1, JobIs DEF Outcomes
<1>9. ScanInv(s)'
  BY <1>1, <1>2, <1>4, <1>5, <1>7, <1>8
     DEF ScanInv, AttemptsLeft, Decided, Audited, OneRowADelivery, SeenActive, Unwritten,
         Validated, Ended
<1> QED
  BY <1>1, <1>2, <1>5, <1>7, <1>9, ScanMoves DEF PipelineTyped

-----------------------------------------------------------------------------
(* Other steps *)

\* New scans have no row and no hand-off yet.
LEMMA AddBulkStep ==
    ASSUME PipelineInv, AddBulk
    PROVE  PipelineInv'
<1>1. PipelineTyped /\ \A s \in Scans : ScanInv(s)
  BY DEF PipelineInv
<1>2. PICK ids \in SUBSET (Scans \ Enqueued) :
        \E owner \in [ids -> dispatch.bots] :
          scan' = [s \in Scans |-> IF s \in ids THEN [NoScan(owner[s]) EXCEPT !.pc = "waiting"]
                                  ELSE scan[s]]
  BY DEF AddBulk
<1>3. PICK owner \in [ids -> dispatch.bots] :
        scan' = [s \in Scans |-> IF s \in ids THEN [NoScan(owner[s]) EXCEPT !.pc = "waiting"]
                                ELSE scan[s]]
  BY <1>2
<1>4. \A s \in ids : owner[s] \in Bots
  BY <1>1, <1>3 DEF PipelineTyped
<1>5. ASSUME NEW b \in Bots
      PROVE  [NoScan(b) EXCEPT !.pc = "waiting"]
               = [bot |-> b, pc |-> "waiting", attempts |-> 0, stalled |-> FALSE,
                  outcome |-> "none"]
  <2>1. NoScan(b) = [bot |-> b, pc |-> "none", attempts |-> 0, stalled |-> FALSE,
                     outcome |-> "none"]
    BY DEF NoScan
  <2>2. NoScan(b) \in ScanJob
    BY <2>1 DEF ScanJob, PCs, Outcomes
  <2>3. /\ NoScan(b).bot = b /\ NoScan(b).attempts = 0 /\ NoScan(b).stalled = FALSE
        /\ NoScan(b).outcome = "none"
    BY <2>1
  <2> QED
    BY <2>2, <2>3, PcIs
<1>6. scan' = [s \in Scans |->
                 IF s \in ids THEN [bot |-> owner[s], pc |-> "waiting", attempts |-> 0,
                                   stalled |-> FALSE, outcome |-> "none"]
                 ELSE scan[s]]
  BY <1>3, <1>4, <1>5
<1>7. /\ now' = now /\ status' = status /\ ticks' = ticks /\ rows' = rows /\ handed' = handed
      /\ pauses' = pauses /\ faults' = faults /\ wasActive' = wasActive
      /\ dispatch' = [dispatch EXCEPT !.pc = "complete"]
  BY DEF AddBulk, outputVars, boundVars
<1>8. PipelineTyped'
  <2>1. scan \in [Scans -> ScanJob]
    BY <1>1, TypeIs
  <2>2. scan' \in [Scans -> ScanJob]
    BY <1>4, <1>6, <2>1 DEF ScanJob, PCs, Outcomes
  <2>3. dispatch' \in Dispatch
    BY <1>1, <1>7 DEF PipelineTyped, Dispatch
  <2> QED
    BY <1>1, <1>7, <2>2, <2>3 DEF PipelineTyped, Dispatch, ScanJob, PCs, Outcomes
<1>9. ASSUME NEW s \in Scans
      PROVE  ScanInv(s)'
  <2>1. CASE s \in ids
    <3>1. scan[s].pc = "none"
      BY <1>2, <2>1 DEF Enqueued
    <3>2. scan'[s].pc = "waiting" /\ scan'[s].attempts = 0 /\ scan'[s].stalled = FALSE
      BY <1>6, <2>1
    <3>3. rows[s] \in Nat /\ handed[s] \in Nat
      BY <1>1, JobIs
    <3> QED
      BY <1>1, <1>7, <3>1, <3>2, <3>3
         DEF ScanInv, AttemptsLeft, Decided, Audited, OneRowADelivery, SeenActive, Unwritten,
             Validated, Ended
  <2>2. CASE s \notin ids
    <3>1. scan'[s] = scan[s]
      BY <1>6, <2>2
    <3> QED
      BY <1>1, <1>7, <3>1, Untouched
  <2> QED
    BY <2>1, <2>2
<1> QED
  BY <1>8, <1>9 DEF PipelineInv

\* The clock, the dispatcher's other steps: no job changes.
LEMMA DispatchStep ==
    ASSUME PipelineInv,
           \/ Tick \/ ReadActiveBots \/ CompleteDispatch \/ DispatchThrows
           \/ \E d \in ticks : StartDispatch(d)
    PROVE  PipelineInv'
<1>1. PipelineTyped /\ \A s \in Scans : ScanInv(s)
  BY DEF PipelineInv
<1> DEFINE Same == /\ status' = status /\ scan' = scan /\ rows' = rows /\ handed' = handed
                   /\ pauses' = pauses /\ wasActive' = wasActive
<1>2. Same /\ (faults' = faults \/ faults' = faults + 1) /\ (now' = now \/ now' = now + 1)
      /\ (now' = now + 1 => now < MaxTime)
  <2>0. now # now + 1
    <3>1. now \in Nat
      BY <1>1, TypeIs DEF Time
    <3> QED
      BY <3>1
  <2>1. CASE Tick
    BY <2>1 DEF Tick, outputVars, boundVars
  <2>2. CASE ReadActiveBots
    BY <2>0, <2>2 DEF ReadActiveBots, outputVars, boundVars
  <2>3. CASE CompleteDispatch
    BY <2>0, <2>3 DEF CompleteDispatch, outputVars, boundVars
  <2>4. CASE DispatchThrows
    BY <2>0, <2>4 DEF DispatchThrows, Fault, outputVars
  <2>5. CASE \E d \in ticks : StartDispatch(d)
    BY <2>0, <2>5 DEF StartDispatch, outputVars, boundVars
  <2> QED
    BY <2>1, <2>2, <2>3, <2>4, <2>5
<1>3. now' \in Time /\ faults' \in Nat
  <2>1. now \in Time /\ faults \in Nat
    BY <1>1, TypeIs
  <2> QED
    BY <1>2, <2>1, PipelineAssumption DEF Time
<1>4. dispatch \in Dispatch /\ ticks \subseteq DispatchJob /\ NoDispatch \in Dispatch
      /\ now \in Time
  BY <1>1, TypeIs, PipelineAssumption DEF NoDispatch, Dispatch, DispatchJob, Time
<1>5. dispatch' \in Dispatch /\ ticks' \subseteq DispatchJob
  <2>1. CASE Tick
    <3>1. [id |-> now + 1, attempts |-> 0, stalled |-> FALSE] \in DispatchJob
      BY <1>4, <2>1, PipelineAssumption DEF Tick, DispatchJob, Time
    <3> QED
      BY <1>4, <2>1, <3>1 DEF Tick
  <2>2. CASE ReadActiveBots
    <3>1. dispatch' = NoDispatch
          \/ \E active \in SUBSET Bots :
               dispatch' = [dispatch EXCEPT !.pc = "add", !.bots = active]
      BY <2>2 DEF ReadActiveBots
    <3>2. ASSUME NEW active \in SUBSET Bots,
                 dispatch' = [dispatch EXCEPT !.pc = "add", !.bots = active]
          PROVE  dispatch' \in Dispatch
      BY <1>4, <3>2 DEF Dispatch
    <3> QED
      BY <1>4, <2>2, <3>1, <3>2 DEF ReadActiveBots
  <2>3. CASE CompleteDispatch
    BY <1>4, <2>3 DEF CompleteDispatch
  <2>4. CASE DispatchThrows
    <3>1. dispatch.job \in DispatchJob
      BY <1>4 DEF Dispatch
    <3>2. ASSUME dispatch.job.attempts + 1 < 3
          PROVE  [dispatch.job EXCEPT !.attempts = @ + 1] \in DispatchJob
      BY <3>1, <3>2 DEF DispatchJob
    <3> QED
      BY <1>4, <2>4, <3>2 DEF DispatchThrows
  <2>5. CASE \E d \in ticks : StartDispatch(d)
    <3>1. PICK d \in ticks : StartDispatch(d)
      BY <2>5
    <3>2. d \in DispatchJob
      BY <1>4
    <3>3. dispatch' = [NoDispatch EXCEPT !.pc = "read", !.job = d]
          \/ dispatch' = [NoDispatch EXCEPT !.pc = "idle", !.job = NoDispatch.job]
      BY <3>1 DEF StartDispatch
    <3>4. dispatch' \in Dispatch
      BY <1>4, <3>2, <3>3 DEF Dispatch
    <3> QED
      BY <1>4, <3>1, <3>4 DEF StartDispatch
  <2> QED
    BY <2>1, <2>2, <2>3, <2>4, <2>5
<1>6. PipelineTyped'
  BY <1>1, <1>2, <1>3, <1>5 DEF PipelineTyped, Dispatch
<1>7. ASSUME NEW s \in Scans
      PROVE  ScanInv(s)'
  BY <1>1, <1>2, Untouched
<1> QED
  BY <1>6, <1>7 DEF PipelineInv

\* A pause takes ACTIVE away; a resume is noted for the deliveries under way.
LEMMA UserStep ==
    ASSUME PipelineInv, NEW b \in Bots, Pause(b) \/ Resume(b)
    PROVE  PipelineInv'
<1>1. PipelineTyped /\ \A s \in Scans : ScanInv(s)
  BY DEF PipelineInv
<1>2. /\ now' = now /\ ticks' = ticks /\ dispatch' = dispatch /\ scan' = scan
      /\ rows' = rows /\ handed' = handed /\ faults' = faults
  BY DEF Pause, Resume, outputVars, boundVars, dispatchVars
<1>3. /\ status' \in [Bots -> {"ACTIVE", "PAUSED"}] /\ pauses' \in Nat
      /\ wasActive' \in [Scans -> BOOLEAN]
  <2>1. /\ status \in [Bots -> {"ACTIVE", "PAUSED"}] /\ pauses \in Nat
        /\ wasActive \in [Scans -> BOOLEAN]
    BY <1>1, TypeIs
  <2>2. CASE Pause(b)
    BY <2>1, <2>2 DEF Pause
  <2>3. CASE Resume(b)
    <3>1. wasActive' \in [Scans -> BOOLEAN]
      BY <2>3 DEF Resume
    <3> QED
      BY <2>1, <2>3, <3>1 DEF Resume, boundVars
  <2> QED
    BY <2>2, <2>3
<1>4. PipelineTyped'
  BY <1>1, <1>2, <1>3 DEF PipelineTyped
<1>5. ASSUME NEW s \in Scans
      PROVE  ScanInv(s)'
  <2>1. wasActive[s] => wasActive'[s]
    BY <1>1 DEF Pause, Resume
  <2>2. ASSUME scan[s].pc = "bot", status'[scan[s].bot] = "ACTIVE"
        PROVE  status[scan[s].bot] = "ACTIVE" \/ wasActive'[s]
    <3>1. scan[s].bot \in Bots /\ status \in [Bots -> {"ACTIVE", "PAUSED"}]
      BY <1>1, JobIs DEF PipelineTyped
    <3>2. CASE Pause(b)
      BY <2>2, <3>1, <3>2 DEF Pause
    <3>3. CASE Resume(b)
      BY <2>2, <3>1, <3>3 DEF Resume, Running, Awaits
    <3> QED
      BY <3>2, <3>3
  <2>3. ScanInv(s)
    BY <1>1
  <2> QED
    BY <1>2, <2>1, <2>2, <2>3
       DEF ScanInv, AttemptsLeft, Decided, Audited, OneRowADelivery, SeenActive
<1> QED
  BY <1>4, <1>5 DEF PipelineInv

\* A crash takes every running scan back to the queue once, or fails it.
LEMMA CrashStep ==
    ASSUME PipelineInv, Crash
    PROVE  PipelineInv'
<1>1. PipelineTyped /\ \A s \in Scans : ScanInv(s)
  BY DEF PipelineInv
<1>2. /\ now' = now /\ status' = status /\ rows' = rows /\ handed' = handed
      /\ pauses' = pauses /\ faults' \in Nat /\ wasActive' = wasActive
  <2>1. faults \in Nat
    BY <1>1, TypeIs
  <2> QED
    <3>1. Fault /\ UNCHANGED <<now, status, outputVars, pauses, wasActive>>
      BY DEF Crash
    <3> QED
      BY <2>1, <3>1 DEF Fault, outputVars
<1>3. scan \in [Scans -> ScanJob]
  BY <1>1, TypeIs
<1>4. ASSUME NEW s \in Scans
      PROVE  /\ scan'[s] \in ScanJob
             /\ ~Running(s) => scan'[s] = scan[s]
             /\ Running(s) => /\ scan'[s].attempts = scan[s].attempts
                              /\ scan'[s].stalled = TRUE
                              /\ scan'[s].pc = IF scan[s].stalled THEN "failed" ELSE "waiting"
  <2>1. /\ [scan[s] EXCEPT !.pc = "failed"]
              = [bot |-> scan[s].bot, pc |-> "failed", attempts |-> scan[s].attempts,
                 stalled |-> scan[s].stalled, outcome |-> scan[s].outcome]
        /\ [scan[s] EXCEPT !.pc = "waiting", !.stalled = TRUE]
              = [bot |-> scan[s].bot, pc |-> "waiting", attempts |-> scan[s].attempts,
                 stalled |-> TRUE, outcome |-> scan[s].outcome]
    BY <1>3, PcIs, StalledIs
  <2>2. scan'[s] = IF ~Running(s) THEN scan[s]
                   ELSE IF scan[s].stalled THEN [scan[s] EXCEPT !.pc = "failed"]
                   ELSE [scan[s] EXCEPT !.pc = "waiting", !.stalled = TRUE]
    BY DEF Crash
  <2>3. /\ scan[s].bot \in Bots /\ scan[s].attempts \in 0..3 /\ scan[s].stalled \in BOOLEAN
        /\ scan[s].outcome \in Outcomes /\ scan[s] \in ScanJob
    BY <1>1, <1>3, JobIs
  <2> QED
    BY <2>1, <2>2, <2>3 DEF ScanJob, PCs, Ended
<1>5. scan' \in [Scans -> ScanJob]
  <2>1. DOMAIN scan' = Scans /\ scan' = [s \in Scans |-> scan'[s]]
    BY DEF Crash
  <2> QED
    BY <1>4, <2>1
<1>6. dispatch' \in Dispatch /\ ticks' \subseteq DispatchJob
  <2>1. dispatch \in Dispatch /\ ticks \subseteq DispatchJob /\ NoDispatch \in Dispatch
    BY <1>1, TypeIs, PipelineAssumption DEF NoDispatch, Dispatch, DispatchJob, Time
  <2>2. [dispatch.job EXCEPT !.stalled = TRUE] \in DispatchJob
    BY <2>1 DEF Dispatch, DispatchJob
  <2> QED
    BY <2>1, <2>2 DEF Crash
<1>7. PipelineTyped'
  BY <1>1, <1>2, <1>5, <1>6 DEF PipelineTyped, Dispatch, ScanJob, PCs, Outcomes
<1>8. ASSUME NEW s \in Scans
      PROVE  ScanInv(s)'
  <2>1. CASE ~Running(s)
    BY <1>1, <1>2, <1>4, <2>1, Untouched
  <2>2. CASE Running(s)
    <3>1. rows[s] \in Nat /\ handed[s] \in Nat /\ scan[s].attempts \in 0..3
          /\ scan[s].stalled \in BOOLEAN
      BY <1>1, JobIs
    <3>2. scan[s].pc \notin Ended
      BY <2>2 DEF Running, Awaits, Ended
    <3>3. /\ scan'[s].attempts = scan[s].attempts /\ scan'[s].stalled = TRUE
          /\ scan'[s].pc = IF scan[s].stalled THEN "failed" ELSE "waiting"
          /\ rows'[s] = rows[s] /\ handed'[s] = handed[s]
      BY <1>2, <1>4, <2>2
    <3>4. scan[s].pc # "none" /\ ScanInv(s)
      BY <1>1, <2>2 DEF Running, Awaits
    <3> QED
      BY <3>1, <3>2, <3>3, <3>4
         DEF ScanInv, AttemptsLeft, Decided, Audited, OneRowADelivery, SeenActive, Unwritten,
             Validated, Ended
  <2> QED
    BY <2>1, <2>2
<1> QED
  BY <1>7, <1>8 DEF PipelineInv

-----------------------------------------------------------------------------
(* The theorems *)

\* Every step keeps the invariant.
LEMMA StepPipeline == PipelineInv /\ [Next]_vars => PipelineInv'
<1> SUFFICES ASSUME PipelineInv, [Next]_vars
             PROVE  PipelineInv'
  OBVIOUS
<1>1. CASE UNCHANGED vars
  BY <1>1 DEF vars, dispatchVars, outputVars, boundVars, PipelineInv, PipelineTyped, ScanInv,
              AttemptsLeft, Decided, Audited, OneRowADelivery, SeenActive
<1>2. CASE Next
  BY <1>2, StartScanStep, AdvanceStep, GuardThrowsStep, OutputStep, AddBulkStep, DispatchStep,
     UserStep, CrashStep DEF Next
<1> QED
  BY <1>1, <1>2

\* So it always holds.
LEMMA InvHolds == ASSUME SomeBot PROVE Spec => []PipelineInv
BY InitPipeline, StepPipeline, PTL DEF Spec

\* Every variable keeps its type: a job is always in a state that BullMQ or a step
\* takes it out of, after at most three attempts.
THEOREM PipelineTypes == ASSUME SomeBot PROVE Spec => []PipelineTypeOK
<1>1. PipelineInv => PipelineTypeOK
  BY DEF PipelineInv, PipelineTypeOK, ScanInv, Decided
<1> QED
  BY <1>1, InvHolds, PTL

\* No candidate list leaves a scan without its audit row, for any number of crashes,
\* throws and redeliveries.
THEOREM AuditedFirst == ASSUME SomeBot PROVE Spec => []HandOffsAudited
<1>1. PipelineInv => HandOffsAudited
  BY DEF PipelineInv, ScanInv, Audited, HandOffsAudited
<1> QED
  BY <1>1, InvHolds, PTL

\* A job writes one audit row, or two when its process died and it was redelivered.
THEOREM OneRow == ASSUME SomeBot PROVE Spec => []RetriesNeverRepeat
<1>1. PipelineInv => RetriesNeverRepeat
  BY DEF PipelineInv, ScanInv, OneRowADelivery, RetriesNeverRepeat
<1> QED
  BY <1>1, InvHolds, PTL

\* What is handed on was scanned for a bot that has been ACTIVE in this delivery.
THEOREM RevalidatedFirst == ASSUME SomeBot PROVE Spec => ScansOnlyRevalidated
<1>1. ASSUME PipelineInv, [Next]_vars, NEW s \in Scans, handed'[s] > handed[s]
      PROVE  wasActive[s]
  <2>1. handed[s] \in Nat
    BY <1>1, JobIs DEF PipelineInv
  <2>2. handed' # handed
    BY <1>1, <2>1
  <2>3. PICK r \in Scans : HandOff(r)
    BY <1>1, <2>2
       DEF Next, vars, Tick, Pause, Resume, StartDispatch, ReadActiveBots, AddBulk,
           CompleteDispatch, DispatchThrows, StartScan, RevalidateBot, CheckOwner, GuardThrows,
           Narrow, Gate, WriteAuditRow, PipelineThrows, Crash, outputVars, boundVars
  <2>4. s = r
    BY <1>1, <2>1, <2>3 DEF HandOff, PipelineInv, PipelineTyped
  <2> QED
    BY <1>1, <2>3, <2>4 DEF HandOff, PipelineInv, ScanInv, SeenActive, Validated
<1>2. PipelineInv /\ [Next]_vars => [\A s \in Scans : handed'[s] > handed[s] => wasActive[s]]_vars
  BY <1>1
<1> QED
  BY <1>2, InvHolds, PTL DEF Spec, ScansOnlyRevalidated

-----------------------------------------------------------------------------
(* The calendar: crons in UTC and hours in New York, in summer and in winter, at every *)
(* minute of the week *)

\* The minute of the week at a day, hour and minute.
At(d, h, m) == (d * 1440) + (h * 60) + m

\* Every minute of the week is at some day, hour and minute.
LEMMA ClockOf ==
    ASSUME NEW t \in Instants
    PROVE  /\ t \in Nat /\ (t \div Day) \in 0..6
           /\ Hour(t) \in 0..23 /\ Minute(t) \in 0..59
           /\ t = At(t \div Day, Hour(t), Minute(t))
<1>1. t \in Nat /\ t < 10080
  BY DEF Instants, Week, Day
<1>2. (t \div 1440) <= 6 /\ (t \div 1440) \in Nat
  BY <1>1
<1>3. ((t \div 60) % 24) \in 0..23 /\ (t % 60) \in 0..59
  BY <1>1
<1>4. t = ((t \div 1440) * 1440) + (((t \div 60) % 24) * 60) + (t % 60)
  BY <1>1
<1> QED
  BY <1>1, <1>2, <1>3, <1>4 DEF At, Hour, Minute, Day

\* The other way round.
LEMMA InstantAt ==
    ASSUME NEW d \in 0..6, NEW h \in 0..23, NEW m \in 0..59
    PROVE  /\ At(d, h, m) \in Instants /\ (At(d, h, m) \div Day) = d
           /\ Hour(At(d, h, m)) = h /\ Minute(At(d, h, m)) = m
<1>1. ASSUME NEW t, t = (d * 1440) + (h * 60) + m
      PROVE  t \in 0..10079 /\ (t \div 1440) = d /\ (t \div 60) = (d * 24) + h /\ (t % 60) = m
  <2>1. t \in 0..10079 /\ d \in Nat /\ h \in Nat /\ m \in Nat
    BY <1>1, SMTT(30)
  <2>2. (t \div 1440) = d
    BY <1>1, <2>1, SMTT(30)
  <2>3. (t \div 60) = (d * 24) + h
    BY <1>1, <2>1, SMTT(30)
  <2>4. (t % 60) = m
    BY <1>1, <2>1, SMTT(30)
  <2> QED
    BY <2>1, <2>2, <2>3, <2>4
<1>2. (((d * 24) + h) % 24) = h
  OBVIOUS
<1>3. At(d, h, m) = (d * 1440) + (h * 60) + m
  BY DEF At
<1>4. /\ At(d, h, m) \in 0..10079 /\ (At(d, h, m) \div 1440) = d
      /\ (At(d, h, m) \div 60) = (d * 24) + h /\ (At(d, h, m) % 60) = m
  BY <1>1, <1>3, SMTT(30)
<1>5. ((At(d, h, m) \div 60) % 24) = h
  BY <1>2, <1>4
<1>6. Instants = 0..10079 /\ Day = 1440
  BY DEF Instants, Week, Day
<1> QED
  BY <1>4, <1>5, <1>6, SMTT(30) DEF Hour, Minute

\* From 05:00 UTC on, New York has the day that UTC has.
LEMMA SameDay ==
    ASSUME NEW d \in 0..6, NEW h \in 5..23, NEW m \in 0..59, NEW behind \in Seasons
    PROVE  /\ Weekday(At(d, h, m), behind) = d
           /\ TimeOfDay(At(d, h, m), behind) = (h * 60) + m - behind
<1>1. behind = 240 \/ behind = 300
  BY DEF Seasons, Summer, Winter
<1> DEFINE n == At(d, h, m) - behind
           r == (h * 60) + m - behind
<1>2. n \in Nat /\ n < 10080 /\ n = (d * 1440) + r /\ r \in 0..1439
  BY <1>1 DEF At
<1> HIDE DEF n, r
<1>3. (n % 10080) = n
  BY <1>2
<1>4. (n \div 1440) = d /\ (n % 1440) = r
  BY <1>2
<1>5. NewYork(At(d, h, m), behind) = n
  BY <1>3 DEF NewYork, Week, Day, n
<1> QED
  BY <1>4, <1>5 DEF Weekday, TimeOfDay, Day, r

-----------------------------------------------------------------------------
(* Crons and market hours *)

\* Every scan-dispatch tick is preceded by a refresh tick, two minutes before it
\* (scheduler.ts, the comment on universe-refresh-cron).
THEOREM HeadStart ==
    ASSUME NEW t \in Instants, ScanDispatchFires(t)
    PROVE  t - 2 \in Instants /\ UniverseRefreshFires(t - 2)
<1> DEFINE d == t \div Day
           h == Hour(t)
           m == Minute(t)
<1>1. d \in 0..4 /\ h \in 14..21 /\ m \in 0..59 /\ (m % 5) = 0
      /\ t = At(d, h, m)
  BY ClockOf DEF ScanDispatchFires, MondayToFriday
<1> HIDE DEF d, h, m
<1>2. CASE m = 0
  <2>1. t - 2 = At(d, h - 1, 58) /\ h - 1 \in 13..20
    BY <1>1, <1>2 DEF At
  <2> DEFINE e == h - 1
  <2>2. d \in 0..6 /\ e \in 0..23 /\ 58 \in 0..59
    BY <1>1, <2>1
  <2>3. /\ At(d, e, 58) \in Instants /\ (At(d, e, 58) \div Day) = d
        /\ Hour(At(d, e, 58)) = e /\ Minute(At(d, e, 58)) = 58
    <3> HIDE DEF e
    <3> QED
      BY <2>2, InstantAt, ZenonT(30)
  <2>4. (58 % 5) = 3 /\ e \in 13..21 /\ d < 5
    BY <1>1, <2>1
  <2> QED
    BY <2>1, <2>3, <2>4 DEF UniverseRefreshFires, MondayToFriday
<1>3. CASE m # 0
  <2>1. t - 2 = At(d, h, m - 2) /\ m - 2 \in 0..59 /\ ((m - 2) % 5) = 3
    BY <1>1, <1>3 DEF At
  <2> DEFINE n == m - 2
  <2>2. d \in 0..6 /\ h \in 0..23 /\ n \in 0..59
    BY <1>1, <2>1
  <2>3. /\ At(d, h, n) \in Instants /\ (At(d, h, n) \div Day) = d
        /\ Hour(At(d, h, n)) = h /\ Minute(At(d, h, n)) = n
    <3> HIDE DEF n
    <3> QED
      BY <2>2, InstantAt, ZenonT(30)
  <2>4. (n % 5) = 3 /\ h \in 13..21 /\ d < 5
    BY <1>1, <2>1
  <2> QED
    BY <2>1, <2>3, <2>4 DEF UniverseRefreshFires, MondayToFriday
<1> QED
  BY <1>2, <1>3

\* A tick that finds the market open comes at least half an hour after the rule reset of
\* the same New York day, in summer as in winter (scheduler.ts, rule-reset-cron): no bot
\* is scanned before the reset has looked at its stand-down.
THEOREM ResetPrecedesScans ==
    ASSUME NEW t \in Instants, NEW behind \in Seasons,
           ScanDispatchFires(t), IsMarketHours(t, behind)
    PROVE  \E r \in Instants :
             /\ RuleResetFires(r) /\ r + 30 <= t
             /\ Weekday(r, behind) = Weekday(t, behind)
<1> DEFINE d == t \div Day
           h == Hour(t)
           m == Minute(t)
           r == At(d, 13, 30)
<1>1. d \in 0..4 /\ h \in 14..21 /\ m \in 0..59 /\ t = At(d, h, m)
  BY ClockOf DEF ScanDispatchFires, MondayToFriday
<1> HIDE DEF d, h, m
<1>2. r \in Instants /\ (r \div Day) = d /\ Hour(r) = 13 /\ Minute(r) = 30
  <2>1. d \in 0..6 /\ 13 \in 0..23 /\ 30 \in 0..59
    BY <1>1
  <2> QED
    BY <2>1, InstantAt, ZenonT(30)
<1>3. RuleResetFires(r)
  BY <1>1, <1>2 DEF RuleResetFires, MondayToFriday
<1>4. r + 30 <= t
  BY <1>1 DEF At
<1>5. Weekday(r, behind) = d /\ Weekday(t, behind) = d
  <2>1. d \in 0..6 /\ h \in 5..23 /\ m \in 0..59 /\ 13 \in 5..23 /\ 30 \in 0..59
    BY <1>1
  <2>2. Weekday(At(d, h, m), behind) = d
    BY <2>1, SameDay, ZenonT(30)
  <2>3. Weekday(At(d, 13, 30), behind) = d
    BY <2>1, SameDay, ZenonT(30)
  <2> QED
    BY <1>1, <2>2, <2>3
<1> QED
  BY <1>2, <1>3, <1>4, <1>5

\* The daily summary fires when the market has closed for the day, in summer as in
\* winter (scheduler.ts, the comment on summary-cron).
THEOREM SummaryAfterClose ==
    ASSUME NEW t \in Instants, NEW behind \in Seasons, SummaryFires(t),
           NEW u \in Instants, t <= u
    PROVE  Weekday(u, behind) = Weekday(t, behind) => ~IsMarketHours(u, behind)
<1> DEFINE d == t \div Day
           n == NewYork(u, behind)
<1>1. d \in 0..4 /\ t = At(d, 21, 5)
  BY ClockOf DEF SummaryFires, MondayToFriday
<1> HIDE DEF d
<1>2. Weekday(t, behind) = d /\ behind \in {240, 300}
  <2>1. 21 \in 5..23 /\ 5 \in 0..59 /\ d \in 0..6
    BY <1>1
  <2>2. Weekday(At(d, 21, 5), behind) = d
    BY <2>1, SameDay, ZenonT(30)
  <2>3. behind \in {240, 300}
    BY DEF Seasons, Summer, Winter
  <2> QED
    BY <1>1, <2>2, <2>3
<1>3. u - behind \in Nat /\ u - behind < 10080 /\ u - behind >= (d * 1440) + 960
  BY <1>1, <1>2 DEF Instants, Week, Day, At
<1>4. n = u - behind
  <2>1. ((u - behind) % 10080) = u - behind
    BY <1>3
  <2> QED
    BY <2>1 DEF NewYork, Week, Day
<1> HIDE DEF n
<1>5. n \in Nat /\ n >= (d * 1440) + 960
  BY <1>3, <1>4
<1>6. ASSUME (n \div 1440) = d
      PROVE  (n % 1440) >= 960
  <2>1. n = (d * 1440) + (n % 1440)
    BY <1>5, <1>6
  <2> QED
    BY <1>1, <1>5, <2>1
<1>7. (n % 1440) \in Nat /\ d \in Nat
  BY <1>1, <1>5
<1> QED
  BY <1>2, <1>6, <1>7 DEF IsMarketHours, Weekday, TimeOfDay, CloseMinutes, Day, n

\* The AI counters are zeroed in the first hours of New York's day, in summer an hour
\* late (scheduler.ts, reset-ai-counters-cron).
THEOREM ResetAfterMidnight ==
    ASSUME NEW t \in Instants, NEW behind \in Seasons, ResetAiCountersFires(t)
    PROVE  TimeOfDay(t, behind) = IF behind = Winter THEN 0 ELSE 60
<1> DEFINE d == t \div Day
<1>1. d \in 0..4 /\ t = At(d, 5, 0)
  BY ClockOf DEF ResetAiCountersFires, MondayToFriday
<1> HIDE DEF d
<1>2. TimeOfDay(t, behind) = 300 - behind
  <2>1. d \in 0..6 /\ 5 \in 5..23 /\ 0 \in 0..59
    BY <1>1
  <2>2. TimeOfDay(At(d, 5, 0), behind) = (5 * 60) + 0 - behind
    BY <2>1, SameDay, ZenonT(30)
  <2>3. (5 * 60) + 0 - behind = 300 - behind
    BY DEF Seasons, Summer, Winter
  <2> QED
    BY <1>1, <2>2, <2>3
<1> QED
  BY <1>2 DEF Seasons, Summer, Winter

\* In summer no tick falls into the first half hour of trading: the cron starts at 14:00
\* UTC, the market opens at 13:30.  AVOID_FIRST_30 and FULL_SESSION are the same then.
THEOREM SummerGap ==
    ASSUME NEW t \in Instants, ScanDispatchFires(t), IsMarketHours(t, Summer)
    PROVE  IsWithinSessionPreference("AVOID_FIRST_30", t, Summer)
<1> DEFINE d == t \div Day
           h == Hour(t)
           m == Minute(t)
<1>1. d \in 0..4 /\ h \in 14..21 /\ m \in 0..59 /\ t = At(d, h, m)
  BY ClockOf DEF ScanDispatchFires, MondayToFriday
<1> HIDE DEF d, h, m
<1>2. TimeOfDay(t, Summer) = (h * 60) + m - 240
  <2>1. d \in 0..6 /\ h \in 5..23 /\ m \in 0..59
    BY <1>1
  <2>2. Summer \in Seasons /\ Summer = 240
    BY DEF Seasons, Summer
  <2>3. ASSUME NEW behind \in Seasons
        PROVE  TimeOfDay(At(d, h, m), behind) = (h * 60) + m - behind
    BY <2>1, SameDay, ZenonT(30)
  <2> QED
    BY <1>1, <2>2, <2>3
<1> QED
  BY <1>1, <1>2 DEF IsWithinSessionPreference, AfterFirst30Minutes, CloseMinutes, IsMarketHours

-----------------------------------------------------------------------------
(* Preferences *)

\* Morning and afternoon hunters share the trading day among them: at every open minute
\* exactly one of them may be scanned (session-preference.ts).
THEOREM HuntersPartitionTheDay ==
    ASSUME NEW t \in Instants, NEW behind \in Seasons, IsMarketHours(t, behind)
    PROVE  IsWithinSessionPreference("MORNING_HUNTER", t, behind)
             <=> ~IsWithinSessionPreference("AFTERNOON_HUNTER", t, behind)
<1>1. TimeOfDay(t, behind) \in Int
  BY DEF TimeOfDay, NewYork, Week, Day, Instants, Seasons, Summer, Winter
<1> QED
  BY <1>1 DEF IsMarketHours, IsWithinSessionPreference, OpenMinutes, MiddayMinutes,
              CloseMinutes
=============================================================================
