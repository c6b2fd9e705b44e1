# tachyon-workers: specifications, model checks and proofs

TLA+ modules for the background workers of tachyon: market scanning (universe
refresh, vendor fetch, staleness gate, filter chain, scan pipeline), the rule engine
and the jobs that change a bot's status, the audit-log partitions, the AI-call budget,
the calendar and the life of the worker process. The modules are
translated from the TypeScript under `src/src`; TLC checks them on small
instances and TLAPS proves the theorems for every value of the constants.

    tlc -workers 2 -config MCMarketScan_gate.cfg MCMarketScan
    tlapm UniverseRefreshProofs.tla

`PROJECT.json` lists the components, the runs, the source lines every definition
stands for, the hazards, the findings and the theorems.

## 1. The system

One Node process per worker role. Cron templates (`scheduler.ts`) put jobs into
BullMQ queues; workers take them; state lives in Valkey and Postgres.

| Component | State | Operations | Hard behaviour |
| --- | --- | --- | --- |
| `lib/universe-cache.ts` | bucket hashes, breaker hash, bucket lock keys (Valkey) | read/write a bucket, record success/failure, take/release a lock | the breaker's read-modify-write is two commands; a lock is deleted without checking whose it is; lock TTL |
| `workers/universe-refresh.worker.ts` | queue, one job per instance | full sweep of 44 buckets (11 sectors, 4 tiers), out-of-band refresh of one | several instances, EODHD failures, crashes holding a lock |
| `lib/staleness-gate.ts` | none of its own | evaluate all relevant buckets at once, each with one bounded refresh | a timeout does not cancel the refresh; Promise.all; shares locks with the sweeps |
| `lib/eodhd-client.ts`, `lib/bucket-fetch.ts` | none | one screener request per bucket, one fundamentals request per row | rows in flight together; some failures skip a symbol, others the bucket; facts move between requests |
| `lib/universe-filter-chain.ts` | none | eight stages from the union of buckets to a bot's candidates; which buckets a bot needs | boundary values, missing figures, labels of two tiers; one wrong stage drops or keeps silently |
| `lib/rule-engine.ts` | `bots`, `bot_runtime_data` | nine rules over a proposal; stand a bot down | several rules fire in one evaluation; the day's row may not exist |
| `workers/rule-reset.worker.ts` | `bots` | at NYSE open, end or extend each stand-down | acts on a list read outside the transaction |
| `workers/trial-expiry.worker.ts` | `user_subscriptions`, `bots` | suspend expired trials, pause their ACTIVE bots | acts on a list read before |
| `workers/audit-log-partition.worker.ts` | partitions of two tables | create, REVOKE DELETE, detach, drop | statement-by-statement failure, retries, a trigger date frozen into the scheduler |
| `workers/scan-dispatch.worker.ts`, `scan-bot.worker.ts` | scan-bot queue, `scan_audit_log` | fan a tick out to the ACTIVE bots; scan one | concurrency, retries, stalled redelivery, pauses meanwhile |
| `lib/brain-router.ts`, `workers/reset-ai-counters.worker.ts` | `bot_runtime_data.ai_calls_today`, usage log | call a model under a daily cap; zero past counters | cap read, call made, counter written: three awaits; midnight |
| `lib/market-hours.ts`, `lib/session-preference.ts`, `scheduler.ts` | none | hours, session and day preferences in New York time; crons in UTC | both sides move against each other twice a year |
| `index.ts`, `heartbeat.ts`, `shutdown.ts` | heartbeat key (Valkey), signal handlers, timer | start, beat, drain, exit | beats in flight when a signal comes; a second signal; the drain's timer against the platform's SIGKILL |

The components meet in three places. Sweeps and gates share bucket hashes, locks
and the breaker (module `MarketScan`). Rule engine, reset, trial expiry and users
share `bots.status` (module `BotLifecycle`). Dispatcher, scans and users share
the queue and `bots.status` (module `ScanPipeline`). Vendor, cache and filter chain
meet in the data (module `CandidateSelection`).

What makes each correct, in a sentence: the breaker counts consecutive failed ticks and alerts
once, unless instances race; a lock is a lease nobody enters while it runs, and under it a
cache entry never gets older; a gate serves nothing beyond its limits and one skipped bucket
discards all; a stand-down lasts what its mode says and no reset brings back a bot that was on
hold when it read its list; no audit month is lost early and a completed job has done its
work; no candidate leaves a scan unaudited or unvalidated, and none is lost or let through
against the bot's settings; the AI cap is overrun by the concurrency at most; a heartbeat key
stands for a process that serves, and a drain ends.

## 2. Modules

| Module | Models | Extended or instantiated by |
| --- | --- | --- |
| `UniverseCache` | Valkey: one operator per command, and the breaker's arithmetic | `UniverseRefresh`, `StalenessGate` |
| `UniverseRefresh` | the refresh worker, one action per stretch between awaits | `MarketScan`, `UniverseRefreshProofs` |
| `CircuitBreaker` | abstract: several recorders that look and then record; failed ticks in a row, an episode, its one alarm; what overtaking tears | `UniverseRefresh` |
| `StalenessGate` | the gate; an evaluation and its refresh are two threads | `MarketScan` |
| `MarketScan` | both over one Valkey and one clock | `MarketScanProofs` |
| `GateDecision` | abstract: a gate that judges each bucket once, for a reason | `MarketScan` |
| `BucketLock` | abstract: a lease that a slow holder overruns and a fault leaves behind | `MarketScan` |
| `FilterChain` | the stages as tests of an entry, and the derivation of buckets | `CandidateSelection` |
| `CandidateSelection` | vendor, fetches, stored buckets, a scan that reads and filters them | `CandidateSelectionProofs` |
| `MarketSession` | New York hours, preferences and crons over the minutes of a week | `MCScanPipeline`, `ScanPipelineProofs` |
| `ScanPipeline` | dispatcher and scans | `ScanPipelineProofs` |
| `RuleEngine` | the rules as an operator on the context of a proposal | `StandDown` |
| `StandDown` | evaluations that stand a bot down, and the reset job | `BotLifecycle` |
| `BotLifecycle` | with trial expiry and users | `StandDownProofs` |
| `AuditPartition` | the partition job, its scheduler and the tables | `AuditPartitionProofs` |
| `BrainRouter` | calls, counter, usage log and reset | `BrainRouterProofs` |
| `WorkerProcess` | one process: start-up, heartbeat connection, signals, drain | `WorkerProcessProofs` |

`MC*` modules give the constants of the runs their values. How state and actions
correspond to the code:

- *Control.* A value of `pc`, `at` or `phase` names the await an instance waits at;
  an action is what the code does from there to its next await, early returns and
  catch clauses included. A local variable that survives an await is part of the
  state (`seen` is what `recordRefreshFailure` read, `reset.list` what
  `processRuleReset` selected, `ev[s][b].cached` what the gate read).
- *Transactions.* A rule evaluation is one action: it holds the bots row `FOR
  UPDATE` from its first statement to its commit. The reset's statements are
  actions of their own: its list is read before its transactions, and those lock
  nothing before the update.
- *Data.* Symbols, prices and messages are left out; a bucket entry is its tier and
  `asOf`; a proposal is a class of size and the facts the rules compare. Months
  are numbers. Of the usage log only the rows of capped calls are counted.
- *Refinement.* `CircuitBreaker`, `BucketLock` and `GateDecision` know neither keys nor reads,
  writes, timers and awaits. The detailed modules instantiate them with a mapping: the
  breaker's counter and date are those of the hash, a recorder has looked between its read and
  its write and is fresh while the hash is what it read, its alarm is due between the write
  that opened the breaker and the alert; a lock's holders are the actors between taking and
  releasing it, its lease is the key, and those inside whose key is gone or another's have
  overrun it. A gate's view of a bucket is what its evaluation has read, then its outcome from
  the moment that is known; nobody reads the views of a gate that has thrown or died.
- *Data flow apart from timing.* `MarketScan` decides when a bucket may be served and by
  whom it is refreshed, with an entry reduced to tier and `asOf`; `CandidateSelection`
  says what is in it and lets any stored bucket be read at any time.
- *Failures.* `Crash`, `CrashScan`, `*Throws`, `*Fails` and the fault actions are the
  process dying, a query or Valkey command failing, EODHD or a provider failing.
  BullMQ's answer to each (attempts, no attempts, one redelivery of a stalled job)
  is part of the action.
- *History variables* (`failedTicks`, `raced`, `owing`, `alerts`, `early`, `unguarded`,
  `dueAt`, `freed`, `standing`, `wasActive`, `paid`, `uncounted`, `unlogged`, `moved`,
  `refused`, and `missed` in a process and in a partition job) are written by no code and
  guard no action; properties need them to relate a state to an earlier one.
- *Mutants.* Definitions under a `Mutant:` comment are plausible bugs and used by no
  specification. Each checked property fails when its mutant takes the place of
  the original (`PROJECT.json`, `mutants`).

## 3. Runs

Nine runs pass; three state what a comment or document says and end in a
counterexample.

| Run | Instance | Shows |
| --- | --- | --- |
| `one` | 2 instances, 2 buckets, 2 sweeps, threshold 2, locks of one unit, 1 fault | the breaker hash implements the abstract breaker, which racing instances tear in one way only; its count is exact until they do; no later job starts a request in the backoff; the queue drains |
| `locks` | 1 instance, 1 gate, a bucket seeded SLOW, 2 sweeps that may outlive their lock, 1 fault each | sweeps and gates implement the lease, the gate the abstract decision; no write under the lock replaces a newer one; past-threshold data only in a sustained outage |
| `gate` | 1 gate, 2 buckets, 1 fault | one skip discards all; age of what is served; every call decides |
| `filters` | 2 symbols, 2 sectors, 2 bands, 5 states of the vendor's facts, 7 bots | a stored bucket is what the vendor listed and answered; duplicates have moved; the chain meets the criteria; unread buckets are useless |
| `safe` | 1 bot, 2 ticks, 2 concurrent scans, 1 pause, 2 faults | hand-offs audited and revalidated; retries repeat nothing; scans end |
| `lifecycle` | 1 bot, all recovery modes, drawdowns, changes of settings, statuses set by the user at any time, 2 days | the week is served and its window fixed; a trading bot is recovered; a bot on hold stays so |
| `retention` | both tables, 5 months, default partition on one, 3 faults | windows kept; what a completed job has done; three attempts |
| `cap` | 3 callers, cap 1, 2 days | overrun bounded; never overcharged; counter and log account for every answer |
| `process` | 2 jobs, 2 signals, with and without Sentry, 3 faults | the heartbeat key tells the truth; a job is cut off for a cause; a drain ends |
| `onecall` | 2 gates | violated: two EODHD calls for a bucket |
| `suspended` | 1 bot | violated: an ACTIVE bot of a suspended user |
| `stale` | both tables, no faults | violated: a month begins without its partition |

Why these bounds are enough for what they are asked. A race needs two actors and
one shared key, so an instance and a gate on one bucket reach every order of a take,
a write, a release and an expiry; two sweeps on a bucket use the same commands, and the
theorems cover any number of instances. In `one` a lock lasts one unit, so each instance
can outlive its own and delete the other's; two instances with two jobs and threshold 2
reach every order of two reads and two writes of the hash below, at and above the
threshold, and a success between them. In `locks` a sweep's lock lasts two of three units.
A second bucket is there where the code aggregates (tally of a sweep, worst outcome of a gate). Threshold 2 and a
two-step backoff reach CLOSED below and at the threshold, OPEN again, and the last
step of the schedule. In `filters` the bands are adjacent and a symbol starts at their
edge, so one change of its facts moves it across; one fetch per bucket puts the change
before, between or after two fetches; limit 2 lists every match, since two rows in one
bucket are what reordering needs and no property depends on the screener's cut; the bots
have every preference of the chain, a label of each tier and one the mapping no longer knows.
`safe` runs at winter Monday 09:25, 11:55 and 12:00 in New York: shut, open for the
morning hunter, open but outside its session. Two days of two instants let a stand-down,
the reset that arms its window and the reset that ends it follow each other; five months
cover both windows of both tables and a trigger three months stale. Both tables of the
repository have a default partition; in `retention` one has none, so that the DETACH that
Postgres then allows, and its failure, are reached as well. Two faults let an
attempt fail and its retry die. In `cap` the bound of three answers a day lets the paid
calls reach the cap, the overrun, and one failed increment more. In `process` the key
lives three intervals, as 90 s against 30 s, and the drain's timer equals the
platform's grace, as 30 s and 30 s; six units hold a start, three beats and a drain, three
faults a second beat missed and a failed close. Every bound is a constant
named `Max...` or `Input...` in its module.

Three runs compare states by a `VIEW`. In `one` it leaves out what the buckets hold and whose
process id a lock key carries, in `locks` the outage alert and its history, in `lifecycle`
differences no guard makes (which of the statuses that are neither ACTIVE nor STOOD_DOWN,
which reason that is not the drawdown, a `dueAt` that is past or beyond the bound, how many
days ago a job ran). What is left out is read by no guard, decides nothing of what is kept,
and is named by no property of the run but its type invariant, which is proved besides, and
`HoldStands`, which tells DRAFT from the statuses on hold, a status that no step writes.

`CHECK_DEADLOCK FALSE` is in the configurations of `UniverseRefresh`, `MarketScan`,
`ScanPipeline`, `CandidateSelection` and `WorkerProcess`: their clocks, cron ticks, jobs,
fetches and lives are bounded, so they really come to a state with nothing left to
do. The other runs check for deadlock.

### Fairness

`FairSpec` of `UniverseRefresh`: weak fairness of every instance's step, because
the event loop runs what is runnable, BullMQ hands out waiting jobs, and an EODHD
request of a sweep ends through the HTTP client's default timeouts (there is no
other). `FairMarketSpec`: the clock, the evaluation's own continuations and timers;
not the vendor, whose answer may never come, which is the case `withTimeout` is for.
`FairSpec` of `ScanPipeline`: a waiting job is started when a slot is free, and a
running one takes its next step. `FairSpec` of `WorkerProcess`: the clock, the exit after
the last worker has closed, and the drain's timer; neither jobs nor Valkey nor the platform
owe anything. Crashes, throws and users are never fair.

### Assumptions about what is outside `src/src`

- How long a sweep holds a lock is not bounded: 30 s of TTL meet requests without a timeout
  of their own, and time passes in the model whatever a sweep waits for. A gate does have
  a timer; its own Valkey commands take at most `Latency`, which the five seconds of
  slack in its TTL must cover.
- SLOW entries come from seeds only: every live writer writes tier FAST.
- Users activate, pause or archive a bot in any status, a stood-down one included, since no
  line of the repository says which they may; the API does not activate a bot of a suspended
  user, and writes none of the recovery columns.
- `Reconcile`, `Fill` and `ChangeMode` are the reconciliation of Feature 14, the broker and
  the API. Recovery mode is not null. Daily limits are positive percentages.
- BullMQ redelivers a stalled job once (`maxStalledCount` 1) and runs one partition job
  to its end before the month does.
- Postgres refuses a partition whose rows are in the default one, and DETACH
  CONCURRENTLY on a table with a default partition. Which tables have one is decided by
  migrations outside the repository: `WithDefault` is a constant.
- The screener lists a symbol under one sector and its industry belongs to it
  (`VendorAssumption`); which industries and bands exist comes from the package
  `tachyon-queue-types`, whose bands are half open and adjacent (`BandsDisjoint`).
- Valkey answers a serving process's beat within a unit of time, unless the command fails.
  Commands of one connection are executed in their order.
- Scan-dispatch and scan-bot run in one process, so one crash takes both.
- In `BrainRouter` a dying process has the effects of `CallFails`, or of `CountFails`
  followed by `LogFails`, on the tables, and needs no action of its own.

## 4. Proofs

| Theorem | Statement | Assumes |
| --- | --- | --- |
| `TypeCorrect` | `Spec => []TypeOK` of `UniverseRefresh` | |
| `BreakerConsistent` | `Spec => []WellFormed(breaker, now)` | |
| `CountIsExact` | `Spec => []CountsConsecutiveFailures` | |
| `ImplementsBreaker` | `Spec => BreakerSpec`, the abstract breaker under its mapping | |
| `QuietWhileOpen` | `Spec => QuietInBackoff` | |
| `MarketTypeCorrect` | `MarketSpec => []MarketTypeOK` of `MarketScan` | |
| `ImplementsLock` | `MarketSpec => LockSpec`, the lease under its mapping | `GateTTLSuffices`: Latency < GateLockSlack; `ActorsDiffer`: no gate is an instance |
| `WritesInOrder` | `MarketSpec => LockKeepsOrder` | `ActorsDiffer` |
| `ImplementsDecision` | `MarketSpec => DecisionSpec`, the abstract gate under its mapping | |
| `SkipDiscards` | `MarketSpec => []OneSkipDiscardsAll` | |
| `AgesBounded` | `MarketSpec => ServedAgeBounded` | |
| `DegradedOnlyInOutage` | `MarketSpec => DegradedServeMeansOutage` | |
| `SelectionTypes` | `Spec => []SelectionTypeOK` of `CandidateSelection` | |
| `StoredMatchesVendor` | `Spec => []StoredIsVendors` | |
| `DuplicatesHaveMoved` | `Spec => []SeenTwiceHasMoved` | `BandsDisjoint` |
| `UnreadIsUseless` | `Spec => []UnreadBucketsUseless` | `BandsDisjoint` |
| `CandidatesMeetCriteria` | `Spec => []ChainMeetsCriteria` | |
| `PipelineTypes` | `Spec => []PipelineTypeOK` of `ScanPipeline` | `SomeBot` |
| `AuditedFirst` | `Spec => []HandOffsAudited` | `SomeBot` |
| `OneRow` | `Spec => []RetriesNeverRepeat` | `SomeBot` |
| `RevalidatedFirst` | `Spec => ScansOnlyRevalidated` | `SomeBot` |
| `HeadStart` | every dispatch tick has a refresh tick two minutes earlier | |
| `ResetPrecedesScans` | the day's rule reset comes at least 30 minutes before its first scan, in both seasons | |
| `ResetAfterMidnight` | the counters are zeroed at New York's midnight in winter, an hour after it in summer | |
| `SummaryAfterClose` | from the summary's tick on the market stays closed that day | |
| `SummerGap` | in summer no dispatch tick falls into the first half hour of trading | |
| `HuntersPartitionTheDay` | every open minute belongs to the morning or to the afternoon, to one of them | |
| `ActiveBotsRecovered` | `LifecycleSpec => []ActiveMeansRecovered` | |
| `WindowFixed` | `LifecycleSpec => WindowNeverMoves` | |
| `LifecycleTypes` | `LifecycleSpec => []LifecycleTypeOK` of `BotLifecycle` | |
| `WeekServed` | `LifecycleSpec => OneWeekServed` | |
| `HoldsStand` | `LifecycleSpec => []HoldStands` | |
| `PartitionTypes` | `Spec => []AuditTypeOK` | |
| `RetentionHolds` | `Spec => RetentionKept` | |
| `CompletedHasPrepared` | `Spec => CompletedRunPrepares` | |
| `CompletedHasDropped` | `Spec => CompletedRunDrops` | |
| `BrainTypes` | `Spec => []BrainTypeOK` | |
| `ChargedOnlyForAnswers` | `Spec => []NeverOvercharged` | |
| `OverrunIsConcurrency` | `Spec => []CapOverrunBounded` | |
| `BilledAndCapped` | `Spec => []AnswersAccounted` | |
| `ProcessTypes` | `Spec => []ProcessTypeOK` of `WorkerProcess` | |
| `KeyTells` | `Spec => []KeyTellsService` | `TTLCoversTwoBeats`: 2 * Interval < TTL, as 30 s against 90 s |
| `CutsHaveCauses` | `Spec => []CutHasCause` | |

They hold for every set of instances, gates, buckets, bots, symbols, callers, every schedule,
window and number of faults; those on the calendar (in `ScanPipelineProofs`) for every
minute of the week.
`SomeBot` says that there is a bot at all. Few of the properties
are inductive by themselves:

- `TypeInv` adds to the types that an instance holding a lock has a current
  bucket, without which `Head(todo)` has no type.
- `BreakerInv` adds that what an instance has read and not yet written back is well
  formed too: the write is a function of the value read, not of the one replaced.
- `CountInv` adds that whoever is about to record a failure has a job that failed: then
  a write over a value that was read adds one to both counts, and any other sets `raced`.
- `RefinementInv` is `BreakerInv` with `OwingInv`: an alert is owed by an instance that is about to
  send it. Then a step of the worker is a step of the abstract breaker or leaves it alone:
  the read of a failure is `Look`, its write `Fail` or `Open`, or `Race` if the hash is not
  what was read, the write of a success is `Succeed`, the alert and the crash before it
  are `Settle`, the crash before the write `Abandon`.
- `QuietInv` says that an instance past its check of the breaker is outside the backoff or was
  past it when the last failure was recorded: only a failure leads into the window, and
  time only out of it.
- `LeaseInv` says that a gate inside a lock whose key it owns owns it until its entry plus
  `GateLockTTL` at least; `PaceInv` that a gate inside is within `EvalBound` of its entry. So
  its own lease never ends under it, which is all of exclusion that needs an assumption:
  a sweep whose key has expired has overrun its lease, in the code as in `BucketLock`. A step
  then is one of five kinds, `Expires`, `Enters`, `Leaves`, `Fails` or `Stays`, and each
  kind is a step of `BucketLock` or leaves it alone.
- `OrderInv` says that who is about to write a bucket, and owns its key, brings an entry no
  older than the last that was written under the key; nothing is dated in the future.
  An actor that has lost the key owns none at its write, unless it takes the key
  again, and then it asks EODHD again.
- `ServeInv` says of an evaluation that its reading and its refresh are no older than
  the gate, and that what it decided to serve was within its limit when the gate was entered
  (`SoundInv`); that a running gate is younger than `EvalBound` (`EnteredInv`); and what a
  returned one made of its buckets (`ReturnedInv`). The bound on age is the sum of the two.
- `DecisionInv` adds to `ServeInv` that an evaluation has no outcome before it has refreshed or
  decided, that it read before it refreshed, and that no gate that runs or has returned has
  a failed evaluation. Each step of an evaluation then makes it think one of four things
  (`Thinks`): nothing new, what it looks at, what it has refreshed, or what it concludes
  without; a refresh that comes too late is the first of these, like a sweep's write.
- `OutageInv` is `ServeInv` with `BreakerInv` and `CountInv`: an open breaker has counted to the
  threshold, and the history with it unless a record has raced. Both lift to `MarketScan`
  because gates only read the breaker.
- `CacheInv` of `CandidateSelection` says of every row under way and stored that it lies
  in the sector and band of its bucket, that a symbol which has not moved still does, and
  that a row lacks only what it still waits for. Duplicates and unread buckets then are a
  matter of the bands being disjoint and of the derivation of sectors and tiers; `Answered`
  says what becomes of a row whose request is over, and that a fetch keeps all that was
  listed is part of `FetchOK`; `ScanInv` carries the same facts to what a scan has read.
- `ChainMeetsCriteria` counts: an entry is among the candidates as often as it is in the
  union, if every stage would keep it, and not at all otherwise. A stage keeps the elements at
  some positions, and `NthOf` lists these in ascending order: each element it leaves has a
  place of its own in what came in (`Places`), and every position kept is such a place
  (`Covers`). Places compose along the stages, the one that moves watched entries ahead
  included, and so the occurrences before and after are in bijection. That the eight stages
  are the eight reasons needs `Clean`: an entry of the union carries no Tier B label yet.
- `FetchTypes` and `ScanTypes` add to the types that rows are `Clean` and within the
  screener's limit, and that a scan that is done holds what the chain made of what it had read.
  The flattened union is typed without induction: a flattening of least
  length that left the entries would have a shorter one (`LeastNat`).
- `LifecycleTypes` rests on `CauseIsRule`: the recorded cause of a stand-down is the label
  of a rule that fired, whichever others fired with it.
- `PipelineInv` relates a job's place to what it has left behind: while it holds candidates it
  has one row more than it has handed on; it writes one row per delivery, none in this one
  before the step that writes it; one that has reached the chain was served (`Decided`);
  behind the first guard its bot has been ACTIVE in this delivery; and a job that is not over
  has an attempt left.
- `UntilInv` adds that the end dates a running reset has read are those in the table: only
  the reset writes them, and its list names each bot once. That is why writing back
  a date read outside the transaction moves no window.
- `DueInv` relates `dueAt`, a week after the beginning of a stand-down or the end date an
  earlier recovery had left, to the row: while the bot is stood down or a reset has it, the
  row's end date is no earlier, or there is none and the reset will count a week from now
  on. A user who sets the status meanwhile changes neither.
- `HoldInv` adds that a bot on hold since before the reset read its list is not on that list:
  the reset lists stood-down bots only, and what puts a bot on hold while it is listed
  does not count as standing.
- `NeverAhead`: a template, and so a job, may be months old and is never in the future.
- `DetachedPast` adds that what was ever detached or dropped is no newer than the month a job
  began in, so no job finds next month's partition among them; `Prepared` says what a job has
  behind it at each statement, also when an earlier attempt had created the partition already.
- `Swept` says that what is past its retention in the table at hand, and is not there for a
  DROP that failed, is still on the job's list, and nothing in the table before: the list
  holds whatever exists, and a retry begins with a new one.
- `Charged` equates what the counter lacks with the calls between answer and
  increment; `Exact` does the same for the current day with equality and bounds the
  calls at the provider. The overrun is then a count: whoever passed the cap check saw
  the counter below the cap, and everyone else is at most the number of callers less one.
  `Logged` is the same balance for the usage log; the two meet when no call is under way.
- `ProcessInv` is about the order of commands on the wire. `PhaseInv`: the interval runs
  from the first beat to the first signal and never again. `WireInv`: each shutdown has the
  one command on the wire that its progress names, and behind a DEL or QUIT comes no beat.
  `GoneInv`: once a DEL has been executed, only such commands are left, so nothing sets
  the key again, however many signals follow.
- `BeatInv` bounds the key from below by the last beat that succeeded (`LastBeat`), which was
  at most two intervals ago if at most one was missed since; `2 * Interval < TTL` does the rest.

Of the properties of the passing runs only liveness stays with TLC (`QueueDrains`,
`EveryGateDecides`, `ScansEnd`, `DrainEnds`): it rests on fairness and ENABLED, which are out
of the prover's reach. So are the three counterexamples. No module uses RECURSIVE, and the
stages of the filter chain are written with `Kept` instead of `SelectSeq`, whose LAMBDA and
recursion the provers cannot open.

## 5. Disagreements between the code and what is said of it

The three violation runs are the findings of `PROJECT.json`. Modelling met more; the model
does as the code in each, and no run is spent on them:

- A targeted refresh counts as a tick for the breaker (`universe-refresh.worker.ts:245`);
  `README.md:126` and `:232` speak of ticks about five minutes apart. A bucket with
  imminent earnings that fails can open the breaker for all.
- Two instances that read the breaker CLOSED both report `justOpened`
  (`universe-cache.ts:149`); `:134-137` promises one alert. They may also lose a failure,
  and one that writes after another's success brings the old count or an OPEN breaker
  back, so that past-threshold data may be served without an outage until the next
  success. `BreakerSpec`, `CountsConsecutiveFailures` and `DegradedServeMeansOutage` say what
  holds then (`Race`, `raced`), and the rest as long as nobody is overtaken.
- A sweep may outlive the 30 seconds of its lock (`universe-refresh.worker.ts:200`,
  requests have no timeout), and then deletes the lock of whoever came after it
  (`universe-cache.ts:200`). `LockSpec` calls that a lease overrun or ended by another.
- FAST data fresh when read is served past its threshold when a slower bucket keeps
  `Promise.all` (`staleness-gate.ts:170`, `:300`); `:232-233` says never.
  `ServedAgeBounded` gives the bound that does hold.
- A refresh that a gate has given up on still writes its bucket when EODHD answers, without
  the lock (`staleness-gate.ts:77-94`, `:212`): it can replace a newer entry of a sweep, as
  can a sweep that has lost its lock. `LockKeepsOrder` is about the other writes.
- EODHD's failures on one symbol are swallowed for `client_error` alone; a body that does
  not parse is no `EodhdApiError` and is skipped as well (`eodhd-client.ts:231`), though
  `:228` says everything systemic is rethrown. `StoredIsVendors` excepts refused symbols.
- The screener asks for 500 rows (`eodhd-client.ts:168`) and says nothing of what lies beyond.
- A bot without a relevant bucket makes the gate reduce an empty list, which throws
  (`staleness-gate.ts:306`); the cycle ends without an audit row.
- A symbol that moved between two fetches is in the union of buckets twice, and so may be
  among the candidates twice; `SeenTwiceHasMoved` says this is the only way.
- An earnings date in the past excludes a symbol for ever (`universe-filter-chain.ts:214`):
  stage 5 compares with the end of the window only.
- Approvals are evaluated by the same nine rules as proposals, none of which reads
  `bots.status` (`rule-engine.ts:267`); `:16-18` says a bot stood down meanwhile is caught.
- `standdown_reason` is looked up in the row of the current date
  (`rule-reset.worker.ts:48`), so from the next day on an open position does not keep a
  drawdown stand-down; `rule-engine.ts:40-42` and `rule-reset.worker.ts:45-47` say it does.
- The halved allocation is applied whatever its end date (`rule-engine.ts:427`) and ends
  only with another stand-down; `rule-reset.worker.test.ts:203` grants two days.
- A stand-down does not clear `recovery_mode_active_until`. The date left from an earlier
  halved allocation makes the reset clear the new mode (`rule-reset.worker.ts:77`), or passes
  for the window of a new STAND_DOWN_1W (`:97-98`), which then ends early. `OneWeekServed`
  holds such a stand-down to that date instead of to its week.
- An evaluation stands down a bot that is paused or archived as well, and the next reset
  makes it ACTIVE (`rule-engine.ts:294-306`, `rule-reset.worker.ts:22-26`, `:83-90`); a reset that
  has the bot on its list overwrites a pause that comes meanwhile (`:116`). `HoldStands` is
  about bots on hold otherwise.
- A plan bought between the read of the trials and the update is overwritten with
  `suspended` (`trial-expiry.worker.ts:48`; `:27` says trialing subscriptions only).
- A partition is attached before DELETE is revoked, and stays so when the REVOKE
  fails three times (`audit-log-partition.worker.ts:229`; `README.md:172` says before any rows).
- With default partitions, which both tables have, no DETACH CONCURRENTLY succeeds (`:315`), so
  `README.md:153` and `:165` promise a detach that never happens; a failed one is swallowed,
  not retried as `:342` says. What a completed job does achieve is its drops:
  `CompletedRunDrops`.
- Concurrency 1 of the dispatcher does not keep the next tick from enqueuing a bot whose scan
  still waits (`scan-dispatch.worker.ts:87`; `:19-20`), a scan delayed past the close still
  runs (`scan-bot.worker.ts:54`; `session-preference.ts:34-36` relies on the dispatcher),
  and the header of the dispatcher says every 15 minutes where `scheduler.ts:62` says every 5.
- The dispatcher's cron begins at 14:00 UTC, which in summer is half an hour after the
  opening (`scheduler.ts:62`, theorem `SummerGap`); `scan-dispatch.worker.ts:8` and
  `README.md:97` speak of the trading hours.
- `stopHeartbeat` runs outside any try block (`index.ts:117`): a failed DEL, or a second
  signal whose commands find the connection closed, is an unhandled rejection. Without
  Sentry it ends the process with its jobs; with Sentry it is logged, and after a failed DEL
  nothing drains until the platform's SIGKILL.
- The drain's 30 seconds begin after the heartbeat is stopped (`shutdown.ts:31`) and equal the
  platform's (`index.ts:15`), which counts from the signal: SIGKILL comes first.
- The workers poll from the imports on, before the heartbeat (`index.ts:6-8` lists them after
  it); a signal during start-up finds no handler and cuts their jobs off.
- A failed insert of the audit row ends the scan without one (`scan-bot.worker.ts:321`;
  `:252` and `README.md:296` say exactly one).
- Increments that fail add to the overrun of the cap (`brain-router.ts:282`; `:104` says
  concurrency - 1). `CapOverrunBounded` counts them.

## 6. Not modelled

- *Key decryption*: AES-GCM of one value; that it fails is one of the ways `CallFails`.
- *Connections and database*: client configuration; their errors are the fault actions.
- *Stub workers* (expiry, notification, reconciliation, summary) and their crons: they log
  and return. `SummaryAfterClose` is about the summary's cron.
- *Other queues*: declarations; attempts of the modelled jobs are in their modules.
- *Scripts*: run by developers outside the system.
- *Inside modelled components*: log rows of the rule engine and reminders of the trial job,
  which nothing reads; URLs, headers and masking of the EODHD client; prompts and models of
  the brain router; key formats and payloads of the cache; holidays and early closes,
  which the code does not know; the weeks in which the season changes
  (the calendar's theorems are for each season as a whole).

## 7. Plan

Done: every stateful component, three abstract specifications implemented, the runs
above, 43 theorems in eight modules; every safety and action property of the passing
runs is a theorem. What is left:

1. `ScanPipeline` lets its gate come to any outcome; it could be composed with `GateDecision`
   instead of assuming less.
