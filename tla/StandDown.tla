------------------------------ MODULE StandDown ------------------------------
(***************************************************************************)
(* The stand-down of a bot: the rule engine's evaluations, which cause it    *)
(* (src/src/lib/rule-engine.ts), and the NYSE-open cron, which ends it       *)
(* (src/src/workers/rule-reset.worker.ts), over the bots, bot_runtime_data   *)
(* and positions tables.                                                     *)
(*                                                                          *)
(* An evaluation is one step: it locks the bots row for its whole            *)
(* transaction.  The cron reads its list outside any transaction and then    *)
(* writes one row at a time without a lock or a second look at it, so each   *)
(* of its statements is a step of its own.                                   *)
(***************************************************************************)
EXTENDS RuleEngine, Integers

CONSTANTS
    Bots,
    None,                   \* NULL
    DayLength,              \* clock units per trading day
    TwoDays, OneWeek,       \* recovery windows of the reset cron, in clock units
    Modes,                  \* recovery modes the users configure
    RealPnL,                \* FALSE: stubbedPnLProvider; TRUE: Feature 14's provider
    SettingsChange,         \* users may change the recovery mode of a bot
    InputSizes,             \* bound: the size classes proposals come in
    InputLimits,            \* bound: the daily limits the P&L may have reached
    InputFacts,             \* bound: the world facts that may hold
    MaxTime                 \* bound: the clock stops here

ASSUME StandDownAssumption ==
    /\ DayLength \in Nat \ {0}
    /\ TwoDays \in Nat \ {0}
    /\ OneWeek \in Nat \ {0}
    /\ Modes \subseteq RecoveryModes
    /\ RealPnL \in BOOLEAN
    /\ SettingsChange \in BOOLEAN
    /\ InputSizes \subseteq Sizes
    /\ InputLimits \subseteq DailyLimits
    /\ InputFacts \subseteq WorldFacts
    /\ MaxTime \in Nat
    /\ None \notin Nat \cup RecoveryModes

VARIABLES
    now,        \* the wall clock
    bot,        \* bots: status, recovery_mode_applied, recovery_mode_active_until
    mode,       \* bot_settings.recovery_mode of the current settings
    row,        \* bot_runtime_data for CURRENT_DATE: limits reached and reason, or None
    open,       \* whether the bot has an OPEN position
    reset,      \* the rule-reset job: where it is, its list, the bot it is on
    lastReset,  \* the day of the last rule-reset job, or -1
    \* History, written by no code.
    dueAt,      \* when the last stand-down of the bot may end, if it is for a week
    freed,      \* the bots whose user has ended a stand-down by setting a status
    standing    \* the bots on hold (paused or archived) since before the reset under
                \* way, if any, read its list, and not stood down since

dbVars == <<bot, mode, row, open>>
jobVars == <<reset, lastReset>>
historyVars == <<dueAt, freed, standing>>
vars == <<now, dbVars, jobVars, historyVars>>

Today == now \div DayLength

Statuses == {"DRAFT", "ACTIVE", "PAUSED", "STOOD_DOWN", "ARCHIVED"}
BotRow == [status : Statuses, applied : RecoveryModes \cup {None},
           until : Nat \cup {None}]
RuntimeRow == [limits : SUBSET DailyLimits, reason : StanddownRules \cup {None}]
Listed == [bot : Bots, applied : RecoveryModes \cup {None}, until : Nat \cup {None}]

Idle == [at |-> "idle", list |-> {}, current |-> None, begun |-> 0]
Looping(list) == [at |-> "loop", list |-> list, current |-> None, begun |-> 0]

Init ==
    /\ now = 0
    /\ bot = [k \in Bots |-> [status |-> "DRAFT", applied |-> None, until |-> None]]
    /\ mode \in [Bots -> Modes]
    /\ row = [k \in Bots |-> None]
    /\ open = [k \in Bots |-> FALSE]
    /\ reset = Idle
    /\ lastReset = -1
    /\ dueAt = [k \in Bots |-> 0]
    /\ freed = {}
    /\ standing = {}

\* The bots the reset job has yet to write: on its list, or in its transaction.
InTransaction(k) == reset.at \in {"position", "update"} /\ reset.current.bot = k
Engaged == {k \in Bots : InTransaction(k) \/ \E entry \in reset.list : entry.bot = k}

-----------------------------------------------------------------------------
(* runEvaluation *)

\* What the engine reads for a proposal on bot k.
Context(k, exit, exitReason, size, facts) ==
    [exit |-> exit, exitReason |-> exitReason, size |-> size,
     applied |-> bot[k].applied, open |-> open[k],
     limits |-> IF row[k] = None THEN {} ELSE row[k].limits,
     facts |-> facts]

\* A stand-down that begins now ends with the week, counted from the transaction of the
\* reset that has the bot if there is one; or with the end date that an earlier recovery
\* has left in the row, which nothing clears.
EarliestEnd(k) ==
    IF bot[k].until # None THEN bot[k].until
    ELSE OneWeek + (IF InTransaction(k) THEN reset.begun ELSE now)

\* The bots and bot_runtime_data writes of a stand-down; the second touches no
\* row when there is none for today.
WriteStandDown(k, rule) ==
    /\ bot' = [bot EXCEPT ![k] =
                 [status |-> "STOOD_DOWN",
                  applied |-> IF rule = "MAX_DRAWDOWN_EXCEEDED" THEN None ELSE mode[k],
                  until |-> bot[k].until]]
    /\ row' = IF row[k] = None THEN row ELSE [row EXCEPT ![k].reason = rule]
    /\ dueAt' = IF bot[k].status = "STOOD_DOWN" THEN dueAt
                ELSE [dueAt EXCEPT ![k] = EarliestEnd(k)]
    /\ freed' = freed \ {k}
    /\ standing' = standing \ {k}

\* One evaluation, of either phase, that stands the bot down: the verdict, its audit
\* row and the stand-down commit together.  Nothing in it looks at bots.status.  The
\* other evaluations, the manual close that bypasses every rule and the transaction
\* that fails leave these tables as they are.
Evaluate(k) ==
    \E exit \in BOOLEAN, exitReason \in {"STOP_LOSS", "OTHER"}, size \in InputSizes,
       facts \in SUBSET InputFacts :
      LET rule == StanddownCause(Context(k, exit, exitReason, size, facts))
      IN
      /\ ~exit => exitReason = "OTHER"
      /\ "breached" \in facts => RealPnL
      /\ rule # "none"
      /\ WriteStandDown(k, rule)
      /\ UNCHANGED <<now, mode, open, jobVars>>

-----------------------------------------------------------------------------
(* processRuleReset *)

\* Mutant: every bot that is not ACTIVE.
NotActive == {k \in Bots : bot[k].status # "ACTIVE"}
StoodDown == {k \in Bots : bot[k].status = "STOOD_DOWN"}

\* The list of stood-down bots, read once and outside any transaction.
StartReset ==
    /\ reset.at = "idle"
    /\ lastReset < Today
    /\ lastReset' = Today
    /\ reset' = Looping(
         {[bot |-> k, applied |-> bot[k].applied, until |-> bot[k].until] : k \in StoodDown})
    /\ UNCHANGED <<now, dbVars, historyVars>>

\* A transaction begins with today's runtime row of the next bot.
BeginReset ==
    /\ reset.at = "loop"
    /\ \E entry \in reset.list :
         reset' = [at |-> IF /\ row[entry.bot] # None
                             /\ row[entry.bot].reason = "MAX_DRAWDOWN_EXCEEDED"
                          THEN "position" ELSE "update",
                   list |-> reset.list \ {entry}, current |-> entry, begun |-> now]
    /\ UNCHANGED <<now, dbVars, lastReset, historyVars>>

\* The drawdown guard: an open position keeps the bot as it is.
CheckPosition ==
    /\ reset.at = "position"
    /\ reset' = IF open[reset.current.bot] THEN Looping(reset.list)
                ELSE [at |-> "update", list |-> reset.list,
                      current |-> reset.current, begun |-> reset.begun]
    /\ UNCHANGED <<now, dbVars, lastReset, historyVars>>

Reactivated == [status |-> "ACTIVE", applied |-> None, until |-> None]

StoodDownUntil(t) ==
    [status |-> "STOOD_DOWN", applied |-> "STAND_DOWN_1W", until |-> t]

\* Mutants: no window for a bot without one; a new window at every run; the mode
\* kept when the window has passed.
WeekRowUnarmed(until, t) ==
    IF until # None /\ until > t THEN StoodDownUntil(until) ELSE Reactivated
WeekRowRearmed(until, t) ==
    IF until = None \/ until > t THEN StoodDownUntil(t + OneWeek) ELSE Reactivated
WeekRowKeepsMode(until, t) ==
    IF until = None THEN StoodDownUntil(t + OneWeek)
    ELSE IF until > t THEN StoodDownUntil(until)
    ELSE [status |-> "ACTIVE", applied |-> "STAND_DOWN_1W", until |-> None]

\* STAND_DOWN_1W: the first run sets the window, later ones wait for its end.
WeekRow(until, t) ==
    IF until = None THEN StoodDownUntil(t + OneWeek)
    ELSE IF until > t THEN StoodDownUntil(until)
    ELSE Reactivated

\* The bots row the reset writes, from the list entry it read earlier.
ResetRow(entry, t) ==
    IF entry.applied = None \/ (entry.until # None /\ entry.until < t)
    THEN Reactivated
    ELSE CASE entry.applied = "NORMAL" -> Reactivated
           [] entry.applied = "MORE_CONSERVATIVE_2D" ->
                [status |-> "ACTIVE", applied |-> "MORE_CONSERVATIVE_2D",
                 until |-> t + TwoDays]
           [] entry.applied = "STAND_DOWN_1W" -> WeekRow(entry.until, t)

\* UPDATE bots ... WHERE id, whatever the row has become, and the audit row.
CommitReset ==
    /\ reset.at = "update"
    /\ bot' = [bot EXCEPT ![reset.current.bot] = ResetRow(reset.current, reset.begun)]
    /\ reset' = Looping(reset.list)
    /\ freed' = freed \ {reset.current.bot}
    /\ UNCHANGED <<now, mode, row, open, lastReset, dueAt, standing>>

\* A transaction that throws is rolled back and the loop goes on.
ResetFails ==
    /\ reset.at \in {"position", "update"}
    /\ reset' = Looping(reset.list)
    /\ UNCHANGED <<now, dbVars, lastReset, historyVars>>

EndReset ==
    /\ reset.at = "loop"
    /\ reset.list = {}
    /\ reset' = Idle
    /\ UNCHANGED <<now, dbVars, lastReset, historyVars>>

-----------------------------------------------------------------------------
(* The environment: clock, API, broker and reconciliation. *)

\* A new day has no runtime row yet.
Tick ==
    /\ now < MaxTime
    /\ now' = now + 1
    /\ row' = IF (now + 1) \div DayLength = Today THEN row
              ELSE [k \in Bots |-> None]
    /\ UNCHANGED <<bot, mode, open, jobVars, historyVars>>

\* Reconciliation creates or updates today's row of a bot.
Reconcile(k) ==
    /\ \E limits \in SUBSET InputLimits :
         row' = [row EXCEPT ![k] =
                   [limits |-> limits,
                    reason |-> IF row[k] = None THEN None ELSE row[k].reason]]
    /\ UNCHANGED <<now, bot, mode, open, jobVars, historyVars>>

\* The broker fills an entry or an exit.
Fill(k) ==
    /\ open' = [open EXCEPT ![k] = ~@]
    /\ UNCHANGED <<now, bot, mode, row, jobVars, historyVars>>

\* The user saves new settings.
ChangeMode(k) ==
    /\ SettingsChange
    /\ \E m \in Modes : mode' = [mode EXCEPT ![k] = m]
    /\ UNCHANGED <<now, bot, row, open, jobVars, historyVars>>

ResetStep ==
    StartReset \/ BeginReset \/ CheckPosition \/ CommitReset \/ ResetFails \/ EndReset

Next ==
    \/ \E k \in Bots : Evaluate(k) \/ Reconcile(k) \/ Fill(k) \/ ChangeMode(k)
    \/ ResetStep
    \/ Tick

Spec == Init /\ [][Next]_vars

-----------------------------------------------------------------------------
(* Properties *)

\* Types of the tables, the job and the history: the only values any writer stores.
TypeOK ==
    /\ now \in 0..MaxTime
    /\ bot \in [Bots -> BotRow]
    /\ mode \in [Bots -> Modes]
    /\ row \in [Bots -> RuntimeRow \cup {None}]
    /\ open \in [Bots -> BOOLEAN]
    /\ reset \in [at : {"idle", "loop", "position", "update"},
                  list : SUBSET Listed, current : Listed \cup {None}, begun : Nat]
    /\ lastReset \in Int
    /\ dueAt \in [Bots -> Nat]
    /\ freed \subseteq Bots
    /\ standing \subseteq Bots

\* A bot that trades carries no recovery mode but the halved allocation, and that
\* one with its end date, however evaluations, resets and settings interleave; unless
\* its user has set the status of a bot that was stood down.
ActiveMeansRecovered ==
    \A k \in Bots \ freed : bot[k].status = "ACTIVE" =>
        \/ bot[k].applied = None /\ bot[k].until = None
        \/ bot[k].applied = "MORE_CONSERVATIVE_2D" /\ bot[k].until # None

\* The reset writes ACTIVE over a stand-down.
Reactivates(k) ==
    /\ reset.at = "update" /\ reset' # reset
    /\ bot[k].status = "STOOD_DOWN" /\ bot'[k].status = "ACTIVE"

\* A stand-down that the reset has listed under STAND_DOWN_1W is not ended by it before
\* the week is over, through any number of daily runs, failed transactions, further
\* evaluations and statuses set by the user: except that an end date left over from an
\* earlier recovery, which an evaluation does not clear, stands in for the week's.
OneWeekServed ==
    [][\A k \in Bots :
         Reactivates(k) /\ reset.current.applied = "STAND_DOWN_1W" => now >= dueAt[k]]_vars

\* The one-week window, once set, is neither extended by the daily resets that
\* find the bot still stood down nor by further evaluations.  (While the reset has the bot
\* the user may have set its status: the date it writes back is the one in the row.)
WindowNeverMoves ==
    [][\A k \in Bots :
         /\ bot[k].applied = "STAND_DOWN_1W"
         /\ bot[k].until # None
         /\ bot'[k].status = "STOOD_DOWN"
         => bot'[k].until = bot[k].until]_vars
=============================================================================
