--------------------------- MODULE StandDownProofs ---------------------------
(***************************************************************************)
(* Theorems about StandDown and BotLifecycle, for any bots, users, recovery   *)
(* modes, windows and inputs.                                                *)
(***************************************************************************)
EXTENDS BotLifecycle, TLAPS

\* The part of the type invariant the arguments below need.
RowsTyped ==
    /\ now \in Nat
    /\ bot \in [Bots -> BotRow]
    /\ mode \in [Bots -> Modes]
    /\ reset \in [at : {"idle", "loop", "position", "update"},
                  list : SUBSET Listed, current : Listed \cup {None}, begun : Nat]
    /\ reset.at \in {"position", "update"} => reset.current \in Listed

\* A stand-down writes a bots row and leaves its end date alone.
LEMMA WriteStandDownRow ==
    ASSUME RowsTyped, NEW k \in Bots, NEW rule, WriteStandDown(k, rule)
    PROVE  /\ bot' \in [Bots -> BotRow]
           /\ bot'[k].status = "STOOD_DOWN"
           /\ \A j \in Bots : bot'[j].until = bot[j].until
           /\ \A j \in Bots \ {k} : bot'[j] = bot[j]
<1> DEFINE new == [status |-> "STOOD_DOWN",
                   applied |-> IF rule = "MAX_DRAWDOWN_EXCEEDED" THEN None ELSE mode[k],
                   until |-> bot[k].until]
<1>1. bot' = [bot EXCEPT ![k] = new]
  BY DEF WriteStandDown
<1>2. mode[k] \in RecoveryModes
  BY StandDownAssumption DEF RowsTyped
<1>3. bot[k].until \in Nat \cup {None}
  <2>1. bot[k] \in BotRow
    BY DEF RowsTyped
  <2> QED
    BY <2>1 DEF BotRow
<1>4. new \in BotRow
  BY <1>2, <1>3 DEF BotRow, Statuses
<1>5. new.status = "STOOD_DOWN" /\ new.until = bot[k].until
  OBVIOUS
<1> HIDE DEF new
<1> QED
  BY <1>1, <1>4, <1>5 DEF RowsTyped

\* The step of an evaluation that stands a bot down: its bots row changes as above.
LEMMA EvaluateRow ==
    ASSUME RowsTyped, NEW k \in Bots, Evaluate(k)
    PROVE  /\ UNCHANGED <<now, mode, reset>>
           /\ \E rule : WriteStandDown(k, rule)
  BY Zenon DEF Evaluate, jobVars

\* The row a reset writes: a bots row, ACTIVE or stood down, and with ACTIVE recovered.
LEMMA ResetRowType ==
    ASSUME NEW e \in Listed, NEW t \in Nat
    PROVE  /\ ResetRow(e, t) \in BotRow
           /\ ResetRow(e, t).status \in {"ACTIVE", "STOOD_DOWN"}
           /\ ResetRow(e, t).status = "ACTIVE" =>
                \/ ResetRow(e, t).applied = None /\ ResetRow(e, t).until = None
                \/ /\ ResetRow(e, t).applied = "MORE_CONSERVATIVE_2D"
                   /\ ResetRow(e, t).until # None
<1>0. /\ t + TwoDays \in Nat /\ t + OneWeek \in Nat
      /\ None \notin Nat /\ None \notin RecoveryModes
  BY StandDownAssumption
<1>1. /\ Reactivated \in BotRow
      /\ Reactivated.status = "ACTIVE" /\ Reactivated.applied = None
      /\ Reactivated.until = None
  BY DEF Reactivated, BotRow, Statuses
<1>2. e.applied \in RecoveryModes \cup {None} /\ e.until \in Nat \cup {None}
  BY DEF Listed
<1>3. CASE e.applied = None \/ (e.until # None /\ e.until < t) \/ e.applied = "NORMAL"
  <2>1. ResetRow(e, t) = Reactivated
    BY <1>0, <1>3 DEF ResetRow, RecoveryModes
  <2> QED
    BY <1>1, <2>1
<1>4. CASE /\ ~(e.applied = None \/ (e.until # None /\ e.until < t))
           /\ e.applied = "MORE_CONSERVATIVE_2D"
  <2>1. ResetRow(e, t) = [status |-> "ACTIVE", applied |-> "MORE_CONSERVATIVE_2D",
                          until |-> t + TwoDays]
    BY <1>4 DEF ResetRow
  <2>2. t + TwoDays # None
    BY <1>0
  <2> QED
    BY <1>0, <2>1, <2>2 DEF BotRow, Statuses, RecoveryModes
<1>5. CASE /\ ~(e.applied = None \/ (e.until # None /\ e.until < t))
           /\ e.applied = "STAND_DOWN_1W"
  <2>1. CASE e.until = None
    <3>1. ResetRow(e, t) = [status |-> "STOOD_DOWN", applied |-> "STAND_DOWN_1W",
                            until |-> t + OneWeek]
      BY <1>5, <2>1 DEF ResetRow, WeekRow, StoodDownUntil
    <3> QED
      BY <1>0, <3>1 DEF BotRow, Statuses, RecoveryModes
  <2>2. CASE e.until # None /\ e.until > t
    <3>1. ResetRow(e, t) = [status |-> "STOOD_DOWN", applied |-> "STAND_DOWN_1W",
                            until |-> e.until]
      BY <1>5, <2>2 DEF ResetRow, WeekRow, StoodDownUntil
    <3> QED
      BY <1>2, <3>1 DEF BotRow, Statuses, RecoveryModes
  <2>3. CASE e.until # None /\ ~(e.until > t)
    <3>1. ResetRow(e, t) = Reactivated
      BY <1>5, <2>3 DEF ResetRow, WeekRow
    <3> QED
      BY <1>1, <3>1
  <2> QED
    BY <2>1, <2>2, <2>3
<1> QED
  BY <1>2, <1>3, <1>4, <1>5 DEF RecoveryModes

\* A reset that leaves the bot stood down keeps an end date that is already set.
LEMMA ResetRowKeepsUntil ==
    ASSUME NEW e \in Listed, NEW t \in Nat, e.until # None,
           ResetRow(e, t).status = "STOOD_DOWN"
    PROVE  ResetRow(e, t).until = e.until
<1>1. Reactivated.status # "STOOD_DOWN"
  BY DEF Reactivated
<1>2. ~(e.applied = None \/ (e.until # None /\ e.until < t)) /\ e.applied # "NORMAL"
  BY <1>1 DEF ResetRow
<1>3. e.applied \in RecoveryModes \cup {None}
  BY DEF Listed
<1>4. e.applied # "MORE_CONSERVATIVE_2D"
  <2> SUFFICES ASSUME e.applied = "MORE_CONSERVATIVE_2D"
               PROVE  FALSE
    OBVIOUS
  <2>1. ResetRow(e, t) = [status |-> "ACTIVE", applied |-> "MORE_CONSERVATIVE_2D",
                          until |-> t + TwoDays]
    BY <1>2 DEF ResetRow
  <2> QED
    BY <2>1
<1>5. e.applied = "STAND_DOWN_1W"
  BY <1>2, <1>3, <1>4 DEF RecoveryModes
<1>6. CASE e.until > t
  <2>1. ResetRow(e, t) = [status |-> "STOOD_DOWN", applied |-> "STAND_DOWN_1W",
                          until |-> e.until]
    BY <1>2, <1>5, <1>6 DEF ResetRow, WeekRow, StoodDownUntil
  <2> QED
    BY <2>1
<1>7. CASE ~(e.until > t)
  <2>1. ResetRow(e, t) = Reactivated
    BY <1>2, <1>5, <1>7 DEF ResetRow, WeekRow
  <2> QED
    BY <1>1, <2>1
<1> QED
  BY <1>6, <1>7

-----------------------------------------------------------------------------
(* What every step does to the rows and to the reset job *)

\* The database rows start well typed.
LEMMA RowsInit == Init => RowsTyped
<1> SUFFICES ASSUME Init
             PROVE  RowsTyped
  OBVIOUS
<1>1. Idle \in [at : {"idle", "loop", "position", "update"},
                list : SUBSET Listed, current : Listed \cup {None}, begun : Nat]
  BY DEF Idle
<1>2. Idle.at = "idle"
  BY DEF Idle
<1>3. bot \in [Bots -> BotRow]
  BY DEF Init, BotRow, Statuses
<1> QED
  BY <1>1, <1>2, <1>3 DEF Init, RowsTyped

\* What a reset job that is at the head of its loop looks like.
LEMMA LoopingType ==
    ASSUME NEW list \in SUBSET Listed
    PROVE  /\ Looping(list) \in [at : {"idle", "loop", "position", "update"},
                list : SUBSET Listed, current : Listed \cup {None}, begun : Nat]
           /\ Looping(list).at = "loop" /\ Looping(list).list = list
  BY DEF Looping

\* The list a reset starts from: one entry per stood-down bot, with its end date.
LEMMA StartResetList ==
    ASSUME RowsTyped, StartReset
    PROVE  \E list \in SUBSET Listed :
             /\ reset' = Looping(list)
             /\ \A e \in list : e.until = bot[e.bot].until
             /\ \A e \in list : bot[e.bot].status = "STOOD_DOWN"
             /\ \A e, f \in list : e.bot = f.bot => e = f
<1> DEFINE entry(k) == [bot |-> k, applied |-> bot[k].applied, until |-> bot[k].until]
           list == {entry(k) : k \in StoodDown}
<1>1. ASSUME NEW k \in Bots
      PROVE  /\ entry(k) \in Listed
             /\ entry(k).bot = k /\ entry(k).until = bot[k].until
  <2>1. bot[k] \in BotRow
    BY DEF RowsTyped
  <2> QED
    BY <2>1 DEF BotRow, Listed
<1>2. reset' = Looping(list)
  BY DEF StartReset
<1> HIDE DEF entry
<1>3. list \in SUBSET Listed
  BY <1>1 DEF StoodDown
<1>4. \A e \in list : e.until = bot[e.bot].until
  BY <1>1 DEF StoodDown
<1>5. \A e, f \in list : e.bot = f.bot => e = f
  BY <1>1 DEF StoodDown
<1>6. \A e \in list : bot[e.bot].status = "STOOD_DOWN"
  BY <1>1 DEF StoodDown
<1> HIDE DEF list
<1> QED
  BY <1>2, <1>3, <1>4, <1>5, <1>6

\* A transaction begins with one of the entries left.
LEMMA BeginResetEntry ==
    ASSUME RowsTyped, BeginReset
    PROVE  \E e \in reset.list, at \in {"position", "update"} :
             reset' = [at |-> at, list |-> reset.list \ {e}, current |-> e, begun |-> now]
  BY Zenon DEF BeginReset

\* The reset's write.
LEMMA CommitResetRow ==
    ASSUME RowsTyped, CommitReset
    PROVE  /\ reset.current \in Listed
           /\ bot' = [bot EXCEPT ![reset.current.bot] = ResetRow(reset.current, reset.begun)]
           /\ reset.begun \in Nat
           /\ reset' = Looping(reset.list)
           /\ UNCHANGED <<now, mode>>
  BY DEF CommitReset, RowsTyped

\* Every other step leaves the rows alone.
OtherStep ==
    \/ StartReset \/ BeginReset \/ CheckPosition \/ ResetFails \/ EndReset
    \/ Tick
    \/ \E k \in Bots : Reconcile(k) \/ Fill(k) \/ ChangeMode(k)
    \/ UNCHANGED vars

\* Steps that are neither evaluation nor reset leave the bots table alone.
LEMMA OtherStepRows == OtherStep => UNCHANGED bot
  BY DEF OtherStep, StartReset, BeginReset, CheckPosition, ResetFails,
         EndReset, Tick, Reconcile, Fill, ChangeMode, vars, dbVars

\* The steps that BotLifecycle adds.
LifecycleStep ==
    \/ StartTrialExpiry
    \/ \E u \in Users : ExpireTrial(u) \/ SkipTrial(u) \/ Upgrade(u)
    \/ \E k \in Bots : SetStatus(k)

\* Every step is an evaluation that writes, a commit of the reset job, one of trial
\* expiry and users, or one that leaves the bots table alone.
LEMMA LifecycleCases ==
    [LifecycleNext]_lifecycleVars => \/ \E k \in Bots : Evaluate(k)
                                     \/ CommitReset
                                     \/ OtherStep
                                     \/ LifecycleStep
<1>1. [Next]_vars => (\E k \in Bots : Evaluate(k)) \/ CommitReset \/ OtherStep
  BY Zenon DEF Next, ResetStep, OtherStep
<1>2. [LifecycleNext]_lifecycleVars => [Next]_vars \/ LifecycleStep
  BY Zenon DEF LifecycleNext, LifecycleStep, lifecycleVars
<1> QED
  BY <1>1, <1>2

\* What users and trial expiry do to a bot: they change its status only, stand no bot
\* down, and the history records the stand-downs they end and the bots they put on hold.
LEMMA LifecycleStepRows ==
    ASSUME RowsTyped, LifecycleStep
    PROVE  /\ UNCHANGED <<now, mode, reset, dueAt>>
           /\ bot' \in [Bots -> BotRow]
           /\ \A j \in Bots : /\ bot'[j].applied = bot[j].applied
                              /\ bot'[j].until = bot[j].until
                              /\ bot'[j].status = "STOOD_DOWN" => bot[j].status = "STOOD_DOWN"
                              /\ j \notin freed' =>
                                   /\ j \notin freed
                                   /\ bot[j].status = "STOOD_DOWN" => bot'[j] = bot[j]
           /\ \A j \in Bots : j \in standing' =>
                \/ bot'[j].status \in OnHold /\ j \notin Engaged
                \/ j \in standing /\ (bot'[j] = bot[j] \/ bot[j].status = "ACTIVE")
<1> DEFINE Rows(j) == /\ bot'[j].applied = bot[j].applied
                      /\ bot'[j].until = bot[j].until
                      /\ bot'[j].status = "STOOD_DOWN" => bot[j].status = "STOOD_DOWN"
                      /\ j \notin freed' =>
                           /\ j \notin freed
                           /\ bot[j].status = "STOOD_DOWN" => bot'[j] = bot[j]
           Holds(j) == j \in standing' =>
                \/ bot'[j].status \in OnHold /\ j \notin Engaged
                \/ j \in standing /\ (bot'[j] = bot[j] \/ bot[j].status = "ACTIVE")
<1>0. bot \in [Bots -> BotRow]
  BY DEF RowsTyped
<1>1. ASSUME NEW j \in Bots, NEW s \in Statuses
      PROVE  /\ [bot[j] EXCEPT !.status = s] \in BotRow
             /\ [bot[j] EXCEPT !.status = s].status = s
             /\ [bot[j] EXCEPT !.status = s].applied = bot[j].applied
             /\ [bot[j] EXCEPT !.status = s].until = bot[j].until
  BY <1>0 DEF BotRow
<1>2. {"ACTIVE", "PAUSED", "ARCHIVED"} \subseteq Statuses
  BY DEF Statuses
<1>3. CASE UNCHANGED <<now, mode, reset, bot, dueAt, freed, standing>>
  BY <1>0, <1>3
<1>4. CASE StartTrialExpiry \/ \E u \in Users : SkipTrial(u) \/ Upgrade(u)
  <2>1. UNCHANGED vars
    BY <1>4 DEF StartTrialExpiry, SkipTrial, Upgrade
  <2> QED
    BY <1>3, <2>1 DEF vars, dbVars, jobVars, historyVars
<1>5. ASSUME NEW u \in Users, ExpireTrial(u)
      PROVE  /\ UNCHANGED <<now, mode, reset, dueAt>>
             /\ bot' \in [Bots -> BotRow]
             /\ \A j \in Bots : Rows(j) /\ Holds(j)
  <2>1. /\ UNCHANGED <<now, mode, reset, dueAt, freed>>
        /\ bot' = [k \in Bots |-> IF UserOf[k] = u /\ bot[k].status = "ACTIVE"
                                  THEN [bot[k] EXCEPT !.status = "PAUSED"] ELSE bot[k]]
        /\ standing' = standing \cup
             {k \in Bots \ Engaged : UserOf[k] = u /\ bot[k].status = "ACTIVE"}
    BY <1>5, Zenon DEF ExpireTrial, jobVars
  <2>2. ASSUME NEW j \in Bots
        PROVE  bot'[j] \in BotRow /\ Rows(j) /\ Holds(j)
    <3>1. bot'[j] = IF UserOf[j] = u /\ bot[j].status = "ACTIVE"
                    THEN [bot[j] EXCEPT !.status = "PAUSED"] ELSE bot[j]
      BY <2>1, Zenon
    <3>2. bot[j] \in BotRow /\ "PAUSED" \in OnHold
      BY <1>0 DEF OnHold
    <3>3. CASE UserOf[j] = u /\ bot[j].status = "ACTIVE"
      <4>1. /\ bot'[j] \in BotRow /\ bot'[j].status = "PAUSED"
            /\ bot'[j].applied = bot[j].applied /\ bot'[j].until = bot[j].until
        BY <1>1, <1>2, <3>1, <3>3
      <4>2. Rows(j)
        BY <2>1, <3>3, <4>1
      <4>3. Holds(j)
        BY <2>1, <3>2, <3>3, <4>1
      <4> QED
        BY <4>1, <4>2, <4>3
    <3>4. CASE ~(UserOf[j] = u /\ bot[j].status = "ACTIVE")
      BY <2>1, <3>1, <3>2, <3>4
    <3> QED
      BY <3>3, <3>4
  <2>3. DOMAIN bot' = Bots /\ bot' = [j \in Bots |-> bot'[j]]
    BY <2>1, Zenon
  <2>4. \A j \in Bots : bot'[j] \in BotRow
    BY <2>2
  <2>5. bot' \in [Bots -> BotRow]
    BY <2>3, <2>4
  <2> QED
    BY <2>1, <2>2, <2>5
<1>6. ASSUME NEW k \in Bots, SetStatus(k)
      PROVE  /\ UNCHANGED <<now, mode, reset, dueAt>>
             /\ bot' \in [Bots -> BotRow]
             /\ \A j \in Bots : Rows(j) /\ Holds(j)
  <2>1. PICK s \in OnHold \cup {"ACTIVE"} :
          /\ bot' = [bot EXCEPT ![k] = [bot[k] EXCEPT !.status = s]]
          /\ freed' = IF bot[k].status = "STOOD_DOWN" THEN freed \cup {k} ELSE freed
          /\ standing' = IF s \in OnHold /\ k \notin Engaged THEN standing \cup {k}
                         ELSE standing \ {k}
          /\ UNCHANGED <<now, mode, reset, dueAt>>
    BY <1>6, Zenon DEF SetStatus, jobVars
  <2>2. s \in Statuses /\ s # "STOOD_DOWN"
    BY <1>2 DEF OnHold
  <2> DEFINE new == [bot[k] EXCEPT !.status = s]
  <2>3. /\ new \in BotRow /\ new.status = s
        /\ new.applied = bot[k].applied /\ new.until = bot[k].until
    BY <1>1, <2>2
  <2>4. bot' = [bot EXCEPT ![k] = new]
    BY <2>1, Zenon
  <2> HIDE DEF new
  <2>5. bot' \in [Bots -> BotRow] /\ bot'[k] = new /\ \A j \in Bots \ {k} : bot'[j] = bot[j]
    BY <1>0, <2>3, <2>4
  <2>6. ASSUME NEW j \in Bots
        PROVE  Rows(j)
    <3>1. CASE j = k
      BY <2>1, <2>2, <2>3, <2>5, <3>1
    <3>2. CASE j # k
      BY <2>1, <2>5, <3>2
    <3> QED
      BY <3>1, <3>2
  <2>7. ASSUME NEW j \in Bots
        PROVE  Holds(j)
    <3>1. CASE j = k
      BY <2>1, <2>3, <2>5, <3>1
    <3>2. CASE j # k
      BY <2>1, <2>5, <3>2
    <3> QED
      BY <3>1, <3>2
  <2> QED
    BY <2>1, <2>5, <2>6, <2>7
<1> HIDE DEF Rows, Holds
<1>7. (/\ UNCHANGED <<now, mode, reset, dueAt>>
       /\ bot' \in [Bots -> BotRow]
       /\ \A j \in Bots : Rows(j) /\ Holds(j))
      \/ StartTrialExpiry \/ (\E u \in Users : SkipTrial(u) \/ Upgrade(u))
  BY <1>5, <1>6, Zenon DEF LifecycleStep
<1>8. CASE /\ UNCHANGED <<now, mode, reset, dueAt>>
           /\ bot' \in [Bots -> BotRow]
           /\ \A j \in Bots : Rows(j) /\ Holds(j)
  BY <1>8 DEF Rows, Holds
<1> QED
  BY <1>4, <1>7, <1>8

\* The reset job after a step that is neither an evaluation nor a commit.
LEMMA OtherStepReset ==
    ASSUME RowsTyped, OtherStep
    PROVE  \/ UNCHANGED reset
           \/ StartReset
           \/ BeginReset
           \/ /\ reset.at = "position"
              /\ reset' = [at |-> "update", list |-> reset.list,
                           current |-> reset.current, begun |-> reset.begun]
           \/ reset' = Looping(reset.list)
           \/ reset' = Idle
  BY Zenon DEF OtherStep, CheckPosition, ResetFails,
         EndReset, Tick, Reconcile, Fill, ChangeMode, vars, jobVars

\* Every step keeps the rows well typed.
LEMMA RowsStep == RowsTyped /\ [LifecycleNext]_lifecycleVars => RowsTyped'
<1> SUFFICES ASSUME RowsTyped, [LifecycleNext]_lifecycleVars
             PROVE  RowsTyped'
  OBVIOUS
<1> DEFINE ResetType == [at : {"idle", "loop", "position", "update"},
                         list : SUBSET Listed, current : Listed \cup {None}, begun : Nat]
<1>0. reset \in ResetType /\ now \in Nat
  BY DEF RowsTyped
<1>1. ASSUME NEW k \in Bots, Evaluate(k)
      PROVE  RowsTyped'
  <2>1. UNCHANGED <<now, mode, reset>> /\ bot' \in [Bots -> BotRow]
    BY <1>1, EvaluateRow, WriteStandDownRow DEF RowsTyped
  <2> QED
    BY <2>1 DEF RowsTyped
<1>2. CASE CommitReset
  <2>1. ResetRow(reset.current, reset.begun) \in BotRow
    BY <1>2, CommitResetRow, ResetRowType
  <2>2. bot' \in [Bots -> BotRow]
    BY <1>2, <2>1, CommitResetRow DEF RowsTyped
  <2>3. reset' \in ResetType /\ reset'.at = "loop"
    <3>1. reset.list \in SUBSET Listed
      BY <1>0
    <3> QED
      BY <1>2, <3>1, CommitResetRow, LoopingType
  <2> QED
    BY <1>2, <2>2, <2>3, CommitResetRow DEF RowsTyped
<1>3. CASE OtherStep
  <2>1. bot' = bot
    BY <1>3, OtherStepRows
  <2>2. now' \in Nat /\ mode' \in [Bots -> Modes]
    BY <1>3, <1>0 DEF RowsTyped, OtherStep, StartReset, BeginReset, CheckPosition,
         ResetFails, EndReset, Tick, Reconcile, Fill, ChangeMode, vars, dbVars
  <2>3. /\ reset' \in ResetType
        /\ reset'.at \in {"position", "update"} => reset'.current \in Listed
    <3>0. reset.list \in SUBSET Listed
      BY <1>0
    <3>1. CASE UNCHANGED reset
      BY <1>0, <3>1 DEF RowsTyped
    <3>2. CASE StartReset
      BY <3>2, StartResetList, LoopingType
    <3>3. CASE BeginReset
      <4>1. PICK e \in reset.list, at \in {"position", "update"} :
              reset' = [at |-> at, list |-> reset.list \ {e}, current |-> e, begun |-> now]
        BY <3>3, BeginResetEntry
      <4> QED
        BY <1>0, <3>0, <4>1
    <3>4. CASE /\ reset.at = "position"
               /\ reset' = [at |-> "update", list |-> reset.list,
                            current |-> reset.current, begun |-> reset.begun]
      BY <1>0, <3>4 DEF RowsTyped
    <3>5. CASE reset' = Looping(reset.list)
      BY <3>0, <3>5, LoopingType
    <3>6. CASE reset' = Idle
      BY <3>6 DEF Idle
    <3> QED
      BY <1>3, <3>1, <3>2, <3>3, <3>4, <3>5, <3>6, OtherStepReset
  <2> QED
    BY <2>1, <2>2, <2>3 DEF RowsTyped
<1>4. CASE LifecycleStep
  <2>1. UNCHANGED <<now, mode, reset>> /\ bot' \in [Bots -> BotRow]
    BY <1>4, LifecycleStepRows
  <2> QED
    BY <2>1 DEF RowsTyped
<1> QED
  BY <1>1, <1>2, <1>3, <1>4, LifecycleCases

\* The rows are well typed in every reachable state.
LEMMA RowsHold == LifecycleSpec => []RowsTyped
<1>1. LifecycleInit => RowsTyped
  BY RowsInit DEF LifecycleInit
<1> QED
  BY <1>1, RowsStep, PTL DEF LifecycleSpec

-----------------------------------------------------------------------------
(* Active bots are recovered *)

RecoveredRow(r) ==
    \/ r.applied = None /\ r.until = None
    \/ r.applied = "MORE_CONSERVATIVE_2D" /\ r.until # None

\* Not only ACTIVE bots: none is put on hold with a recovery mode it should not have,
\* and brought back with it, but one that its user takes out of a stand-down.
RecoveredInv == \A k \in Bots \ freed : bot[k].status # "STOOD_DOWN" => RecoveredRow(bot[k])

\* What the reset and the evaluations do to the stand-downs ended by users.
LEMMA FreedStep ==
    /\ \A k \in Bots : Evaluate(k) => freed' = freed \ {k}
    /\ CommitReset => freed' = freed \ {reset.current.bot}
    /\ OtherStep => UNCHANGED <<freed, dueAt, standing>>
<1>1. ASSUME NEW k \in Bots, Evaluate(k)
      PROVE  freed' = freed \ {k}
  BY <1>1, Zenon DEF Evaluate, WriteStandDown
<1>2. CommitReset => freed' = freed \ {reset.current.bot}
  BY DEF CommitReset
<1>3. OtherStep => UNCHANGED <<freed, dueAt, standing>>
  BY DEF OtherStep, StartReset, BeginReset, CheckPosition, ResetFails, EndReset, Tick,
         Reconcile, Fill, ChangeMode, vars, historyVars
<1> QED
  BY <1>1, <1>2, <1>3

\* No step leaves a bot that is not stood down a recovery mode it should not carry.
LEMMA RecoveredStep ==
    RowsTyped /\ RecoveredInv /\ [LifecycleNext]_lifecycleVars => RecoveredInv'
<1> SUFFICES ASSUME RowsTyped, RecoveredInv, [LifecycleNext]_lifecycleVars,
                    NEW k \in Bots, k \notin freed', bot'[k].status # "STOOD_DOWN"
             PROVE  RecoveredRow(bot'[k])
  BY DEF RecoveredInv
<1>0. CASE bot'[k] = bot[k] /\ k \notin freed
  BY <1>0 DEF RecoveredInv
<1>1. ASSUME NEW j \in Bots, Evaluate(j)
      PROVE  RecoveredRow(bot'[k])
  <2>1. k # j /\ bot'[k] = bot[k]
    BY <1>1, EvaluateRow, WriteStandDownRow
  <2> QED
    BY <1>0, <1>1, <2>1, FreedStep
<1>2. CASE CommitReset
  <2>1. CASE k = reset.current.bot
    <3>1. bot'[k] = ResetRow(reset.current, reset.begun)
      BY <1>2, <2>1, CommitResetRow DEF RowsTyped
    <3>2. bot'[k].status = "ACTIVE"
      BY <1>2, <3>1, CommitResetRow, ResetRowType
    <3> QED
      BY <1>2, <3>1, <3>2, CommitResetRow, ResetRowType DEF RecoveredRow
  <2>2. CASE k # reset.current.bot
    BY <1>0, <1>2, <2>2, CommitResetRow, FreedStep DEF RowsTyped
  <2> QED
    BY <2>1, <2>2
<1>3. CASE OtherStep
  BY <1>0, <1>3, OtherStepRows, FreedStep
<1>4. CASE LifecycleStep
  <2>1. /\ bot'[k].applied = bot[k].applied /\ bot'[k].until = bot[k].until
        /\ k \notin freed
        /\ bot[k].status = "STOOD_DOWN" => bot'[k] = bot[k]
    BY <1>4, LifecycleStepRows
  <2> QED
    BY <2>1 DEF RecoveredInv, RecoveredRow
<1> QED
  BY <1>1, <1>2, <1>3, <1>4, LifecycleCases

\* For any bots, settings, trials and statuses set by users, and whatever evaluations come
\* between a reset's read and its write: a bot that is ACTIVE carries no recovery mode, or
\* the halved allocation with its end date, unless its user took it out of a stand-down.
THEOREM ActiveBotsRecovered == LifecycleSpec => []ActiveMeansRecovered
<1>1. LifecycleInit => RecoveredInv
  BY DEF LifecycleInit, Init, RecoveredInv, RecoveredRow
<1>2. RecoveredInv => ActiveMeansRecovered
  BY DEF RecoveredInv, RecoveredRow, ActiveMeansRecovered
<1> QED
  BY <1>1, <1>2, RowsHold, RecoveredStep, PTL DEF LifecycleSpec

-----------------------------------------------------------------------------
(* The one-week window *)

UnderWay == reset.at \in {"position", "update"}

\* What a reset job has read about the end dates is still so: only the reset itself
\* writes them, and it comes to each bot once.
UntilInv ==
    /\ \A e \in reset.list : e.until = bot[e.bot].until
    /\ \A e, f \in reset.list : e.bot = f.bot => e = f
    /\ UnderWay => /\ reset.current.until = bot[reset.current.bot].until
                   /\ \A e \in reset.list : e.bot # reset.current.bot

\* No step disturbs what the reset job believes about the windows it has read.
LEMMA UntilStep ==
    RowsTyped /\ UntilInv /\ [LifecycleNext]_lifecycleVars => UntilInv'
<1> SUFFICES ASSUME RowsTyped, UntilInv, [LifecycleNext]_lifecycleVars
             PROVE  UntilInv'
  OBVIOUS
<1>0. /\ reset.list \subseteq Listed
      /\ UnderWay => reset.current \in Listed
      /\ \A e \in Listed : e.bot \in Bots
      /\ bot \in [Bots -> BotRow]
  BY DEF RowsTyped, UnderWay, Listed
<1>1. ASSUME NEW k \in Bots, Evaluate(k)
      PROVE  UntilInv'
  <2>1. reset' = reset /\ \A j \in Bots : bot'[j].until = bot[j].until
    BY <1>1, EvaluateRow, WriteStandDownRow
  <2> QED
    BY <1>0, <2>1 DEF UntilInv, UnderWay
<1>2. CASE CommitReset
  <2>1. /\ UnderWay
        /\ reset' = Looping(reset.list)
        /\ bot' = [bot EXCEPT ![reset.current.bot] = ResetRow(reset.current, reset.begun)]
    BY <1>2, CommitResetRow DEF CommitReset, UnderWay
  <2>2. reset'.at = "loop" /\ reset'.list = reset.list
    BY <1>0, <2>1, LoopingType
  <2>3. \A e \in reset.list : bot'[e.bot] = bot[e.bot]
    BY <1>0, <2>1 DEF UntilInv
  <2> QED
    BY <2>2, <2>3 DEF UntilInv, UnderWay
<1>3. CASE OtherStep
  <2>0. bot' = bot
    BY <1>3, OtherStepRows
  <2>1. CASE UNCHANGED reset
    BY <2>0, <2>1 DEF UntilInv, UnderWay
  <2>2. CASE StartReset
    <3>1. PICK list \in SUBSET Listed :
            /\ reset' = Looping(list)
            /\ \A e \in list : e.until = bot[e.bot].until
            /\ \A e, f \in list : e.bot = f.bot => e = f
      BY <2>2, StartResetList
    <3>2. reset'.at = "loop" /\ reset'.list = list
      BY <3>1, LoopingType
    <3> QED
      BY <2>0, <3>1, <3>2 DEF UntilInv, UnderWay
  <2>3. CASE BeginReset
    <3>1. PICK e \in reset.list, at \in {"position", "update"} :
            reset' = [at |-> at, list |-> reset.list \ {e}, current |-> e, begun |-> now]
      BY <2>3, BeginResetEntry
    <3>2. reset'.list = reset.list \ {e} /\ reset'.current = e
      BY <3>1
    <3> QED
      BY <2>0, <3>2 DEF UntilInv
  <2>4. CASE /\ reset.at = "position"
             /\ reset' = [at |-> "update", list |-> reset.list,
                          current |-> reset.current, begun |-> reset.begun]
    <3>1. reset'.list = reset.list /\ reset'.current = reset.current /\ UnderWay
      BY <2>4 DEF UnderWay
    <3> QED
      BY <2>0, <3>1 DEF UntilInv
  <2>5. CASE reset' = Looping(reset.list)
    <3>1. reset'.at = "loop" /\ reset'.list = reset.list
      BY <1>0, <2>5, LoopingType
    <3> QED
      BY <2>0, <3>1 DEF UntilInv, UnderWay
  <2>6. CASE reset' = Idle
    <3>1. reset'.at = "idle" /\ reset'.list = {}
      BY <2>6 DEF Idle
    <3> QED
      BY <3>1 DEF UntilInv, UnderWay
  <2> QED
    BY <1>3, <2>1, <2>2, <2>3, <2>4, <2>5, <2>6, OtherStepReset
<1>4. CASE LifecycleStep
  <2>1. reset' = reset /\ \A j \in Bots : bot'[j].until = bot[j].until
    BY <1>4, LifecycleStepRows
  <2> QED
    BY <1>0, <2>1 DEF UntilInv, UnderWay
<1> QED
  BY <1>1, <1>2, <1>3, <1>4, LifecycleCases

\* A single step does not move a one-week window that is set.
LEMMA WindowStep ==
    RowsTyped /\ UntilInv /\ [LifecycleNext]_lifecycleVars
    => \A k \in Bots :
         /\ bot[k].applied = "STAND_DOWN_1W"
         /\ bot[k].until # None
         /\ bot'[k].status = "STOOD_DOWN"
         => bot'[k].until = bot[k].until
<1> SUFFICES ASSUME RowsTyped, UntilInv, [LifecycleNext]_lifecycleVars, NEW k \in Bots,
                    bot[k].until # None, bot'[k].status = "STOOD_DOWN"
             PROVE  bot'[k].until = bot[k].until
  OBVIOUS
<1>1. ASSUME NEW j \in Bots, Evaluate(j)
      PROVE  bot'[k].until = bot[k].until
  BY <1>1, EvaluateRow, WriteStandDownRow
<1>2. CASE CommitReset
  <2>1. CASE k = reset.current.bot
    <3>1. bot'[k] = ResetRow(reset.current, reset.begun)
      BY <1>2, <2>1, CommitResetRow DEF RowsTyped
    <3>2. reset.current.until = bot[k].until
      BY <1>2, <2>1 DEF CommitReset, UntilInv, UnderWay
    <3> QED
      BY <1>2, <3>1, <3>2, CommitResetRow, ResetRowKeepsUntil
  <2>2. CASE k # reset.current.bot
    BY <1>2, <2>2, CommitResetRow DEF RowsTyped
  <2> QED
    BY <2>1, <2>2
<1>3. CASE OtherStep
  BY <1>3, OtherStepRows
<1>4. CASE LifecycleStep
  BY <1>4, LifecycleStepRows
<1> QED
  BY <1>1, <1>2, <1>3, <1>4, LifecycleCases

\* The beginning, for the reset job.
LEMMA IdleAtFirst == LifecycleInit => /\ reset.list = {} /\ ~UnderWay
                                      /\ Engaged = {} /\ UntilInv
<1>1. Idle.at = "idle" /\ Idle.list = {}
  BY DEF Idle
<1>2. LifecycleInit => reset.list = {} /\ reset.at = "idle"
  BY <1>1 DEF LifecycleInit, Init
<1> QED
  BY <1>2 DEF UnderWay, Engaged, InTransaction, UntilInv

\* For any bots, windows and users: once a reset has set the end of a one-week stand-down,
\* neither the daily resets that find the bot stood down nor evaluations in between
\* move it, although the reset writes back a date it read outside its transaction, and
\* possibly over a status that its user has set since.
THEOREM WindowFixed == LifecycleSpec => WindowNeverMoves
<1>1. LifecycleInit => UntilInv
  BY IdleAtFirst
<1>2. RowsTyped /\ UntilInv /\ [LifecycleNext]_lifecycleVars
      => [\A k \in Bots :
            /\ bot[k].applied = "STAND_DOWN_1W"
            /\ bot[k].until # None
            /\ bot'[k].status = "STOOD_DOWN"
            => bot'[k].until = bot[k].until]_vars
  BY WindowStep
<1> QED
  BY <1>1, <1>2, RowsHold, UntilStep, PTL DEF LifecycleSpec, WindowNeverMoves

-----------------------------------------------------------------------------
(* The bots the reset has yet to write *)

\* A bot comes onto the reset's list only stood down, and what begins a transaction dates
\* it; the other steps keep both, or let go of bots.
LEMMA OtherStepEngaged ==
    ASSUME RowsTyped, OtherStep, NEW k \in Bots
    PROVE  /\ k \in Engaged' => k \in Engaged \/ bot[k].status = "STOOD_DOWN"
           /\ InTransaction(k)' => \/ InTransaction(k) /\ reset'.begun = reset.begun
                                   \/ reset'.begun = now
<1>0. reset.list \subseteq Listed
  BY DEF RowsTyped
<1>1. CASE UNCHANGED reset
  BY <1>1 DEF Engaged, InTransaction
<1>2. CASE StartReset
  <2>1. PICK list \in SUBSET Listed :
          /\ reset' = Looping(list)
          /\ \A e \in list : bot[e.bot].status = "STOOD_DOWN"
    BY <1>2, StartResetList
  <2>2. reset'.at = "loop" /\ reset'.list = list
    BY <2>1, LoopingType
  <2> QED
    BY <2>1, <2>2 DEF Engaged, InTransaction
<1>3. CASE BeginReset
  <2>1. PICK e \in reset.list, at \in {"position", "update"} :
          reset' = [at |-> at, list |-> reset.list \ {e}, current |-> e, begun |-> now]
    BY <1>3, BeginResetEntry
  <2>2. reset'.list = reset.list \ {e} /\ reset'.current = e /\ reset'.begun = now
    BY <2>1
  <2> QED
    BY <2>2 DEF Engaged, InTransaction
<1>4. CASE /\ reset.at = "position"
           /\ reset' = [at |-> "update", list |-> reset.list,
                        current |-> reset.current, begun |-> reset.begun]
  <2>1. /\ reset'.list = reset.list /\ reset'.current = reset.current
        /\ reset'.begun = reset.begun
    BY <1>4
  <2> QED
    BY <1>4, <2>1 DEF Engaged, InTransaction
<1>5. CASE reset' = Looping(reset.list)
  <2>1. reset'.at = "loop" /\ reset'.list = reset.list
    BY <1>0, <1>5, LoopingType
  <2> QED
    BY <2>1 DEF Engaged, InTransaction
<1>6. CASE reset' = Idle
  <2>1. reset'.at = "idle" /\ reset'.list = {}
    BY <1>6 DEF Idle
  <2> QED
    BY <2>1 DEF Engaged, InTransaction
<1> QED
  BY <1>1, <1>2, <1>3, <1>4, <1>5, <1>6, OtherStepReset

\* A commit lets go of the bot it has written, and of no other.
LEMMA CommitEngaged ==
    ASSUME RowsTyped, UntilInv, CommitReset
    PROVE  /\ reset.current.bot \in Bots /\ InTransaction(reset.current.bot)
           /\ reset.current.until = bot[reset.current.bot].until
           /\ \A k \in Bots : ~InTransaction(k)'
           /\ Engaged' = Engaged \ {reset.current.bot}
<1>1. reset.current \in Listed /\ reset' = Looping(reset.list) /\ reset.list \in SUBSET Listed
  BY CommitResetRow DEF RowsTyped
<1>2. reset'.at = "loop" /\ reset'.list = reset.list
  BY <1>1, LoopingType
<1>3. UnderWay /\ reset.at = "update"
  BY DEF CommitReset, UnderWay
<1>4. \A e \in reset.list : e.bot # reset.current.bot
  BY <1>3 DEF UntilInv
<1>5. reset.current.bot \in Bots
  BY <1>1 DEF Listed
<1>6. \A k \in Bots : ~InTransaction(k)'
  BY <1>2 DEF InTransaction
<1>7. InTransaction(reset.current.bot)
  BY <1>3 DEF InTransaction
<1>8. \A k \in Bots : k \in Engaged' <=> \E e \in reset.list : e.bot = k
  BY <1>2 DEF Engaged, InTransaction
<1>9. \A k \in Bots : k \in Engaged <=> \/ k = reset.current.bot
                                        \/ \E e \in reset.list : e.bot = k
  BY <1>3 DEF Engaged, InTransaction
<1>10. Engaged \subseteq Bots /\ Engaged' \subseteq Bots
  BY DEF Engaged
<1>11. Engaged' = Engaged \ {reset.current.bot}
  BY <1>4, <1>8, <1>9, <1>10
<1> QED
  BY <1>3, <1>5, <1>6, <1>7, <1>11 DEF UntilInv

\* Who leaves the reset alone leaves its bots to it.
LEMMA EngagedStays ==
    UNCHANGED reset => /\ Engaged' = Engaged
                       /\ \A k \in Bots : InTransaction(k)' <=> InTransaction(k)
  BY DEF Engaged, InTransaction

-----------------------------------------------------------------------------
(* Bots on hold *)

\* A bot on hold since before the reset read its list is not on the list.
HoldInv ==
    /\ standing \subseteq Bots
    /\ \A k \in standing : bot[k].status \in OnHold /\ k \notin Engaged

\* No step takes a bot off hold but by the user's hand or by a stand-down.
LEMMA HoldStep ==
    RowsTyped /\ UntilInv /\ HoldInv /\ [LifecycleNext]_lifecycleVars => HoldInv'
<1> SUFFICES ASSUME RowsTyped, UntilInv, HoldInv, [LifecycleNext]_lifecycleVars
             PROVE  HoldInv'
  OBVIOUS
<1>0. \A k \in standing : /\ k \in Bots /\ k \notin Engaged
                          /\ bot[k].status # "STOOD_DOWN" /\ bot[k].status # "ACTIVE"
  BY DEF HoldInv, OnHold
<1>1. ASSUME NEW j \in Bots, Evaluate(j)
      PROVE  HoldInv'
  <2>1. standing' = standing \ {j}
    BY <1>1, Zenon DEF Evaluate, WriteStandDown
  <2>2. UNCHANGED reset /\ \A k \in Bots \ {j} : bot'[k] = bot[k]
    BY <1>1, EvaluateRow, WriteStandDownRow
  <2>3. Engaged' = Engaged
    BY <2>2, EngagedStays
  <2> QED
    BY <1>0, <2>1, <2>2, <2>3 DEF HoldInv
<1>2. CASE CommitReset
  <2>1. standing' = standing
    BY <1>2 DEF CommitReset
  <2>2. /\ reset.current.bot \in Engaged
        /\ Engaged' = Engaged \ {reset.current.bot}
    BY <1>2, CommitEngaged DEF Engaged
  <2>3. \A k \in Bots : k # reset.current.bot => bot'[k] = bot[k]
    BY <1>2, CommitResetRow DEF RowsTyped
  <2> QED
    BY <1>0, <2>1, <2>2, <2>3 DEF HoldInv
<1>3. CASE OtherStep
  <2>1. standing' = standing /\ bot' = bot
    BY <1>3, FreedStep, OtherStepRows
  <2>2. \A k \in standing : k \notin Engaged'
    BY <1>0, <1>3, OtherStepEngaged
  <2> QED
    BY <2>1, <2>2 DEF HoldInv
<1>4. CASE LifecycleStep
  <2>1. UNCHANGED reset /\ \A j \in Bots : j \in standing' =>
          \/ bot'[j].status \in OnHold /\ j \notin Engaged
          \/ j \in standing /\ (bot'[j] = bot[j] \/ bot[j].status = "ACTIVE")
    BY <1>4, LifecycleStepRows
  <2>2. Engaged' = Engaged
    BY <2>1, EngagedStays
  <2>3. standing' \subseteq Bots
    BY <1>4, Zenon DEF HoldInv, LifecycleStep, StartTrialExpiry, ExpireTrial, SkipTrial,
       Upgrade, SetStatus, vars, historyVars
  <2> QED
    BY <1>0, <2>1, <2>2, <2>3 DEF HoldInv
<1> QED
  BY <1>1, <1>2, <1>3, <1>4, LifecycleCases

\* For any bots, users and trials: a bot on hold before a reset reads its list is brought
\* back by its user only, or by the reset that follows a stand-down, although the reset
\* writes rows by id, whatever they have become.
THEOREM HoldsStand == LifecycleSpec => []HoldStands
<1>1. LifecycleInit => UntilInv /\ HoldInv
  BY IdleAtFirst DEF LifecycleInit, Init, HoldInv
<1>2. HoldInv => HoldStands
  BY DEF HoldInv, HoldStands
<1> QED
  BY <1>1, <1>2, RowsHold, UntilStep, HoldStep, PTL DEF LifecycleSpec

-----------------------------------------------------------------------------
(* The week of a stand-down *)

\* A stand-down that may end no earlier than dueAt has an end date no earlier, or will get
\* it from a reset that counts the week from now on or from the transaction it is in.
DueOf(k) ==
    IF bot[k].until # None THEN dueAt[k] <= bot[k].until
    ELSE dueAt[k] <= (IF InTransaction(k) THEN reset.begun ELSE now) + OneWeek

DueInv ==
    /\ dueAt \in [Bots -> Nat]
    /\ UnderWay => reset.begun <= now
    /\ \A k \in Bots : bot[k].status = "STOOD_DOWN" \/ k \in Engaged => DueOf(k)

\* A reset keeps the end date of the bot it leaves stood down, or sets one a week
\* ahead; out of a one-week stand-down it lets a bot only when its date has come.
LEMMA ResetRowServes ==
    ASSUME NEW e \in Listed, NEW t \in Nat
    PROVE  /\ ResetRow(e, t).status = "STOOD_DOWN" =>
                ResetRow(e, t).until = IF e.until = None THEN t + OneWeek ELSE e.until
           /\ ResetRow(e, t).status = "ACTIVE" /\ e.applied = "STAND_DOWN_1W" =>
                e.until # None /\ e.until <= t
<1>1. Reactivated.status = "ACTIVE"
  BY DEF Reactivated
<1>2. e.applied \in RecoveryModes \cup {None} /\ e.until \in Nat \cup {None}
  BY DEF Listed
<1>3. None \notin RecoveryModes /\ None \notin Nat
  BY StandDownAssumption
<1>4. CASE e.applied = None \/ (e.until # None /\ e.until < t)
  <2>1. ResetRow(e, t) = Reactivated
    BY <1>4 DEF ResetRow
  <2>2. "STAND_DOWN_1W" # None
    BY <1>3 DEF RecoveryModes
  <2> QED
    BY <1>1, <1>2, <1>3, <1>4, <2>1, <2>2
<1>5. CASE ~(e.applied = None \/ (e.until # None /\ e.until < t)) /\ e.applied = "NORMAL"
  <2>1. ResetRow(e, t) = Reactivated
    BY <1>5 DEF ResetRow
  <2> QED
    BY <1>1, <1>5, <2>1
<1>6. CASE /\ ~(e.applied = None \/ (e.until # None /\ e.until < t))
           /\ e.applied = "MORE_CONSERVATIVE_2D"
  <2>1. ResetRow(e, t) = [status |-> "ACTIVE", applied |-> "MORE_CONSERVATIVE_2D",
                          until |-> t + TwoDays]
    BY <1>6 DEF ResetRow
  <2> QED
    BY <1>6, <2>1
<1>7. CASE /\ ~(e.applied = None \/ (e.until # None /\ e.until < t))
           /\ e.applied = "STAND_DOWN_1W"
  <2>1. CASE e.until = None
    <3>1. ResetRow(e, t) = [status |-> "STOOD_DOWN", applied |-> "STAND_DOWN_1W",
                            until |-> t + OneWeek]
      BY <1>7, <2>1 DEF ResetRow, WeekRow, StoodDownUntil
    <3> QED
      BY <2>1, <3>1
  <2>2. CASE e.until # None /\ e.until > t
    <3>1. ResetRow(e, t) = [status |-> "STOOD_DOWN", applied |-> "STAND_DOWN_1W",
                            until |-> e.until]
      BY <1>7, <2>2 DEF ResetRow, WeekRow, StoodDownUntil
    <3> QED
      BY <2>2, <3>1
  <2>3. CASE e.until # None /\ ~(e.until > t)
    <3>1. ResetRow(e, t) = Reactivated
      BY <1>7, <2>3 DEF ResetRow, WeekRow
    <3>2. e.until <= t
      BY <1>2, <2>3
    <3> QED
      BY <1>1, <2>3, <3>1, <3>2
  <2> QED
    BY <2>1, <2>2, <2>3
<1> QED
  BY <1>2, <1>4, <1>5, <1>6, <1>7 DEF RecoveryModes

\* The numbers in the rows.
LEMMA RowNumbers ==
    ASSUME RowsTyped
    PROVE  /\ \A k \in Bots : bot[k].until \in Nat \cup {None}
           /\ now \in Nat /\ reset.begun \in Nat /\ OneWeek \in Nat /\ None \notin Nat
  BY StandDownAssumption DEF RowsTyped, BotRow

\* A stand-down in progress keeps its due date; one that begins gets the earliest end its
\* row and the reset allow.
LEMMA EvaluateDue ==
    ASSUME RowsTyped, DueInv, NEW k \in Bots, Evaluate(k)
    PROVE  DueInv'
<1>1. /\ UNCHANGED <<now, reset>>
      /\ \A j \in Bots : bot'[j].until = bot[j].until
      /\ \A j \in Bots \ {k} : bot'[j] = bot[j]
  BY EvaluateRow, WriteStandDownRow
<1>2. dueAt' = IF bot[k].status = "STOOD_DOWN" THEN dueAt
               ELSE [dueAt EXCEPT ![k] = EarliestEnd(k)]
  BY Zenon DEF Evaluate, WriteStandDown
<1>3. EarliestEnd(k) \in Nat
  BY RowNumbers DEF EarliestEnd
<1>4. dueAt \in [Bots -> Nat]
  BY DEF DueInv
<1>5. /\ dueAt' \in [Bots -> Nat]
      /\ \A j \in Bots \ {k} : dueAt'[j] = dueAt[j]
      /\ dueAt'[k] = IF bot[k].status = "STOOD_DOWN" THEN dueAt[k] ELSE EarliestEnd(k)
  BY <1>2, <1>3, <1>4
<1>6. Engaged' = Engaged /\ \A j \in Bots : InTransaction(j)' <=> InTransaction(j)
  BY <1>1, EngagedStays
<1>7. ASSUME NEW j \in Bots, bot'[j].status = "STOOD_DOWN" \/ j \in Engaged'
      PROVE  DueOf(j)'
  <2>1. CASE j # k \/ bot[k].status = "STOOD_DOWN"
    <3>1. DueOf(j)
      BY <1>1, <1>6, <1>7, <2>1 DEF DueInv
    <3>2. dueAt'[j] = dueAt[j]
      BY <1>5, <2>1
    <3> QED
      BY <1>1, <1>6, <3>1, <3>2 DEF DueOf
  <2>2. CASE j = k /\ bot[k].status # "STOOD_DOWN"
    <3>1. dueAt'[j] = EarliestEnd(j)
      BY <1>5, <2>2
    <3>2. CASE bot[j].until # None
      <4>1. dueAt'[j] = bot'[j].until /\ bot'[j].until # None /\ bot'[j].until \in Nat
        BY <1>1, <3>1, <3>2, RowNumbers DEF EarliestEnd
      <4> QED
        BY <4>1 DEF DueOf
    <3>3. CASE bot[j].until = None
      <4>1. CASE InTransaction(j)
        <5>1. dueAt'[j] = OneWeek + reset'.begun /\ InTransaction(j)'
          BY <1>1, <1>6, <3>1, <3>3, <4>1 DEF EarliestEnd
        <5> QED
          BY <1>1, <3>3, <5>1, RowNumbers DEF DueOf
      <4>2. CASE ~InTransaction(j)
        <5>1. dueAt'[j] = OneWeek + now' /\ ~InTransaction(j)'
          BY <1>1, <1>6, <3>1, <3>3, <4>2 DEF EarliestEnd
        <5> QED
          BY <1>1, <3>3, <5>1, RowNumbers DEF DueOf
      <4> QED
        BY <4>1, <4>2
    <3> QED
      BY <3>2, <3>3
  <2> QED
    BY <2>1, <2>2
<1> QED
  BY <1>1, <1>5, <1>7 DEF DueInv, UnderWay

\* The reset's write keeps an end date, or sets one a week after its transaction began.
LEMMA CommitDue ==
    ASSUME RowsTyped, UntilInv, DueInv, CommitReset
    PROVE  DueInv'
<1> DEFINE c == reset.current.bot
           new == ResetRow(reset.current, reset.begun)
<1>1. /\ reset.current \in Listed /\ reset.begun \in Nat
      /\ bot' = [bot EXCEPT ![c] = new]
      /\ reset' = Looping(reset.list) /\ UNCHANGED now
  BY CommitResetRow
<1>2. UNCHANGED dueAt
  BY DEF CommitReset
<1>3. /\ c \in Bots /\ InTransaction(c) /\ reset.current.until = bot[c].until
      /\ \A k \in Bots : ~InTransaction(k)'
      /\ Engaged' = Engaged \ {c}
  BY CommitEngaged
<1>4. DueOf(c)
  BY <1>3 DEF DueInv, Engaged
<1>5. new.status = "STOOD_DOWN" =>
        new.until = IF bot[c].until = None THEN reset.begun + OneWeek ELSE bot[c].until
  BY <1>1, <1>3, ResetRowServes
<1>6. bot'[c] = new /\ \A j \in Bots \ {c} : bot'[j] = bot[j]
  BY <1>1, <1>3 DEF RowsTyped
<1>7. ~UnderWay'
  <2>1. reset'.at = "loop"
    BY <1>1, LoopingType DEF RowsTyped
  <2> QED
    BY <2>1 DEF UnderWay
<1>8. \A k \in Bots \ {c} : ~InTransaction(k)
  BY DEF InTransaction
<1> HIDE DEF c, new
<1>9. ASSUME NEW k \in Bots, bot'[k].status = "STOOD_DOWN" \/ k \in Engaged'
      PROVE  DueOf(k)'
  <2>1. CASE k # c
    <3>1. DueOf(k) /\ bot'[k] = bot[k]
      BY <1>3, <1>6, <1>9, <2>1 DEF DueInv
    <3>2. ~InTransaction(k) /\ ~InTransaction(k)'
      BY <1>3, <1>8, <2>1
    <3> QED
      BY <1>1, <1>2, <3>1, <3>2 DEF DueOf
  <2>2. CASE k = c
    <3>1. new.status = "STOOD_DOWN"
      BY <1>3, <1>6, <1>9, <2>2
    <3>2. CASE bot[c].until = None
      <4>1. bot'[c].until = reset.begun + OneWeek /\ dueAt[c] <= reset.begun + OneWeek
        BY <1>3, <1>4, <1>5, <1>6, <3>1, <3>2 DEF DueOf
      <4>2. bot'[c].until # None
        BY <1>1, <4>1, RowNumbers
      <4> QED
        BY <1>2, <2>2, <4>1, <4>2 DEF DueOf
    <3>3. CASE bot[c].until # None
      <4>1. bot'[c].until = bot[c].until /\ dueAt[c] <= bot[c].until
        BY <1>4, <1>5, <1>6, <3>1, <3>3 DEF DueOf
      <4> QED
        BY <1>2, <2>2, <3>3, <4>1 DEF DueOf
    <3> QED
      BY <3>2, <3>3
  <2> QED
    BY <2>1, <2>2
<1> QED
  BY <1>2, <1>7, <1>9 DEF DueInv

\* A transaction dates itself when it begins, and the other steps let time pass.
LEMMA OtherDue ==
    ASSUME RowsTyped, DueInv, OtherStep
    PROVE  DueInv'
<1>1. UNCHANGED <<bot, dueAt>>
  BY OtherStepRows, FreedStep
<1>2. now' = now \/ now' = now + 1
  BY DEF OtherStep, StartReset, BeginReset, CheckPosition, ResetFails, EndReset, Tick,
         Reconcile, Fill, ChangeMode, vars
<1>3. /\ now \in Nat /\ now' \in Nat /\ now <= now' /\ OneWeek \in Nat
      /\ reset.begun \in Nat
  BY <1>2, RowNumbers
<1>4. UnderWay' => reset'.begun <= now'
  <2>1. UnderWay <=> reset.at \in {"position", "update"}
    BY DEF UnderWay
  <2>2. CASE UNCHANGED reset
    BY <1>3, <2>2 DEF DueInv, UnderWay
  <2>3. CASE BeginReset
    <3>1. reset'.begun = now
      BY <2>3, BeginResetEntry
    <3> QED
      BY <1>3, <3>1
  <2>4. CASE /\ reset.at = "position"
             /\ reset' = [at |-> "update", list |-> reset.list,
                          current |-> reset.current, begun |-> reset.begun]
    <3>1. reset'.begun = reset.begun /\ UnderWay
      BY <2>1, <2>4
    <3> QED
      BY <1>3, <3>1 DEF DueInv
  <2>5. CASE StartReset \/ reset' = Looping(reset.list) \/ reset' = Idle
    <3>1. reset'.at \in {"loop", "idle"}
      BY <2>5 DEF StartReset, Looping, Idle
    <3> QED
      BY <3>1 DEF UnderWay
  <2> QED
    BY <2>2, <2>3, <2>4, <2>5, OtherStepReset
<1>5. ASSUME NEW k \in Bots, bot'[k].status = "STOOD_DOWN" \/ k \in Engaged'
      PROVE  DueOf(k)'
  <2>1. DueOf(k)
    BY <1>1, <1>5, OtherStepEngaged DEF DueInv
  <2>2. CASE bot[k].until # None
    BY <1>1, <2>1, <2>2 DEF DueOf
  <2>3. CASE bot[k].until = None
    <3>1. InTransaction(k) => reset.begun <= now
      BY DEF InTransaction, DueInv, UnderWay
    <3>2. dueAt[k] \in Nat
      BY DEF DueInv
    <3>3. dueAt[k] <= (IF InTransaction(k)' THEN reset'.begun ELSE now') + OneWeek
      <4>1. CASE InTransaction(k)'
        <5>1. CASE InTransaction(k) /\ reset'.begun = reset.begun
          BY <2>1, <2>3, <4>1, <5>1 DEF DueOf
        <5>2. CASE reset'.begun = now
          BY <1>3, <2>1, <2>3, <3>1, <3>2, <4>1, <5>2 DEF DueOf
        <5> QED
          BY <4>1, <5>1, <5>2, OtherStepEngaged
      <4>2. CASE ~InTransaction(k)'
        BY <1>3, <2>1, <2>3, <3>1, <3>2, <4>2 DEF DueOf
      <4> QED
        BY <4>1, <4>2
    <3> QED
      BY <1>1, <2>3, <3>3 DEF DueOf
  <2> QED
    BY <2>2, <2>3
<1>6. dueAt' \in [Bots -> Nat]
  BY <1>1 DEF DueInv
<1> QED
  BY <1>4, <1>5, <1>6 DEF DueInv

\* Users and trial expiry stand no bot down and leave the end dates alone.
LEMMA LifecycleDue ==
    ASSUME RowsTyped, DueInv, LifecycleStep
    PROVE  DueInv'
<1>1. /\ UNCHANGED <<now, reset, dueAt>>
      /\ \A j \in Bots : /\ bot'[j].until = bot[j].until
                         /\ bot'[j].status = "STOOD_DOWN" => bot[j].status = "STOOD_DOWN"
  BY LifecycleStepRows
<1>2. Engaged' = Engaged /\ \A j \in Bots : InTransaction(j)' <=> InTransaction(j)
  BY <1>1, EngagedStays
<1>3. ASSUME NEW k \in Bots, bot'[k].status = "STOOD_DOWN" \/ k \in Engaged'
      PROVE  DueOf(k)'
  <2>1. DueOf(k)
    BY <1>1, <1>2, <1>3 DEF DueInv
  <2> QED
    BY <1>1, <1>2, <2>1 DEF DueOf
<1> QED
  BY <1>1, <1>3 DEF DueInv, UnderWay

\* Every step keeps the due dates.
LEMMA DueStep ==
    RowsTyped /\ UntilInv /\ DueInv /\ [LifecycleNext]_lifecycleVars => DueInv'
  BY LifecycleCases, EvaluateDue, CommitDue, OtherDue, LifecycleDue

\* For any bots, windows and users: the reset does not end a stand-down it has listed under
\* STAND_DOWN_1W before the week is over, or before the end date that an earlier recovery
\* had left in the row when it began.
THEOREM WeekServed == LifecycleSpec => OneWeekServed
<1>1. LifecycleInit => UntilInv /\ DueInv
  BY IdleAtFirst DEF LifecycleInit, Init, DueInv
<1>2. RowsTyped /\ UntilInv /\ DueInv /\ [LifecycleNext]_lifecycleVars
      => [\A k \in Bots :
            Reactivates(k) /\ reset.current.applied = "STAND_DOWN_1W"
            => now >= dueAt[k]]_vars
  <2> SUFFICES ASSUME RowsTyped, UntilInv, DueInv, [LifecycleNext]_lifecycleVars,
                      NEW k \in Bots, Reactivates(k),
                      reset.current.applied = "STAND_DOWN_1W"
               PROVE  now >= dueAt[k]
    OBVIOUS
  <2>0. bot[k].status = "STOOD_DOWN" /\ bot'[k].status = "ACTIVE" /\ reset' # reset
    BY DEF Reactivates
  <2>1. CASE CommitReset
    <3>1. /\ reset.current \in Listed /\ bot \in [Bots -> BotRow]
          /\ bot' = [bot EXCEPT ![reset.current.bot] = ResetRow(reset.current, reset.begun)]
          /\ UnderWay
      BY <2>1, CommitResetRow DEF RowsTyped, CommitReset, UnderWay
    <3>2. k = reset.current.bot
      BY <2>0, <3>1
    <3>3. ResetRow(reset.current, reset.begun).status = "ACTIVE"
      BY <2>0, <3>1, <3>2
    <3>4. bot[k].until # None /\ bot[k].until <= reset.begun /\ reset.begun <= now
      BY <2>1, <3>1, <3>2, <3>3, CommitEngaged, ResetRowServes, RowNumbers DEF DueInv
    <3>5. dueAt[k] <= bot[k].until
      BY <2>0, <3>4 DEF DueInv, DueOf
    <3>6. dueAt[k] \in Nat /\ bot[k].until \in Nat
      BY <3>4, RowNumbers DEF DueInv
    <3> QED
      BY <3>4, <3>5, <3>6, RowNumbers
  <2>2. ASSUME NEW j \in Bots, Evaluate(j)
        PROVE  FALSE
    BY <2>0, <2>2, EvaluateRow
  <2>3. CASE OtherStep
    BY <2>0, <2>3, OtherStepRows
  <2>4. CASE LifecycleStep
    BY <2>0, <2>4, LifecycleStepRows
  <2> QED
    BY <2>1, <2>2, <2>3, <2>4, LifecycleCases
<1> QED
  BY <1>1, <1>2, RowsHold, UntilStep, DueStep, PTL DEF LifecycleSpec, OneWeekServed

-----------------------------------------------------------------------------
(* The types *)

\* What the engine answers is no rule, or one that stands the bot down.
LEMMA CauseIsRule ==
    ASSUME NEW proposal, StanddownCause(proposal) # "none"
    PROVE  StanddownCause(proposal) \in StanddownRules
<1> DEFINE triggers == {i \in Violations(proposal) : RuleOrder[i] \in StanddownRules}
           last == CHOOSE x \in triggers : \A y \in triggers : y <= x
<1>1. triggers # {} /\ StanddownCause(proposal) = RuleOrder[last]
  BY DEF StanddownCause
<1>2. \A i \in triggers : i \in {6, 7, 9}
  <2>1. \A i \in triggers : i \in 1..9 /\ RuleOrder[i] \in StanddownRules
    BY DEF Violations, RuleOrder
  <2>2. \A i \in {1, 2, 3, 4, 5, 8} : RuleOrder[i] \notin StanddownRules
    BY DEF RuleOrder, StanddownRules
  <2> HIDE DEF triggers
  <2>3. \A i \in 1..9 : i \in {1, 2, 3, 4, 5, 8} \/ i \in {6, 7, 9}
    OBVIOUS
  <2> QED
    BY <2>1, <2>2, <2>3
<1>3. \A i \in triggers : RuleOrder[i] \in StanddownRules
  OBVIOUS
<1> HIDE DEF triggers
<1>4. \E x \in triggers : \A y \in triggers : y <= x
  <2>1. CASE 9 \in triggers
    <3>1. \A y \in triggers : y <= 9
      BY <1>2
    <3> QED
      BY <2>1, <3>1
  <2>2. CASE 9 \notin triggers /\ 7 \in triggers
    <3>1. \A y \in triggers : y <= 7
      BY <1>2, <2>2
    <3> QED
      BY <2>2, <3>1
  <2>3. CASE 9 \notin triggers /\ 7 \notin triggers
    <3>1. 6 \in triggers /\ \A y \in triggers : y <= 6
      BY <1>1, <1>2, <2>3
    <3> QED
      BY <3>1
  <2> QED
    BY <2>1, <2>2, <2>3
<1>5. last \in triggers
  BY <1>4
<1> HIDE DEF last
<1> QED
  BY <1>1, <1>3, <1>5

\* The types the argument about the rows leaves out.
OthersTyped ==
    /\ now \in 0..MaxTime
    /\ row \in [Bots -> RuntimeRow \cup {None}]
    /\ open \in [Bots -> BOOLEAN]
    /\ lastReset \in Int
    /\ freed \subseteq Bots
    /\ standing \subseteq Bots

\* The day is a number.
LEMMA DayIsNumber == now \in 0..MaxTime => Today \in Nat
  BY StandDownAssumption DEF Today

\* Every step of engine, reset and environment keeps them.
LEMMA OthersStep == OthersTyped /\ [Next]_vars => OthersTyped'
<1> SUFFICES ASSUME OthersTyped, [Next]_vars
             PROVE  OthersTyped'
  OBVIOUS
<1>a. MaxTime \in Nat /\ InputLimits \subseteq DailyLimits
  BY StandDownAssumption
<1>b. \A k \in Bots : row[k] # None => row[k] \in RuntimeRow
  BY DEF OthersTyped
<1>1. ASSUME NEW k \in Bots, Evaluate(k)
      PROVE  OthersTyped'
  <2>1. PICK rule \in StanddownRules : WriteStandDown(k, rule)
    BY <1>1, CauseIsRule, Zenon DEF Evaluate
  <2>2. UNCHANGED <<now, open, lastReset>>
    BY <1>1, Zenon DEF Evaluate, jobVars
  <2>3. row' \in [Bots -> RuntimeRow \cup {None}]
    <3>1. CASE row[k] = None
      BY <2>1, <3>1 DEF WriteStandDown, OthersTyped
    <3>2. CASE row[k] # None
      <4>1. [row[k] EXCEPT !.reason = rule] \in RuntimeRow
        BY <1>b, <3>2 DEF RuntimeRow
      <4>2. row' = [row EXCEPT ![k] = [row[k] EXCEPT !.reason = rule]]
        BY <2>1, <3>2, Zenon DEF WriteStandDown
      <4> QED
        BY <4>1, <4>2 DEF OthersTyped
    <3> QED
      BY <3>1, <3>2
  <2>4. freed' \subseteq Bots /\ standing' \subseteq Bots
    BY <2>1 DEF WriteStandDown, OthersTyped
  <2> QED
    BY <2>2, <2>3, <2>4 DEF OthersTyped
<1>2. ASSUME NEW k \in Bots, Reconcile(k)
      PROVE  OthersTyped'
  <2>1. PICK limits \in SUBSET InputLimits :
          row' = [row EXCEPT ![k] =
                    [limits |-> limits,
                     reason |-> IF row[k] = None THEN None ELSE row[k].reason]]
    BY <1>2 DEF Reconcile
  <2>2. [limits |-> limits, reason |-> IF row[k] = None THEN None ELSE row[k].reason]
          \in RuntimeRow
    BY <1>a, <1>b DEF RuntimeRow
  <2>3. row' \in [Bots -> RuntimeRow \cup {None}]
    BY <2>1, <2>2 DEF OthersTyped
  <2> QED
    BY <1>2, <2>3 DEF Reconcile, jobVars, historyVars, OthersTyped
<1>3. CASE StartReset
  BY <1>a, <1>3, DayIsNumber DEF StartReset, OthersTyped, dbVars, historyVars
<1>4. CASE Tick
  BY <1>a, <1>4 DEF Tick, OthersTyped, jobVars, historyVars
<1>5. CASE BeginReset \/ CheckPosition \/ CommitReset \/ ResetFails \/ EndReset
           \/ UNCHANGED vars
  BY <1>5 DEF BeginReset, CheckPosition, CommitReset, ResetFails, EndReset, vars, dbVars,
     jobVars, historyVars, OthersTyped
<1>6. ASSUME NEW k \in Bots, Fill(k) \/ ChangeMode(k)
      PROVE  OthersTyped'
  BY <1>6 DEF Fill, ChangeMode, jobVars, historyVars, OthersTyped
<1> QED
  BY <1>1, <1>2, <1>3, <1>4, <1>5, <1>6, Zenon DEF Next, ResetStep

\* The trial expiry and the API keep the types, and bots.status its own values.
LEMMA TrialTypesStep ==
    ASSUME LifecycleTypeOK, LifecycleStep
    PROVE  /\ UNCHANGED <<now, mode, row, open, reset, lastReset, dueAt>>
           /\ freed' \subseteq Bots /\ standing' \subseteq Bots
           /\ sub' \in [Users -> {"trialing", "active", "suspended"}]
           /\ trial' \subseteq Users
           /\ lastTrial' \in Int
<1>0. /\ freed \subseteq Bots /\ standing \subseteq Bots
      /\ sub \in [Users -> {"trialing", "active", "suspended"}]
      /\ trial \subseteq Users /\ lastTrial \in Int /\ now \in 0..MaxTime
  BY DEF LifecycleTypeOK, TypeOK
<1>1. CASE StartTrialExpiry
  BY <1>0, <1>1, DayIsNumber DEF StartTrialExpiry, vars, dbVars, jobVars, historyVars
<1>2. ASSUME NEW u \in Users, SkipTrial(u) \/ Upgrade(u)
      PROVE  /\ UNCHANGED <<vars, lastTrial>>
             /\ sub' \in [Users -> {"trialing", "active", "suspended"}]
             /\ trial' \subseteq Users
  BY <1>0, <1>2 DEF SkipTrial, Upgrade
<1>3. ASSUME NEW u \in Users, ExpireTrial(u)
      PROVE  /\ UNCHANGED <<now, mode, row, open, jobVars, dueAt, freed, lastTrial>>
             /\ standing' \subseteq Bots
             /\ sub' \in [Users -> {"trialing", "active", "suspended"}]
             /\ trial' \subseteq Users
  <2>1. standing' = standing \cup
          {k \in Bots \ Engaged : UserOf[k] = u /\ bot[k].status = "ACTIVE"}
    BY <1>3, Zenon DEF ExpireTrial
  <2>2. standing' \subseteq Bots
    BY <1>0, <2>1
  <2> QED
    BY <1>0, <1>3, <2>2 DEF ExpireTrial
<1>4. ASSUME NEW k \in Bots, SetStatus(k)
      PROVE  /\ UNCHANGED <<now, mode, row, open, jobVars, dueAt, trialVars>>
             /\ freed' \subseteq Bots /\ standing' \subseteq Bots
  BY <1>0, <1>4, Zenon DEF SetStatus
<1> QED
  BY <1>0, <1>1, <1>2, <1>3, <1>4 DEF LifecycleStep, trialVars, vars, dbVars, jobVars,
     historyVars

\* The types of the tables, the jobs and the history, whatever engine, reset, trial
\* expiry and users write: bots.status never takes a subscription status
\* (trial-expiry.worker.ts), the reason of a stand-down is one of the three rules that
\* cause one (rule-engine.ts).
THEOREM LifecycleTypes == LifecycleSpec => []LifecycleTypeOK
<1> DEFINE TypesInv == RowsTyped /\ UntilInv /\ DueInv /\ LifecycleTypeOK
<1>1. LifecycleInit => TypesInv
  <2> SUFFICES ASSUME LifecycleInit
               PROVE  TypesInv
    OBVIOUS
  <2>1. RowsTyped
    BY RowsInit DEF LifecycleInit
  <2>2. MaxTime \in Nat
    BY StandDownAssumption
  <2>3. TypeOK
    BY <2>1, <2>2 DEF LifecycleInit, Init, TypeOK, RowsTyped
  <2>4. UntilInv /\ DueInv
    BY IdleAtFirst DEF LifecycleInit, Init, DueInv
  <2> QED
    BY <2>1, <2>3, <2>4 DEF LifecycleInit, LifecycleTypeOK
<1>2. TypesInv /\ [LifecycleNext]_lifecycleVars => TypesInv'
  <2> SUFFICES ASSUME RowsTyped, UntilInv, DueInv, LifecycleTypeOK,
                      [LifecycleNext]_lifecycleVars
               PROVE  TypesInv'
    OBVIOUS
  <2>1. OthersTyped
    BY DEF LifecycleTypeOK, TypeOK, OthersTyped
  <2>0. (RowsTyped /\ UntilInv /\ DueInv)'
    BY RowsStep, UntilStep, DueStep
  <2>2. CASE [Next]_vars /\ UNCHANGED trialVars
    <3>1. OthersTyped'
      BY <2>1, <2>2, OthersStep
    <3>2. TypeOK'
      BY <2>0, <3>1 DEF RowsTyped, OthersTyped, DueInv, TypeOK
    <3> QED
      BY <2>0, <2>2, <3>2 DEF LifecycleTypeOK, trialVars
  <2>3. CASE LifecycleStep
    <3>1. bot' \in [Bots -> BotRow]
      BY <2>0 DEF RowsTyped
    <3>2. TypeOK'
      BY <2>3, <3>1, TrialTypesStep DEF LifecycleTypeOK, TypeOK
    <3> QED
      BY <2>0, <2>3, <3>2, TrialTypesStep DEF LifecycleTypeOK
  <2> QED
    BY <2>2, <2>3, Zenon DEF LifecycleNext, LifecycleStep, lifecycleVars
<1>3. TypesInv => LifecycleTypeOK
  OBVIOUS
<1> HIDE DEF TypesInv
<1> QED
  BY <1>1, <1>2, <1>3, PTL DEF LifecycleSpec
=============================================================================
