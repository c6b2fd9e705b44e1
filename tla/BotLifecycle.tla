---------------------------- MODULE BotLifecycle -----------------------------
(***************************************************************************)
(* The status of a bot as three parties write it: the rule engine and the    *)
(* NYSE-open cron (module StandDown), the trial-expiry cron                   *)
(* (src/src/workers/trial-expiry.worker.ts), and the users through the API.  *)
(***************************************************************************)
EXTENDS StandDown

CONSTANTS
    Users, UserOf,  \* UserOf[k]: the bot's owner
    TrialEnd        \* trial_expires_at of every trial

ASSUME LifecycleAssumption ==
    /\ UserOf \in [Bots -> Users]
    /\ TrialEnd \in Nat

VARIABLES
    sub,        \* user_subscriptions.subscription_status
    trial,      \* the trial-expiry job: the users it still has to suspend
    lastTrial   \* the day of the last trial-expiry job, or -1

trialVars == <<sub, trial, lastTrial>>
lifecycleVars == <<vars, trialVars>>

LifecycleInit ==
    /\ Init
    /\ sub = [u \in Users |-> "trialing"]
    /\ trial = {}
    /\ lastTrial = -1

\* The trialing subscriptions, read once; those that have expired are due.
StartTrialExpiry ==
    /\ trial = {}
    /\ lastTrial < Today
    /\ lastTrial' = Today
    /\ trial' = {u \in Users : sub[u] = "trialing" /\ TrialEnd <= now}
    /\ UNCHANGED <<vars, sub>>

\* A user whose transaction throws is left for the next day's run.
SkipTrial(u) ==
    /\ u \in trial
    /\ trial' = trial \ {u}
    /\ UNCHANGED <<vars, sub, lastTrial>>

\* Mutant: the bots get the status of the subscription.
ExpireTrialSuspendingBots(u) ==
    /\ u \in trial
    /\ trial' = trial \ {u}
    /\ sub' = [sub EXCEPT ![u] = "suspended"]
    /\ bot' = [k \in Bots |->
                 IF UserOf[k] = u /\ bot[k].status = "ACTIVE"
                 THEN [bot[k] EXCEPT !.status = "suspended"] ELSE bot[k]]
    /\ UNCHANGED <<now, mode, row, open, jobVars, historyVars, lastTrial>>

\* One transaction: suspend the subscription by id, pause the ACTIVE bots.
ExpireTrial(u) ==
    /\ u \in trial
    /\ trial' = trial \ {u}
    /\ sub' = [sub EXCEPT ![u] = "suspended"]
    /\ bot' = [k \in Bots |->
                 IF UserOf[k] = u /\ bot[k].status = "ACTIVE"
                 THEN [bot[k] EXCEPT !.status = "PAUSED"] ELSE bot[k]]
    /\ standing' = standing \cup
         {k \in Bots \ Engaged : UserOf[k] = u /\ bot[k].status = "ACTIVE"}
    /\ UNCHANGED <<now, mode, row, open, jobVars, dueAt, freed, lastTrial>>

OnHold == {"PAUSED", "ARCHIVED"}

\* The API: the user activates, pauses or archives a bot.  No line of this repository says
\* which status it may have had, so it may have had any, STOOD_DOWN included; the API
\* refuses only to activate a bot of a suspended user, and writes no recovery column.
SetStatus(k) ==
    \E status \in OnHold \cup {"ACTIVE"} :
      /\ status = "ACTIVE" => sub[UserOf[k]] # "suspended"
      /\ bot' = [bot EXCEPT ![k].status = status]
      /\ freed' = IF bot[k].status = "STOOD_DOWN" THEN freed \cup {k} ELSE freed
      /\ standing' = IF status \in OnHold /\ k \notin Engaged THEN standing \cup {k}
                     ELSE standing \ {k}
      /\ UNCHANGED <<now, mode, row, open, jobVars, dueAt, trialVars>>

\* The API: the user buys a plan.
Upgrade(u) ==
    /\ sub' = [sub EXCEPT ![u] = "active"]
    /\ UNCHANGED <<vars, trial, lastTrial>>

LifecycleNext ==
    \/ Next /\ UNCHANGED trialVars
    \/ StartTrialExpiry
    \/ \E u \in Users : ExpireTrial(u) \/ SkipTrial(u) \/ Upgrade(u)
    \/ \E k \in Bots : SetStatus(k)

LifecycleSpec == LifecycleInit /\ [][LifecycleNext]_lifecycleVars

-----------------------------------------------------------------------------
(* Properties *)

\* Types of the tables with the subscriptions: in particular bots.status never
\* takes a subscription status.
LifecycleTypeOK ==
    /\ TypeOK
    /\ sub \in [Users -> {"trialing", "active", "suspended"}]
    /\ trial \subseteq Users
    /\ lastTrial \in Int

\* An expired trial leaves its user no trading bot.
SuspendedUserHasNoActiveBot ==
    \A k \in Bots : sub[UserOf[k]] = "suspended" => bot[k].status # "ACTIVE"

\* A bot on hold, by its user or by the trial's end, stays on hold until the user
\* activates it or an evaluation stands it down: no later reset brings it back.  (The
\* reset that has it on its list when it is put on hold may, and one that follows such an
\* evaluation will: neither looks at what the status was.)
HoldStands == \A k \in standing : bot[k].status \in OnHold
=============================================================================
