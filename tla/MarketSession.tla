---------------------------- MODULE MarketSession -----------------------------
(***************************************************************************)
(* The calendar of the system: New York's trading hours                     *)
(* (src/src/lib/market-hours.ts), a bot's session and day preferences       *)
(* (src/src/lib/session-preference.ts) and the cron patterns of             *)
(* src/src/scheduler.ts.  An instant is a minute of the week in UTC, from   *)
(* Monday 00:00 on; New York is `behind` UTC by 240 minutes in summer and   *)
(* 300 in winter.  Holidays are left out: the code knows none.              *)
(***************************************************************************)
EXTENDS Integers

Day == 1440
Week == 7 * Day
Instants == 0..(Week - 1)

Summer == 240
Winter == 300
Seasons == {Summer, Winter}

-----------------------------------------------------------------------------
(* New York *)

NewYork(t, behind) == (t - behind) % Week
\* 0 is Monday.
Weekday(t, behind) == NewYork(t, behind) \div Day
TimeOfDay(t, behind) == NewYork(t, behind) % Day

OpenMinutes == 9 * 60 + 30
AfterFirst30Minutes == 10 * 60
MiddayMinutes == 12 * 60
CloseMinutes == 16 * 60

IsMarketHours(t, behind) ==
    /\ Weekday(t, behind) < 5
    /\ TimeOfDay(t, behind) >= OpenMinutes
    /\ TimeOfDay(t, behind) < CloseMinutes

Preferences == {"MORNING_HUNTER", "AFTERNOON_HUNTER", "AVOID_FIRST_30", "FULL_SESSION"}

\* An unset preference is FULL_SESSION, which does not look at the clock.
IsWithinSessionPreference(preference, t, behind) ==
    LET time == TimeOfDay(t, behind) IN
    \/ preference = "MORNING_HUNTER" /\ time >= OpenMinutes /\ time < MiddayMinutes
    \/ preference = "AFTERNOON_HUNTER" /\ time >= MiddayMinutes /\ time < CloseMinutes
    \/ preference = "AVOID_FIRST_30" /\ time >= AfterFirst30Minutes /\ time < CloseMinutes
    \/ preference = "FULL_SESSION"

\* `avoided` is a set of weekdays.
IsDayAvoided(avoided, t, behind) == Weekday(t, behind) \in avoided

-----------------------------------------------------------------------------
(* The crons, in UTC *)

Minute(t) == t % 60
Hour(t) == (t \div 60) % 24
MondayToFriday(t) == t \div Day < 5

\* "58,3,8,13,18,23,28,33,38,43,48,53 13-21 * * 1-5"
UniverseRefreshFires(t) ==
    Minute(t) % 5 = 3 /\ Hour(t) \in 13..21 /\ MondayToFriday(t)

\* "*/5 14-21 * * 1-5"
ScanDispatchFires(t) == Minute(t) % 5 = 0 /\ Hour(t) \in 14..21 /\ MondayToFriday(t)

\* "30 13 * * 1-5"
RuleResetFires(t) == Minute(t) = 30 /\ Hour(t) = 13 /\ MondayToFriday(t)

\* "5 21 * * 1-5"
SummaryFires(t) == Minute(t) = 5 /\ Hour(t) = 21 /\ MondayToFriday(t)

\* "0 5 * * 1-5"
ResetAiCountersFires(t) == Minute(t) = 0 /\ Hour(t) = 5 /\ MondayToFriday(t)
=============================================================================
