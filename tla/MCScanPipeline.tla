--------------------------- MODULE MCScanPipeline ----------------------------
(***************************************************************************)
(* Instances of ScanPipeline for TLC.  The instants are cron ticks of a       *)
(* Monday in winter, chosen around the edges of module MarketSession: 09:25,  *)
(* 11:55 and 12:00 in New York.                                               *)
(***************************************************************************)
EXTENDS ScanPipeline, MarketSession

CONSTANTS b1, b2

Moments == <<865, 1015, 1020>>
Moment(t) == Moments[t + 1]

ASSUME MomentsAreTicks == \A t \in Time : ScanDispatchFires(Moment(t))

OpenMoments == {t \in Time : IsMarketHours(Moment(t), Winter)}

\* b1 is a morning hunter, b2 has no preference and avoids Tuesdays.
Allowed ==
    [b \in Bots |-> {t \in Time :
        /\ IsWithinSessionPreference(IF b = b1 THEN "MORNING_HUNTER" ELSE "FULL_SESSION",
                                     Moment(t), Winter)
        /\ ~IsDayAvoided(IF b = b1 THEN {} ELSE {1}, Moment(t), Winter)}]
=============================================================================
