----------------------------- MODULE GateDecision -----------------------------
(***************************************************************************)
(* What the staleness gate promises a scan (the comments of                 *)
(* src/src/lib/staleness-gate.ts), without locks, timers, promises or the   *)
(* order of awaits: it looks once at each bucket a scan asks about, judges  *)
(* it once, with a reason that holds when it does, and answers with the     *)
(* worst of its judgements.  What it judged stays judged, whatever happens  *)
(* to the cache afterwards.                                                 *)
(***************************************************************************)
EXTENDS Integers

CONSTANTS Calls, Buckets, None, FastThreshold, SlowThreshold, SustainedAfter, OuterCap

VARIABLES
    now, bucket, breaker,   \* what a call looks at; others change it too
    call,       \* of each call: "idle", "running", "returned", "failed"
    asked,      \* the buckets it is about
    view,       \* what it thinks of each: unseen, seen (and when), or judged
    answer      \* the outcome, and the buckets whose entries are served

worldVars == <<now, bucket, breaker>>
decisionVars == <<worldVars, call, asked, view, answer>>

Unseen == [outcome |-> None, entry |-> None, seenAt |-> None]
Seen(entry) == [outcome |-> None, entry |-> entry, seenAt |-> now]
Judged(outcome, entry) == [outcome |-> outcome, entry |-> entry, seenAt |-> None]

Severity == [PASS |-> 0, BOUNDED_REFRESH_SUCCESS |-> 1,
             SLOW_TIER_DEGRADED_SERVE |-> 2, SKIPPED |-> 3]
Worst(outcomes) == CHOOSE o \in outcomes : \A p \in outcomes : Severity[p] <= Severity[o]

FreshNow(entry) ==
    /\ entry # None
    /\ now - entry.asOf <= IF entry.tier = "FAST" THEN FastThreshold ELSE SlowThreshold

Init ==
    /\ call = [s \in Calls |-> "idle"]
    /\ asked = [s \in Calls |-> {}]
    /\ view = [s \in Calls |-> [b \in Buckets |-> Unseen]]
    /\ answer = [s \in Calls |-> [outcome |-> None, candidates |-> {}]]

\* A scan asks about at least one bucket.
Ask(s) ==
    /\ call[s] = "idle"
    /\ call' = [call EXCEPT ![s] = "running"]
    /\ \E relevant \in SUBSET Buckets \ {{}} : asked' = [asked EXCEPT ![s] = relevant]
    /\ UNCHANGED <<worldVars, view, answer>>

Think(s, b, thought) ==
    /\ view' = [view EXCEPT ![s][b] = thought]
    /\ UNCHANGED <<call, asked, answer>>

\* The one look at a bucket, which settles it if its entry is fresh.
Look(s, b) ==
    /\ call[s] = "running" /\ b \in asked[s] /\ view[s][b] = Unseen
    /\ Think(s, b, IF FreshNow(bucket[b]) THEN Judged("PASS", bucket[b]) ELSE Seen(bucket[b]))
    /\ UNCHANGED worldVars

NotFresh(s, b) == call[s] = "running" /\ view[s][b].outcome = None /\ view[s][b].seenAt # None

\* Data newer than the look comes into the cache and is judged at once.
Refresh(s, b) ==
    /\ NotFresh(s, b)
    /\ \E asOf \in view[s][b].seenAt..now : LET new == [asOf |-> asOf, tier |-> "FAST"] IN
         /\ bucket' = [bucket EXCEPT ![b] = new]
         /\ Think(s, b, Judged("BOUNDED_REFRESH_SUCCESS", new))
    /\ UNCHANGED <<now, breaker>>

\* Without newer data, an entry of the SLOW tier is served in a sustained outage up to a
\* cap on the age it was seen with.
MayDegrade(seen) ==
    /\ seen.entry # None /\ seen.entry.tier = "SLOW"
    /\ seen.seenAt - seen.entry.asOf <= OuterCap
    /\ breaker.state = "OPEN" /\ now - breaker.openedAt >= SustainedAfter

Degrade(s, b) ==
    /\ NotFresh(s, b) /\ MayDegrade(view[s][b])
    /\ Think(s, b, Judged("SLOW_TIER_DEGRADED_SERVE", view[s][b].entry))
    /\ UNCHANGED worldVars

\* Nothing else is served.
Skip(s, b) ==
    /\ NotFresh(s, b) /\ ~MayDegrade(view[s][b])
    /\ Think(s, b, Judged("SKIPPED", None))
    /\ UNCHANGED worldVars

\* The worst judgement is the outcome, and one skip discards everything.
Answer(s) ==
    LET outcomes == {view[s][b].outcome : b \in asked[s]} IN
    /\ call[s] = "running" /\ None \notin outcomes
    /\ call' = [call EXCEPT ![s] = "returned"]
    /\ answer' = [answer EXCEPT ![s] =
         [outcome |-> Worst(outcomes),
          candidates |-> IF "SKIPPED" \in outcomes THEN {} ELSE asked[s]]]
    /\ UNCHANGED <<worldVars, asked, view>>

\* The call throws or dies, and nothing it thought counts.
GiveUp(s) ==
    /\ call[s] = "running"
    /\ call' = [call EXCEPT ![s] = "failed"]
    /\ view' = [view EXCEPT ![s] = [b \in Buckets |-> Unseen]]
    /\ UNCHANGED <<worldVars, asked, answer>>

\* Time passes, sweeps and late refreshes write: no call notices.
Others ==
    /\ now' \in {now, now + 1}
    /\ UNCHANGED <<call, asked, view, answer>>

Next ==
    \/ Others
    \/ \E s \in Calls :
         \/ Ask(s) \/ Answer(s) \/ GiveUp(s)
         \/ \E b \in Buckets : Look(s, b) \/ Refresh(s, b) \/ Degrade(s, b) \/ Skip(s, b)

Spec == Init /\ [][Next]_decisionVars
=============================================================================
