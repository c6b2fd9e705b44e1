------------------------- MODULE WorkerProcessProofs --------------------------
(***************************************************************************)
(* Theorems about WorkerProcess, for every set of jobs and of signals, every *)
(* timer and every number of faults, with and without Sentry.                *)
(***************************************************************************)
EXTENDS WorkerProcess, TLAPS

\* The key outlives a missed beat: 90 s against two intervals of 30 s.
TTLCoversTwoBeats == 2 * Interval < TTL

-----------------------------------------------------------------------------
(* The invariant *)

Shutdown == {"del", "quit"}
Draining == \E k \in Signals : call[k] = "draining"

\* main() goes through its phases with the connection as it left it: nothing on it before
\* the first beat, the interval running from its answer on until a signal.
PhaseInv ==
    /\ phase = "boot" => active = {}
    /\ phase \in {"boot", "connecting"} => wire = <<>>
    /\ phase = "beating" /\ Running => wire = <<[op |-> "first", by |-> None]>>
    /\ phase # "beating" => \A i \in DOMAIN wire : wire[i].op # "first"
    /\ phase # "serving" => ~Signalled
    /\ phase \in {"boot", "connecting", "beating"} => ~interval
    /\ Signalled => ~interval
    /\ phase \in {"registering", "serving"} /\ ~Signalled => interval

\* A shutdown has the one command on the wire that its progress names, and once one has
\* begun no beat is sent.
WireInv ==
    /\ \A i \in DOMAIN wire : wire[i].op \in Shutdown => call[wire[i].by] = wire[i].op
    /\ \A i, j \in DOMAIN wire : i < j /\ wire[i].op \in Shutdown =>
         wire[j].op \in Shutdown /\ wire[i].by # wire[j].by

\* When the last beat that succeeded was sent, if at most one has been missed since.
LastBeat ==
    nextBeat - Interval - (IF wire = <<>> THEN 0 ELSE Interval)
                        - (IF missed = 0 THEN 0 ELSE Interval)

\* While the interval runs, beats are sent when due, and one at a time; the key lives TTL from
\* the last one that succeeded.
BeatInv ==
    interval /\ Running =>
        /\ now <= nextBeat
        /\ wire # <<>> =>
             wire = <<[op |-> "beat", by |-> None]>> /\ nextBeat = now + Interval
        /\ missed < 2 => keyUntil # None /\ keyUntil >= LastBeat + TTL

\* Once a DEL has been executed no beat is left on the wire to set the key again, and what
\* follows a QUIT follows a shutdown that drains for good.
GoneInv ==
    /\ (\E k \in Signals : call[k] \in {"quit", "draining"}) =>
         /\ keyUntil = None
         /\ \A i \in DOMAIN wire : wire[i].op \in Shutdown
    /\ closed \/ drainAt # None \/ exit = 0 => Draining

ProcessInv == ProcessTypeOK /\ PhaseInv /\ WireInv /\ GoneInv

\* What the platform and the code know as exit codes is no None.
LEMMA Codes == None \notin Nat /\ {0, 1, Killed} \subseteq Nat
BY ProcessAssumption DEF Killed

\* The oldest command, and what is left when it is taken.
LEMMA Oldest ==
    ASSUME ProcessTypeOK, wire # <<>>
    PROVE  /\ Len(wire) \in Nat \ {0} /\ DOMAIN wire = 1..Len(wire)
           /\ Head(wire) = wire[1] /\ Head(wire) \in Command
           /\ Tail(wire) \in Seq(Command) /\ Len(Tail(wire)) = Len(wire) - 1
           /\ DOMAIN Tail(wire) = 1..(Len(wire) - 1)
           /\ \A n \in DOMAIN Tail(wire) : n + 1 \in DOMAIN wire /\ Tail(wire)[n] = wire[n + 1]
BY DEF ProcessTypeOK

\* What a command is, by its name.
LEMMA CommandKinds ==
    ASSUME NEW c \in Command
    PROVE  /\ c.op \in {"first", "beat", "del", "quit"}
           /\ c.op \in Shutdown => c.by \in Signals
           /\ c.op \notin Shutdown => c = [op |-> c.op, by |-> None]
BY DEF Command, Shutdown

\* A command sent comes last.
LEMMA Newest ==
    ASSUME ProcessTypeOK, NEW c \in Command
    PROVE  /\ Len(wire) \in Nat /\ DOMAIN wire = 1..Len(wire)
           /\ Append(wire, c) \in Seq(Command)
           /\ DOMAIN Append(wire, c) = 1..(Len(wire) + 1)
           /\ \A n \in DOMAIN wire : Append(wire, c)[n] = wire[n]
           /\ Append(wire, c)[Len(wire) + 1] = c
BY DEF ProcessTypeOK

\* Every step keeps the types.
LEMMA TypesStep == ProcessTypeOK /\ [Next]_vars => ProcessTypeOK'
<1> SUFFICES ASSUME ProcessTypeOK, [Next]_vars
             PROVE  ProcessTypeOK'
  OBVIOUS
<1>a. /\ Interval \in Nat /\ TTL \in Nat /\ MaxFaults \in Nat
      /\ [op |-> "first", by |-> None] \in Command /\ [op |-> "beat", by |-> None] \in Command
      /\ \A k \in Signals : [op |-> "del", by |-> k] \in Command
                            /\ [op |-> "quit", by |-> k] \in Command
  BY ProcessAssumption DEF Command
<1> USE DEF ProcessTypeOK
<1>1. CASE Tick
  BY <1>1, <1>a DEF Tick, shutdownVars
<1>2. CASE Boot \/ Register
  BY <1>2 DEF Boot, Register, Exit, heartVars, shutdownVars
<1>3. CASE Connect
  BY <1>3, <1>a, Newest DEF Connect, Send, shutdownVars
<1>4. CASE StartFails \/ Drained \/ CloseFails \/ TimesOut \/ Sigkill
  BY <1>4, <1>a DEF StartFails, Drained, CloseFails, TimesOut, Sigkill, Exit, heartVars,
     shutdownVars
<1>5. CASE \E j \in Jobs : TakeJob(j) \/ FinishJob(j)
  BY <1>5 DEF TakeJob, FinishJob, heartVars, shutdownVars
<1>6. CASE Beat
  BY <1>6, <1>a, Newest DEF Beat, Send, shutdownVars
<1>7. CASE BeatExecuted
  <2>1. wire' \in Seq(Command)
    BY <1>7, Oldest DEF BeatExecuted
  <2>2. /\ keyUntil' \in Nat /\ missed' = 0
        /\ UNCHANGED <<now, sentry, exit, active, faults, shutdownVars, closed>>
    BY <1>7, <1>a DEF BeatExecuted, KeyExpiry
  <2>3. /\ phase' \in {"boot", "connecting", "beating", "registering", "serving"}
        /\ interval' \in BOOLEAN /\ nextBeat' \in Nat
    <3>1. CASE Head(wire).op = "first"
      BY <1>7, <1>a, <3>1 DEF BeatExecuted
    <3>2. CASE Head(wire).op # "first"
      BY <1>7, <3>2 DEF BeatExecuted
    <3> QED
      BY <3>1, <3>2
  <2> QED
    BY <2>1, <2>2, <2>3 DEF shutdownVars
<1>8. CASE DelExecuted
  <2>1. Head(wire).by \in Signals /\ Tail(wire) \in Seq(Command)
    BY <1>8, Oldest, CommandKinds DEF DelExecuted, Shutdown
  <2>2. [op |-> "quit", by |-> Head(wire).by] \in Command
    BY <1>a, <2>1
  <2>3. wire' \in Seq(Command)
    BY <1>8, <2>1, <2>2 DEF DelExecuted
  <2> QED
    BY <1>8, <2>1, <2>3 DEF DelExecuted
<1>9. CASE QuitExecuted
  <2>1. Head(wire).by \in Signals /\ Tail(wire) \in Seq(Command)
    BY <1>9, Oldest, CommandKinds DEF QuitExecuted, Shutdown
  <2> QED
    BY <1>9, <2>1 DEF QuitExecuted
<1>10. CASE CommandRejected
  <2>1. /\ Head(wire) \in Command /\ Tail(wire) \in Seq(Command)
        /\ Head(wire).op \in {"first", "beat", "del", "quit"}
        /\ Head(wire).op \in Shutdown => Head(wire).by \in Signals
    BY <1>10, Oldest, CommandKinds DEF CommandRejected
  <2>2. faults' \in 0..MaxFaults /\ wire' \in Seq(Command)
    BY <1>10, <1>a, <2>1 DEF CommandRejected
  <2>3. /\ missed' \in Nat /\ exit' \in {None, 0, 1, Killed}
        /\ call' \in [Signals -> {"none", "del", "quit", "draining", "stuck"}]
    <3>1. CASE Head(wire).op = "beat"
      BY <1>10, <3>1 DEF CommandRejected
    <3>2. CASE Head(wire).op = "first"
      BY <1>10, <3>2 DEF CommandRejected, Exit
    <3>3. CASE Head(wire).op \in {"del", "quit"}
      BY <1>10, <2>1, <3>3 DEF CommandRejected, Exit, Shutdown
    <3> QED
      BY <2>1, <3>1, <3>2, <3>3
  <2> QED
    BY <1>10, <2>2, <2>3 DEF CommandRejected
<1>11. ASSUME NEW k \in Signals, Signal(k)
       PROVE  ProcessTypeOK'
  <2>1. Append(wire, [op |-> "del", by |-> k]) \in Seq(Command)
    BY <1>a, Newest
  <2>2. CASE phase = "serving"
    BY <1>11, <2>1, <2>2 DEF Signal, Send
  <2>3. CASE phase # "serving"
    BY <1>11, <2>3 DEF Signal, Exit
  <2> QED
    BY <2>2, <2>3
<1>12. CASE UNCHANGED vars
  BY <1>12 DEF vars, heartVars, shutdownVars
<1> QED
  BY <1>1, <1>2, <1>3, <1>4, <1>5, <1>6, <1>7, <1>8, <1>9, <1>10, <1>11, <1>12 DEF Next

-----------------------------------------------------------------------------
(* What a step does to the connection *)

\* A step leaves the connection alone, sends a command, or takes the oldest one; executing a
\* DEL does both.
Rests == UNCHANGED <<wire, call>>

Sends ==
    \/ \E o \in {"first", "beat"} : /\ Send(o, None) /\ UNCHANGED call
                                    /\ o = "first" <=> phase = "connecting"
                                    /\ o = "beat" => interval
    \/ \E k \in Signals : /\ Send("del", k) /\ call[k] = "none" /\ phase = "serving"
                          /\ call' = [call EXCEPT ![k] = "del"]

Takes ==
    /\ wire # <<>>
    /\ wire' = Tail(wire)
    /\ \/ UNCHANGED call
       \/ /\ Head(wire).op \in Shutdown
          /\ \E r \in {"draining", "stuck"} :
               /\ call' = [call EXCEPT ![Head(wire).by] = r]
               /\ r = "draining" => Head(wire).op = "quit"

Forwards ==
    /\ wire # <<>>
    /\ Head(wire).op = "del"
    /\ wire' = Append(Tail(wire), [op |-> "quit", by |-> Head(wire).by])
    /\ call' = [call EXCEPT ![Head(wire).by] = "quit"]

\* Every step is one of four kinds for the wire and the shutdowns.
LEMMA Moves ==
    ASSUME ProcessTypeOK, PhaseInv, [Next]_vars
    PROVE  Rests \/ Sends \/ Takes \/ Forwards
<1>1. CASE Tick \/ Boot \/ Register \/ StartFails \/ Drained \/ CloseFails \/ TimesOut
           \/ Sigkill \/ UNCHANGED vars
           \/ (\E j \in Jobs : TakeJob(j) \/ FinishJob(j))
  BY <1>1 DEF Tick, Boot, Register, StartFails, Drained, CloseFails, TimesOut, Sigkill,
     TakeJob, FinishJob, vars, heartVars, shutdownVars, Rests
<1>2. CASE Connect
  BY <1>2 DEF Connect, Sends, shutdownVars
<1>3. CASE Beat
  BY <1>3 DEF Beat, Sends, shutdownVars, PhaseInv
<1>4. CASE BeatExecuted
  BY <1>4 DEF BeatExecuted, Takes, shutdownVars
<1>5. CASE DelExecuted
  BY <1>5 DEF DelExecuted, Forwards
<1>6. CASE QuitExecuted
  BY <1>6 DEF QuitExecuted, Takes, Shutdown
<1>7. CASE CommandRejected
  BY <1>7 DEF CommandRejected, Takes, Shutdown
<1>8. ASSUME NEW k \in Signals, Signal(k)
      PROVE  Rests \/ Sends
  <2>1. CASE phase = "serving"
    BY <1>8, <2>1 DEF Signal, Sends
  <2>2. CASE phase # "serving"
    BY <1>8, <2>2 DEF Signal, Rests
  <2> QED
    BY <2>1, <2>2
<1> QED
  BY <1>1, <1>2, <1>3, <1>4, <1>5, <1>6, <1>7, <1>8 DEF Next

\* Executing a DEL: the connection that is left.
LEMMA Forwarded ==
    ASSUME ProcessTypeOK, Forwards
    PROVE  /\ Head(wire).by \in Signals
           /\ DOMAIN wire' = 1..Len(wire)
           /\ \A n \in 1..(Len(wire) - 1) : wire'[n] = wire[n + 1]
           /\ wire'[Len(wire)] = [op |-> "quit", by |-> Head(wire).by]
<1>1. /\ Head(wire).by \in Signals /\ Tail(wire) \in Seq(Command)
      /\ Len(wire) \in Nat \ {0} /\ Len(Tail(wire)) = Len(wire) - 1
      /\ DOMAIN Tail(wire) = 1..(Len(wire) - 1)
      /\ \A n \in DOMAIN Tail(wire) : Tail(wire)[n] = wire[n + 1]
  BY Oldest, CommandKinds DEF Forwards, Shutdown
<1>2. [op |-> "quit", by |-> Head(wire).by] \in Command
  BY <1>1 DEF Command
<1>3. /\ DOMAIN wire' = 1..(Len(Tail(wire)) + 1)
      /\ \A n \in DOMAIN Tail(wire) : wire'[n] = Tail(wire)[n]
      /\ wire'[Len(Tail(wire)) + 1] = [op |-> "quit", by |-> Head(wire).by]
  BY <1>1, <1>2 DEF Forwards
<1> QED
  BY <1>1, <1>3

\* Every step keeps the order on the connection.
LEMMA WireStep == ProcessTypeOK /\ PhaseInv /\ WireInv /\ [Next]_vars => WireInv'
<1> SUFFICES ASSUME ProcessTypeOK, PhaseInv, WireInv, [Next]_vars
             PROVE  WireInv'
  OBVIOUS
<1>a. /\ call \in [Signals -> {"none", "del", "quit", "draining", "stuck"}]
      /\ \A i \in DOMAIN wire : wire[i] \in Command
  BY DEF ProcessTypeOK
<1>b. \A i \in DOMAIN wire : wire[i].op \in Shutdown => wire[i].by \in Signals
  BY <1>a, CommandKinds
<1>1. CASE Rests
  BY <1>1 DEF Rests, WireInv
<1>2. CASE Sends
  <2>1. ASSUME NEW o \in {"first", "beat"}, Send(o, None), UNCHANGED call,
               o = "first" <=> phase = "connecting", o = "beat" => interval
        PROVE  WireInv'
    <3>1. [op |-> o, by |-> None] \in Command
      BY DEF Command
    <3>2. \A i \in DOMAIN wire : wire[i].op \notin Shutdown
      <4>1. SUFFICES ASSUME NEW i \in DOMAIN wire, wire[i].op \in Shutdown
                     PROVE  FALSE
        OBVIOUS
      <4>2. wire[i].by \in Signals /\ call[wire[i].by] # "none"
        BY <1>b, <4>1 DEF WireInv, Shutdown
      <4> QED
        BY <2>1, <4>2 DEF PhaseInv, Signalled
    <3> QED
      BY <2>1, <3>1, <3>2, Newest DEF Send, WireInv, Shutdown
  <2>2. ASSUME NEW k \in Signals, Send("del", k), call[k] = "none",
               call' = [call EXCEPT ![k] = "del"]
        PROVE  WireInv'
    <3>1. [op |-> "del", by |-> k] \in Command
      BY DEF Command
    <3>2. \A i \in DOMAIN wire : wire[i].op \in Shutdown => wire[i].by # k
      BY <2>2 DEF WireInv, Shutdown
    <3> QED
      BY <1>a, <1>b, <2>2, <3>1, <3>2, Newest DEF Send, WireInv, Shutdown
  <2> QED
    BY <1>2, <2>1, <2>2 DEF Sends
\* The commands behind the one taken are by others.
<1>c. ASSUME wire # <<>>, Head(wire).op \in Shutdown, NEW n \in DOMAIN Tail(wire)
      PROVE  /\ wire[n + 1].op \in Shutdown /\ wire[n + 1].by \in Signals
             /\ wire[n + 1].by # Head(wire).by
  <2>1. /\ n + 1 \in DOMAIN wire /\ 1 \in DOMAIN wire /\ 1 < n + 1 /\ Head(wire) = wire[1]
    BY <1>c, Oldest
  <2> QED
    BY <1>b, <1>c, <2>1 DEF WireInv
<1>3. CASE Takes
  <2>1. /\ DOMAIN wire' = 1..(Len(wire) - 1) /\ Len(wire) \in Nat \ {0}
        /\ DOMAIN wire = 1..Len(wire)
        /\ \A n \in DOMAIN wire' : n + 1 \in DOMAIN wire /\ wire'[n] = wire[n + 1]
    BY <1>3, Oldest DEF Takes
  <2>2. \A n \in DOMAIN wire' :
           wire'[n].op \in Shutdown => call'[wire'[n].by] = call[wire'[n].by]
    <3>1. CASE UNCHANGED call
      BY <3>1
    <3>2. ASSUME Head(wire).op \in Shutdown, NEW r \in {"draining", "stuck"},
                 call' = [call EXCEPT ![Head(wire).by] = r], NEW n \in DOMAIN wire'
          PROVE  call'[wire'[n].by] = call[wire'[n].by]
      <4>1. wire'[n] = wire[n + 1] /\ n \in DOMAIN Tail(wire)
        BY <1>3, <2>1 DEF Takes
      <4> QED
        BY <1>3, <1>a, <1>c, <3>2, <4>1 DEF Takes
    <3> QED
      BY <1>3, <3>1, <3>2 DEF Takes
  <2> QED
    BY <2>1, <2>2 DEF WireInv
<1>4. CASE Forwards
  <2>1. /\ Head(wire).by \in Signals
        /\ DOMAIN wire' = 1..Len(wire) /\ Len(wire) \in Nat \ {0}
        /\ DOMAIN wire = 1..Len(wire) /\ DOMAIN Tail(wire) = 1..(Len(wire) - 1)
        /\ \A n \in 1..(Len(wire) - 1) : wire'[n] = wire[n + 1]
        /\ wire'[Len(wire)] = [op |-> "quit", by |-> Head(wire).by]
    BY <1>4, Forwarded, Oldest DEF Forwards
  <2>2. /\ call'[Head(wire).by] = "quit"
        /\ \A k \in Signals \ {Head(wire).by} : call'[k] = call[k]
    BY <1>4, <1>a, <2>1 DEF Forwards
  <2>3. \A n \in 1..(Len(wire) - 1) :
           /\ wire'[n].op \in Shutdown /\ wire'[n].by \in Signals
           /\ wire'[n].by # Head(wire).by
           /\ call'[wire'[n].by] = wire'[n].op
    <3> TAKE n \in 1..(Len(wire) - 1)
    <3>1. /\ wire[n + 1].op \in Shutdown /\ wire[n + 1].by \in Signals
          /\ wire[n + 1].by # Head(wire).by
      BY <1>4, <1>c, <2>1 DEF Forwards, Shutdown
    <3>2. n + 1 \in DOMAIN wire
      BY <2>1
    <3> QED
      BY <2>1, <2>2, <3>1, <3>2 DEF WireInv
  <2>4. \A i \in DOMAIN wire' : wire'[i].op \in Shutdown => call'[wire'[i].by] = wire'[i].op
    BY <2>1, <2>2, <2>3
  <2>5. ASSUME NEW i \in DOMAIN wire', NEW j \in DOMAIN wire', i < j
        PROVE  wire'[j].op \in Shutdown /\ wire'[i].by # wire'[j].by
    <3>1. CASE j = Len(wire)
      BY <2>1, <2>3, <2>5, <3>1 DEF Shutdown
    <3>2. CASE j # Len(wire)
      <4>1. /\ j \in 1..(Len(wire) - 1) /\ i \in 1..(Len(wire) - 1)
            /\ i + 1 \in DOMAIN wire /\ j + 1 \in DOMAIN wire /\ i + 1 < j + 1
        BY <2>1, <2>5, <3>2
      <4> QED
        BY <2>1, <2>3, <4>1 DEF WireInv
    <3> QED
      BY <3>1, <3>2
  <2> QED
    BY <2>4, <2>5 DEF WireInv
<1> QED
  BY <1>1, <1>2, <1>3, <1>4, Moves

-----------------------------------------------------------------------------
(* Phases, and what follows a DEL *)

\* No first beat is on the wire but the one main() waits for.
LEMMA FirstIsHead ==
    ASSUME ProcessTypeOK, PhaseInv, Running, wire # <<>>, Head(wire).op = "first"
    PROVE  phase = "beating" /\ Tail(wire) = <<>>
<1>1. 1 \in DOMAIN wire /\ wire[1].op = "first"
  BY Oldest
<1>2. phase = "beating"
  BY <1>1 DEF PhaseInv
<1>3. wire = <<[op |-> "first", by |-> None]>>
  BY <1>2 DEF PhaseInv
<1> QED
  BY <1>2, <1>3

\* A command of a shutdown is on the wire only while the process serves.
LEMMA ServesShutdown ==
    ASSUME ProcessTypeOK, PhaseInv, WireInv, NEW i \in DOMAIN wire, wire[i].op \in Shutdown
    PROVE  Signalled /\ phase = "serving" /\ ~interval
<1>1. wire[i].by \in Signals /\ call[wire[i].by] # "none"
  BY CommandKinds DEF ProcessTypeOK, WireInv, Shutdown
<1> QED
  BY <1>1 DEF Signalled, PhaseInv

\* Every step keeps the phases in order.
LEMMA PhaseStep == ProcessTypeOK /\ PhaseInv /\ WireInv /\ [Next]_vars => PhaseInv'
<1> SUFFICES ASSUME ProcessTypeOK, PhaseInv, WireInv, [Next]_vars
             PROVE  PhaseInv'
  OBVIOUS
<1>a. None \notin Nat
  BY ProcessAssumption
<1>1. CASE Tick \/ Register \/ UNCHANGED vars
           \/ (\E j \in Jobs : TakeJob(j) \/ FinishJob(j))
  BY <1>1 DEF Tick, Register, TakeJob, FinishJob, vars, heartVars, shutdownVars, PhaseInv,
     Running, Signalled
<1>2. CASE Boot
  BY <1>2 DEF Boot, heartVars, shutdownVars, PhaseInv, Running, Signalled, Exit
<1>3. CASE StartFails \/ Drained \/ CloseFails \/ TimesOut \/ Sigkill
  <2>1. UNCHANGED <<phase, active, wire, call, interval>> /\ exit' # None
    BY <1>3, Codes DEF StartFails, Drained, CloseFails, TimesOut, Sigkill, Exit, heartVars,
       shutdownVars
  <2> QED
    BY <2>1 DEF PhaseInv, Running, Signalled
<1>4. CASE Connect
  <2>1. wire' = <<[op |-> "first", by |-> None]>> /\ phase' = "beating"
    BY <1>4 DEF Connect, Send, PhaseInv
  <2> QED
    BY <1>4, <2>1 DEF Connect, PhaseInv, shutdownVars, Signalled
<1>5. CASE Beat
  <2>1. phase \in {"registering", "serving"} /\ ~Signalled /\ interval
    BY <1>5 DEF Beat, PhaseInv, ProcessTypeOK
  <2>2. [op |-> "beat", by |-> None] \in Command
    BY DEF Command
  <2>3. \A i \in DOMAIN wire' : wire'[i].op # "first"
    BY <1>5, <2>1, <2>2, Newest DEF Beat, Send, PhaseInv
  <2>4. UNCHANGED <<phase, call, interval, active>>
    BY <1>5 DEF Beat, shutdownVars
  <2> QED
    BY <2>1, <2>3, <2>4 DEF PhaseInv, Signalled
\* Taking the oldest command leaves no first beat that was not there.
<1>b. ASSUME wire # <<>>, \A i \in DOMAIN wire : wire[i].op # "first"
      PROVE  \A i \in DOMAIN Tail(wire) : Tail(wire)[i].op # "first"
  BY <1>b, Oldest
<1>6. CASE BeatExecuted
  <2>1. CASE Head(wire).op = "first"
    <3>1. phase = "beating" /\ wire' = <<>>
      BY <1>6, <2>1, FirstIsHead DEF BeatExecuted
    <3>2. ~Signalled /\ UNCHANGED call /\ interval' = TRUE /\ phase' = "registering"
      BY <1>6, <2>1, <3>1 DEF BeatExecuted, PhaseInv, shutdownVars
    <3> QED
      BY <3>1, <3>2 DEF PhaseInv, Signalled
  <2>2. CASE Head(wire).op # "first"
    <3>1. /\ phase # "beating" /\ phase \notin {"boot", "connecting"}
      BY <1>6, <2>2 DEF BeatExecuted, PhaseInv
    <3>2. UNCHANGED <<phase, interval, call, active>> /\ wire' = Tail(wire) /\ wire # <<>>
      BY <1>6, <2>2 DEF BeatExecuted, shutdownVars
    <3>3. \A i \in DOMAIN wire' : wire'[i].op # "first"
      BY <1>b, <3>1, <3>2 DEF PhaseInv
    <3> QED
      BY <3>1, <3>2, <3>3 DEF PhaseInv, Signalled
  <2> QED
    BY <2>1, <2>2
<1>7. CASE DelExecuted \/ QuitExecuted
  <2>1. /\ 1 \in DOMAIN wire /\ wire[1].op \in Shutdown /\ wire # <<>>
        /\ wire[1] = Head(wire)
    BY <1>7, Oldest DEF DelExecuted, QuitExecuted, Shutdown
  <2>2. phase = "serving" /\ ~interval /\ Signalled
    BY <2>1, ServesShutdown
  <2>3. UNCHANGED <<phase, interval, active>>
    BY <1>7 DEF DelExecuted, QuitExecuted
  <2>4. \A i \in DOMAIN wire' : wire'[i].op # "first"
    <3>1. \A i \in DOMAIN wire : wire[i].op # "first"
      BY <2>2 DEF PhaseInv
    <3>2. CASE DelExecuted
      <4>1. Forwards
        BY <3>2 DEF DelExecuted, Forwards
      <4>2. DOMAIN wire = 1..Len(wire) /\ Len(wire) \in Nat \ {0}
        BY <2>1, Oldest
      <4>3. /\ DOMAIN wire' = 1..Len(wire)
            /\ \A n \in 1..(Len(wire) - 1) : wire'[n] = wire[n + 1]
            /\ wire'[Len(wire)].op = "quit"
        BY <4>1, Forwarded
      <4>4. \A n \in 1..(Len(wire) - 1) : n + 1 \in DOMAIN wire
        BY <4>2
      <4>5. \A n \in 1..(Len(wire) - 1) : wire'[n].op # "first"
        BY <3>1, <4>3, <4>4
      <4>6. \A n \in DOMAIN wire' : n \in 1..(Len(wire) - 1) \/ n = Len(wire)
        BY <4>2, <4>3
      <4> QED
        BY <4>3, <4>5, <4>6
    <3>3. CASE QuitExecuted
      BY <1>b, <2>1, <3>1, <3>3 DEF QuitExecuted
    <3> QED
      BY <1>7, <3>2, <3>3
  <2>5. Signalled'
    <3>1. /\ Head(wire).by \in Signals
          /\ \E r \in {"quit", "draining"} : call' = [call EXCEPT ![Head(wire).by] = r]
      BY <1>7, <2>1, CommandKinds DEF DelExecuted, QuitExecuted, ProcessTypeOK
    <3>2. call'[Head(wire).by] # "none"
      BY <3>1 DEF ProcessTypeOK
    <3> QED
      BY <3>1, <3>2 DEF Signalled
  <2> QED
    BY <2>2, <2>3, <2>4, <2>5 DEF PhaseInv
<1>8. CASE CommandRejected
  <2>1. UNCHANGED <<phase, interval, active>> /\ wire # <<>> /\ wire' = Tail(wire) /\ Running
    BY <1>8 DEF CommandRejected
  <2>2. phase \notin {"boot", "connecting"}
    BY <2>1 DEF PhaseInv
  <2>3. CASE Head(wire).op = "first"
    <3>1. phase = "beating" /\ wire' = <<>>
      BY <2>1, <2>3, FirstIsHead
    <3>2. exit' # None /\ UNCHANGED call
      BY <1>8, <2>3, Codes DEF CommandRejected, Exit
    <3> QED
      BY <2>1, <3>1, <3>2 DEF PhaseInv, Running, Signalled
  <2>4. CASE Head(wire).op # "first"
    <3>1. phase # "beating"
      BY <2>1, <2>4 DEF PhaseInv
    <3>2. \A i \in DOMAIN wire' : wire'[i].op # "first"
      BY <1>b, <2>1, <3>1 DEF PhaseInv
    <3>3. UNCHANGED call \/ (Signalled' /\ phase = "serving" /\ ~interval)
      <4>1. CASE Head(wire).op \in Shutdown
        <5>1. /\ 1 \in DOMAIN wire /\ wire[1] = Head(wire) /\ Head(wire) \in Command
          BY <2>1, Oldest
        <5>2. /\ phase = "serving" /\ ~interval /\ Head(wire).by \in Signals
          BY <4>1, <5>1, ServesShutdown, CommandKinds
        <5>3. UNCHANGED call \/ call' = [call EXCEPT ![Head(wire).by] = "stuck"]
          BY <1>8 DEF CommandRejected
        <5>4. CASE call' = [call EXCEPT ![Head(wire).by] = "stuck"]
          <6>1. call'[Head(wire).by] # "none"
            BY <5>2, <5>4 DEF ProcessTypeOK
          <6> QED
            BY <5>2, <6>1 DEF Signalled
        <5> QED
          BY <5>2, <5>3, <5>4
      <4>2. CASE Head(wire).op \notin Shutdown
        BY <1>8, <2>4, <4>2 DEF CommandRejected, Shutdown
      <4> QED
        BY <4>1, <4>2
    <3> QED
      BY <2>1, <2>2, <3>1, <3>2, <3>3 DEF PhaseInv, Signalled
  <2> QED
    BY <2>3, <2>4
<1>9. ASSUME NEW k \in Signals, Signal(k)
      PROVE  PhaseInv'
  <2>1. CASE phase = "serving"
    <3>1. /\ UNCHANGED <<phase, active>> /\ interval' = FALSE
          /\ wire' = Append(wire, [op |-> "del", by |-> k])
      BY <1>9, <2>1 DEF Signal, Send
    <3>2. call'[k] = "del"
      BY <1>9, <2>1 DEF Signal, ProcessTypeOK
    <3>3. [op |-> "del", by |-> k] \in Command
      BY DEF Command
    <3>4. \A i \in DOMAIN wire' : wire'[i].op # "first"
      BY <2>1, <3>1, <3>3, Newest DEF PhaseInv
    <3> QED
      BY <2>1, <3>1, <3>2, <3>4 DEF PhaseInv, Signalled
  <2>2. CASE phase # "serving"
    <3>1. UNCHANGED <<phase, active, wire, call, interval>> /\ exit' # None
      BY <1>9, <2>2, Codes DEF Signal, Exit
    <3> QED
      BY <2>2, <3>1 DEF PhaseInv, Running, Signalled
  <2> QED
    BY <2>1, <2>2
<1> QED
  BY <1>1, <1>2, <1>3, <1>4, <1>5, <1>6, <1>7, <1>8, <1>9 DEF Next

\* A draining shutdown has no command on the wire, so it drains on.
LEMMA DrainingStays ==
    ASSUME ProcessTypeOK, PhaseInv, WireInv, Draining, [Next]_vars
    PROVE  Draining'
<1>1. PICK d \in Signals : call[d] = "draining"
  BY DEF Draining
<1>2. wire # <<>> /\ Head(wire).op \in Shutdown => Head(wire).by \in Signals \ {d}
  <2>1. SUFFICES ASSUME wire # <<>>, Head(wire).op \in Shutdown
                 PROVE  Head(wire).by \in Signals \ {d}
    OBVIOUS
  <2>2. 1 \in DOMAIN wire /\ Head(wire) = wire[1] /\ Head(wire) \in Command
    BY <2>1, Oldest
  <2>3. call[wire[1].by] = wire[1].op
    BY <2>1, <2>2 DEF WireInv
  <2> QED
    BY <1>1, <2>1, <2>2, <2>3, CommandKinds DEF Shutdown
<1>3. call'[d] = "draining"
  <2>1. CASE Rests
    BY <1>1, <2>1 DEF Rests
  <2>2. CASE Sends
    BY <1>1, <2>2 DEF Sends, ProcessTypeOK
  <2>3. CASE Takes
    BY <1>1, <1>2, <2>3 DEF Takes, ProcessTypeOK
  <2>4. CASE Forwards
    BY <1>1, <1>2, <2>4 DEF Forwards, ProcessTypeOK, Shutdown
  <2> QED
    BY <2>1, <2>2, <2>3, <2>4, Moves
<1> QED
  BY <1>3 DEF Draining

\* The key is set by a beat alone; otherwise it stays, is deleted, or expires.
LEMMA KeySteps ==
    ASSUME [Next]_vars
    PROVE  \/ keyUntil' = keyUntil
           \/ keyUntil' = None
           \/ wire # <<>> /\ Head(wire).op \in {"first", "beat"} /\ UNCHANGED call
BY DEF Next, Tick, Boot, Connect, Register, StartFails, TakeJob, FinishJob, Beat, BeatExecuted,
   DelExecuted, QuitExecuted, CommandRejected, Signal, Drained, CloseFails, TimesOut, Sigkill,
   vars, heartVars, shutdownVars

\* A shutdown whose DEL has been executed.
Gone == \E k \in Signals : call[k] \in {"quit", "draining"}
OnlyShutdown == \A i \in DOMAIN wire : wire[i].op \in Shutdown

\* What is on the wire once a DEL has been executed.
LEMMA OnlyShutdownStep ==
    ASSUME ProcessTypeOK, PhaseInv, WireInv, Gone => OnlyShutdown, [Next]_vars, Gone'
    PROVE  OnlyShutdown'
<1>a. /\ call \in [Signals -> {"none", "del", "quit", "draining", "stuck"}]
      /\ \A i \in DOMAIN wire : wire[i] \in Command
  BY DEF ProcessTypeOK
<1>1. CASE Rests
  BY <1>1 DEF Rests, Gone, OnlyShutdown
<1>2. CASE Sends
  <2>1. ASSUME NEW o \in {"first", "beat"}, UNCHANGED call,
               o = "first" <=> phase = "connecting", o = "beat" => interval
        PROVE  FALSE
    <3>1. ~Signalled
      BY <2>1 DEF PhaseInv
    <3> QED
      BY <2>1, <3>1 DEF Gone, Signalled
  <2>2. ASSUME NEW k \in Signals, Send("del", k), call[k] = "none",
               call' = [call EXCEPT ![k] = "del"]
        PROVE  OnlyShutdown'
    <3>1. Gone
      BY <1>a, <2>2 DEF Gone
    <3>2. [op |-> "del", by |-> k] \in Command
      BY DEF Command
    <3> QED
      BY <2>2, <3>1, <3>2, Newest DEF Send, OnlyShutdown, Shutdown
  <2> QED
    BY <1>2, <2>1, <2>2 DEF Sends
<1>3. CASE Takes
  <2>1. Gone
    <3>1. CASE UNCHANGED call
      BY <3>1 DEF Gone
    <3>2. CASE Head(wire).op = "quit"
      BY <1>3, <1>a, <3>2, Oldest, CommandKinds DEF Takes, WireInv, Gone, Shutdown
    <3>3. ASSUME Head(wire).op = "del", NEW r \in {"draining", "stuck"},
                 call' = [call EXCEPT ![Head(wire).by] = r],
                 r = "draining" => Head(wire).op = "quit"
          PROVE  Gone
      <4>1. /\ 1 \in DOMAIN wire /\ Head(wire) = wire[1] /\ Head(wire).by \in Signals
        BY <1>3, <3>3, Oldest, CommandKinds DEF Takes, Shutdown
      <4> QED
        BY <1>a, <3>3, <4>1 DEF Gone
    <3> QED
      BY <1>3, <3>1, <3>2, <3>3 DEF Takes, Shutdown
  <2> QED
    BY <1>3, <2>1, Oldest DEF Takes, OnlyShutdown
<1>4. CASE Forwards
  <2>1. /\ DOMAIN wire' = 1..Len(wire) /\ Len(wire) \in Nat \ {0}
        /\ DOMAIN wire = 1..Len(wire) /\ wire[1] = Head(wire)
        /\ \A n \in 1..(Len(wire) - 1) : wire'[n] = wire[n + 1]
        /\ wire'[Len(wire)].op = "quit"
    BY <1>4, Forwarded, Oldest DEF Forwards
  <2>2. \A n \in 1..(Len(wire) - 1) : wire[n + 1].op \in Shutdown
    <3> TAKE n \in 1..(Len(wire) - 1)
    <3>1. 1 \in DOMAIN wire /\ n + 1 \in DOMAIN wire /\ 1 < n + 1
      BY <2>1
    <3> QED
      BY <1>4, <2>1, <3>1 DEF Forwards, WireInv, Shutdown
  <2>3. \A n \in DOMAIN wire' : n \in 1..(Len(wire) - 1) \/ n = Len(wire)
    BY <2>1
  <2> QED
    BY <2>1, <2>2, <2>3 DEF OnlyShutdown, Shutdown
<1> QED
  BY <1>1, <1>2, <1>3, <1>4, Moves

\* A step that sets the drain's clock, closes the connection or ends in success is one of a
\* draining shutdown.
LEMMA DrainSteps ==
    ASSUME ProcessTypeOK, [Next]_vars
    PROVE  \/ closed' = closed /\ drainAt' = drainAt /\ (exit' = 0 => exit = 0 \/ Draining)
           \/ Draining' /\ exit' = exit
<1>1. CASE Tick \/ Boot \/ Connect \/ Register \/ StartFails \/ Beat \/ DelExecuted
           \/ CommandRejected \/ Drained \/ CloseFails \/ TimesOut \/ Sigkill
           \/ UNCHANGED vars \/ (\E j \in Jobs : TakeJob(j) \/ FinishJob(j))
  BY <1>1 DEF Tick, Boot, Connect, Register, StartFails, TakeJob, FinishJob, Beat,
     DelExecuted, CommandRejected, Drained, CloseFails, TimesOut, Sigkill, vars, heartVars,
     shutdownVars, Exit, Killed, Draining
<1>2. CASE BeatExecuted
  BY <1>2 DEF BeatExecuted, shutdownVars
<1>3. CASE QuitExecuted
  <2>1. Head(wire).by \in Signals
    BY <1>3, Oldest, CommandKinds DEF QuitExecuted, Shutdown
  <2> QED
    BY <1>3, <2>1 DEF QuitExecuted, ProcessTypeOK, Draining
<1>4. CASE \E k \in Signals : Signal(k)
  BY <1>4 DEF Signal, Exit, Killed
<1> QED
  BY <1>1, <1>2, <1>3, <1>4 DEF Next

\* Every step keeps the key away once it has been deleted.
LEMMA GoneStep == ProcessTypeOK /\ PhaseInv /\ WireInv /\ GoneInv /\ [Next]_vars => GoneInv'
<1> SUFFICES ASSUME ProcessTypeOK, PhaseInv, WireInv, GoneInv, [Next]_vars
             PROVE  GoneInv'
  OBVIOUS
<1>1. Gone => keyUntil = None /\ OnlyShutdown
  BY DEF GoneInv, Gone, OnlyShutdown
<1>2. Gone' => OnlyShutdown'
  BY <1>1, OnlyShutdownStep
<1>3. Gone' => keyUntil' = None
  <2>1. SUFFICES ASSUME Gone', keyUntil' # None
                 PROVE  FALSE
    OBVIOUS
  <2>2. ~Gone
    <3>1. SUFFICES ASSUME Gone
                   PROVE  FALSE
      OBVIOUS
    <3>2. wire # <<>> /\ Head(wire).op \in {"first", "beat"}
      BY <1>1, <2>1, <3>1, KeySteps
    <3>3. 1 \in DOMAIN wire /\ wire[1] = Head(wire)
      BY <3>2, Oldest
    <3> QED
      BY <1>1, <3>1, <3>2, <3>3 DEF OnlyShutdown, Shutdown
  <2>3. call' # call
    BY <2>1, <2>2 DEF Gone
  <2>4. keyUntil' = keyUntil
    BY <2>1, <2>3, KeySteps
  <2>5. ~(DelExecuted \/ QuitExecuted)
    <3>1. CASE DelExecuted
      BY <2>1, <3>1 DEF DelExecuted
    <3>2. CASE QuitExecuted
      <4>1. 1 \in DOMAIN wire /\ Head(wire) = wire[1] /\ Head(wire).by \in Signals
        BY <3>2, Oldest, CommandKinds DEF QuitExecuted, Shutdown
      <4> QED
        BY <2>2, <3>2, <4>1 DEF QuitExecuted, WireInv, Gone, Shutdown
    <3> QED
      BY <3>1, <3>2
  <2>6. \E k \in Signals, r \in {"del", "stuck"} : call' = [call EXCEPT ![k] = r]
    <3>1. CASE CommandRejected
      <4>1. Head(wire).op \in Shutdown /\ call' = [call EXCEPT ![Head(wire).by] = "stuck"]
        BY <2>3, <3>1 DEF CommandRejected, Shutdown
      <4>2. Head(wire).by \in Signals
        BY <3>1, <4>1, Oldest, CommandKinds DEF CommandRejected
      <4> QED
        BY <4>1, <4>2
    <3>2. CASE \E k \in Signals : Signal(k)
      BY <2>3, <3>2 DEF Signal
    <3> QED
      BY <2>3, <2>5, <3>1, <3>2 DEF Next, Tick, Boot, Connect, Register, StartFails, TakeJob,
         FinishJob, Beat, BeatExecuted, Drained, CloseFails, TimesOut, Sigkill, vars, heartVars,
         shutdownVars
  <2> QED
    BY <2>1, <2>2, <2>6 DEF Gone, ProcessTypeOK
<1>4. closed' \/ drainAt' # None \/ exit' = 0 => Draining'
  BY DrainingStays, DrainSteps DEF GoneInv
<1> QED
  BY <1>2, <1>3, <1>4 DEF GoneInv, Gone, OnlyShutdown

-----------------------------------------------------------------------------
(* The beats *)

\* Time passes: the key lives on.
LEMMA BeatTick ==
    ASSUME ProcessTypeOK, BeatInv, TTLCoversTwoBeats, Tick
    PROVE  BeatInv'
<1>a. /\ Interval \in Nat \ {0} /\ TTL \in Nat /\ None \notin Nat
      /\ now \in Nat /\ nextBeat \in Nat /\ keyUntil \in Nat \cup {None} /\ missed \in Nat
  BY ProcessAssumption DEF ProcessTypeOK
<1> SUFFICES ASSUME interval, Running
             PROVE  BeatInv'
  BY DEF BeatInv, Tick, Running
<1>1. /\ wire = <<>> /\ now < nextBeat /\ now' = now + 1
      /\ UNCHANGED <<exit, interval, nextBeat, wire, missed>>
      /\ keyUntil' = IF keyUntil # None /\ keyUntil <= now + 1 THEN None ELSE keyUntil
  BY DEF Tick
<1>2. LastBeat \in Int /\ LastBeat' = LastBeat /\ LastBeat >= nextBeat - Interval - Interval
  BY <1>a, <1>1 DEF LastBeat
<1>3. ASSUME missed < 2
      PROVE  keyUntil \in Nat /\ keyUntil > now + 1 /\ keyUntil >= LastBeat + TTL
  <2>1. keyUntil \in Nat /\ keyUntil >= LastBeat + TTL
    BY <1>a, <1>3 DEF BeatInv
  <2> QED
    BY <1>a, <1>1, <1>2, <2>1 DEF TTLCoversTwoBeats
<1>4. now' <= nextBeat'
  BY <1>a, <1>1
<1>5. missed' < 2 => keyUntil' # None /\ keyUntil' >= LastBeat' + TTL
  BY <1>a, <1>1, <1>2, <1>3
<1> QED
  BY <1>1, <1>4, <1>5 DEF BeatInv

\* A beat is sent when due: the one before it has been answered.
LEMMA BeatSent ==
    ASSUME ProcessTypeOK, BeatInv, Beat
    PROVE  BeatInv'
<1>a. /\ Interval \in Nat \ {0} /\ now \in Nat /\ nextBeat \in Nat /\ TTL \in Nat
      /\ keyUntil \in Nat \cup {None} /\ missed \in Nat
  BY ProcessAssumption DEF ProcessTypeOK
<1>1. now <= nextBeat /\ wire = <<>> /\ now = nextBeat
  BY <1>a DEF Beat, BeatInv
<1>2. /\ wire' = <<[op |-> "beat", by |-> None]>> /\ nextBeat' = now + Interval
      /\ UNCHANGED <<now, exit, interval, keyUntil, missed>>
  BY <1>1 DEF Beat, Send
<1>3. wire' # <<>>
  BY <1>2
<1>4. LastBeat' = LastBeat /\ LastBeat \in Int
  BY <1>a, <1>1, <1>2, <1>3 DEF LastBeat
<1> QED
  BY <1>a, <1>1, <1>2, <1>4 DEF BeatInv, Beat

\* A beat is answered: the key is set anew.
LEMMA BeatAnswered ==
    ASSUME ProcessTypeOK, PhaseInv, BeatInv, BeatExecuted
    PROVE  BeatInv'
<1>a. /\ Interval \in Nat \ {0} /\ now \in Nat /\ nextBeat \in Nat /\ TTL \in Nat
      /\ None \notin Nat
  BY ProcessAssumption DEF ProcessTypeOK
<1>1. /\ keyUntil' = now + TTL /\ missed' = 0 /\ wire' = Tail(wire)
      /\ UNCHANGED <<now, exit>>
  BY DEF BeatExecuted, KeyExpiry
<1> SUFFICES ASSUME interval'
             PROVE  BeatInv'
  BY DEF BeatInv
<1>2. nextBeat' = now + Interval /\ wire' = <<>>
  <2>1. CASE Head(wire).op = "first"
    BY <2>1, FirstIsHead DEF BeatExecuted
  <2>2. CASE Head(wire).op # "first"
    <3>1. interval /\ UNCHANGED nextBeat /\ Running /\ wire # <<>>
      BY <2>2 DEF BeatExecuted
    <3>2. wire = <<[op |-> "beat", by |-> None]>> /\ nextBeat = now + Interval
      BY <3>1 DEF BeatInv
    <3> QED
      BY <1>1, <3>1, <3>2
  <2> QED
    BY <2>1, <2>2
<1>3. LastBeat' = now
  BY <1>a, <1>1, <1>2 DEF LastBeat
<1> QED
  BY <1>a, <1>1, <1>2, <1>3 DEF BeatInv

\* A beat is missed: the next one is sent in time.
LEMMA BeatMissed ==
    ASSUME ProcessTypeOK, BeatInv, CommandRejected
    PROVE  BeatInv'
<1>a. /\ Interval \in Nat \ {0} /\ now \in Nat /\ nextBeat \in Nat /\ TTL \in Nat
      /\ missed \in Nat
  BY ProcessAssumption DEF ProcessTypeOK
<1>1. /\ UNCHANGED <<now, interval, nextBeat, keyUntil>> /\ wire' = Tail(wire)
      /\ Running /\ wire # <<>>
  BY DEF CommandRejected
<1> SUFFICES ASSUME interval
             PROVE  BeatInv'
  BY <1>1 DEF BeatInv
<1>2. now <= nextBeat /\ wire = <<[op |-> "beat", by |-> None]>> /\ nextBeat = now + Interval
  BY <1>1 DEF BeatInv
<1>3. wire' = <<>> /\ missed' = missed + 1
  BY <1>1, <1>2 DEF CommandRejected
<1>4. ASSUME missed' < 2
      PROVE  keyUntil' # None /\ keyUntil' >= LastBeat' + TTL
  <2>1. missed = 0 /\ missed' = 1
    BY <1>a, <1>3, <1>4
  <2>2. LastBeat' = LastBeat
    BY <1>a, <1>1, <1>3, <2>1 DEF LastBeat
  <2> QED
    BY <1>1, <2>1, <2>2 DEF BeatInv
<1> QED
  BY <1>1, <1>2, <1>3, <1>4 DEF BeatInv

\* Every step keeps the beats in time.
LEMMA BeatStep ==
    ASSUME ProcessTypeOK, PhaseInv, WireInv, BeatInv, TTLCoversTwoBeats, [Next]_vars
    PROVE  BeatInv'
<1>1. CASE Boot \/ Register \/ StartFails \/ Drained \/ CloseFails \/ TimesOut \/ Sigkill
           \/ UNCHANGED vars \/ (\E j \in Jobs : TakeJob(j) \/ FinishJob(j))
  <2>1. UNCHANGED <<now, heartVars>> /\ (exit' = None => exit = None)
    BY <1>1, Codes DEF Boot, Register, StartFails, Drained, CloseFails, TimesOut, Sigkill,
       TakeJob, FinishJob, vars, Running
  <2> QED
    BY <2>1 DEF BeatInv, LastBeat, Running, heartVars
<1>2. CASE Connect
  BY <1>2 DEF Connect, PhaseInv, BeatInv
<1>3. CASE DelExecuted \/ QuitExecuted
  <2>1. 1 \in DOMAIN wire /\ wire[1].op \in Shutdown
    BY <1>3, Oldest DEF DelExecuted, QuitExecuted, Shutdown
  <2> QED
    BY <1>3, <2>1, ServesShutdown DEF DelExecuted, QuitExecuted, BeatInv
<1>4. CASE \E k \in Signals : Signal(k)
  BY <1>4, Codes DEF Signal, Exit, BeatInv, Running
<1> QED
  BY <1>1, <1>2, <1>3, <1>4, BeatTick, BeatSent, BeatAnswered, BeatMissed DEF Next

-----------------------------------------------------------------------------
(* The end of the process *)

\* No job is cut off without a cause.
LEMMA CauseStep ==
    ASSUME ProcessTypeOK, PhaseInv, WireInv, GoneInv, CutHasCause, [Next]_vars
    PROVE  CutHasCause'
<1> SUFFICES ASSUME exit' # None, active' # {}
             PROVE  CutHasCause'
  BY DEF CutHasCause, Running
<1>a. /\ faults \in Nat /\ MaxFaults \in Nat
  BY ProcessAssumption DEF ProcessTypeOK
<1>1. CASE ~Running
  <2>1. UNCHANGED vars
    BY <1>1 DEF Next, Tick, Boot, Connect, Register, StartFails, TakeJob, FinishJob, Beat,
       BeatExecuted, DelExecuted, QuitExecuted, CommandRejected, Signal, Drained, CloseFails,
       TimesOut, Sigkill
  <2> QED
    BY <2>1 DEF vars, heartVars, shutdownVars, CutHasCause, Running
<1>2. CASE Running /\ CommandRejected
  <2>1. exit' = 1 /\ UNCHANGED <<sentry, call>> /\ Head(wire).op # "beat"
    BY <1>2 DEF CommandRejected, Exit, Running
  <2>2. CASE ~closed
    BY <1>2, <1>a, <2>1, <2>2 DEF CommandRejected, CutHasCause
  <2>3. CASE closed
    <3>1. PICK d \in Signals : call[d] = "draining"
      BY <2>3 DEF GoneInv, Draining
    <3>2. Signalled /\ phase = "serving"
      BY <3>1 DEF Signalled, PhaseInv
    <3>3. Head(wire).op # "first"
      BY <1>2, <3>2, FirstIsHead DEF CommandRejected
    <3>4. Head(wire).op \in Shutdown /\ ~sentry
      BY <1>2, <2>1, <3>3 DEF CommandRejected, Shutdown, Exit, Running
    <3>5. /\ Head(wire).by \in Signals /\ call[Head(wire).by] = Head(wire).op
      <4>1. wire # <<>>
        BY <1>2 DEF CommandRejected
      <4>2. 1 \in DOMAIN wire /\ Head(wire) = wire[1] /\ Head(wire) \in Command
        BY <4>1, Oldest
      <4> QED
        BY <3>4, <4>2, CommandKinds DEF WireInv
    <3>6. call[Head(wire).by] # "none" /\ call[d] # "none" /\ d # Head(wire).by
      BY <3>1, <3>4, <3>5 DEF Shutdown
    <3> QED
      BY <2>1, <3>4, <3>5, <3>6 DEF CutHasCause
  <2> QED
    BY <2>2, <2>3
<1>3. CASE Running /\ ~CommandRejected
  <2>1. CASE Boot
    BY <1>3, <2>1 DEF Boot, PhaseInv
  <2>2. CASE StartFails \/ CloseFails
    BY <1>3, <1>a, <2>2 DEF StartFails, CloseFails, Exit, CutHasCause
  <2>3. CASE Drained
    BY <2>3 DEF Drained
  <2>4. CASE TimesOut
    BY <2>4 DEF TimesOut, Exit, shutdownVars, CutHasCause
  <2>5. CASE Sigkill
    BY <2>5 DEF Sigkill, Exit, shutdownVars, CutHasCause
  <2>6. ASSUME NEW k \in Signals, Signal(k)
        PROVE  CutHasCause'
    BY <1>3, <2>6 DEF Signal, Exit, CutHasCause, Running
  <2>7. CASE exit' = exit
    BY <1>3, <2>7 DEF Running
  <2> QED
    BY <1>3, <2>1, <2>2, <2>3, <2>4, <2>5, <2>6, <2>7 DEF Next, Tick, Connect, Register,
       TakeJob, FinishJob, Beat, BeatExecuted, DelExecuted, QuitExecuted, vars
<1> QED
  BY <1>1, <1>2, <1>3

-----------------------------------------------------------------------------
(* The theorems *)

\* The process starts with nothing on its way.
LEMMA Starts == Init => ProcessInv /\ BeatInv /\ CutHasCause
<1> SUFFICES ASSUME Init
             PROVE  ProcessInv /\ BeatInv /\ CutHasCause
  OBVIOUS
<1>a. MaxFaults \in Nat /\ None \notin Nat
  BY ProcessAssumption
<1>b. <<>> \in Seq(Command) /\ faults \in 0..MaxFaults
  BY <1>a DEF Init
<1>1. ProcessTypeOK
  BY <1>b DEF Init, ProcessTypeOK
<1>2. PhaseInv
  BY DEF Init, PhaseInv, Signalled
<1>3. WireInv
  BY DEF Init, WireInv
<1>4. GoneInv
  BY <1>a DEF Init, GoneInv
<1> QED
  BY <1>1, <1>2, <1>3, <1>4 DEF Init, ProcessInv, BeatInv, CutHasCause, Running

\* The phases, the connection and the deleted key keep their order in every reachable state.
LEMMA ProcessInvHolds == Spec => []ProcessInv
<1>1. Init => ProcessInv
  BY Starts
<1>2. ProcessInv /\ [Next]_vars => ProcessInv'
  BY TypesStep, PhaseStep, WireStep, GoneStep DEF ProcessInv
<1> QED
  BY <1>1, <1>2, PTL DEF Spec

\* The types of the process, whatever the platform, Valkey and the jobs do.
THEOREM ProcessTypes == Spec => []ProcessTypeOK
<1>1. ProcessInv => ProcessTypeOK
  BY DEF ProcessInv
<1> QED
  BY <1>1, ProcessInvHolds, PTL

\* The heartbeat key tells the infrastructure whether the process serves (heartbeat.ts),
\* provided its TTL covers two intervals, as 90 s covers 30 s.
THEOREM KeyTells ==
    ASSUME TTLCoversTwoBeats
    PROVE  Spec => []KeyTellsService
<1>1. Init => BeatInv
  BY Starts
<1>2. ProcessInv /\ BeatInv /\ [Next]_vars => BeatInv'
  BY TTLCoversTwoBeats, BeatStep DEF ProcessInv
<1>3. ProcessInv /\ BeatInv => KeyTellsService
  <2>1. ASSUME ProcessInv, BeatInv, phase = "serving", Running, ~Signalled, missed < 2
        PROVE  keyUntil # None
    BY <2>1 DEF ProcessInv, PhaseInv, BeatInv
  <2>2. ASSUME ProcessInv, drainAt # None \/ exit = 0
        PROVE  keyUntil = None
    BY <2>2 DEF ProcessInv, GoneInv, Draining
  <2> QED
    BY <2>1, <2>2 DEF KeyTellsService
<1> QED
  BY <1>1, <1>2, <1>3, ProcessInvHolds, PTL DEF Spec

\* A job is cut off only for one of the causes index.ts and shutdown.ts know.
THEOREM CutsHaveCauses == Spec => []CutHasCause
<1>1. Init => CutHasCause
  BY Starts
<1>2. ProcessInv /\ CutHasCause /\ [Next]_vars => CutHasCause'
  BY CauseStep DEF ProcessInv
<1> QED
  BY <1>1, <1>2, ProcessInvHolds, PTL DEF Spec
=============================================================================
