--------------------------- MODULE BrainRouterProofs ---------------------------
(***************************************************************************)
(* Theorems about BrainRouter, for every cap, every number of concurrent     *)
(* callers and of trading days.                                              *)
(***************************************************************************)
EXTENDS BrainRouter, FiniteSetTheorems, TLAPS

Calls == [pc : {"idle", "cap", "provider", "count", "log"},
          today : Days, capped : BOOLEAN]

\* The calls of day d the provider has answered and the counter has not seen, and the
\* capped calls of day d the provider is working on.
Counting(d) == {c \in Callers : call[c].pc = "count" /\ call[c].today = d}
Sent(d) == {c \in Callers : call[c].pc = "provider" /\ call[c].capped /\ call[c].today = d}

\* Nothing has happened on a day that has not come.
NoFuture ==
    /\ \A c \in Callers : call[c].today <= day
    /\ \A d \in Days : d > day => counter[d] = 0 /\ paid[d] = 0 /\ uncounted[d] = 0
    /\ reset.cutoff <= day

\* What the counter shows, and will show once the calls under way have counted, is
\* paid for.
Charged == \A d \in Days : counter[d] + Cardinality(Counting(d)) <= paid[d]

ChargeInv == BrainTypeOK /\ NoFuture /\ Charged

\* The counter lags by exactly the calls under way and the increments that failed,
\* and the cap was respected by each call when it was sent.
Exact ==
    \A d \in Days : d = day =>
        /\ counter[d] + Cardinality(Counting(d)) + uncounted[d] = paid[d]
        /\ paid[d] + Cardinality(Sent(d))
             <= Cap + Cardinality(Callers) - 1 + uncounted[d]

\* The capped calls of day d the provider has answered and the usage log has not seen, and
\* what the log lacks: these, and the rows that could not be written.
Logging(d) == {c \in Callers : call[c].pc \in {"count", "log"} /\ call[c].capped
                               /\ call[c].today = d}
Logged ==
    /\ \A d \in Days : logged[d] + unlogged[d] + Cardinality(Logging(d)) = paid[d]
    /\ \A c \in Callers : call[c].pc = "count" => call[c].capped

\* The calls of either kind are among the callers, and no caller is of both.
LEMMA CardinalityTypes ==
    ASSUME NEW d
    PROVE  /\ IsFiniteSet(Counting(d)) /\ Cardinality(Counting(d)) \in Nat
           /\ IsFiniteSet(Sent(d)) /\ Cardinality(Sent(d)) \in Nat
           /\ Cardinality(Counting(d)) + Cardinality(Sent(d)) <= Cardinality(Callers)
           /\ Cardinality(Callers) \in Nat
<1>1. IsFiniteSet(Callers)
  BY BrainAssumption
<1>2. Counting(d) \in SUBSET Callers /\ Sent(d) \in SUBSET Callers
  BY DEF Counting, Sent
<1>3. IsFiniteSet(Counting(d)) /\ IsFiniteSet(Sent(d))
  BY <1>1, <1>2, FS_Subset
<1>4. /\ Cardinality(Counting(d)) \in Nat /\ Cardinality(Sent(d)) \in Nat
      /\ Cardinality(Callers) \in Nat
  BY <1>1, <1>3, FS_CardinalityType
<1>5. Counting(d) \cap Sent(d) = {}
  BY DEF Counting, Sent
<1>6. Cardinality(Counting(d) \cup Sent(d))
      = Cardinality(Counting(d)) + Cardinality(Sent(d))
  <2>1. Cardinality(Counting(d) \cup Sent(d))
        = Cardinality(Counting(d)) + Cardinality(Sent(d)) - Cardinality(Counting(d) \cap Sent(d))
    BY <1>3, FS_Union
  <2>2. Cardinality(Counting(d) \cap Sent(d)) = 0
    BY <1>5, FS_EmptySet, Zenon
  <2> QED
    BY <2>1, <2>2, <1>4
<1>7. Cardinality(Counting(d) \cup Sent(d)) <= Cardinality(Callers)
  <2>1. Counting(d) \cup Sent(d) \in SUBSET Callers
    BY <1>2
  <2> QED
    BY <1>1, <2>1, FS_Subset
<1> QED
  BY <1>3, <1>4, <1>6, <1>7

\* GoTo changes the program counter of one call.
LEMMA GoToIs ==
    ASSUME BrainTypeOK, NEW c \in Callers,
           NEW p \in {"idle", "cap", "provider", "count", "log"}, GoTo(c, p)
    PROVE  call' = [call EXCEPT ![c] = [pc |-> p, today |-> call[c].today,
                                        capped |-> call[c].capped]]
<1>1. call[c] \in [pc : {"idle", "cap", "provider", "count", "log"},
                  today : Days, capped : BOOLEAN]
  BY DEF BrainTypeOK
<1>2. [call[c] EXCEPT !.pc = p] = [pc |-> p, today |-> call[c].today,
                                   capped |-> call[c].capped]
  BY <1>1
<1>3. call' = [call EXCEPT ![c] = [call[c] EXCEPT !.pc = p]]
  BY Zenon DEF GoTo
<1> QED
  BY <1>2, <1>3, Zenon

\* A step of one caller moves that caller, and no other, in or out of the two sets.
LEMMA Moves ==
    ASSUME BrainTypeOK, NEW c \in Callers, NEW r \in Calls,
           call' = [call EXCEPT ![c] = r], NEW d
    PROVE  /\ call' \in [Callers -> Calls]
           /\ call'[c] = r
           /\ \A x \in Callers : x # c => call'[x] = call[x]
           /\ Counting(d)' = IF r.pc = "count" /\ r.today = d
                             THEN Counting(d) \cup {c} ELSE Counting(d) \ {c}
           /\ Sent(d)' = IF r.pc = "provider" /\ r.capped /\ r.today = d
                         THEN Sent(d) \cup {c} ELSE Sent(d) \ {c}
<1>1. call \in [Callers -> Calls]
  BY DEF BrainTypeOK, Calls
<1>2. /\ call' \in [Callers -> Calls]
      /\ call'[c] = r
      /\ \A x \in Callers : x # c => call'[x] = call[x]
  BY <1>1
<1>3. Counting(d)' = {x \in Callers : call'[x].pc = "count" /\ call'[x].today = d}
  BY DEF Counting
<1>4. Sent(d)' = {x \in Callers : call'[x].pc = "provider" /\ call'[x].capped
                                  /\ call'[x].today = d}
  BY DEF Sent
<1>5. Counting(d)' = IF r.pc = "count" /\ r.today = d
                     THEN Counting(d) \cup {c} ELSE Counting(d) \ {c}
  BY <1>2, <1>3 DEF Counting
<1>6. Sent(d)' = IF r.pc = "provider" /\ r.capped /\ r.today = d
                 THEN Sent(d) \cup {c} ELSE Sent(d) \ {c}
  BY <1>2, <1>4 DEF Sent
<1> QED
  BY <1>2, <1>5, <1>6

\* The same, in numbers.
LEMMA Counts ==
    ASSUME BrainTypeOK, NEW c \in Callers, NEW r \in Calls,
           call' = [call EXCEPT ![c] = r], NEW d
    PROVE  /\ Cardinality(Counting(d)') = Cardinality(Counting(d))
                + (IF r.pc = "count" /\ r.today = d THEN 1 ELSE 0)
                - (IF c \in Counting(d) THEN 1 ELSE 0)
           /\ Cardinality(Sent(d)') = Cardinality(Sent(d))
                + (IF r.pc = "provider" /\ r.capped /\ r.today = d THEN 1 ELSE 0)
                - (IF c \in Sent(d) THEN 1 ELSE 0)
<1>1. /\ IsFiniteSet(Counting(d)) /\ Cardinality(Counting(d)) \in Nat
      /\ IsFiniteSet(Sent(d)) /\ Cardinality(Sent(d)) \in Nat
  BY CardinalityTypes
<1>2. /\ Cardinality(Counting(d) \cup {c}) = IF c \in Counting(d)
            THEN Cardinality(Counting(d)) ELSE Cardinality(Counting(d)) + 1
      /\ Cardinality(Counting(d) \ {c}) = IF c \in Counting(d)
            THEN Cardinality(Counting(d)) - 1 ELSE Cardinality(Counting(d))
  BY <1>1, FS_AddElement, FS_RemoveElement
<1>3. /\ Cardinality(Sent(d) \cup {c}) = IF c \in Sent(d)
            THEN Cardinality(Sent(d)) ELSE Cardinality(Sent(d)) + 1
      /\ Cardinality(Sent(d) \ {c}) = IF c \in Sent(d)
            THEN Cardinality(Sent(d)) - 1 ELSE Cardinality(Sent(d))
  BY <1>1, FS_AddElement, FS_RemoveElement
<1>4. /\ Counting(d)' = IF r.pc = "count" /\ r.today = d
                        THEN Counting(d) \cup {c} ELSE Counting(d) \ {c}
      /\ Sent(d)' = IF r.pc = "provider" /\ r.capped /\ r.today = d
                    THEN Sent(d) \cup {c} ELSE Sent(d) \ {c}
  BY Moves
<1>5. Cardinality(Counting(d)') = Cardinality(Counting(d))
        + (IF r.pc = "count" /\ r.today = d THEN 1 ELSE 0)
        - (IF c \in Counting(d) THEN 1 ELSE 0)
  BY <1>1, <1>2, <1>4
<1>6. Cardinality(Sent(d)') = Cardinality(Sent(d))
        + (IF r.pc = "provider" /\ r.capped /\ r.today = d THEN 1 ELSE 0)
        - (IF c \in Sent(d) THEN 1 ELSE 0)
  BY <1>1, <1>3, <1>4
<1> QED
  BY <1>5, <1>6

-----------------------------------------------------------------------------
(* The inductive invariants *)

\* Nothing is owed at the start.
LEMMA InitCharge == Init => ChargeInv /\ Exact
<1> SUFFICES ASSUME Init PROVE ChargeInv /\ Exact
  OBVIOUS
<1>1. /\ 0 \in Days /\ Days \subseteq Nat
      /\ Cap \in Nat /\ MaxDay \in Nat
  BY BrainAssumption DEF Days
<1>2. BrainTypeOK
  BY <1>1 DEF Init, BrainTypeOK, NoCall
<1>3. NoFuture
  BY <1>1 DEF Init, NoFuture, NoCall
<1>4. ASSUME NEW d PROVE Counting(d) = {} /\ Sent(d) = {}
  BY DEF Init, NoCall, Counting, Sent
<1>5. ASSUME NEW d PROVE Cardinality(Counting(d)) = 0 /\ Cardinality(Sent(d)) = 0
  BY <1>4, FS_EmptySet, Zenon
<1>6. Charged
  BY <1>1, <1>5 DEF Charged, Init
<1>7. Cardinality(Callers) \in Nat /\ Cardinality(Callers) # 0
  BY BrainAssumption, FS_CardinalityType, FS_EmptySet
<1>8. Exact
  <2>1. \A d \in Days : counter[d] = 0 /\ paid[d] = 0 /\ uncounted[d] = 0
    BY <1>1 DEF Init
  <2> QED
    BY <1>1, <1>5, <1>7, <2>1 DEF Exact
<1> QED
  BY <1>2, <1>3, <1>6, <1>8 DEF ChargeInv

\* What one caller's step does to its call.  A step that does not come from the
\* provider, or does not count, moves the caller out of neither set.
LEMMA StartCallIs ==
    ASSUME BrainTypeOK, NEW c \in Callers, StartCall(c)
    PROVE  \E r \in Calls :
             /\ call' = [call EXCEPT ![c] = r]
             /\ r.today = day
             /\ r.pc = "cap" \/ (r.pc = "provider" /\ ~r.capped)
<1> PICK capped \in BOOLEAN :
      call' = [call EXCEPT ![c] = [pc |-> IF capped THEN "cap" ELSE "provider",
                                   today |-> day, capped |-> capped]]
  BY DEF StartCall
<1> DEFINE r == [pc |-> IF capped THEN "cap" ELSE "provider",
                 today |-> day, capped |-> capped]
<1>1. /\ r \in Calls /\ r.today = day
      /\ r.pc = "cap" \/ (r.pc = "provider" /\ ~r.capped)
  BY DEF BrainTypeOK, Calls
<1> QED
  BY <1>1

\* A call that returns leaves its slot as it was before the call.
LEMMA ReturnIs ==
    ASSUME BrainTypeOK, NEW c \in Callers, Return(c)
    PROVE  /\ NoCall \in Calls /\ NoCall.pc = "idle" /\ NoCall.today = 0
           /\ call' = [call EXCEPT ![c] = NoCall]
<1>1. 0 \in Days
  BY BrainAssumption DEF Days
<1> QED
  BY <1>1 DEF Return, NoCall, Calls

\* A call that goes on keeps its day and its cap.
LEMMA GoesOn ==
    ASSUME BrainTypeOK, NEW c \in Callers,
           NEW p \in {"idle", "cap", "provider", "count", "log"}, GoTo(c, p)
    PROVE  \E r \in Calls : /\ call' = [call EXCEPT ![c] = r]
                            /\ r.pc = p /\ r.today = call[c].today
                            /\ r.capped = call[c].capped
<1> DEFINE r == [pc |-> p, today |-> call[c].today, capped |-> call[c].capped]
<1>1. r \in Calls
  BY DEF BrainTypeOK, Calls
<1>2. call' = [call EXCEPT ![c] = r]
  BY GoToIs
<1>3. r.pc = p /\ r.today = call[c].today /\ r.capped = call[c].capped
  OBVIOUS
<1> HIDE DEF r
<1> QED
  BY <1>1, <1>2, <1>3

\* The step of one caller, whatever it is: the call it leaves, and what it adds to
\* the counter and to the history for the call's day.
LEMMA CallerStep ==
    ASSUME ChargeInv, NEW c \in Callers,
           \/ StartCall(c) \/ CheckCap(c) \/ ProviderAnswers(c) \/ CallFails(c)
           \/ Count(c) \/ CountFails(c) \/ WriteUsageLog(c) \/ LogFails(c)
    PROVE  /\ UNCHANGED <<day, reset>>
           /\ logged' \in [Days -> Nat] /\ unlogged' \in [Days -> Nat]
           /\ \E r \in Calls :
                /\ call' = [call EXCEPT ![c] = r]
                /\ r.today <= day
                /\ \/ /\ UNCHANGED <<counter, paid, uncounted>>
                      /\ r.pc \in {"idle", "cap", "log"} \/ ~r.capped
                      /\ r.pc # "count"
                      /\ call[c].pc # "count"
                   \/ /\ UNCHANGED <<counter, paid, uncounted>>
                      /\ call[c].pc = "cap" /\ r.pc = "provider"
                      /\ r.today = call[c].today
                      /\ counter[r.today] < Cap
                   \/ /\ UNCHANGED <<counter, uncounted>>
                      /\ paid' = [paid EXCEPT ![call[c].today] = @ + 1]
                      /\ call[c].pc = "provider" /\ call[c].capped
                      /\ r.pc = "count" /\ r.today = call[c].today
                   \/ /\ UNCHANGED <<paid, uncounted>>
                      /\ counter' = [counter EXCEPT ![call[c].today] = @ + 1]
                      /\ call[c].pc = "count" /\ r.pc = "log"
                   \/ /\ UNCHANGED <<counter, paid>>
                      /\ uncounted' = [uncounted EXCEPT ![call[c].today] = @ + 1]
                      /\ call[c].pc = "count" /\ r.pc = "log"
<1> USE DEF ChargeInv
<1>a. /\ call[c] \in Calls /\ call[c].today <= day /\ day \in Nat
      /\ logged \in [Days -> Nat] /\ unlogged \in [Days -> Nat]
      /\ call[c].today \in Days
      /\ counter \in [Days -> Nat] /\ Cap \in Nat
  <2>1. Days \subseteq Nat /\ Cap \in Nat
    BY BrainAssumption DEF Days
  <2>2. call[c] \in Calls /\ call[c].today <= day
    BY DEF BrainTypeOK, NoFuture, Calls
  <2>3. call[c].today \in Days
    BY <2>2 DEF Calls
  <2> QED
    BY <2>1, <2>2, <2>3 DEF BrainTypeOK
<1>1. CASE StartCall(c)
  <2>1. PICK r \in Calls : /\ call' = [call EXCEPT ![c] = r]
                           /\ r.today = day
                           /\ r.pc = "cap" \/ (r.pc = "provider" /\ ~r.capped)
    BY <1>1, StartCallIs
  <2>2. call[c].pc = "idle" /\ UNCHANGED <<day, counter, logged, reset, paid, uncounted, unlogged>>
    BY <1>1 DEF StartCall, At, historyVars
  <2>3. r.today <= day /\ (r.pc \in {"idle", "cap", "log"} \/ ~r.capped) /\ r.pc # "count"
    BY <1>a, <2>1
  <2> QED
    BY <1>a, <2>1, <2>2, <2>3
<1>2. CASE CheckCap(c)
  <2>1. CASE counter[call[c].today] >= Cap
    <3>1. Return(c)
      BY <1>2, <2>1 DEF CheckCap
    <3> QED
      BY <1>2, <1>a, <3>1, ReturnIs DEF CheckCap, At, historyVars
  <2>2. CASE ~(counter[call[c].today] >= Cap)
    <3>1. GoTo(c, "provider")
      BY <1>2, <2>2 DEF CheckCap
    <3>2. PICK r \in Calls : /\ call' = [call EXCEPT ![c] = r]
                             /\ r.pc = "provider" /\ r.today = call[c].today
                             /\ r.capped = call[c].capped
      BY <3>1, GoesOn
    <3>3. counter[r.today] < Cap
      BY <2>2, <3>2, <1>a
    <3> QED
      BY <1>2, <1>a, <3>2, <3>3 DEF CheckCap, At, historyVars
  <2> QED
    BY <2>1, <2>2
<1>3. CASE ProviderAnswers(c)
  <2>1. CASE call[c].capped
    <3>1. GoTo(c, "count") /\ paid' = [paid EXCEPT ![call[c].today] = @ + 1]
      BY <1>3, <2>1 DEF ProviderAnswers
    <3>2. PICK r \in Calls : /\ call' = [call EXCEPT ![c] = r]
                             /\ r.pc = "count" /\ r.today = call[c].today
                             /\ r.capped = call[c].capped
      BY <3>1, GoesOn
    <3> QED
      BY <1>3, <1>a, <2>1, <3>1, <3>2 DEF ProviderAnswers, At, historyVars
  <2>2. CASE ~call[c].capped
    <3>1. GoTo(c, "log") /\ UNCHANGED paid
      BY <1>3, <2>2 DEF ProviderAnswers
    <3>2. PICK r \in Calls : /\ call' = [call EXCEPT ![c] = r]
                             /\ r.pc = "log" /\ r.today = call[c].today
                             /\ r.capped = call[c].capped
      BY <3>1, GoesOn
    <3> QED
      BY <1>3, <1>a, <3>1, <3>2 DEF ProviderAnswers, At, historyVars
  <2> QED
    BY <2>1, <2>2
<1>4. CASE CallFails(c)
  BY <1>4, <1>a, ReturnIs DEF CallFails, At, historyVars
<1>5. CASE Count(c)
  <2>1. PICK r \in Calls : /\ call' = [call EXCEPT ![c] = r]
                           /\ r.pc = "log" /\ r.today = call[c].today
                           /\ r.capped = call[c].capped
    BY <1>5, GoesOn DEF Count
  <2> QED
    BY <1>5, <1>a, <2>1 DEF Count, At, historyVars
<1>6. CASE CountFails(c)
  <2>1. PICK r \in Calls : /\ call' = [call EXCEPT ![c] = r]
                           /\ r.pc = "log" /\ r.today = call[c].today
                           /\ r.capped = call[c].capped
    BY <1>6, GoesOn DEF CountFails
  <2> QED
    BY <1>6, <1>a, <2>1 DEF CountFails, At, historyVars
<1>7. CASE WriteUsageLog(c)
  <2>1. logged' \in [Days -> Nat]
    BY <1>7, <1>a DEF WriteUsageLog, historyVars
  <2> QED
    BY <1>7, <1>a, <2>1, ReturnIs DEF WriteUsageLog, At, historyVars
<1>8. CASE LogFails(c)
  <2>1. unlogged' \in [Days -> Nat]
    BY <1>8, <1>a DEF LogFails
  <2> QED
    BY <1>8, <1>a, <2>1, ReturnIs DEF LogFails, At
<1> QED
  BY <1>1, <1>2, <1>3, <1>4, <1>5, <1>6, <1>7, <1>8

\* Every step keeps what is charged paid for.
LEMMA StepCharge == ChargeInv /\ [Next]_vars => ChargeInv'
<1> SUFFICES ASSUME ChargeInv, [Next]_vars PROVE ChargeInv'
  OBVIOUS
<1> USE DEF ChargeInv
<1>a. /\ Days \subseteq Nat /\ day \in Days /\ MaxDay \in Nat
      /\ counter \in [Days -> Nat] /\ paid \in [Days -> Nat]
      /\ uncounted \in [Days -> Nat]
      /\ \A c \in Callers : call[c].today \in Days
  <2>1. call \in [Callers -> Calls]
    BY DEF BrainTypeOK, Calls
  <2>2. ASSUME NEW c \in Callers PROVE call[c].today \in Days
    BY <2>1 DEF Calls
  <2>3. Days \subseteq Nat /\ Cap \in Nat /\ MaxDay \in Nat
    BY BrainAssumption DEF Days
  <2> QED
    BY <2>2, <2>3 DEF BrainTypeOK
<1>b. ASSUME NEW d PROVE Cardinality(Counting(d)) \in Nat
  BY CardinalityTypes
<1>1. ASSUME NEW c \in Callers,
             \/ StartCall(c) \/ CheckCap(c) \/ ProviderAnswers(c) \/ CallFails(c)
             \/ Count(c) \/ CountFails(c) \/ WriteUsageLog(c) \/ LogFails(c)
      PROVE  ChargeInv'
  <2>0. /\ UNCHANGED <<day, reset>>
        /\ logged' \in [Days -> Nat] /\ unlogged' \in [Days -> Nat]
    BY <1>1, CallerStep
  <2>1. PICK r \in Calls :
          /\ call' = [call EXCEPT ![c] = r]
          /\ r.today <= day
          /\ \/ UNCHANGED <<counter, paid, uncounted>> /\ r.pc # "count"
             \/ /\ UNCHANGED <<counter, uncounted>>
                /\ paid' = [paid EXCEPT ![call[c].today] = @ + 1]
                /\ call[c].pc = "provider"
                /\ r.pc = "count" /\ r.today = call[c].today
             \/ /\ UNCHANGED <<paid, uncounted>>
                /\ counter' = [counter EXCEPT ![call[c].today] = @ + 1]
                /\ call[c].pc = "count" /\ r.pc = "log"
             \/ /\ UNCHANGED <<counter, paid>>
                /\ uncounted' = [uncounted EXCEPT ![call[c].today] = @ + 1]
                /\ call[c].pc = "count" /\ r.pc = "log"
    <3>1. PICK r \in Calls :
            /\ call' = [call EXCEPT ![c] = r]
            /\ r.today <= day
            /\ \/ UNCHANGED <<counter, paid, uncounted>> /\ r.pc # "count"
               \/ UNCHANGED <<counter, paid, uncounted>> /\ r.pc = "provider"
               \/ /\ UNCHANGED <<counter, uncounted>>
                  /\ paid' = [paid EXCEPT ![call[c].today] = @ + 1]
                  /\ call[c].pc = "provider"
                  /\ r.pc = "count" /\ r.today = call[c].today
               \/ /\ UNCHANGED <<paid, uncounted>>
                  /\ counter' = [counter EXCEPT ![call[c].today] = @ + 1]
                  /\ call[c].pc = "count" /\ r.pc = "log"
               \/ /\ UNCHANGED <<counter, paid>>
                  /\ uncounted' = [uncounted EXCEPT ![call[c].today] = @ + 1]
                  /\ call[c].pc = "count" /\ r.pc = "log"
      BY <1>1, CallerStep
    <3> QED
      BY <3>1
  <2>2. ASSUME NEW d
        PROVE  Cardinality(Counting(d)') = Cardinality(Counting(d))
                 + (IF r.pc = "count" /\ r.today = d THEN 1 ELSE 0)
                 - (IF c \in Counting(d) THEN 1 ELSE 0)
    BY <2>1, Counts
  <2>3. call' \in [Callers -> Calls] /\ call'[c] = r
        /\ \A x \in Callers : x # c => call'[x] = call[x]
    BY <2>1, Moves
  <2>4. counter' \in [Days -> Nat] /\ paid' \in [Days -> Nat] /\ uncounted' \in [Days -> Nat]
    BY <2>1, <1>a
  <2>5. BrainTypeOK'
    BY <2>0, <2>3, <2>4 DEF BrainTypeOK, Calls
  <2>6. call[c].today \in Days /\ call[c].today <= day
    BY <1>a DEF NoFuture
  <2>7. \A x \in Callers : call'[x].today <= day'
    BY <2>0, <2>1, <2>3 DEF NoFuture
  <2>8. \A d \in Days : d > day => counter'[d] = 0 /\ paid'[d] = 0 /\ uncounted'[d] = 0
    BY <2>1, <2>6, <1>a DEF NoFuture
  <2>9. NoFuture'
    BY <2>0, <2>7, <2>8 DEF NoFuture
  <2>10. ASSUME NEW d \in Days
         PROVE  counter'[d] + Cardinality(Counting(d)') <= paid'[d]
    <3>1. counter[d] + Cardinality(Counting(d)) <= paid[d]
      BY DEF Charged
    <3>2. c \in Counting(d) <=> call[c].pc = "count" /\ call[c].today = d
      BY DEF Counting
    <3> QED
      BY <1>a, <1>b, <2>1, <2>2, <2>6, <3>1, <3>2
  <2> QED
    BY <2>5, <2>9, <2>10 DEF Charged
<1>2. CASE NextDay
  <2>1. ASSUME NEW d PROVE Counting(d)' = Counting(d)
    BY <1>2 DEF NextDay, Counting
  <2>2. Charged'
    BY <1>2, <2>1 DEF NextDay, Charged, historyVars
  <2>3. day' = day + 1 /\ day' \in Days
    BY <1>2, <1>a DEF NextDay, Days
  <2>a. reset.cutoff \in Nat /\ reset.cutoff <= day
    BY <1>a DEF BrainTypeOK, NoFuture
  <2>b. UNCHANGED <<call, counter, reset, paid, uncounted>>
    BY <1>2 DEF NextDay, historyVars
  <2>c. \A x \in Callers : call[x].today <= day /\ call[x].today \in Nat
    BY <1>a DEF NoFuture
  <2>d. \A d \in Days : d > day => counter[d] = 0 /\ paid[d] = 0 /\ uncounted[d] = 0
    BY DEF NoFuture
  <2>4. NoFuture'
    BY <1>a, <2>3, <2>a, <2>b, <2>c, <2>d DEF NoFuture
  <2> QED
    BY <1>2, <2>2, <2>3, <2>4 DEF NextDay, BrainTypeOK, historyVars
<1>3. CASE StartReset
  <2>1. ASSUME NEW d PROVE Counting(d)' = Counting(d)
    BY <1>3 DEF StartReset, Counting
  <2>2. Charged'
    BY <1>3, <2>1 DEF StartReset, Charged, historyVars
  <2> QED
    BY <1>3, <1>a, <2>2 DEF StartReset, BrainTypeOK, NoFuture, historyVars
<1>4. CASE ZeroCounters
  <2>1. ASSUME NEW d PROVE Counting(d)' = Counting(d)
    BY <1>4 DEF ZeroCounters, Counting
  <2>2. counter' \in [Days -> Nat] /\ \A d \in Days : counter'[d] \in {0, counter[d]}
    BY <1>4, <1>a DEF ZeroCounters
  <2>3. ASSUME NEW d \in Days
        PROVE  counter'[d] + Cardinality(Counting(d)') <= paid'[d]
    <3>1. counter[d] + Cardinality(Counting(d)) <= paid[d] /\ paid' = paid
      BY <1>4 DEF Charged, ZeroCounters, historyVars
    <3> QED
      BY <1>a, <1>b, <2>1, <2>2, <3>1
  <2>4. 0 \in Days
    BY BrainAssumption DEF Days
  <2>5. BrainTypeOK'
    BY <1>4, <2>2, <2>4 DEF ZeroCounters, BrainTypeOK, historyVars
  <2>6. NoFuture'
    BY <1>4, <1>a, <2>2 DEF ZeroCounters, NoFuture, historyVars
  <2> QED
    BY <2>3, <2>5, <2>6 DEF Charged
<1>5. CASE UNCHANGED vars
  <2>1. ASSUME NEW d PROVE Counting(d)' = Counting(d)
    BY <1>5 DEF vars, Counting
  <2> QED
    BY <1>5, <2>1 DEF vars, historyVars, BrainTypeOK, NoFuture, Charged
<1> QED
  BY <1>1, <1>2, <1>3, <1>4, <1>5 DEF Next

\* Every step keeps the counter exact, up to the increments that fail.
LEMMA StepExact ==
    ASSUME ChargeInv, Exact, [Next]_vars
    PROVE  Exact'
<1> USE DEF ChargeInv
<1>a. /\ Days \subseteq Nat /\ day \in Days /\ Cap \in Nat
      /\ counter \in [Days -> Nat] /\ paid \in [Days -> Nat]
      /\ uncounted \in [Days -> Nat]
      /\ \A c \in Callers : call[c].today \in Days
  <2>1. call \in [Callers -> Calls]
    BY DEF BrainTypeOK, Calls
  <2>2. ASSUME NEW c \in Callers PROVE call[c].today \in Days
    BY <2>1 DEF Calls
  <2>3. Days \subseteq Nat /\ Cap \in Nat /\ MaxDay \in Nat
    BY BrainAssumption DEF Days
  <2> QED
    BY <2>2, <2>3 DEF BrainTypeOK
<1>b. ASSUME NEW d
      PROVE  /\ Cardinality(Counting(d)) \in Nat /\ Cardinality(Sent(d)) \in Nat
             /\ Cardinality(Counting(d)) + Cardinality(Sent(d)) <= Cardinality(Callers)
             /\ Cardinality(Callers) \in Nat
  BY CardinalityTypes
<1>1. ASSUME NEW c \in Callers,
             \/ StartCall(c) \/ CheckCap(c) \/ ProviderAnswers(c) \/ CallFails(c)
             \/ Count(c) \/ CountFails(c) \/ WriteUsageLog(c) \/ LogFails(c)
      PROVE  Exact'
  <2>1. PICK r \in Calls :
          /\ call' = [call EXCEPT ![c] = r]
          /\ \/ /\ UNCHANGED <<counter, paid, uncounted>>
                /\ r.pc \in {"idle", "cap", "log"} \/ ~r.capped
                /\ r.pc # "count"
                /\ call[c].pc # "count"
             \/ /\ UNCHANGED <<counter, paid, uncounted>>
                /\ call[c].pc = "cap" /\ r.pc = "provider"
                /\ r.today = call[c].today
                /\ counter[r.today] < Cap
             \/ /\ UNCHANGED <<counter, uncounted>>
                /\ paid' = [paid EXCEPT ![call[c].today] = @ + 1]
                /\ call[c].pc = "provider" /\ call[c].capped
                /\ r.pc = "count" /\ r.today = call[c].today
             \/ /\ UNCHANGED <<paid, uncounted>>
                /\ counter' = [counter EXCEPT ![call[c].today] = @ + 1]
                /\ call[c].pc = "count" /\ r.pc = "log"
             \/ /\ UNCHANGED <<counter, paid>>
                /\ uncounted' = [uncounted EXCEPT ![call[c].today] = @ + 1]
                /\ call[c].pc = "count" /\ r.pc = "log"
    BY <1>1, CallerStep
  <2>2. day' = day
    BY <1>1, CallerStep
  <2>3. SUFFICES ASSUME NEW d \in Days, d = day
                 PROVE  /\ counter'[d] + Cardinality(Counting(d)') + uncounted'[d] = paid'[d]
                        /\ paid'[d] + Cardinality(Sent(d)')
                             <= Cap + Cardinality(Callers) - 1 + uncounted'[d]
    BY <2>2 DEF Exact
  <2>4. /\ Cardinality(Counting(d)') = Cardinality(Counting(d))
              + (IF r.pc = "count" /\ r.today = d THEN 1 ELSE 0)
              - (IF c \in Counting(d) THEN 1 ELSE 0)
        /\ Cardinality(Sent(d)') = Cardinality(Sent(d))
              + (IF r.pc = "provider" /\ r.capped /\ r.today = d THEN 1 ELSE 0)
              - (IF c \in Sent(d) THEN 1 ELSE 0)
    BY <2>1, Counts
  <2>5. /\ counter[d] + Cardinality(Counting(d)) + uncounted[d] = paid[d]
        /\ paid[d] + Cardinality(Sent(d))
             <= Cap + Cardinality(Callers) - 1 + uncounted[d]
    BY <2>3 DEF Exact
  <2>6. c \in Counting(d) <=> call[c].pc = "count" /\ call[c].today = d
    BY DEF Counting
  <2>7. c \in Sent(d) <=> call[c].pc = "provider" /\ call[c].capped /\ call[c].today = d
    BY DEF Sent
  <2>8. /\ Cardinality(Counting(d)) \in Nat /\ Cardinality(Sent(d)) \in Nat
        /\ Cardinality(Counting(d)) + Cardinality(Sent(d)) <= Cardinality(Callers)
        /\ Cardinality(Callers) \in Nat
        /\ counter[d] \in Nat /\ paid[d] \in Nat /\ uncounted[d] \in Nat
        /\ call[c].today \in Days
    BY <1>a, <1>b
  <2>9. CASE /\ UNCHANGED <<counter, paid, uncounted>>
             /\ r.pc \in {"idle", "cap", "log"} \/ ~r.capped
             /\ r.pc # "count"
             /\ call[c].pc # "count"
    BY <1>a, <2>4, <2>5, <2>6, <2>8, <2>9
  <2>10. CASE /\ UNCHANGED <<counter, paid, uncounted>>
              /\ call[c].pc = "cap" /\ r.pc = "provider"
              /\ r.today = call[c].today
              /\ counter[r.today] < Cap
    <3>1. /\ Cardinality(Counting(d)') = Cardinality(Counting(d))
          /\ Cardinality(Sent(d)') \in Nat
          /\ Cardinality(Sent(d)') <= Cardinality(Sent(d)) + 1
          /\ r.today # d => Cardinality(Sent(d)') = Cardinality(Sent(d))
      BY <2>4, <2>6, <2>7, <2>8, <2>10
    <3>2. CASE r.today = d
      \* The caller is in neither set: both together have one caller less than all.
      <4>1. Cardinality(Counting(d)) + Cardinality(Sent(d)')
              <= Cardinality(Callers)
        <5>1. Cardinality(Counting(d)') + Cardinality(Sent(d)') <= Cardinality(Callers)
          <6>1. (Cardinality(Counting(d)) + Cardinality(Sent(d)) <= Cardinality(Callers))'
            BY CardinalityTypes, PTL
          <6> QED
            BY <6>1
        <5> QED
          BY <3>1, <5>1
      <4> QED
        BY <1>a, <2>5, <2>8, <2>10, <3>1, <3>2, <4>1
    <3>3. CASE r.today # d
      BY <2>5, <2>10, <3>1, <3>3
    <3> QED
      BY <3>2, <3>3
  <2>11. CASE /\ UNCHANGED <<counter, uncounted>>
              /\ paid' = [paid EXCEPT ![call[c].today] = @ + 1]
              /\ call[c].pc = "provider" /\ call[c].capped
              /\ r.pc = "count" /\ r.today = call[c].today
    BY <1>a, <2>4, <2>5, <2>6, <2>7, <2>8, <2>11
  <2>12. CASE /\ UNCHANGED <<paid, uncounted>>
              /\ counter' = [counter EXCEPT ![call[c].today] = @ + 1]
              /\ call[c].pc = "count" /\ r.pc = "log"
    BY <1>a, <2>4, <2>5, <2>6, <2>7, <2>8, <2>12
  <2>13. CASE /\ UNCHANGED <<counter, paid>>
              /\ uncounted' = [uncounted EXCEPT ![call[c].today] = @ + 1]
              /\ call[c].pc = "count" /\ r.pc = "log"
    BY <1>a, <2>4, <2>5, <2>6, <2>7, <2>8, <2>13
  <2> QED
    BY <2>1, <2>9, <2>10, <2>11, <2>12, <2>13
<1>2. CASE NextDay
  <2>1. SUFFICES ASSUME NEW d \in Days, d = day'
                 PROVE  /\ counter'[d] + Cardinality(Counting(d)') + uncounted'[d] = paid'[d]
                        /\ paid'[d] + Cardinality(Sent(d)')
                             <= Cap + Cardinality(Callers) - 1 + uncounted'[d]
    BY DEF Exact
  <2>2. d > day /\ UNCHANGED <<call, counter, paid, uncounted>>
    BY <1>2, <1>a, <2>1 DEF NextDay, historyVars
  <2>3. counter[d] = 0 /\ paid[d] = 0 /\ uncounted[d] = 0
    BY <2>2 DEF NoFuture
  <2>4. Counting(d)' = {} /\ Sent(d)' = {}
    BY <1>a, <2>2 DEF NoFuture, Counting, Sent
  <2>5. Cardinality(Counting(d)') = 0 /\ Cardinality(Sent(d)') = 0
    BY <2>4, FS_EmptySet, Zenon
  <2>6. Cardinality(Callers) \in Nat /\ Cardinality(Callers) # 0
    BY BrainAssumption, FS_CardinalityType, FS_EmptySet
  <2> QED
    BY <1>a, <2>2, <2>3, <2>5, <2>6
<1>3. CASE StartReset \/ UNCHANGED vars
  <2>1. UNCHANGED <<day, call, counter, paid, uncounted>>
    BY <1>3 DEF StartReset, vars, historyVars
  <2>2. ASSUME NEW d PROVE Counting(d)' = Counting(d) /\ Sent(d)' = Sent(d)
    BY <2>1 DEF Counting, Sent
  <2> QED
    BY <2>1, <2>2 DEF Exact
<1>4. CASE ZeroCounters
  <2>1. UNCHANGED <<day, call, paid, uncounted>>
    BY <1>4 DEF ZeroCounters, historyVars
  <2>2. ASSUME NEW d PROVE Counting(d)' = Counting(d) /\ Sent(d)' = Sent(d)
    BY <2>1 DEF Counting, Sent
  <2>3. counter'[day] = counter[day]
    <3>0. reset.cutoff \in Days /\ reset.cutoff <= day
      BY DEF NoFuture, BrainTypeOK
    <3>1. ~(day < reset.cutoff)
      BY <1>a, <3>0
    <3> QED
      BY <1>4, <1>a, <3>1 DEF ZeroCounters, IsPast
  <2> QED
    BY <2>1, <2>2, <2>3 DEF Exact
<1> QED
  BY <1>1, <1>2, <1>3, <1>4 DEF Next

\* A caller's step moves that caller in or out of those being logged.
LEMMA LogMoves ==
    ASSUME BrainTypeOK, NEW c \in Callers, NEW r \in Calls,
           call' = [call EXCEPT ![c] = r], NEW d
    PROVE  /\ Cardinality(Logging(d)) \in Nat
           /\ Cardinality(Logging(d)') = Cardinality(Logging(d))
                + (IF r.pc \in {"count", "log"} /\ r.capped /\ r.today = d THEN 1 ELSE 0)
                - (IF c \in Logging(d) THEN 1 ELSE 0)
<1>1. /\ call'[c] = r
      /\ \A x \in Callers : x # c => call'[x] = call[x]
  BY Moves
<1>2. Logging(d)' = {x \in Callers : call'[x].pc \in {"count", "log"} /\ call'[x].capped
                                     /\ call'[x].today = d}
  BY DEF Logging
<1>3. Logging(d)' = IF r.pc \in {"count", "log"} /\ r.capped /\ r.today = d
                    THEN Logging(d) \cup {c} ELSE Logging(d) \ {c}
  BY <1>1, <1>2 DEF Logging
<1>4. IsFiniteSet(Logging(d)) /\ Cardinality(Logging(d)) \in Nat
  BY BrainAssumption, FS_Subset, FS_CardinalityType DEF Logging
<1>5. /\ Cardinality(Logging(d) \cup {c}) = IF c \in Logging(d)
            THEN Cardinality(Logging(d)) ELSE Cardinality(Logging(d)) + 1
      /\ Cardinality(Logging(d) \ {c}) = IF c \in Logging(d)
            THEN Cardinality(Logging(d)) - 1 ELSE Cardinality(Logging(d))
  BY <1>4, FS_AddElement, FS_RemoveElement
<1> QED
  BY <1>3, <1>4, <1>5

\* What one caller's step does to the usage log: nothing, an answer, the step from the
\* counter to the log, or the end of the call with a row or without.
LEMMA LoggerStep ==
    ASSUME ChargeInv, Logged, NEW c \in Callers,
           \/ StartCall(c) \/ CheckCap(c) \/ ProviderAnswers(c) \/ CallFails(c)
           \/ Count(c) \/ CountFails(c) \/ WriteUsageLog(c) \/ LogFails(c)
    PROVE  \E r \in Calls :
             /\ call' = [call EXCEPT ![c] = r]
             /\ r.pc = "count" => r.capped
             /\ \/ /\ UNCHANGED <<paid, logged, unlogged>>
                   /\ call[c].pc \in {"idle", "cap", "provider"}
                   /\ r.pc \in {"idle", "cap", "provider"} \/ ~r.capped
                \/ /\ UNCHANGED <<logged, unlogged>>
                   /\ call[c].pc = "provider" /\ r.pc = "count" /\ r.today = call[c].today
                   /\ paid' = [paid EXCEPT ![call[c].today] = @ + 1]
                \/ /\ UNCHANGED <<paid, logged, unlogged>>
                   /\ call[c].pc = "count" /\ r.pc = "log"
                   /\ r.today = call[c].today /\ r.capped = call[c].capped
                \/ /\ UNCHANGED paid
                   /\ call[c].pc = "log" /\ r.pc = "idle"
                   /\ IF call[c].capped
                      THEN \/ /\ logged' = [logged EXCEPT ![call[c].today] = @ + 1]
                              /\ UNCHANGED unlogged
                           \/ /\ unlogged' = [unlogged EXCEPT ![call[c].today] = @ + 1]
                              /\ UNCHANGED logged
                      ELSE UNCHANGED <<logged, unlogged>>
<1>a. BrainTypeOK
  BY DEF ChargeInv
<1>1. CASE StartCall(c)
  BY <1>1, <1>a, StartCallIs DEF StartCall, At, historyVars
<1>2. CASE CheckCap(c)
  <2>1. /\ call[c].pc = "cap" /\ UNCHANGED <<paid, logged, unlogged>>
        /\ Return(c) \/ GoTo(c, "provider")
    BY <1>2 DEF CheckCap, At, historyVars
  <2>2. CASE Return(c)
    BY <1>a, <2>1, <2>2, ReturnIs
  <2>3. CASE GoTo(c, "provider")
    BY <1>a, <2>1, <2>3, GoesOn
  <2> QED
    BY <2>1, <2>2, <2>3
<1>3. CASE ProviderAnswers(c)
  <2>1. call[c].pc = "provider" /\ UNCHANGED <<logged, unlogged>>
    BY <1>3 DEF ProviderAnswers, At
  <2>2. CASE call[c].capped
    <3>1. GoTo(c, "count") /\ paid' = [paid EXCEPT ![call[c].today] = @ + 1]
      BY <1>3, <2>2 DEF ProviderAnswers
    <3> QED
      BY <1>a, <2>1, <2>2, <3>1, GoesOn
  <2>3. CASE ~call[c].capped
    <3>1. GoTo(c, "log") /\ UNCHANGED paid
      BY <1>3, <2>3 DEF ProviderAnswers
    <3> QED
      BY <1>a, <2>1, <2>3, <3>1, GoesOn
  <2> QED
    BY <2>2, <2>3
<1>4. CASE CallFails(c)
  BY <1>4, <1>a, ReturnIs DEF CallFails, At, historyVars
<1>5. CASE Count(c) \/ CountFails(c)
  <2>1. /\ call[c].pc = "count" /\ GoTo(c, "log")
        /\ UNCHANGED <<paid, logged, unlogged>>
    BY <1>5 DEF Count, CountFails, At, historyVars
  <2> QED
    BY <1>a, <2>1, GoesOn
<1>6. CASE WriteUsageLog(c)
  <2>1. call[c].pc = "log" /\ Return(c) /\ UNCHANGED <<paid, unlogged>>
    BY <1>6 DEF WriteUsageLog, At, historyVars
  <2>2. logged' = IF call[c].capped
                  THEN [logged EXCEPT ![call[c].today] = @ + 1] ELSE logged
    BY <1>6 DEF WriteUsageLog
  <2> QED
    BY <1>a, <2>1, <2>2, ReturnIs
<1>7. CASE LogFails(c)
  <2>1. call[c].pc = "log" /\ Return(c) /\ UNCHANGED <<paid, logged>>
    BY <1>7 DEF LogFails, At
  <2>2. unlogged' = IF call[c].capped
                    THEN [unlogged EXCEPT ![call[c].today] = @ + 1] ELSE unlogged
    BY <1>7 DEF LogFails
  <2> QED
    BY <1>a, <2>1, <2>2, ReturnIs
<1> QED
  BY <1>1, <1>2, <1>3, <1>4, <1>5, <1>6, <1>7

\* Every step keeps the usage log exact, up to the rows that fail.
LEMMA StepLogged ==
    ASSUME ChargeInv, Logged, [Next]_vars
    PROVE  Logged'
<1>a. /\ BrainTypeOK /\ Days \subseteq Nat
      /\ paid \in [Days -> Nat] /\ logged \in [Days -> Nat] /\ unlogged \in [Days -> Nat]
  <2>1. Days \subseteq Nat
    BY BrainAssumption DEF Days
  <2> QED
    BY <2>1 DEF ChargeInv, BrainTypeOK
<1>1. ASSUME NEW c \in Callers,
             \/ StartCall(c) \/ CheckCap(c) \/ ProviderAnswers(c) \/ CallFails(c)
             \/ Count(c) \/ CountFails(c) \/ WriteUsageLog(c) \/ LogFails(c)
      PROVE  Logged'
  <2>1. PICK r \in Calls :
          /\ call' = [call EXCEPT ![c] = r]
          /\ r.pc = "count" => r.capped
          /\ \/ /\ UNCHANGED <<paid, logged, unlogged>>
                /\ call[c].pc \in {"idle", "cap", "provider"}
                /\ r.pc \in {"idle", "cap", "provider"} \/ ~r.capped
             \/ /\ UNCHANGED <<logged, unlogged>>
                /\ call[c].pc = "provider" /\ r.pc = "count" /\ r.today = call[c].today
                /\ paid' = [paid EXCEPT ![call[c].today] = @ + 1]
             \/ /\ UNCHANGED <<paid, logged, unlogged>>
                /\ call[c].pc = "count" /\ r.pc = "log"
                /\ r.today = call[c].today /\ r.capped = call[c].capped
             \/ /\ UNCHANGED paid
                /\ call[c].pc = "log" /\ r.pc = "idle"
                /\ IF call[c].capped
                   THEN \/ /\ logged' = [logged EXCEPT ![call[c].today] = @ + 1]
                           /\ UNCHANGED unlogged
                        \/ /\ unlogged' = [unlogged EXCEPT ![call[c].today] = @ + 1]
                           /\ UNCHANGED logged
                   ELSE UNCHANGED <<logged, unlogged>>
    BY <1>1, LoggerStep
  <2>2. call'[c] = r /\ \A x \in Callers : x # c => call'[x] = call[x]
    BY <1>a, <2>1, Moves
  <2>3. ASSUME NEW x \in Callers, call'[x].pc = "count" PROVE call'[x].capped
    BY <2>1, <2>2, <2>3 DEF Logged
  <2>4. ASSUME NEW d \in Days
        PROVE  logged'[d] + unlogged'[d] + Cardinality(Logging(d)') = paid'[d]
    <3>1. /\ Cardinality(Logging(d)) \in Nat
          /\ Cardinality(Logging(d)') = Cardinality(Logging(d))
                + (IF r.pc \in {"count", "log"} /\ r.capped /\ r.today = d THEN 1 ELSE 0)
                - (IF c \in Logging(d) THEN 1 ELSE 0)
      BY <1>a, <2>1, LogMoves
    <3>2. c \in Logging(d) <=> call[c].pc \in {"count", "log"} /\ call[c].capped
                                /\ call[c].today = d
      BY DEF Logging
    <3>3. logged[d] + unlogged[d] + Cardinality(Logging(d)) = paid[d]
      BY DEF Logged
    <3>4. call[c].pc = "count" => call[c].capped
      BY DEF Logged
    <3>5. logged[d] \in Nat /\ unlogged[d] \in Nat /\ paid[d] \in Nat
      BY <1>a
    <3>6. CASE /\ UNCHANGED <<paid, logged, unlogged>>
               /\ call[c].pc \in {"idle", "cap", "provider"}
               /\ r.pc \in {"idle", "cap", "provider"} \/ ~r.capped
      BY <3>1, <3>2, <3>3, <3>6
    <3>7. CASE /\ UNCHANGED <<logged, unlogged>>
               /\ call[c].pc = "provider" /\ r.pc = "count" /\ r.today = call[c].today
               /\ paid' = [paid EXCEPT ![call[c].today] = @ + 1]
      BY <1>a, <2>1, <3>1, <3>2, <3>3, <3>5, <3>7
    <3>8. CASE /\ UNCHANGED <<paid, logged, unlogged>>
               /\ call[c].pc = "count" /\ r.pc = "log"
               /\ r.today = call[c].today /\ r.capped = call[c].capped
      BY <3>1, <3>2, <3>3, <3>4, <3>8
    <3>9. CASE /\ UNCHANGED paid
               /\ call[c].pc = "log" /\ r.pc = "idle"
               /\ IF call[c].capped
                  THEN \/ /\ logged' = [logged EXCEPT ![call[c].today] = @ + 1]
                          /\ UNCHANGED unlogged
                       \/ /\ unlogged' = [unlogged EXCEPT ![call[c].today] = @ + 1]
                          /\ UNCHANGED logged
                  ELSE UNCHANGED <<logged, unlogged>>
      BY <1>a, <3>1, <3>2, <3>3, <3>5, <3>9
    <3> QED
      BY <2>1, <3>6, <3>7, <3>8, <3>9
  <2> QED
    BY <2>3, <2>4 DEF Logged
<1>2. CASE NextDay \/ StartReset \/ ZeroCounters \/ UNCHANGED vars
  <2>1. UNCHANGED <<call, paid, logged, unlogged>>
    BY <1>2 DEF NextDay, StartReset, ZeroCounters, vars, historyVars
  <2>2. ASSUME NEW d PROVE Logging(d)' = Logging(d)
    BY <2>1 DEF Logging
  <2> QED
    BY <2>1, <2>2 DEF Logged
<1> QED
  BY <1>1, <1>2 DEF Next

-----------------------------------------------------------------------------
(* The theorems *)

\* Calls, rows and the reset job keep their types (brain-router, reset-ai-counters).
THEOREM BrainTypes == Spec => []BrainTypeOK
<1>1. Init => ChargeInv
  BY InitCharge
<1> QED
  BY <1>1, StepCharge, PTL DEF Spec, ChargeInv

\* No day's counter exceeds what the provider answered for that day, whatever
\* fails, however the reset and midnight fall among the calls.
THEOREM ChargedOnlyForAnswers == Spec => []NeverOvercharged
<1>1. Init => ChargeInv
  BY InitCharge
<1>2. ChargeInv => NeverOvercharged
  <2> SUFFICES ASSUME ChargeInv, NEW d \in Days PROVE counter[d] <= paid[d]
    BY DEF NeverOvercharged
  <2>1. Cardinality(Counting(d)) \in Nat
    BY CardinalityTypes
  <2>2. counter[d] \in Nat /\ paid[d] \in Nat
    BY DEF ChargeInv, BrainTypeOK
  <2> QED
    BY <2>1, <2>2 DEF ChargeInv, Charged
<1> QED
  BY <1>1, <1>2, StepCharge, PTL DEF Spec

\* The claim of the comment on the cap check, max overrun = concurrency - 1, for
\* every cap and concurrency: it holds up to the increments that fail.
THEOREM OverrunIsConcurrency == Spec => []CapOverrunBounded
<1>1. Init => ChargeInv /\ Exact
  BY InitCharge
<1>2. ChargeInv /\ Exact /\ [Next]_vars => ChargeInv' /\ Exact'
  BY StepCharge, StepExact
<1>3. ChargeInv /\ Exact => CapOverrunBounded
  <2> SUFFICES ASSUME ChargeInv, Exact PROVE CapOverrunBounded
    OBVIOUS
  <2>1. day \in Days /\ paid[day] \in Nat /\ uncounted[day] \in Nat /\ Cap \in Nat
    BY BrainAssumption DEF ChargeInv, BrainTypeOK
  <2>2. PICK d \in Days : d = day
    BY <2>1
  <2>3. Cardinality(Sent(d)) \in Nat /\ Cardinality(Callers) \in Nat
    BY CardinalityTypes
  <2>4. paid[d] + Cardinality(Sent(d))
          <= Cap + Cardinality(Callers) - 1 + uncounted[d]
    BY <2>2 DEF Exact
  <2> QED
    BY <2>1, <2>2, <2>3, <2>4 DEF CapOverrunBounded
<1> QED
  BY <1>1, <1>2, <1>3, PTL DEF Spec

\* Once the day's calls are over, its counter and its usage log account for the same
\* answers, up to the writes that failed on either side: the reset and midnight lose
\* none of them.
THEOREM BilledAndCapped == Spec => []AnswersAccounted
<1>1. Init => ChargeInv /\ Exact /\ Logged
  <2> SUFFICES ASSUME Init PROVE Logged
    BY InitCharge
  <2>1. ASSUME NEW d PROVE Logging(d) = {}
    BY DEF Init, NoCall, Logging
  <2>2. ASSUME NEW d PROVE Cardinality(Logging(d)) = 0
    BY <2>1, FS_EmptySet, Zenon
  <2> QED
    BY <2>2 DEF Init, NoCall, Logged
<1>2. ChargeInv /\ Exact /\ Logged /\ [Next]_vars => ChargeInv' /\ Exact' /\ Logged'
  BY StepCharge, StepExact, StepLogged
<1>3. ChargeInv /\ Exact /\ Logged => AnswersAccounted
  <2> SUFFICES ASSUME ChargeInv, Exact, Logged,
                      \A c \in Callers :
                        ~(call[c].pc \in {"count", "log"} /\ call[c].today = day)
               PROVE  /\ counter[day] + uncounted[day] = paid[day]
                      /\ logged[day] + unlogged[day] = paid[day]
    BY DEF AnswersAccounted
  <2>1. PICK d \in Days : d = day
    BY DEF ChargeInv, BrainTypeOK
  <2>2. Counting(d) = {} /\ Logging(d) = {}
    BY <2>1 DEF Counting, Logging
  <2>3. Cardinality(Counting(d)) = 0 /\ Cardinality(Logging(d)) = 0
    BY <2>2, FS_EmptySet, Zenon
  <2>4. /\ counter[d] \in Nat /\ uncounted[d] \in Nat
        /\ logged[d] \in Nat /\ unlogged[d] \in Nat
    BY DEF ChargeInv, BrainTypeOK
  <2>5. /\ counter[d] + Cardinality(Counting(d)) + uncounted[d] = paid[d]
        /\ logged[d] + unlogged[d] + Cardinality(Logging(d)) = paid[d]
    BY <2>1 DEF Exact, Logged
  <2> QED
    BY <2>1, <2>3, <2>4, <2>5
<1> QED
  BY <1>1, <1>2, <1>3, PTL DEF Spec
=============================================================================
