------------------------ MODULE CircuitBreakerProofs ------------------------
(***************************************************************************)
(* Theorems about the circuit breaker, for any number of hosts, tasks in   *)
(* flight, threshold and cooldown.                                          *)
(***************************************************************************)
EXTENDS CircuitBreaker, FiniteSetTheorems, TLAPS

\* Counting stops at the threshold and at the cooldown (Capped).
Counts ==
    /\ failures \in [Hosts -> 0..Threshold]
    /\ age \in [Hosts -> 0..ResetSeconds]
    /\ streak \in [Hosts -> 0..Threshold]

\* The inductive invariant: the types, the state of a host agreeing with its counter, and
\* the closed breaker's counter being the length of the current run of failures.
CountInv == TypeOK /\ Counts /\ ClosedCountsStreak

\* The open hosts can be counted, before and after a step.
LEMMA OpenIsFinite ==
    /\ IsFiniteSet(OpenHosts) /\ open_count \in Nat
    /\ IsFiniteSet(OpenHosts') /\ open_count' \in Nat
<1>1. OpenHosts \subseteq Hosts /\ OpenHosts' \subseteq Hosts
  BY DEF OpenHosts
<1> QED BY <1>1, HostsAssumption, FS_Subset, FS_CardinalityType DEF open_count

\* A capped count stays within its limit and does not fall.
LEMMA CappedType ==
    ASSUME NEW limit \in Nat, NEW n \in 0..limit
    PROVE  Capped(n, limit) \in 0..limit /\ Capped(n, limit) >= n
BY DEF Capped

\* A new breaker satisfies the counting invariant.
LEMMA InitCountInv == Init => CountInv
BY ThresholdAssumption, ResetAssumption, OthersAssumption
   DEF Init, CountInv, Counts, TypeOK, ClosedCountsStreak, CircuitState

\* allow() leaves the counts alone (circuit_breaker.py:61-71).
LEMMA AllowCounts ==
    ASSUME CountInv, NEW t \in Tasks, NEW h \in Hosts, Allow(t, h)
    PROVE  CountInv'
<1>1. TypeOK' /\ Counts'
  BY DEF Allow, CountInv, Counts, TypeOK, CircuitState
<1>2. ClosedCountsStreak'
  BY DEF Allow, CountInv, Counts, TypeOK, CircuitState, ClosedCountsStreak
<1> QED BY <1>1, <1>2 DEF CountInv

\* A success forgets the run of failures (circuit_breaker.py:73-79).
LEMMA SuccessCounts ==
    ASSUME CountInv, NEW t \in Tasks, record_success(t)
    PROVE  CountInv'
<1>1. gauge' \in Nat /\ writer' \in {"own", "other"}
  <2>1. open_count' \in Nat
    BY OpenIsFinite
  <2> QED BY <2>1 DEF record_success, Close, ResetFailures, refresh_gauge, CountInv, Counts, TypeOK
<1>2. TypeOK' /\ Counts'
  BY <1>1, ThresholdAssumption, ResetAssumption
     DEF record_success, Close, ResetFailures, EndTask, CountInv, Counts, TypeOK, CircuitState
<1>3. ClosedCountsStreak'
  BY ThresholdAssumption
     DEF record_success, Close, ResetFailures, CountInv, Counts, TypeOK, ClosedCountsStreak
<1> QED BY <1>2, <1>3 DEF CountInv

\* A failure extends the run, and opens the breaker at the threshold
\* (circuit_breaker.py:81-93).
LEMMA FailureCounts ==
    ASSUME CountInv, NEW t \in Tasks, record_failure(t)
    PROVE  CountInv'
<1> DEFINE h == target[t]
           count == Capped(failures[h], Threshold)
<1>1. h \in Hosts
  BY DEF record_failure
<1>2. /\ count \in 0..Threshold /\ count >= failures[h]
      /\ Capped(streak[h], Threshold) \in 0..Threshold
  BY <1>1, CappedType, ThresholdAssumption DEF CountInv, Counts, TypeOK
<1>3. gauge' \in Nat /\ writer' \in {"own", "other"}
  <2>1. open_count' \in Nat
    BY OpenIsFinite
  <2> QED BY <2>1 DEF record_failure, Trip, refresh_gauge, CountInv, Counts, TypeOK
<1>4. streak' = [streak EXCEPT ![h] = Capped(streak[h], Threshold)]
      /\ EndTask(t) /\ UNCHANGED up
  BY DEF record_failure
<1>5. CASE state[h] = "HALF_OPEN" \/ (count >= Threshold /\ state[h] = "CLOSED")
  <2>1. /\ state' = [state EXCEPT ![h] = "OPEN"]
        /\ age' = [age EXCEPT ![h] = 0]
        /\ failures' = failures \/ failures' = [failures EXCEPT ![h] = count]
    BY <1>5 DEF record_failure, Trip
  <2>2. failures' \in [Hosts -> 0..Threshold] /\ failures'[h] >= Threshold
    <3>1. failures \in [Hosts -> 0..Threshold]
      BY DEF CountInv, Counts
    <3>2. CASE state[h] = "HALF_OPEN"
      <4>1. failures[h] >= Threshold
        BY <1>1, <3>1, <3>2, ThresholdAssumption DEF CountInv, TypeOK
      <4>2. failures' = failures
        BY <3>2 DEF record_failure
      <4> QED BY <3>1, <4>1, <4>2
    <3>3. CASE count >= Threshold /\ state[h] = "CLOSED"
      <4>1. failures' = [failures EXCEPT ![h] = count]
        BY <3>3 DEF record_failure
      <4> QED BY <1>1, <1>2, <3>1, <3>3, <4>1
    <3> QED BY <1>5, <3>2, <3>3
  <2>3. \A g \in Hosts \ {h} : failures'[g] = failures[g] /\ state'[g] = state[g]
    BY <1>1, <2>1 DEF CountInv, Counts, TypeOK
  <2>4. Counts'
    <3>1. age' \in [Hosts -> 0..ResetSeconds]
      BY <1>1, <2>1, ResetAssumption DEF CountInv, Counts
    <3>2. streak' \in [Hosts -> 0..Threshold]
      BY <1>1, <1>2, <1>4 DEF CountInv, Counts
    <3> QED BY <2>2, <3>1, <3>2 DEF Counts
  <2>5. \A g \in Hosts : state'[g] = "CLOSED" <=> failures'[g] < Threshold
    <3>1. state'[h] = "OPEN"
      BY <1>1, <2>1 DEF CountInv, TypeOK
    <3> QED BY <1>1, <2>2, <2>3, <3>1, ThresholdAssumption DEF CountInv, TypeOK
  <2>6. TypeOK'
    <3>1. /\ failures' \in [Hosts -> Nat]
          /\ age' \in [Hosts -> Nat]
          /\ streak' \in [Hosts -> Nat]
      BY <2>4, ThresholdAssumption, ResetAssumption DEF Counts
    <3>2. state' \in [Hosts -> CircuitState]
      BY <2>1 DEF CountInv, TypeOK, CircuitState
    <3> QED BY <1>3, <1>4, <2>5, <3>1, <3>2 DEF EndTask, CountInv, TypeOK
  <2>7. ClosedCountsStreak'
    BY <1>1, <1>4, <2>1 DEF CountInv, Counts, TypeOK, ClosedCountsStreak
  <2> QED BY <2>4, <2>6, <2>7 DEF CountInv
<1>6. CASE state[h] # "HALF_OPEN" /\ ~(count >= Threshold /\ state[h] = "CLOSED")
  <2>1. /\ UNCHANGED <<state, age, gauge, writer>>
        /\ failures' = [failures EXCEPT ![h] = count]
    BY <1>6 DEF record_failure
  <2>2. TypeOK' /\ Counts'
    BY <1>1, <1>2, <1>4, <1>6, <2>1, ThresholdAssumption
       DEF EndTask, CountInv, Counts, TypeOK, CircuitState
  <2>3. ClosedCountsStreak'
    <3>1. SUFFICES ASSUME NEW g \in Hosts, state'[g] = "CLOSED"
                   PROVE  failures'[g] = streak'[g] /\ streak'[g] < Threshold
      BY DEF ClosedCountsStreak
    <3>2. CASE g # h
      BY <1>4, <2>1, <3>1, <3>2 DEF CountInv, Counts, TypeOK, ClosedCountsStreak
    <3>3. CASE g = h
      <4>1. state[h] = "CLOSED" /\ failures[h] = streak[h]
        BY <1>1, <2>1, <3>1, <3>3 DEF CountInv, ClosedCountsStreak
      <4>2. failures'[h] = count /\ streak'[h] = count
        BY <1>1, <1>4, <2>1, <4>1 DEF CountInv, Counts, TypeOK
      <4>3. count < Threshold
        BY <1>2, <1>6, <4>1, ThresholdAssumption
      <4> QED BY <3>3, <4>2, <4>3
    <3> QED BY <3>2, <3>3
  <2> QED BY <2>2, <2>3 DEF CountInv
<1> QED BY <1>5, <1>6

\* Dropped tasks, the clock and the hosts leave the counts alone.
LEMMA OtherStepCounts ==
    ASSUME CountInv,
           \/ \E t \in Tasks : Drop(t)
           \/ Tick
           \/ \E h \in Hosts : Flip(h)
           \/ OtherRefresh
           \/ UNCHANGED vars
    PROVE  CountInv'
<1>1. CASE \E t \in Tasks : Drop(t)
  BY <1>1 DEF Drop, EndTask, CountInv, Counts, TypeOK, ClosedCountsStreak
<1>2. CASE Tick
  <2>1. \A h \in Hosts : Capped(age[h], ResetSeconds) \in 0..ResetSeconds
    BY CappedType, ResetAssumption DEF CountInv, Counts, TypeOK
  <2> QED BY <1>2, <2>1 DEF Tick, CountInv, Counts, TypeOK, ClosedCountsStreak
<1>3. CASE \E h \in Hosts : Flip(h)
  BY <1>3 DEF Flip, CountInv, Counts, TypeOK, ClosedCountsStreak
<1>4. CASE UNCHANGED vars
  BY <1>4 DEF vars, CountInv, Counts, TypeOK, ClosedCountsStreak
<1>5. CASE OtherRefresh
  BY <1>5, OthersAssumption DEF OtherRefresh, CountInv, Counts, TypeOK, ClosedCountsStreak
<1> QED BY <1>1, <1>2, <1>3, <1>4, <1>5

\* Every step preserves the counting invariant.
LEMMA NextCountInv == CountInv /\ [Next]_vars => CountInv'
<1> SUFFICES ASSUME CountInv, [Next]_vars PROVE CountInv'
  OBVIOUS
<1>1. ASSUME NEW t \in Tasks, NEW h \in Hosts, Allow(t, h) PROVE CountInv'
  BY <1>1, AllowCounts
<1>2. ASSUME NEW t \in Tasks, record_success(t) PROVE CountInv'
  BY <1>2, SuccessCounts
<1>3. ASSUME NEW t \in Tasks, record_failure(t) PROVE CountInv'
  BY <1>3, FailureCounts
<1> QED BY <1>1, <1>2, <1>3, OtherStepCounts DEF Next

\* In every state of every behaviour the counter of a closed breaker is the current
\* run of failures and is below the threshold (circuit_breaker.py:76, 89-93).
THEOREM ClosedCounts == Spec => [](TypeOK /\ ClosedCountsStreak)
<1>1. Spec => []CountInv
  BY InitCountInv, NextCountInv, PTL DEF Spec
<1> QED BY <1>1, PTL DEF CountInv

\* A closed breaker opens only on failure_threshold failures in a row, however the
\* outcomes of concurrent tasks interleave (circuit_breaker.py:4-6).
THEOREM OpensOnlyOnThreshold == Spec => OpensOnThreshold
<1> DEFINE Opens == \A h \in Hosts :
               state[h] = "CLOSED" /\ state'[h] = "OPEN" => streak'[h] >= Threshold
<1>1. CountInv /\ [Next]_vars => [Opens]_vars
  <2> SUFFICES ASSUME CountInv, Next, NEW h \in Hosts,
                      state[h] = "CLOSED", state'[h] = "OPEN"
               PROVE  streak'[h] >= Threshold
    OBVIOUS
  <2>1. CASE \E t \in Tasks, g \in Hosts : Allow(t, g)
    BY <2>1 DEF Allow, CountInv, Counts, TypeOK
  <2>2. CASE \E t \in Tasks : record_success(t)
    BY <2>2 DEF record_success, Close, ResetFailures, CountInv, Counts, TypeOK
  <2>3. ASSUME NEW t \in Tasks, record_failure(t) PROVE streak'[h] >= Threshold
    <3>1. target[t] = h /\ h \in Hosts /\ Capped(failures[h], Threshold) >= Threshold
      BY <2>3 DEF record_failure, Trip, CountInv, Counts, TypeOK
    <3>2. streak'[h] = Capped(failures[h], Threshold)
      BY <2>3, <3>1 DEF record_failure, CountInv, Counts, TypeOK, ClosedCountsStreak
    <3>3. Capped(failures[h], Threshold) \in 0..Threshold
      BY CappedType, ThresholdAssumption DEF CountInv, Counts, TypeOK
    <3> QED BY <3>1, <3>2, <3>3, ThresholdAssumption
  <2>4. CASE Tick \/ (\E t \in Tasks : Drop(t)) \/ (\E g \in Hosts : Flip(g)) \/ OtherRefresh
    BY <2>4 DEF Tick, Drop, Flip, OtherRefresh
  <2> QED BY <2>1, <2>2, <2>3, <2>4 DEF Next
<1>2. Spec => []CountInv
  BY InitCountInv, NextCountInv, PTL DEF Spec
<1> QED BY <1>1, <1>2, PTL DEF Spec, OpensOnThreshold

\* The breaker's fields keep their types, and a host is closed exactly as long as its count
\* is below the threshold, for any number of hosts and tasks (circuit_breaker.py:76-77,
\* 89-92).
THEOREM BreakerTypes == Spec => []TypeOK
BY ClosedCounts, PTL

\* An open host is fetched again only after the cooldown or a recorded success, although
\* outcomes of tasks allowed long before may arrive at any time (circuit_breaker.py:64-77).
THEOREM ReopensLate == Spec => OpenEndsByCooldownOrSuccess
<1> DEFINE Ends == \A h \in Hosts :
               state[h] = "OPEN" /\ state'[h] # "OPEN" => CooledDown(h) \/ streak'[h] = 0
<1>1. TypeOK /\ [Next]_vars => [Ends]_vars
  <2> SUFFICES ASSUME TypeOK, Next, NEW h \in Hosts, state[h] = "OPEN", state'[h] # "OPEN"
               PROVE  CooledDown(h) \/ streak'[h] = 0
    OBVIOUS
  <2>1. ASSUME NEW t \in Tasks, NEW g \in Hosts, Allow(t, g) PROVE CooledDown(h)
    BY <2>1 DEF Allow, MayPass, TypeOK
  <2>2. ASSUME NEW t \in Tasks, record_success(t) PROVE streak'[h] = 0
    BY <2>2 DEF record_success, Close, TypeOK
  <2>3. ASSUME NEW t \in Tasks, record_failure(t) PROVE FALSE
    BY <2>3 DEF record_failure, Trip, TypeOK
  <2>4. CASE Tick \/ (\E t \in Tasks : Drop(t)) \/ (\E g \in Hosts : Flip(g)) \/ OtherRefresh
    BY <2>4 DEF Tick, Drop, Flip, OtherRefresh
  <2> QED BY <2>1, <2>2, <2>3, <2>4 DEF Next
<1> QED BY <1>1, BreakerTypes, PTL DEF Spec, OpenEndsByCooldownOrSuccess

-----------------------------------------------------------------------------
(* The gauge                                                                 *)

\* The exported gauge never reports fewer open hosts than the breaker that refreshed it last
\* has, although allow() does not refresh it and other crawls overwrite it
\* (circuit_breaker.py:64-68, 98-99).
THEOREM GaugeNeverLow == Spec => []GaugeCoversOpen
<1>1. Init => GaugeCoversOpen
  <2> SUFFICES ASSUME Init PROVE open_count <= gauge
    BY DEF GaugeCoversOpen
  <2>1. OpenHosts = {} /\ gauge \in Nat
    BY OthersAssumption DEF Init, OpenHosts
  <2> QED BY <2>1, FS_EmptySet DEF open_count
<1>2. TypeOK /\ GaugeCoversOpen /\ [Next]_vars => GaugeCoversOpen'
  <2> SUFFICES ASSUME TypeOK, GaugeCoversOpen, [Next]_vars, writer' = "own"
               PROVE  open_count' <= gauge'
    BY DEF GaugeCoversOpen
  <2>1. open_count' \in Nat /\ open_count \in Nat
    BY OpenIsFinite
  <2>2. CASE gauge' = open_count'
    BY <2>1, <2>2
  <2>3. CASE UNCHANGED <<gauge, writer>> /\ OpenHosts' \subseteq OpenHosts
    <3>1. open_count' <= open_count
      BY <2>3, OpenIsFinite, FS_Subset DEF open_count
    <3> QED BY <2>1, <2>3, <3>1 DEF GaugeCoversOpen, TypeOK
  <2>4. CASE UNCHANGED <<gauge, writer, state>>
    BY <2>3, <2>4 DEF OpenHosts
  <2>5. ASSUME NEW t \in Tasks, NEW h \in Hosts, Allow(t, h)
        PROVE  UNCHANGED <<gauge, writer>> /\ OpenHosts' \subseteq OpenHosts
    BY <2>5 DEF Allow, OpenHosts, TypeOK
  <2>6. ASSUME NEW t \in Tasks, record_success(t)
        PROVE  gauge' = open_count' \/ UNCHANGED <<gauge, writer, state>>
    BY <2>6 DEF record_success, Close, refresh_gauge, TypeOK
  <2>7. ASSUME NEW t \in Tasks, record_failure(t)
        PROVE  gauge' = open_count' \/ UNCHANGED <<gauge, writer, state>>
    BY <2>7 DEF record_failure, Trip, refresh_gauge
  <2>8. CASE Tick \/ (\E t \in Tasks : Drop(t)) \/ (\E h \in Hosts : Flip(h)) \/ UNCHANGED vars
    <3>1. UNCHANGED <<gauge, writer, state>>
      BY <2>8 DEF Tick, Drop, Flip, vars
    <3> QED BY <2>4, <3>1
  <2>9. CASE OtherRefresh
    BY <2>9 DEF OtherRefresh
  <2> QED BY <2>2, <2>3, <2>4, <2>5, <2>6, <2>7, <2>8, <2>9 DEF Next
<1> QED BY <1>1, <1>2, ClosedCounts, PTL DEF Spec
=============================================================================
