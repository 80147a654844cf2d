--------------------------- MODULE CircuitBreaker ---------------------------
(***************************************************************************)
(* The per-host circuit breaker (resilience/circuit_breaker.py) under the   *)
(* concurrent calls Pipeline.process makes: allow() before the fetch,       *)
(* record_success / record_failure when the fetch ends, with any number of  *)
(* other tasks' calls in between, and no outcome at all when the task is    *)
(* refused by the domain budget or raises after it was allowed.             *)
(*                                                                          *)
(* Every crawl of a process has a breaker of its own (local_crawl.py:69),   *)
(* but they all write the one gauge of the process (metrics.py:75-78): the  *)
(* module has one breaker, and the other crawls' writes of the gauge.       *)
(***************************************************************************)
EXTENDS Naturals, FiniteSets

CONSTANTS
    Hosts,
    Tasks,         \* pipeline tasks that may be in flight at once
    Threshold,     \* failure_threshold
    ResetSeconds,  \* reset_seconds, in clock ticks
    OtherCounts    \* bound: what the breakers of other crawls may write to the gauge

NoHost == "none"

ASSUME HostsAssumption == IsFiniteSet(Hosts) /\ NoHost \notin Hosts
ASSUME ThresholdAssumption == Threshold \in Nat \ {0}
ASSUME ResetAssumption == ResetSeconds \in Nat
ASSUME OthersAssumption == OtherCounts \subseteq Nat

VARIABLES
    state,     \* _HostState.state
    failures,  \* _HostState.failures
    age,       \* _clock() - _HostState.opened_at, up to ResetSeconds
    gauge,     \* metrics.CIRCUIT_STATE, one for all the crawls of the process
    target,    \* the host each task was allowed to fetch, or NoHost
    probe,     \* history: the task was allowed by a breaker that was not closed
    streak,    \* history: outcomes recorded since the last success
    writer,    \* history: whose breaker refreshed the gauge last, this crawl's or another's
    up         \* environment: whether the host answers

vars == <<state, failures, age, gauge, target, probe, streak, writer, up>>

CircuitState == {"CLOSED", "OPEN", "HALF_OPEN"}

\* The code only asks whether a count or an age has reached its limit; counting
\* stops there.
Capped(n, limit) == IF n < limit THEN n + 1 ELSE limit

OpenHosts == {h \in Hosts : state[h] = "OPEN"}
open_count == Cardinality(OpenHosts)

-----------------------------------------------------------------------------
Init ==
    /\ state = [h \in Hosts |-> "CLOSED"]
    /\ failures = [h \in Hosts |-> 0]
    /\ age = [h \in Hosts |-> 0]
    /\ gauge \in {0} \cup OtherCounts
    /\ target = [t \in Tasks |-> NoHost]
    /\ probe = [t \in Tasks |-> FALSE]
    /\ streak = [h \in Hosts |-> 0]
    /\ writer = "own"
    /\ up \in [Hosts -> BOOLEAN]

CooledDown(h) == age[h] >= ResetSeconds

\* Mutant: the cooldown is not waited for.
MayPassAlways(h) == TRUE

\* allow(h) answers True unless the breaker is open and still cooling down.
MayPass(h) == state[h] = "OPEN" => CooledDown(h)

\* allow(h) answers True.  When the breaker is open and has cooled down it goes
\* half-open; the gauge is not refreshed.  (When allow answers False nothing
\* changes and the pipeline skips the URL.)
Allow(t, h) ==
    /\ target[t] = NoHost
    /\ MayPass(h)
    /\ state' = [state EXCEPT ![h] = IF @ = "OPEN" THEN "HALF_OPEN" ELSE @]
    /\ target' = [target EXCEPT ![t] = h]
    /\ probe' = [probe EXCEPT ![t] = state[h] # "CLOSED"]
    /\ UNCHANGED <<failures, age, gauge, streak, writer, up>>

EndTask(t) ==
    /\ target' = [target EXCEPT ![t] = NoHost]
    /\ probe' = [probe EXCEPT ![t] = FALSE]

\* The budget refuses the task after allow(), or the task raises: no outcome.
Drop(t) ==
    /\ target[t] # NoHost
    /\ EndTask(t)
    /\ UNCHANGED <<state, failures, age, gauge, streak, writer, up>>

\* Mutant: the gauge is not refreshed.
GaugeStale == UNCHANGED gauge /\ writer' = "own"

\* _refresh_gauge writes the open count of this breaker, whatever the gauge says.
refresh_gauge == gauge' = open_count' /\ writer' = "own"

\* Mutant: a success does not forget earlier failures.
KeepFailures(h) == UNCHANGED failures

ResetFailures(h) == failures' = [failures EXCEPT ![h] = 0]

\* Mutant: a successful probe leaves the breaker half-open.
StayHalfOpen(h) == UNCHANGED state

Close(h) == state' = [state EXCEPT ![h] = "CLOSED"]

\* The fetch answers with a status below 500.
record_success(t) ==
    LET h == target[t] IN
    /\ h \in Hosts
    /\ up[h]
    /\ ResetFailures(h)
    /\ Close(h)
    /\ IF state[h] # "CLOSED" THEN refresh_gauge ELSE UNCHANGED <<gauge, writer>>
    /\ streak' = [streak EXCEPT ![h] = 0]
    /\ EndTask(t)
    /\ UNCHANGED <<age, up>>

\* The breaker opens: opened_at becomes the present time.
Trip(h) ==
    /\ state' = [state EXCEPT ![h] = "OPEN"]
    /\ age' = [age EXCEPT ![h] = 0]
    /\ refresh_gauge

\* The fetch fails or answers 5xx.
record_failure(t) ==
    LET h == target[t]
        count == Capped(failures[h], Threshold)
    IN
    /\ h \in Hosts
    /\ ~up[h]
    /\ IF state[h] = "HALF_OPEN"
       THEN Trip(h) /\ UNCHANGED failures
       ELSE /\ failures' = [failures EXCEPT ![h] = count]
            /\ IF count >= Threshold /\ state[h] = "CLOSED"
               THEN Trip(h)
               ELSE UNCHANGED <<state, age, gauge, writer>>
    /\ streak' = [streak EXCEPT ![h] = Capped(@, Threshold)]
    /\ EndTask(t)
    /\ UNCHANGED up

\* One unit of the monotonic clock passes.
Tick ==
    /\ age' = [h \in Hosts |-> Capped(age[h], ResetSeconds)]
    /\ UNCHANGED <<state, failures, gauge, target, probe, streak, writer, up>>

\* A host goes down or comes back.
Flip(h) ==
    /\ up' = [up EXCEPT ![h] = ~@]
    /\ UNCHANGED <<state, failures, age, gauge, target, probe, streak, writer>>

\* The breaker of another crawl of the process refreshes the gauge.
OtherRefresh ==
    /\ gauge' \in OtherCounts
    /\ writer' = "other"
    /\ UNCHANGED <<state, failures, age, target, probe, streak, up>>

Outcome(t) == record_success(t) \/ record_failure(t)

Next ==
    \/ \E t \in Tasks, h \in Hosts : Allow(t, h)
    \/ \E t \in Tasks : Drop(t) \/ record_success(t) \/ record_failure(t)
    \/ Tick
    \/ \E h \in Hosts : Flip(h)
    \/ OtherRefresh

\* Time passes, the frontier keeps offering URLs of each host, and fetches end: a
\* task may be dropped, but not every task of a host for ever (strong fairness).
Fairness ==
    /\ WF_vars(Tick)
    /\ \A h \in Hosts : SF_vars(\E t \in Tasks : target[t] = h /\ Outcome(t))
    /\ \A t \in Tasks, h \in Hosts : SF_vars(Allow(t, h))

Spec == Init /\ [][Next]_vars /\ Fairness

-----------------------------------------------------------------------------
(* Properties                                                               *)

\* The variables have the types the code gives them, and the state of a host agrees
\* with its counter: closed below the threshold, open or half-open from there on
\* (circuit_breaker.py:76-77, 89-92).
TypeOK ==
    /\ state \in [Hosts -> CircuitState]
    /\ failures \in [Hosts -> Nat]
    /\ age \in [Hosts -> Nat]
    /\ gauge \in Nat
    /\ target \in [Tasks -> Hosts \cup {NoHost}]
    /\ probe \in [Tasks -> BOOLEAN]
    /\ streak \in [Hosts -> Nat]
    /\ writer \in {"own", "other"}
    /\ up \in [Hosts -> BOOLEAN]
    /\ \A h \in Hosts : state[h] = "CLOSED" <=> failures[h] < Threshold

\* While a host is closed the breaker's counter is exactly the length of the run of
\* failures recorded since the last success, whatever tasks recorded them, and it is
\* below the threshold (circuit_breaker.py:76, 89-93).
ClosedCountsStreak ==
    \A h \in Hosts :
        state[h] = "CLOSED" => failures[h] = streak[h] /\ streak[h] < Threshold

\* A closed breaker opens only on failure_threshold failures in a row, however the
\* outcomes of concurrent tasks interleave (circuit_breaker.py:4-6).
OpensOnThreshold ==
    [][\A h \in Hosts :
         state[h] = "CLOSED" /\ state'[h] = "OPEN" => streak'[h] >= Threshold]_vars

\* Only the end of the cooldown or a recorded success lets an open host be fetched
\* again (circuit_breaker.py:64-69, 73-77).
OpenEndsByCooldownOrSuccess ==
    [][\A h \in Hosts :
         state[h] = "OPEN" /\ state'[h] # "OPEN" =>
             CooledDown(h) \/ streak'[h] = 0]_vars

\* The gauge never reports fewer open hosts than this breaker has, although allow()
\* does not refresh it (circuit_breaker.py:64-68, 78-79, 87, 93) - as long as the last
\* refresh was this breaker's: after another crawl's it says nothing about this one.
GaugeCoversOpen == writer = "own" => open_count <= gauge

\* A host that stays up is eventually closed for good (circuit_breaker.py:6-7).
Recovers == \A h \in Hosts : <>[]up[h] => <>[](state[h] = "CLOSED")

\* "Allows a single probe" (circuit_breaker.py:6-7): at most one task is in flight to
\* a half-open host among those allowed since it stopped being closed.
SingleProbe ==
    \A h \in Hosts :
        state[h] = "HALF_OPEN" =>
            Cardinality({t \in Tasks : target[t] = h /\ probe[t]}) <= 1
=============================================================================
