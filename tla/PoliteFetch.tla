---------------------------- MODULE PoliteFetch ----------------------------
(***************************************************************************)
(* What stands between an admitted URL and the network in one process: the  *)
(* global gate (resilience/backpressure.py), the per-host slot              *)
(* (robots/politeness.py), the per-host token bucket (ratelimit/local.py)   *)
(* and the retries of Fetcher.fetch, entered by Pipeline.process in this    *)
(* order and left in the reverse one.                                       *)
(*                                                                          *)
(* Time is counted in ticks and a token in the ticks it takes to refill, so *)
(* that the bucket arithmetic is exact: capacity 1.0 is Delay[h] ticks of   *)
(* credit and the refill is one tick of credit per tick.                    *)
(***************************************************************************)
EXTENDS Naturals, FiniteSets

CONSTANTS
    Tasks,    \* concurrent calls of Pipeline.process
    Hosts,
    Limit,    \* permits of the global gate
    PerHost,  \* per_host_concurrency
    Delay,    \* Delay[h]: effective crawl delay of h in ticks, 0 for none
    Retries   \* fetch.retries

NoTask == "none"
NoHost == "none"

ASSUME TasksAssumption == IsFiniteSet(Tasks) /\ NoTask \notin Tasks
ASSUME HostsAssumption == NoHost \notin Hosts
ASSUME LimitAssumption == Limit \in Nat \ {0} /\ PerHost \in Nat \ {0}
ASSUME DelayAssumption == Delay \in [Hosts -> Nat] /\ Retries \in Nat

VARIABLES
    pc,       \* where each task is suspended
    host,     \* the host of the URL each task processes
    attempt,  \* the loop variable of Fetcher.fetch
    gate,     \* free permits of Backpressure._sem
    slots,    \* free permits of Politeness._semaphores[h]
    lock,     \* the holder of LocalRateLimiter._locks[h], or NoTask
    tokens,   \* LocalRateLimiter._state[h]: credit at the time of the stamp
    age,      \* ticks since that stamp, counted up to Delay[h]
    since     \* history: ticks since the last token was granted, up to Delay[h]

vars == <<pc, host, attempt, gate, slots, lock, tokens, age, since>>

Pc == {"idle", "gate", "slot", "limit", "bucket", "sleep", "fetch", "backoff"}
Slotted == {"limit", "bucket", "sleep", "fetch", "backoff"}

InGate == {t \in Tasks : pc[t] \in Slotted \cup {"slot"}}
InSlot(h) == {t \in Tasks : pc[t] \in Slotted /\ host[t] = h}

AtMost(n, limit) == IF n < limit THEN n ELSE limit

\* The credit of h's bucket now: refilled since the stamp, up to its capacity.
Refilled(h) == AtMost(tokens[h] + age[h], Delay[h])

Goto(t, p) == pc' = [pc EXCEPT ![t] = p]

-----------------------------------------------------------------------------
Init ==
    /\ pc = [t \in Tasks |-> "idle"]
    /\ host = [t \in Tasks |-> NoHost]
    /\ attempt = [t \in Tasks |-> 0]
    /\ gate = Limit
    /\ slots = [h \in Hosts |-> PerHost]
    /\ lock = [h \in Hosts |-> NoTask]
    /\ tokens = Delay
    /\ age = [h \in Hosts |-> 0]
    /\ since = Delay

\* process() has admitted a URL of host h and reaches "async with gate, slot".
Arrive(t, h) ==
    /\ pc[t] = "idle"
    /\ host' = [host EXCEPT ![t] = h]
    /\ Goto(t, "gate")
    /\ UNCHANGED <<attempt, gate, slots, lock, tokens, age, since>>

\* Backpressure.__aenter__.
EnterGate(t) ==
    /\ pc[t] = "gate"
    /\ gate > 0
    /\ gate' = gate - 1
    /\ Goto(t, "slot")
    /\ UNCHANGED <<host, attempt, slots, lock, tokens, age, since>>

\* The host's semaphore; without a crawl delay the limiter is not asked.
EnterSlot(t) ==
    LET h == host[t] IN
    /\ pc[t] = "slot"
    /\ slots[h] > 0
    /\ slots' = [slots EXCEPT ![h] = @ - 1]
    /\ Goto(t, IF Delay[h] > 0 THEN "limit" ELSE "fetch")
    /\ UNCHANGED <<host, attempt, gate, lock, tokens, age, since>>

\* Mutant: nobody waits for the lock.
LockAlwaysFree(h) == TRUE

LockFree(h) == lock[h] = NoTask

\* The limiter's lock, held across the sleeps of acquire.
LockBucket(t) ==
    LET h == host[t] IN
    /\ pc[t] = "limit"
    /\ LockFree(h)
    /\ lock' = [lock EXCEPT ![h] = t]
    /\ Goto(t, "bucket")
    /\ UNCHANGED <<host, attempt, gate, slots, tokens, age, since>>

\* A token is there: it is taken, the lock is released and the request is made.
TakeToken(t) ==
    LET h == host[t] IN
    /\ pc[t] = "bucket"
    /\ Refilled(h) >= Delay[h]
    /\ tokens' = [tokens EXCEPT ![h] = Refilled(h) - Delay[h]]
    /\ age' = [age EXCEPT ![h] = 0]
    /\ lock' = [lock EXCEPT ![h] = NoTask]
    /\ since' = [since EXCEPT ![h] = 0]
    /\ Goto(t, "fetch")
    /\ UNCHANGED <<host, attempt, gate, slots>>

\* Mutant: the credit is stored and the stamp is left as it was.
StampForgotten(h) ==
    tokens' = [tokens EXCEPT ![h] = Refilled(h)] /\ UNCHANGED age

\* The refilled credit is stored with a new stamp.
Restamp(h) ==
    /\ tokens' = [tokens EXCEPT ![h] = Refilled(h)]
    /\ age' = [age EXCEPT ![h] = 0]

\* No token yet: acquire sleeps until there should be one.
WaitForToken(t) ==
    LET h == host[t] IN
    /\ pc[t] = "bucket"
    /\ Refilled(h) < Delay[h]
    /\ Restamp(h)
    /\ Goto(t, "sleep")
    /\ UNCHANGED <<host, attempt, gate, slots, lock, since>>

\* The sleep is over; it may take longer than was asked for.
Wake(t) ==
    LET h == host[t] IN
    /\ pc[t] = "sleep"
    /\ age[h] >= Delay[h] - tokens[h]
    /\ Goto(t, "bucket")
    /\ UNCHANGED <<host, attempt, gate, slots, lock, tokens, age, since>>

\* Mutant: a task that gives up keeps its slot.
LeaveSlotHeld(t) ==
    /\ gate' = gate + 1
    /\ UNCHANGED slots

\* The end of "async with gate, slot": the slot and then the gate are released.
Leave(t) ==
    /\ slots' = [slots EXCEPT ![host[t]] = @ + 1]
    /\ gate' = gate + 1

\* fetch returns: an answer, the last error, or an exception that is not retried.
FetchEnds(t) ==
    /\ pc[t] = "fetch"
    /\ Leave(t)
    /\ host' = [host EXCEPT ![t] = NoHost]
    /\ attempt' = [attempt EXCEPT ![t] = 0]
    /\ Goto(t, "idle")
    /\ UNCHANGED <<lock, tokens, age, since>>

\* Mutant: one attempt too many.
RetriesLeftLate(t) == attempt[t] <= Retries

\* attempt < retries.
RetriesLeft(t) == attempt[t] < Retries

\* An attempt fails and fetch sleeps before the next.
FetchFails(t) ==
    /\ pc[t] = "fetch"
    /\ RetriesLeft(t)
    /\ attempt' = [attempt EXCEPT ![t] = @ + 1]
    /\ Goto(t, "backoff")
    /\ UNCHANGED <<host, gate, slots, lock, tokens, age, since>>

\* The next attempt, inside the same slot and on the same token.
Retry(t) ==
    /\ pc[t] = "backoff"
    /\ Goto(t, "fetch")
    /\ UNCHANGED <<host, attempt, gate, slots, lock, tokens, age, since>>

\* One tick of the monotonic clock.
Tick ==
    /\ age' = [h \in Hosts |-> AtMost(age[h] + 1, Delay[h])]
    /\ since' = [h \in Hosts |-> AtMost(since[h] + 1, Delay[h])]
    /\ UNCHANGED <<pc, host, attempt, gate, slots, lock, tokens>>

\* What a task may have to wait for others to release.
Enter(t) == EnterGate(t) \/ EnterSlot(t) \/ LockBucket(t)

Progress(t) ==
    TakeToken(t) \/ WaitForToken(t) \/ Wake(t) \/ FetchEnds(t) \/ FetchFails(t) \/ Retry(t)

Next ==
    \/ \E t \in Tasks, h \in Hosts : Arrive(t, h)
    \/ \E t \in Tasks : Enter(t) \/ Progress(t)
    \/ Tick

\* Time passes, sleeps end and every attempt ends by its timeout.  The waiters of
\* an asyncio semaphore or lock are served in the order they came, so one that
\* could be served again and again is served.  A task leaves each of the three waits by
\* one of the steps of Enter only, so fairness of Enter is fairness of each of them.
Fairness ==
    /\ WF_vars(Tick)
    /\ \A t \in Tasks : WF_vars(Progress(t))
    /\ \A t \in Tasks : SF_vars(Enter(t))

Spec == Init /\ [][Next]_vars /\ Fairness

-----------------------------------------------------------------------------
(* Properties                                                               *)

\* The variables have the types the code gives them; a busy task has a host.
TypeOK ==
    /\ pc \in [Tasks -> Pc]
    /\ host \in [Tasks -> Hosts \cup {NoHost}]
    /\ \A t \in Tasks : pc[t] # "idle" => host[t] \in Hosts
    /\ attempt \in [Tasks -> 0..Retries]
    /\ gate \in Nat
    /\ slots \in [Hosts -> Nat]
    /\ lock \in [Hosts -> Tasks \cup {NoTask}]
    /\ tokens \in [Hosts -> Nat]
    /\ age \in [Hosts -> Nat]
    /\ since \in [Hosts -> Nat]

\* Neither the gate nor a slot leaks a permit, whichever way a fetch ends, so at most
\* Limit tasks are past the gate and at most PerHost of them in one host's slot
\* (backpressure.py:27-37, politeness.py:65-72).
PermitsConserved ==
    /\ gate + Cardinality(InGate) = Limit
    /\ \A h \in Hosts : slots[h] + Cardinality(InSlot(h)) = PerHost

\* Only one task at a time reads and writes a host's bucket, from its first look at
\* it to the token (local.py:27-38).
BucketExclusive ==
    \A t \in Tasks : pc[t] \in {"bucket", "sleep"} => lock[host[t]] = t

\* Two tokens of one host are never granted closer together than its crawl delay,
\* however long acquire's sleeps take and whoever waits (local.py:29-38,
\* politeness.py:10-12).
GrantsSpaced ==
    [][\A t \in Tasks :
         pc[t] = "bucket" /\ pc'[t] = "fetch" => since[host[t]] >= Delay[host[t]]]_vars

\* Every task that reaches the gate gets through it, the slot and the bucket, and
\* finishes: tasks waiting for one slow host hold permits of the gate, but never all
\* of them for ever (pipeline.py:105-106).
EveryTaskServed == \A t \in Tasks : pc[t] = "gate" ~> pc[t] = "idle"
=============================================================================
