---------------------------- MODULE SharedLimits ----------------------------
(***************************************************************************)
(* What the worker processes of the fleet share to stay polite: robots.txt  *)
(* texts, cached per process (robots/robots_cache.py, cache/lru.py) and in  *)
(* Redis; the domain budget (resilience/budget.py); and the Redis token     *)
(* bucket (ratelimit/redis_limiter.py, token_bucket.lua), whose rate comes  *)
(* from the robots text.  Redis and the fetch of a robots.txt may fail.     *)
(*                                                                          *)
(* Time is discrete and kept as ages, cut off where they make no more       *)
(* difference; the age of a stamp is the present less what the clock that   *)
(* wrote it said, negative if that clock is ahead.  A page passes through   *)
(* the three in the order of Pipeline.process; robots.txt is asked twice,   *)
(* for permission and for the crawl delay.                                  *)
(***************************************************************************)
EXTENDS Integers, SequencesExt

CONSTANTS
    Tasks,         \* tasks, each of which processes one page
    Proc,          \* Proc[t]: the worker process of t
    Hosts,         \* the hosts of these pages, one origin each
    Elsewhere,     \* an origin of which only the place in the cache is modelled
    Host,          \* Host[t]: the host of the page t processes
    Ttl,           \* robots_cache_ttl_seconds
    Capacity,      \* robots_cache_size
    DefaultDelay,  \* default_crawl_delay_ms
    CrawlDelay,    \* the Crawl-delay of every robots.txt, if it can be fetched
    BucketTtl,     \* ttl_ms of a bucket
    Skew,          \* Skew[p]: how far the clock of process p is ahead
    Waiting,       \* the tasks that wait for a token at the start
    MaxLag,        \* bound: the time from reading the clock to the run of the script
    Budget,        \* max_pages_per_domain
    NoValue

Procs == {Proc[t] : t \in Tasks}

ASSUME LimitsAssumption ==
    /\ Ttl \in Nat \ {0} /\ Capacity \in Nat \ {0} /\ Budget \in Nat \ {0}
    /\ DefaultDelay \in Nat \ {0} /\ CrawlDelay \in Nat /\ CrawlDelay >= DefaultDelay
    /\ BucketTtl \in Nat /\ MaxLag \in Nat /\ Skew \in [Procs -> Int]
    /\ Host \in [Tasks -> Hosts] /\ Elsewhere \notin Hosts

\* What a robots.txt may contain: rules, nothing, or what the parser rejects.
Texts == {"rules", "empty", "broken"}

\* A text and a bucket in Redis.
SharedText == [text : Texts, age : Nat]
Bucket == [credit : Nat, age : Int, idle : Nat]
Token == [age : Int, rewound : Nat]

ASSUME NoValueAssumption == NoValue \notin SharedText \cup Bucket \cup Token

VARIABLES
    task,     \* where each task is
    cache,    \* RobotsCache._cache of each process, least recently used first
    shared,   \* robots:<origin> in Redis
    bucket,   \* rl:<host> in Redis: tokens, age of ts, time since PEXPIRE
    used,     \* the budget counter of each host in Redis
    token,    \* history: the age of the stamp that got the last token of the bucket,
              \*   and how far later calls have moved the bucket's stamp back
    admitted, \* history: pages of each host the counter let through
    lenient   \* history: hosts that counted as having no rules at some time

limits == <<bucket, token>>
budget == <<used, admitted>>
robots == <<cache, shared, lenient>>
vars == <<task, robots, limits, budget>>

\* A token is worth Full units; a clock tick refills Full \div delay of them.
Full == DefaultDelay * CrawlDelay
UpTo(n, max) == IF n < max THEN n ELSE max
Max0(n) == IF n > 0 THEN n ELSE 0

Done == [pc |-> "done"]
Init ==
    /\ task = [t \in Tasks |-> IF t \in Waiting
                              THEN [pc |-> "token", delay |-> CrawlDelay]
                              ELSE [pc |-> "ask", asks |-> "allowed"]]
    /\ cache = [p \in Procs |-> << >>]
    /\ shared = [h \in Hosts |-> NoValue]
    /\ bucket = [h \in Hosts |-> NoValue]
    /\ used = [h \in Hosts |-> 0]
    /\ token = [h \in Hosts |-> NoValue]
    /\ admitted = [h \in Hosts |-> 0]
    /\ lenient = {}

-----------------------------------------------------------------------------
(* The robots cache                                                         *)

Entries(p, h) == {e \in Range(cache[p]) : e.host = h}
Others(p, h) ==
    LET at == CHOOSE i \in DOMAIN cache[p] : cache[p][i].host = h
    IN  IF Entries(p, h) = {} THEN cache[p] ELSE RemoveAt(cache[p], at)

\* LruCache.get finds an entry that has not expired.
Hits(p, h) == {e \in Entries(p, h) : e.age <= Ttl}

\* Mutant: a hit also renews the stored time.
RenewedHit(p, e) == Append(Others(p, e.host), [e EXCEPT !.age = 0])

\* The cache after a hit: the entry becomes the most recently used one.
MovedToEnd(p, e) == Append(Others(p, e.host), e)

\* Mutant: eviction starts one entry late.
PutLate(p, e) ==
    LET s == Append(Others(p, e.host), e)
    IN  IF Len(s) > Capacity + 1 THEN Tail(s) ELSE s

\* The cache after LruCache.put: the least recently used entry goes when it is full.
PutEntry(p, e) ==
    LET s == Append(Others(p, e.host), e)
    IN  IF Len(s) > Capacity THEN Tail(s) ELSE s

\* _effective_delay_ms: without rules there is no crawl delay.
Delay(text) == IF text = "rules" THEN CrawlDelay ELSE DefaultDelay

\* The caller of _parser goes on with the text: rules may forbid the page; a page that
\* asked for its delay goes to the limiter.
Resume(t, text) ==
    LET next == IF task[t].asks = "delay"
                THEN {[pc |-> "token", delay |-> Delay(text)]}
                ELSE {[pc |-> "budget"]} \cup
                     (IF text = "rules" THEN {Done} ELSE {})
    IN  \E n \in next : task' = [task EXCEPT ![t] = n]

\* _parser finds the text in the process's cache, before or after it waited for the
\* lock.
CacheHit(t) ==
    LET p == Proc[t] IN
    /\ task[t].pc = "ask"
    /\ \E e \in Hits(p, Host[t]) :
          /\ cache' = [cache EXCEPT ![p] = MovedToEnd(p, e)]
          /\ Resume(t, e.text)
    /\ UNCHANGED <<shared, lenient, limits, budget>>

Loading(p, h) ==
    {t \in Tasks : Proc[t] = p /\ task[t].pc \in {"load", "fetch"} /\ Host[t] = h}

\* Mutant: a lock for every call instead of one per origin.
NobodyLoads(p, h) == TRUE

\* The lock of the origin is free.
LockFree(p, h) == Loading(p, h) = {}

\* No usable text and the lock is free: an expired entry is dropped, _load begins.
CacheMiss(t) ==
    LET p == Proc[t]
        h == Host[t]
    IN
    /\ task[t].pc = "ask"
    /\ Hits(p, h) = {}
    /\ LockFree(p, h)
    /\ cache' = [cache EXCEPT ![p] = Others(p, h)]
    /\ task' = [task EXCEPT ![t].pc = "load"]
    /\ UNCHANGED <<shared, lenient, limits, budget>>

\* _load has found a text: it is parsed, cached and used.  If it cannot be parsed,
\* _parser raises before it caches anything, and Politeness goes on as if the host had
\* no rules.
Loaded(t, text, textAge) ==
    LET p == Proc[t]
        h == Host[t]
    IN
    /\ cache' = IF text = "broken" THEN cache
                ELSE [cache EXCEPT ![p] =
                        PutEntry(p, [host |-> h, text |-> text, age |-> 0,
                                     textAge |-> textAge])]
    /\ lenient' = IF text = "rules" THEN lenient ELSE lenient \cup {h}
    /\ Resume(t, text)

\* _load finds the text in Redis; the process keeps it for a Ttl of its own.
SharedHit(t) ==
    LET h == Host[t] IN
    /\ task[t].pc = "load"
    /\ shared[h] # NoValue
    /\ Loaded(t, shared[h].text, shared[h].age)
    /\ UNCHANGED <<shared, limits, budget>>

\* Redis has no text, or cannot be asked.
SharedMiss(t) ==
    /\ task[t].pc = "load"
    /\ task' = [task EXCEPT ![t].pc = "fetch"]
    /\ UNCHANGED <<robots, limits, budget>>

\* The robots.txt is fetched; anything but a 200 counts as an empty text and is kept
\* as long.  The write to Redis may fail.  The answer, the write and the put into the
\* cache are one step: the ages count from the put, and leave out what the two calls take.
FetchRobots(t, text) ==
    /\ task[t].pc = "fetch"
    /\ \/ shared' = [shared EXCEPT ![Host[t]] = [text |-> text, age |-> 0]]
       \/ shared' = shared
    /\ Loaded(t, text, 0)
    /\ UNCHANGED <<limits, budget>>

\* A task of p that is not modelled loads the robots.txt of another origin.
LoadElsewhere(p) ==
    /\ cache' = [cache EXCEPT ![p] =
                    PutEntry(p, [host |-> Elsewhere, text |-> "empty", age |-> 0,
                                 textAge |-> 0])]
    /\ UNCHANGED <<task, shared, lenient, limits, budget>>

-----------------------------------------------------------------------------
(* The budget and the limiter                                               *)

\* Mutant: the counter is compared with the limit as it was before the increment.
WithinBudgetLate(h) == used[h] <= Budget

\* INCRBY: the counter is charged first and compared afterwards.
WithinBudget(h) == used[h] + 1 <= Budget

\* try_consume on Redis; a refused page stays charged.  The counter is cut off one
\* above the limit.
TryConsume(t) ==
    LET h == Host[t] IN
    /\ task[t].pc = "budget"
    /\ used' = [used EXCEPT ![h] = UpTo(@ + 1, Budget + 1)]
    /\ IF WithinBudget(h)
       THEN /\ task' = [task EXCEPT ![t] = [pc |-> "ask", asks |-> "delay"]]
            /\ admitted' = [admitted EXCEPT ![h] = @ + 1]
       ELSE /\ task' = [task EXCEPT ![t] = Done]
            /\ admitted' = admitted
    /\ UNCHANGED <<robots, limits>>

\* Redis is unavailable: the page is let through, charged or not.
BudgetOpen(t) ==
    LET h == Host[t] IN
    /\ task[t].pc = "budget"
    /\ used' \in {used, [used EXCEPT ![h] = UpTo(@ + 1, Budget + 1)]}
    /\ task' = [task EXCEPT ![t] = [pc |-> "ask", asks |-> "delay"]]
    /\ UNCHANGED <<robots, limits, admitted>>

\* acquire reads the clock of its process; the call is on its way to Redis from here.
ReadClock(t) ==
    /\ task[t].pc = "token"
    /\ task' = [task EXCEPT ![t] = [pc |-> "script", delay |-> @.delay, lag |-> 0]]
    /\ UNCHANGED <<robots, limits, budget>>

\* The age of now_ms, the stamp the call of t carries.
Stamp(t) == task[t].lag - Skew[Proc[t]]

\* Mutant: the bucket keeps what it refills beyond its capacity.
CreditUncapped(h, stamp, delay) ==
    IF bucket[h] = NoValue THEN Full
    ELSE bucket[h].credit + Max0(bucket[h].age - stamp) * (Full \div delay)

\* The credit the script computes: a missing bucket is full; the time since the last
\* call is what the two stamps make of it, if the caller's is the later one.
Credit(h, stamp, delay) ==
    IF bucket[h] = NoValue THEN Full
    ELSE UpTo(bucket[h].credit + Max0(bucket[h].age - stamp) * (Full \div delay), Full)

\* What the script leaves in the bucket, having granted a token or not.
Spent(credit) == IF credit >= Full THEN credit - Full ELSE credit

\* The script runs in Redis.  It writes credit and stamp either way, also a stamp that is
\* older than the bucket's; acquire repeats the call until it is granted a token.
RunScript(t) ==
    LET h == Host[t]
        credit == Credit(h, Stamp(t), task[t].delay)
    IN
    /\ task[t].pc = "script"
    /\ bucket' = [bucket EXCEPT ![h] =
                    [credit |-> Spent(credit), age |-> Stamp(t), idle |-> 0]]
    /\ IF credit >= Full
       THEN /\ task' = [task EXCEPT ![t] = Done]
            /\ token' = [token EXCEPT ![h] = [age |-> Stamp(t), rewound |-> 0]]
       ELSE /\ task' = [task EXCEPT ![t] = [pc |-> "token", delay |-> @.delay]]
            /\ token' = [token EXCEPT ![h].rewound = @ + Max0(Stamp(t) - bucket[h].age)]
    /\ UNCHANGED <<robots, budget>>

\* Redis is unavailable: the page goes on without a token.
LimiterOpen(t) ==
    /\ task[t].pc = "script"
    /\ task' = [task EXCEPT ![t] = Done]
    /\ UNCHANGED <<robots, limits, budget>>

-----------------------------------------------------------------------------
\* Whether the bucket of h is gone after one more unit of time.
Expires(h) == bucket[h] = NoValue \/ bucket[h].idle + 1 > BucketTtl

\* One unit of time: texts and buckets in Redis expire, calls are delayed.
Tick ==
    /\ \A t \in Tasks : task[t].pc = "script" => task[t].lag < MaxLag
    /\ task' = [t \in Tasks |->
                  IF task[t].pc = "script" THEN [task[t] EXCEPT !.lag = @ + 1] ELSE task[t]]
    /\ cache' = [p \in Procs |->
                   [i \in DOMAIN cache[p] |->
                      IF cache[p][i].host = Elsewhere THEN cache[p][i]
                      ELSE [cache[p][i] EXCEPT !.age = UpTo(@ + 1, Ttl + 1),
                                               !.textAge = UpTo(@ + 1, 2 * Ttl)]]]
    /\ shared' = [h \in Hosts |->
                    IF shared[h] = NoValue \/ shared[h].age + 1 >= Ttl THEN NoValue
                    ELSE [shared[h] EXCEPT !.age = @ + 1]]
    /\ bucket' = [h \in Hosts |->
                    IF Expires(h) THEN NoValue
                    ELSE [bucket[h] EXCEPT !.age = @ + 1, !.idle = @ + 1]]
    /\ token' = [h \in Hosts |->
                   IF Expires(h) THEN NoValue ELSE [token[h] EXCEPT !.age = @ + 1]]
    /\ UNCHANGED <<lenient, budget>>

TaskStep(t) ==
    \/ CacheHit(t) \/ CacheMiss(t) \/ SharedHit(t) \/ SharedMiss(t)
    \/ \E text \in Texts : FetchRobots(t, text)
    \/ TryConsume(t) \/ BudgetOpen(t) \/ ReadClock(t) \/ RunScript(t) \/ LimiterOpen(t)

Next == Tick \/ (\E t \in Tasks : TaskStep(t)) \/ (\E p \in Procs : LoadElsewhere(p))

Spec == Init /\ [][Next]_vars

-----------------------------------------------------------------------------
(* Properties                                                               *)

\* The caps hold whatever the interleaving: a process's cache stays within its
\* capacity and has one entry per origin, one task of a process loads a robots.txt at
\* a time (robots_cache.py:60-66, lru.py:38-43), and the counter lets no more pages of
\* a host through than the budget (budget.py:61-71).
CapsHold ==
    /\ \A p \in Procs :
          /\ Len(cache[p]) <= Capacity
          /\ \A i, j \in DOMAIN cache[p] : cache[p][i].host = cache[p][j].host => i = j
          /\ \A h \in Hosts : \A t, u \in Loading(p, h) : t = u
    /\ \A h \in Hosts : admitted[h] <= Budget

\* A robots text is used for less than two times its Ttl after it was fetched: once in
\* Redis, once more in the process that loaded it from there, and no longer however
\* often it is asked for (robots_cache.py:37-40, 73-75, 88-90).
RobotsFresh ==
    \A p \in Procs : \A e \in Range(cache[p]) : e.age <= Ttl => e.textAge < 2 * Ttl

\* The delay that every caller of a host keeps to: once its robots text counted as empty
\* somewhere, processes refill one bucket at different rates.
Spacing(h) == IF h \in lenient THEN DefaultDelay ELSE CrawlDelay

\* Two tokens of one bucket go to calls whose stamps are at least the crawl delay apart,
\* less what calls in between moved the bucket's stamp back: calls that read their clock
\* before, or from a clock behind, the one that wrote the stamp (redis_limiter.py:43-48,
\* token_bucket.lua:26-39, politeness.py:54-71).
TokensSpaced ==
    [][\A t \in Tasks :
         LET h == Host[t] IN
         RunScript(t) /\ task'[t] = Done /\ bucket[h] # NoValue =>
             token[h].age - Stamp(t) + token[h].rewound >= Spacing(h)]_vars
=============================================================================
