------------------------- MODULE SharedLimitsProofs -------------------------
(***************************************************************************)
(* Proofs about SharedLimits, for any number of processes, pages and hosts  *)
(* and any capacity, Ttl, delay and budget.                                 *)
(***************************************************************************)
EXTENDS SharedLimits, TLAPS

\* An entry of a process's cache.
Entry ==
    [host : Hosts \cup {Elsewhere}, text : {"rules", "empty"}, age : Nat, textAge : Nat]

\* Where a task may be.
Asking == [pc : {"ask", "load", "fetch"}, asks : {"allowed", "delay"}]
Queued == [pc : {"token"}, delay : {DefaultDelay, CrawlDelay}]
Calling == [pc : {"script"}, delay : {DefaultDelay, CrawlDelay}, lag : Nat]
TaskState == Asking \cup Queued \cup Calling \cup {[pc |-> "budget"], Done}

LimitTypes ==
    /\ task \in [Tasks -> TaskState]
    /\ cache \in [Procs -> Seq(Entry)]
    /\ shared \in [Hosts -> SharedText \cup {NoValue}]
    /\ bucket \in [Hosts -> Bucket \cup {NoValue}]
    /\ used \in [Hosts -> Nat] /\ admitted \in [Hosts -> Nat]
    /\ token \in [Hosts -> Token \cup {NoValue}]
    /\ \A h \in Hosts : bucket[h] = NoValue <=> token[h] = NoValue
    /\ lenient \subseteq Hosts

\* A sequence of entries that OrderedDict could hold: one per host.
OnePerHost(s) == \A i, j \in DOMAIN s : s[i].host = s[j].host => i = j

\* A cached text is less than a Ttl older than its entry; one without rules is of a host
\* that is known to be lenient.
Sound(e) ==
    /\ e.textAge < e.age + Ttl
    /\ e.text = "rules" \/ e.host \in lenient \cup {Elsewhere}

CacheInv ==
    \A p \in Procs :
        /\ Len(cache[p]) <= Capacity
        /\ OnePerHost(cache[p])
        /\ \A e \in Range(cache[p]) : Sound(e)

\* The same for a text in Redis, which expires after a Ttl.
SharedInv ==
    \A h \in Hosts : shared[h] # NoValue =>
        /\ shared[h].age < Ttl
        /\ shared[h].text = "rules" \/ h \in lenient

\* The lock of an origin is held by one task at most.
LockInv == \A p \in Procs, h \in Hosts : \A t, u \in Loading(p, h) : t = u

\* The counter of Redis counts at least the pages it let through.
BudgetInv == \A h \in Hosts : admitted[h] <= used[h] /\ admitted[h] <= Budget

\* The fastest refill of a host's bucket.
Refill(h) == IF h \in lenient THEN CrawlDelay ELSE DefaultDelay

\* The time for which a bucket was refilled since its last token: from the stamp of that
\* token to the bucket's own, and what was rewound in between a second time.
Refilled(h) == token[h].age - bucket[h].age + token[h].rewound

\* A bucket holds less than a token, and no more than what its refills since the last one
\* can have earned.
BucketInv(h) ==
    bucket[h] # NoValue =>
        /\ Refilled(h) >= 0
        /\ bucket[h].credit < Full
        /\ bucket[h].credit <= Refilled(h) * Refill(h)

\* A page that waits for a token uses the delay of a text its host has had.
DelayInv ==
    \A t \in Tasks : task[t].pc \in {"token", "script"} =>
        task[t].delay = CrawlDelay \/ Host[t] \in lenient

TokenInv == DelayInv /\ \A h \in Hosts : BucketInv(h)

LimitsInv == LimitTypes /\ CacheInv /\ SharedInv /\ LockInv /\ BudgetInv

-----------------------------------------------------------------------------
(* The cache as a sequence                                                  *)

\* Removing an element of a sequence closes the gap.
LEMMA Removal ==
    ASSUME NEW S, NEW s \in Seq(S), NEW k \in 1..Len(s)
    PROVE  /\ RemoveAt(s, k) \in Seq(S) /\ Len(RemoveAt(s, k)) = Len(s) - 1
           /\ \A i \in 1..(Len(s) - 1) :
                 RemoveAt(s, k)[i] = IF i < k THEN s[i] ELSE s[i + 1]
<1> DEFINE front == SubSeq(s, 1, k - 1)
           back == SubSeq(s, k + 1, Len(s))
<1>1. /\ front \in Seq(S) /\ Len(front) = k - 1
      /\ \A i \in 1..(k - 1) : front[i] = s[i]
  OBVIOUS
<1>2. /\ back \in Seq(S) /\ Len(back) = Len(s) - k
      /\ \A i \in 1..(Len(s) - k) : back[i] = s[k + i]
  OBVIOUS
<1>3. RemoveAt(s, k) = front \o back
  BY DEF RemoveAt
<1>4. Len(s) \in Nat /\ k \in Nat
  OBVIOUS
<1> HIDE DEF front, back
<1>5. front \o back \in Seq(S) /\ Len(front \o back) = Len(s) - 1
  <2>0. front \in Seq(S) /\ back \in Seq(S)
    BY <1>1, <1>2
  <2>1. front \o back \in Seq(S) /\ Len(front \o back) = Len(front) + Len(back)
    BY <2>0
  <2> QED BY <1>1, <1>2, <1>4, <2>1
<1>6. ASSUME NEW i \in 1..(Len(s) - 1), i < k PROVE (front \o back)[i] = s[i]
  <2>1. (front \o back)[i] = front[i]
    BY <1>1, <1>2, <1>4, <1>6
  <2>2. i \in 1..(k - 1)
    BY <1>4, <1>6
  <2> QED BY <1>1, <2>1, <2>2
<1>7. ASSUME NEW i \in 1..(Len(s) - 1), ~(i < k) PROVE (front \o back)[i] = s[i + 1]
  <2>1. (front \o back)[i] = back[i - (k - 1)]
    BY <1>1, <1>2, <1>4, <1>7
  <2>2. i - (k - 1) \in 1..(Len(s) - k) /\ k + (i - (k - 1)) = i + 1
    BY <1>4, <1>7
  <2> QED BY <1>2, <2>1, <2>2
<1> QED BY <1>3, <1>5, <1>6, <1>7

\* The entries of the other hosts stay, in their order (lru.py:33-40).
LEMMA OthersFacts ==
    ASSUME NEW p \in Procs, NEW h, cache[p] \in Seq(Entry), OnePerHost(cache[p])
    PROVE  /\ Others(p, h) \in Seq(Entry) /\ OnePerHost(Others(p, h))
           /\ Range(Others(p, h)) \subseteq Range(cache[p])
           /\ \A e \in Range(Others(p, h)) : e.host # h
           /\ Len(Others(p, h)) <= Len(cache[p])
           /\ Entries(p, h) # {} => Len(Others(p, h)) = Len(cache[p]) - 1
<1> DEFINE s == cache[p]
<1>1. s \in Seq(Entry) /\ DOMAIN s = 1..Len(s) /\ Len(s) \in Nat /\ OnePerHost(s)
  OBVIOUS
<1>2. CASE Entries(p, h) = {}
  BY <1>1, <1>2 DEF Others, Entries
<1>3. CASE Entries(p, h) # {}
  <2> DEFINE k == CHOOSE i \in DOMAIN s : s[i].host = h
             r == RemoveAt(s, k)
  <2>1. k \in 1..Len(s) /\ s[k].host = h
    BY <1>1, <1>3 DEF Entries, Range
  <2>2. Others(p, h) = r
    BY <1>3 DEF Others
  <2> HIDE DEF s, k
  <2>3. /\ r \in Seq(Entry) /\ Len(r) = Len(s) - 1
        /\ \A i \in 1..(Len(s) - 1) : r[i] = IF i < k THEN s[i] ELSE s[i + 1]
    BY <1>1, <2>1, Removal
  <2> HIDE DEF r
  <2>4. DOMAIN r = 1..(Len(s) - 1) /\ k \in Nat
    BY <2>1, <2>3
  <2>5. ASSUME NEW i \in DOMAIN r
        PROVE  \E j \in DOMAIN s : j # k /\ r[i] = s[j] /\ j = IF i < k THEN i ELSE i + 1
    <3>1. CASE i < k
      BY <1>1, <2>3, <2>4, <3>1
    <3>2. CASE ~(i < k)
      <4>1. i + 1 \in DOMAIN s /\ i + 1 # k /\ r[i] = s[i + 1]
        BY <1>1, <2>3, <2>4, <3>2
      <4> QED BY <3>2, <4>1
    <3> QED BY <3>1, <3>2
  <2>6. OnePerHost(r)
    <3> SUFFICES ASSUME NEW i \in DOMAIN r, NEW j \in DOMAIN r, r[i].host = r[j].host
                 PROVE  i = j
      BY DEF OnePerHost
    <3>1. (IF i < k THEN i ELSE i + 1) = (IF j < k THEN j ELSE j + 1)
      BY <1>1, <2>5 DEF OnePerHost
    <3> QED BY <2>4, <3>1
  <2>7. \A e \in Range(r) : e \in Range(s) /\ e.host # h
    BY <1>1, <2>1, <2>5 DEF OnePerHost, Range
  <2> QED BY <1>1, <2>2, <2>3, <2>6, <2>7 DEF s
<1> QED BY <1>2, <1>3

\* What Append and popitem leave of the entries (lru.py:35, 41-43).
LEMMA AppendFacts ==
    ASSUME NEW s \in Seq(Entry), OnePerHost(s), NEW e \in Entry,
           \A x \in Range(s) : x.host # e.host
    PROVE  /\ Append(s, e) \in Seq(Entry) /\ OnePerHost(Append(s, e))
           /\ Range(Append(s, e)) \subseteq Range(s) \cup {e}
           /\ Len(Append(s, e)) = Len(s) + 1
<1> DEFINE r == Append(s, e)
<1>1. /\ r \in Seq(Entry) /\ Len(r) = Len(s) + 1 /\ DOMAIN r = 1..(Len(s) + 1)
      /\ r[Len(s) + 1] = e /\ \A i \in 1..Len(s) : r[i] = s[i]
  OBVIOUS
<1>2. DOMAIN s = 1..Len(s) /\ Len(s) \in Nat
  OBVIOUS
<1> HIDE DEF r
<1>3. \A i \in 1..Len(s) : s[i].host # e.host
  BY <1>2 DEF Range
<1>4. OnePerHost(r)
  BY <1>1, <1>2, <1>3 DEF OnePerHost
<1>5. Range(r) \subseteq Range(s) \cup {e}
  BY <1>1, <1>2 DEF Range
<1> QED BY <1>1, <1>4, <1>5 DEF r

LEMMA TailFacts ==
    ASSUME NEW s \in Seq(Entry), OnePerHost(s), Len(s) > 0
    PROVE  /\ Tail(s) \in Seq(Entry) /\ OnePerHost(Tail(s))
           /\ Range(Tail(s)) \subseteq Range(s) /\ Len(Tail(s)) = Len(s) - 1
<1>1. /\ Len(s) \in Nat \ {0} /\ DOMAIN s = 1..Len(s)
      /\ Tail(s) \in Seq(Entry) /\ Len(Tail(s)) = Len(s) - 1
      /\ DOMAIN Tail(s) = 1..(Len(s) - 1)
      /\ \A i \in 1..(Len(s) - 1) : Tail(s)[i] = s[i + 1]
  OBVIOUS
<1>2. ASSUME NEW i \in DOMAIN Tail(s) PROVE i \in Nat /\ i + 1 \in DOMAIN s
  BY <1>1
<1>3. OnePerHost(Tail(s))
  <2> SUFFICES ASSUME NEW i \in DOMAIN Tail(s), NEW j \in DOMAIN Tail(s),
                      Tail(s)[i].host = Tail(s)[j].host
               PROVE  i = j
    BY DEF OnePerHost
  <2>1. s[i + 1].host = s[j + 1].host
    BY <1>1
  <2>2. i + 1 = j + 1
    BY <1>2, <2>1 DEF OnePerHost
  <2> QED BY <1>2, <2>2
<1>4. Range(Tail(s)) \subseteq Range(s)
  BY <1>1, <1>2 DEF Range
<1> QED BY <1>1, <1>3, <1>4

\* A hit keeps the size of the cache (lru.py:35).
LEMMA MoveFacts ==
    ASSUME NEW p \in Procs, cache[p] \in Seq(Entry), OnePerHost(cache[p]),
           Len(cache[p]) <= Capacity, NEW e \in Range(cache[p])
    PROVE  /\ MovedToEnd(p, e) \in Seq(Entry) /\ OnePerHost(MovedToEnd(p, e))
           /\ Range(MovedToEnd(p, e)) \subseteq Range(cache[p])
           /\ Len(MovedToEnd(p, e)) <= Capacity
<1> DEFINE s == Others(p, e.host)
<1>1. e \in Entry
  BY DEF Range
<1>2. e \in Entries(p, e.host)
  BY DEF Entries
<1>3. /\ s \in Seq(Entry) /\ OnePerHost(s) /\ Range(s) \subseteq Range(cache[p])
      /\ \A x \in Range(s) : x.host # e.host
      /\ Len(s) = Len(cache[p]) - 1
  BY <1>2, OthersFacts
<1> HIDE DEF s
<1>4. /\ Append(s, e) \in Seq(Entry) /\ OnePerHost(Append(s, e))
      /\ Range(Append(s, e)) \subseteq Range(s) \cup {e}
      /\ Len(Append(s, e)) = Len(s) + 1
  BY <1>1, <1>3, AppendFacts
<1>5. Len(cache[p]) \in Nat
  OBVIOUS
<1>6. Len(Append(s, e)) <= Capacity
  BY <1>3, <1>4, <1>5
<1> QED BY <1>3, <1>4, <1>6 DEF s, MovedToEnd

\* put evicts at most one entry, and keeps the cache within its capacity (lru.py:38-43).
LEMMA PutFacts ==
    ASSUME NEW p \in Procs, cache[p] \in Seq(Entry), OnePerHost(cache[p]),
           Len(cache[p]) <= Capacity, NEW e \in Entry
    PROVE  /\ PutEntry(p, e) \in Seq(Entry) /\ OnePerHost(PutEntry(p, e))
           /\ Range(PutEntry(p, e)) \subseteq Range(cache[p]) \cup {e}
           /\ Len(PutEntry(p, e)) <= Capacity
<1> DEFINE s == Others(p, e.host)
           r == Append(s, e)
<1>1. /\ s \in Seq(Entry) /\ OnePerHost(s) /\ Range(s) \subseteq Range(cache[p])
      /\ \A x \in Range(s) : x.host # e.host
      /\ Len(s) <= Len(cache[p])
  BY OthersFacts
<1> HIDE DEF s
<1>2. /\ r \in Seq(Entry) /\ OnePerHost(r) /\ Range(r) \subseteq Range(s) \cup {e}
      /\ Len(r) = Len(s) + 1
  BY <1>1, AppendFacts
<1>3. PutEntry(p, e) = IF Len(r) > Capacity THEN Tail(r) ELSE r
  BY DEF PutEntry, s
<1>4. Len(s) \in Nat /\ Len(cache[p]) \in Nat /\ Capacity \in Nat
  BY <1>1, LimitsAssumption
<1> HIDE DEF r
<1>5. CASE Len(r) > Capacity
  <2>1. /\ Tail(r) \in Seq(Entry) /\ OnePerHost(Tail(r)) /\ Range(Tail(r)) \subseteq Range(r)
        /\ Len(Tail(r)) = Len(r) - 1
    BY <1>2, <1>4, TailFacts
  <2>2. Len(Tail(r)) <= Capacity
    BY <1>1, <1>2, <1>4, <2>1
  <2> QED BY <1>1, <1>2, <1>3, <1>5, <2>1, <2>2
<1>6. CASE ~(Len(r) > Capacity)
  BY <1>1, <1>2, <1>3, <1>4, <1>6
<1> QED BY <1>5, <1>6

-----------------------------------------------------------------------------
(* Types                                                                    *)

\* What a task does after a text has been found (robots_cache.py:95-101).
LEMMA ResumeFacts ==
    ASSUME LimitTypes, NEW t \in Tasks, NEW text \in Texts, task[t] \in Asking, Resume(t, text)
    PROVE  /\ \E n \in Queued \cup {[pc |-> "budget"], Done} : task' = [task EXCEPT ![t] = n]
           /\ task' \in [Tasks -> TaskState]
           /\ task'[t].pc \in {"token", "budget", "done"}
           /\ \A u \in Tasks : u # t => task'[u] = task[u]
           /\ task'[t].pc = "token" => task'[t].delay = Delay(text)
<1>1. Delay(text) \in {DefaultDelay, CrawlDelay}
  BY DEF Delay
<1>2. [pc |-> "token", delay |-> Delay(text)] \in Queued
  BY <1>1 DEF Queued
<1>3. PICK n \in Queued \cup {[pc |-> "budget"], Done} :
         /\ task' = [task EXCEPT ![t] = n]
         /\ n.pc = "token" => n.delay = Delay(text)
  <2> DEFINE next == IF task[t].asks = "delay"
                     THEN {[pc |-> "token", delay |-> Delay(text)]}
                     ELSE {[pc |-> "budget"]} \cup (IF text = "rules" THEN {Done} ELSE {})
  <2>1. PICK n \in next : task' = [task EXCEPT ![t] = n]
    BY DEF Resume
  <2>2. \/ n = [pc |-> "token", delay |-> Delay(text)]
        \/ n \in {[pc |-> "budget"], Done}
    OBVIOUS
  <2>3. CASE n = [pc |-> "token", delay |-> Delay(text)]
    <3>1. n \in Queued /\ n.delay = Delay(text)
      BY <1>2, <2>3
    <3> QED BY <2>1, <3>1
  <2>4. CASE n \in {[pc |-> "budget"], Done}
    <3>1. n.pc # "token"
      BY <2>4 DEF Done
    <3> QED BY <2>1, <2>4, <3>1
  <2> QED BY <2>2, <2>3, <2>4
<1>4. n \in TaskState /\ n.pc \in {"token", "budget", "done"}
  BY DEF TaskState, Queued, Done
<1>5. task \in [Tasks -> TaskState]
  BY DEF LimitTypes
<1> QED BY <1>3, <1>4, <1>5

\* A task that asks for a text is in a state of its own kind.
LEMMA AskingFacts ==
    ASSUME LimitTypes, NEW t \in Tasks
    PROVE  /\ task[t].pc \in {"ask", "load", "fetch"} => task[t] \in Asking
           /\ task[t].pc = "token" => task[t] \in Queued
           /\ task[t].pc = "script" =>
                 task[t] \in Calling /\ task[t].delay \in {DefaultDelay, CrawlDelay}
                 /\ Stamp(t) \in Int
           /\ Proc[t] \in Procs /\ Host[t] \in Hosts
<1>1. task[t] \in TaskState
  BY DEF LimitTypes
<1>2. Proc[t] \in Procs /\ Host[t] \in Hosts
  BY LimitsAssumption DEF Procs
<1>3. /\ task[t].pc \in {"ask", "load", "fetch"} => task[t] \in Asking
      /\ task[t].pc = "token" => task[t] \in Queued
      /\ task[t].pc = "script" => task[t] \in Calling
  BY <1>1 DEF TaskState, Asking, Queued, Calling, Done
<1>4. task[t] \in Calling => task[t].delay \in {DefaultDelay, CrawlDelay} /\ task[t].lag \in Nat
  BY DEF Calling
<1>5. Skew[Proc[t]] \in Int
  BY <1>2, LimitsAssumption
<1> QED BY <1>2, <1>3, <1>4, <1>5 DEF Stamp

-----------------------------------------------------------------------------
(* The caches                                                               *)

\* One process's cache changes; the hosts that count as lenient only grow in number.
LEMMA CacheUpdate ==
    ASSUME LimitTypes, CacheInv, NEW p \in Procs, NEW s \in Seq(Entry),
           OnePerHost(s), Len(s) <= Capacity, \A e \in Range(s) : Sound(e)',
           lenient \subseteq lenient', cache' = [cache EXCEPT ![p] = s]
    PROVE  cache' \in [Procs -> Seq(Entry)] /\ CacheInv'
<1>1. cache \in [Procs -> Seq(Entry)]
  BY DEF LimitTypes
<1>2. cache' \in [Procs -> Seq(Entry)] /\ cache'[p] = s
      /\ \A q \in Procs : q # p => cache'[q] = cache[q]
  BY <1>1
<1>3. \A e : Sound(e) => Sound(e)'
  BY DEF Sound
<1>4. ASSUME NEW q \in Procs
      PROVE  /\ Len(cache'[q]) <= Capacity /\ OnePerHost(cache'[q])
             /\ \A e \in Range(cache'[q]) : Sound(e)'
  BY <1>2, <1>3 DEF CacheInv
<1> QED BY <1>2, <1>4 DEF CacheInv

\* A text is put into a process's cache (robots_cache.py:66).
LEMMA PutUpdate ==
    ASSUME LimitTypes, CacheInv, NEW p \in Procs, NEW e \in Entry, Sound(e)',
           lenient \subseteq lenient', cache' = [cache EXCEPT ![p] = PutEntry(p, e)]
    PROVE  cache' \in [Procs -> Seq(Entry)] /\ CacheInv'
<1>1. cache[p] \in Seq(Entry) /\ OnePerHost(cache[p]) /\ Len(cache[p]) <= Capacity
  BY DEF LimitTypes, CacheInv
<1>2. /\ PutEntry(p, e) \in Seq(Entry) /\ OnePerHost(PutEntry(p, e))
      /\ Range(PutEntry(p, e)) \subseteq Range(cache[p]) \cup {e}
      /\ Len(PutEntry(p, e)) <= Capacity
  BY <1>1, PutFacts
<1>3. \A x : Sound(x) => Sound(x)'
  BY DEF Sound
<1>4. \A x \in Range(PutEntry(p, e)) : Sound(x)'
  BY <1>2, <1>3 DEF CacheInv
<1> QED BY <1>2, <1>4, CacheUpdate

\* A text that has been found has its parsed form cached (robots_cache.py:64-67).
LEMMA LoadedFacts ==
    ASSUME LimitTypes, CacheInv, NEW t \in Tasks, NEW text \in Texts, NEW age \in Nat,
           age < Ttl, Loaded(t, text, age)
    PROVE  /\ cache' \in [Procs -> Seq(Entry)] /\ CacheInv'
           /\ lenient' \subseteq Hosts /\ lenient \subseteq lenient'
           /\ text # "rules" => Host[t] \in lenient'
<1>1. Proc[t] \in Procs /\ Host[t] \in Hosts
  BY AskingFacts
<1>2. /\ lenient' \subseteq Hosts /\ lenient \subseteq lenient'
      /\ text # "rules" => Host[t] \in lenient'
  BY <1>1 DEF Loaded, LimitTypes
<1>3. CASE text = "broken"
  <2>1. cache' = cache
    BY <1>3 DEF Loaded
  <2>2. \A e : Sound(e) => Sound(e)'
    BY <1>2 DEF Sound
  <2> QED BY <1>2, <2>1, <2>2 DEF CacheInv, LimitTypes
<1>4. CASE text # "broken"
  <2> DEFINE e == [host |-> Host[t], text |-> text, age |-> 0, textAge |-> age]
  <2>1. cache' = [cache EXCEPT ![Proc[t]] = PutEntry(Proc[t], e)]
    BY <1>4 DEF Loaded
  <2>2. e \in Entry
    BY <1>1, <1>4 DEF Entry, Texts
  <2>3. Sound(e)'
    BY <1>2, LimitsAssumption DEF Sound
  <2> HIDE DEF e
  <2> QED BY <1>1, <1>2, <2>1, <2>2, <2>3, PutUpdate
<1> QED BY <1>3, <1>4

\* Time passes: an entry and its text age together (lru.py:32).
LEMMA TickCaches ==
    ASSUME LimitTypes, CacheInv, Tick
    PROVE  cache' \in [Procs -> Seq(Entry)] /\ CacheInv'
<1>1. ASSUME NEW p \in Procs
      PROVE  /\ cache'[p] \in Seq(Entry) /\ Len(cache'[p]) <= Capacity
             /\ OnePerHost(cache'[p]) /\ \A e \in Range(cache'[p]) : Sound(e)'
  <2> DEFINE s == cache[p]
             r == cache'[p]
             Aged(e) == IF e.host = Elsewhere THEN e
                        ELSE [e EXCEPT !.age = UpTo(@ + 1, Ttl + 1),
                                       !.textAge = UpTo(@ + 1, 2 * Ttl)]
  <2>1. s \in Seq(Entry) /\ DOMAIN s = 1..Len(s) /\ Len(s) \in Nat /\ Len(s) <= Capacity
        /\ OnePerHost(s) /\ \A e \in Range(s) : Sound(e)
    BY DEF LimitTypes, CacheInv
  <2>2. r = [i \in DOMAIN s |-> Aged(s[i])]
    BY DEF Tick
  <2>3. ASSUME NEW e \in Entry, Sound(e)
        PROVE  Aged(e) \in Entry /\ Aged(e).host = e.host /\ Sound(Aged(e))
    <3>1. e.age \in Nat /\ e.textAge \in Nat /\ Ttl \in Nat /\ Ttl > 0
      BY LimitsAssumption DEF Entry
    <3>2. CASE e.host = Elsewhere
      BY <2>3, <3>2
    <3>3. CASE e.host # Elsewhere
      <4> DEFINE x == UpTo(e.age + 1, Ttl + 1)
                 y == UpTo(e.textAge + 1, 2 * Ttl)
      <4>1. x \in Nat /\ y \in Nat /\ y < x + Ttl
        BY <2>3, <3>1 DEF UpTo, Sound
      <4>2. Aged(e) = [e EXCEPT !.age = x, !.textAge = y]
        BY <3>3
      <4> HIDE DEF x, y, Aged
      <4>3. Aged(e) \in Entry /\ Aged(e).host = e.host /\ Aged(e).text = e.text
            /\ Aged(e).age = x /\ Aged(e).textAge = y
        BY <4>1, <4>2 DEF Entry
      <4> QED BY <2>3, <4>1, <4>3 DEF Sound
    <3> QED BY <3>2, <3>3
  <2> HIDE DEF s, r, Aged
  <2>4. \A i \in DOMAIN s : s[i] \in Entry /\ Sound(s[i])
    BY <2>1 DEF Range
  <2>5. \A i \in DOMAIN s : r[i] \in Entry /\ r[i].host = s[i].host /\ Sound(r[i])
    BY <2>2, <2>3, <2>4
  <2>6. r \in [1..Len(s) -> Entry]
    BY <2>1, <2>2, <2>5
  <2>7. r \in Seq(Entry) /\ Len(r) = Len(s)
    BY <2>1, <2>6
  <2>8. OnePerHost(r)
    BY <2>1, <2>5, <2>6 DEF OnePerHost
  <2>9. \A e \in Range(r) : Sound(e)
    BY <2>1, <2>5, <2>6 DEF Range
  <2>10. \A e : Sound(e) => Sound(e)'
    BY DEF Sound, Tick
  <2> QED BY <2>1, <2>7, <2>8, <2>9, <2>10 DEF r
<1>2. cache' \in [Procs -> Seq(Entry)]
  BY <1>1 DEF Tick
<1> QED BY <1>1, <1>2 DEF CacheInv

-----------------------------------------------------------------------------
(* The invariant                                                            *)

LEMMA InitLimits == Init => LimitsInv
<1> SUFFICES ASSUME Init PROVE LimitsInv
  OBVIOUS
<1>1. LimitTypes
  <2>1. [pc |-> "ask", asks |-> "allowed"] \in TaskState
    BY DEF TaskState, Asking
  <2>2. << >> \in Seq(Entry)
    OBVIOUS
  <2>3. [pc |-> "token", delay |-> CrawlDelay] \in TaskState
    BY DEF TaskState, Queued
  <2> QED BY <2>1, <2>2, <2>3, LimitsAssumption DEF Init, LimitTypes
<1>2. ASSUME NEW p \in Procs
      PROVE  Len(cache[p]) <= Capacity /\ OnePerHost(cache[p]) /\ Range(cache[p]) = {}
  BY LimitsAssumption DEF Init, OnePerHost, Range
<1>3. CacheInv
  BY <1>2 DEF CacheInv
<1>4. SharedInv
  BY DEF Init, SharedInv
<1>5. LockInv
  BY DEF Init, LockInv, Loading
<1>6. BudgetInv
  BY LimitsAssumption DEF Init, BudgetInv
<1> QED BY <1>1, <1>3, <1>4, <1>5, <1>6 DEF LimitsInv

\* A task takes the lock of an origin only when it is free, and holds it until the text is
\* loaded (robots_cache.py:60-67).
LEMMA LockKept ==
    ASSUME LimitTypes, LockInv, NEW t \in Tasks,
           \A u \in Tasks : u # t => task'[u] = task[u],
           \/ task'[t].pc \notin {"load", "fetch"}
           \/ task[t].pc \in {"load", "fetch"}
           \/ LockFree(Proc[t], Host[t])
    PROVE  LockInv'
<1> SUFFICES ASSUME NEW p \in Procs, NEW h \in Hosts,
                    NEW u \in Loading(p, h)', NEW v \in Loading(p, h)'
             PROVE  u = v
  BY DEF LockInv
<1>1. /\ u \in Tasks /\ Proc[u] = p /\ Host[u] = h /\ task'[u].pc \in {"load", "fetch"}
      /\ v \in Tasks /\ Proc[v] = p /\ Host[v] = h /\ task'[v].pc \in {"load", "fetch"}
  BY DEF Loading
<1>2. u # t => u \in Loading(p, h)
  BY <1>1 DEF Loading
<1>3. v # t => v \in Loading(p, h)
  BY <1>1 DEF Loading
<1>4. CASE u # t /\ v # t
  BY <1>2, <1>3, <1>4 DEF LockInv
<1>5. CASE u = t \/ v = t
  <2>1. Proc[t] = p /\ Host[t] = h /\ task'[t].pc \in {"load", "fetch"}
    BY <1>1, <1>5
  <2>2. CASE task[t].pc \in {"load", "fetch"}
    <3>1. t \in Loading(p, h)
      BY <2>1, <2>2 DEF Loading
    <3> QED BY <1>2, <1>3, <3>1 DEF LockInv
  <2>3. CASE Loading(p, h) = {}
    BY <1>2, <1>3, <2>3
  <2> QED BY <2>1, <2>2, <2>3 DEF LockFree
<1> QED BY <1>4, <1>5

\* The steps that look for a robots text.
LEMMA RobotsSteps ==
    ASSUME LimitsInv, NEW t \in Tasks,
           \/ CacheHit(t) \/ CacheMiss(t) \/ SharedHit(t) \/ SharedMiss(t)
           \/ \E text \in Texts : FetchRobots(t, text)
    PROVE  LimitsInv'
<1> USE DEF limits, budget, robots
<1>0. LimitTypes /\ CacheInv /\ SharedInv /\ LockInv /\ BudgetInv
  BY DEF LimitsInv
<1>1. /\ UNCHANGED <<bucket, token, used, admitted>>
      /\ task[t].pc \in {"ask", "load", "fetch"}
  BY DEF CacheHit, CacheMiss, SharedHit, SharedMiss, FetchRobots
<1>2. Proc[t] \in Procs /\ Host[t] \in Hosts /\ task[t] \in Asking
  BY <1>0, <1>1, AskingFacts
<1>3. BudgetInv'
  BY <1>0, <1>1 DEF BudgetInv
<1>4. /\ bucket' \in [Hosts -> Bucket \cup {NoValue}]
      /\ used' \in [Hosts -> Nat] /\ admitted' \in [Hosts -> Nat]
      /\ token' \in [Hosts -> Token \cup {NoValue}]
      /\ \A h \in Hosts : bucket'[h] = NoValue <=> token'[h] = NoValue
  BY <1>0, <1>1 DEF LimitTypes
<1>5. ASSUME NEW text \in Texts, Resume(t, text)
      PROVE  task' \in [Tasks -> TaskState] /\ LockInv'
  <2>1. /\ task' \in [Tasks -> TaskState] /\ task'[t].pc \in {"token", "budget", "done"}
        /\ \A u \in Tasks : u # t => task'[u] = task[u]
    BY <1>0, <1>2, <1>5, ResumeFacts
  <2> QED BY <1>0, <2>1, LockKept
<1>6. ASSUME NEW x \in {"load", "fetch"}, task' = [task EXCEPT ![t].pc = x],
             task[t].pc = "load" \/ LockFree(Proc[t], Host[t])
      PROVE  task' \in [Tasks -> TaskState] /\ LockInv'
  <2>1. task \in [Tasks -> TaskState]
    BY <1>0 DEF LimitTypes
  <2>2. [task[t] EXCEPT !.pc = x] \in Asking
    BY <1>2 DEF Asking
  <2>3. /\ task' \in [Tasks -> TaskState]
        /\ \A u \in Tasks : u # t => task'[u] = task[u]
    BY <1>6, <2>1, <2>2 DEF TaskState
  <2> QED BY <1>0, <1>6, <2>3, LockKept
<1>7. CASE CacheHit(t)
  <2> DEFINE p == Proc[t]
  <2>1. PICK e \in Hits(p, Host[t]) : cache' = [cache EXCEPT ![p] = MovedToEnd(p, e)]
                                     /\ Resume(t, e.text)
    BY <1>7 DEF CacheHit
  <2>2. e \in Range(cache[p])
    BY DEF Hits, Entries
  <2>3. cache[p] \in Seq(Entry) /\ OnePerHost(cache[p]) /\ Len(cache[p]) <= Capacity
    BY <1>0, <1>2 DEF LimitTypes, CacheInv
  <2>4. e.text \in Texts
    <3>1. e \in Entry
      BY <2>2, <2>3 DEF Range
    <3> QED BY <3>1 DEF Entry, Texts
  <2>5. UNCHANGED <<shared, lenient>>
    BY <1>7 DEF CacheHit
  <2>6. /\ MovedToEnd(p, e) \in Seq(Entry) /\ OnePerHost(MovedToEnd(p, e))
        /\ Range(MovedToEnd(p, e)) \subseteq Range(cache[p])
        /\ Len(MovedToEnd(p, e)) <= Capacity
    BY <1>2, <2>2, <2>3, MoveFacts
  <2>7. \A x \in Range(MovedToEnd(p, e)) : Sound(x)'
    BY <1>0, <1>2, <2>5, <2>6 DEF CacheInv, Sound
  <2>8. cache' \in [Procs -> Seq(Entry)] /\ CacheInv'
    BY <1>0, <1>2, <2>1, <2>5, <2>6, <2>7, CacheUpdate
  <2>9. SharedInv' /\ shared' \in [Hosts -> SharedText \cup {NoValue}] /\ lenient' \subseteq Hosts
    BY <1>0, <2>5 DEF SharedInv, LimitTypes
  <2> QED BY <1>3, <1>4, <1>5, <2>1, <2>4, <2>8, <2>9 DEF LimitsInv, LimitTypes
<1>8. CASE CacheMiss(t)
  <2> DEFINE p == Proc[t]
             s == Others(p, Host[t])
  <2>1. cache' = [cache EXCEPT ![p] = s] /\ LockFree(p, Host[t])
        /\ task' = [task EXCEPT ![t].pc = "load"] /\ UNCHANGED <<shared, lenient>>
    BY <1>8 DEF CacheMiss
  <2>2. cache[p] \in Seq(Entry) /\ OnePerHost(cache[p]) /\ Len(cache[p]) <= Capacity
    BY <1>0, <1>2 DEF LimitTypes, CacheInv
  <2>3. /\ s \in Seq(Entry) /\ OnePerHost(s) /\ Range(s) \subseteq Range(cache[p])
        /\ Len(s) <= Len(cache[p])
    BY <1>2, <2>2, OthersFacts
  <2>4. Len(s) <= Capacity
    BY <2>2, <2>3, LimitsAssumption
  <2>5. \A x \in Range(s) : Sound(x)'
    BY <1>0, <1>2, <2>1, <2>3 DEF CacheInv, Sound
  <2> HIDE DEF s
  <2>6. cache' \in [Procs -> Seq(Entry)] /\ CacheInv'
    BY <1>0, <1>2, <2>1, <2>3, <2>4, <2>5, CacheUpdate
  <2>7. SharedInv' /\ shared' \in [Hosts -> SharedText \cup {NoValue}] /\ lenient' \subseteq Hosts
    BY <1>0, <2>1 DEF SharedInv, LimitTypes
  <2> QED BY <1>3, <1>4, <1>6, <2>1, <2>6, <2>7 DEF LimitsInv, LimitTypes
<1>9. CASE SharedHit(t)
  <2> DEFINE c == shared[Host[t]]
  <2>1. c # NoValue /\ Loaded(t, c.text, c.age) /\ shared' = shared
    BY <1>9 DEF SharedHit
  <2>2. c.text \in Texts /\ c.age \in Nat /\ c.age < Ttl
    BY <1>0, <1>2, <2>1 DEF LimitTypes, SharedText, SharedInv
  <2>3. /\ cache' \in [Procs -> Seq(Entry)] /\ CacheInv'
        /\ lenient' \subseteq Hosts /\ lenient \subseteq lenient'
    BY <1>0, <2>1, <2>2, LoadedFacts
  <2>4. Resume(t, c.text)
    BY <2>1 DEF Loaded
  <2>5. SharedInv' /\ shared' \in [Hosts -> SharedText \cup {NoValue}]
    BY <1>0, <2>1, <2>3 DEF SharedInv, LimitTypes
  <2> QED BY <1>3, <1>4, <1>5, <2>2, <2>3, <2>4, <2>5 DEF LimitsInv, LimitTypes
<1>10. CASE SharedMiss(t)
  <2>1. /\ UNCHANGED <<cache, shared, lenient>> /\ task[t].pc = "load"
        /\ task' = [task EXCEPT ![t].pc = "fetch"]
    BY <1>10 DEF SharedMiss
  <2>2. CacheInv' /\ SharedInv'
    BY <1>0, <2>1 DEF CacheInv, SharedInv, Sound
  <2> QED BY <1>0, <1>3, <1>4, <1>6, <2>1, <2>2 DEF LimitsInv, LimitTypes
<1>11. ASSUME NEW text \in Texts, FetchRobots(t, text) PROVE LimitsInv'
  <2>1. Loaded(t, text, 0) /\ Resume(t, text)
    BY <1>11 DEF FetchRobots, Loaded
  <2>2. /\ cache' \in [Procs -> Seq(Entry)] /\ CacheInv'
        /\ lenient' \subseteq Hosts /\ lenient \subseteq lenient'
        /\ text # "rules" => Host[t] \in lenient'
    BY <1>0, <2>1, LimitsAssumption, LoadedFacts
  <2>3. [text |-> text, age |-> 0] \in SharedText
    BY DEF SharedText
  <2>4. shared \in [Hosts -> SharedText \cup {NoValue}]
    BY <1>0 DEF LimitTypes
  <2>5. shared' \in [Hosts -> SharedText \cup {NoValue}]
    BY <1>2, <1>11, <2>3, <2>4 DEF FetchRobots
  <2>6. ASSUME NEW h \in Hosts
        PROVE  shared'[h] = shared[h] \/ (h = Host[t] /\ shared'[h] = [text |-> text, age |-> 0])
    BY <1>11, <2>4 DEF FetchRobots
  <2>7. SharedInv'
    BY <1>0, <2>2, <2>6, LimitsAssumption DEF SharedInv
  <2> QED BY <1>3, <1>4, <1>5, <2>1, <2>2, <2>5, <2>7 DEF LimitsInv, LimitTypes
<1> QED BY <1>7, <1>8, <1>9, <1>10, <1>11

-----------------------------------------------------------------------------
(* Tokens                                                                   *)

\* The units of a token and of a tick's refill.
LEMMA Units ==
    /\ DefaultDelay \in Nat /\ DefaultDelay > 0 /\ CrawlDelay \in Nat /\ CrawlDelay > 0
    /\ Full \in Nat /\ Full > 0
    /\ Full \div DefaultDelay = CrawlDelay /\ Full \div CrawlDelay = DefaultDelay
<1>1. /\ DefaultDelay \in Nat /\ DefaultDelay > 0 /\ CrawlDelay \in Nat /\ CrawlDelay > 0
  BY LimitsAssumption
<1>2. ASSUME NEW a \in Nat, NEW b \in Nat, a > 0, b > 0
      PROVE  a * b \in Nat /\ a * b > 0 /\ (a * b) \div a = b
  BY <1>2
<1>3. DefaultDelay * CrawlDelay = CrawlDelay * DefaultDelay
  BY <1>1
<1> QED BY <1>1, <1>2, <1>3 DEF Full

\* The credit never exceeds one token (token_bucket.lua:27).
LEMMA CreditFacts ==
    ASSUME LimitTypes, NEW h \in Hosts, NEW stamp \in Int,
           NEW delay \in {DefaultDelay, CrawlDelay}
    PROVE  /\ Credit(h, stamp, delay) \in Nat /\ Credit(h, stamp, delay) <= Full
           /\ Spent(Credit(h, stamp, delay)) \in Nat /\ Spent(Credit(h, stamp, delay)) < Full
<1> DEFINE credit == Credit(h, stamp, delay)
<1>1. Full \in Nat /\ Full > 0 /\ Full \div delay \in Nat
  BY Units
<1>2. credit \in Nat /\ credit <= Full
  <2>1. CASE bucket[h] = NoValue
    BY <1>1, <2>1 DEF Credit
  <2>2. CASE bucket[h] # NoValue
    <3> DEFINE b == bucket[h]
               elapsed == Max0(b.age - stamp)
               refill == elapsed * (Full \div delay)
    <3>1. b.credit \in Nat /\ b.age \in Int
      BY <2>2 DEF LimitTypes, Bucket
    <3>2. elapsed \in Nat
      BY <3>1 DEF Max0
    <3>3. credit = UpTo(b.credit + refill, Full)
      BY <2>2 DEF Credit
    <3> HIDE DEF elapsed, credit
    <3>4. refill \in Nat
      BY <1>1, <3>2
    <3> HIDE DEF refill
    <3> QED BY <1>1, <3>1, <3>3, <3>4 DEF UpTo
  <2> QED BY <2>1, <2>2
<1> HIDE DEF credit
<1>3. Spent(credit) \in Nat /\ Spent(credit) < Full
  BY <1>1, <1>2 DEF Spent
<1> QED BY <1>2, <1>3 DEF credit

\* The script writes a bucket, of which a token has been taken by then
\* (token_bucket.lua:21-39).
LEMMA ScriptFacts ==
    ASSUME LimitTypes, NEW t \in Tasks, RunScript(t)
    PROVE  LET h == Host[t]
               credit == Credit(h, Stamp(t), task[t].delay)
               left == [credit |-> Spent(credit), age |-> Stamp(t), idle |-> 0]
               taken == IF credit >= Full THEN [age |-> Stamp(t), rewound |-> 0]
                        ELSE [token[h] EXCEPT !.rewound = @ + Max0(Stamp(t) - bucket[h].age)]
           IN  /\ left \in Bucket /\ bucket' = [bucket EXCEPT ![h] = left]
               /\ taken \in Token /\ token' = [token EXCEPT ![h] = taken]
               /\ credit < Full => bucket[h] \in Bucket /\ token[h] \in Token
<1> DEFINE h == Host[t]
           credit == Credit(h, Stamp(t), task[t].delay)
           left == [credit |-> Spent(credit), age |-> Stamp(t), idle |-> 0]
           taken == IF credit >= Full THEN [age |-> Stamp(t), rewound |-> 0]
                    ELSE [token[h] EXCEPT !.rewound = @ + Max0(Stamp(t) - bucket[h].age)]
<1>1. task[t].delay \in {DefaultDelay, CrawlDelay} /\ Stamp(t) \in Int /\ h \in Hosts
  BY AskingFacts DEF RunScript
<1>2. credit \in Nat /\ Spent(credit) \in Nat /\ Full \in Nat
  BY <1>1, CreditFacts, Units
<1>3. left \in Bucket /\ bucket' = [bucket EXCEPT ![h] = left]
  BY <1>1, <1>2 DEF RunScript, Bucket
<1>4. credit < Full => bucket[h] \in Bucket /\ token[h] \in Token
  <2>1. credit < Full => bucket[h] # NoValue
    BY <1>2 DEF Credit
  <2>2. bucket[h] \in Bucket \cup {NoValue} /\ token[h] \in Token \cup {NoValue}
        /\ (bucket[h] = NoValue <=> token[h] = NoValue)
    BY <1>1 DEF LimitTypes
  <2> QED BY <2>1, <2>2
<1>5. token' = [token EXCEPT ![h] = taken]
  BY DEF RunScript
<1>6. taken \in Token
  <2>1. CASE credit >= Full
    BY <1>1, <2>1 DEF Token
  <2>2. CASE ~(credit >= Full)
    <3>1. bucket[h] \in Bucket /\ token[h] \in Token
      BY <1>2, <1>4, <2>2
    <3>2. bucket[h].age \in Int /\ token[h].rewound \in Nat
      BY <3>1 DEF Bucket, Token
    <3>3. token[h].rewound + Max0(Stamp(t) - bucket[h].age) \in Nat
      BY <1>1, <3>2 DEF Max0
    <3> HIDE DEF credit, h
    <3>4. taken = [token[h] EXCEPT !.rewound = @ + Max0(Stamp(t) - bucket[h].age)]
      BY <2>2
    <3> QED BY <3>1, <3>3, <3>4 DEF Token
  <2> QED BY <2>1, <2>2
<1> QED BY <1>3, <1>4, <1>5, <1>6

\* The steps of the budget and of the limiter.
LEMMA LimiterSteps ==
    ASSUME LimitsInv, NEW t \in Tasks,
           \/ TryConsume(t) \/ BudgetOpen(t)
           \/ ReadClock(t) \/ RunScript(t) \/ LimiterOpen(t)
    PROVE  LimitsInv'
<1> USE DEF limits, budget, robots
<1>0. LimitTypes /\ CacheInv /\ SharedInv /\ LockInv /\ BudgetInv
  BY DEF LimitsInv
<1>1. UNCHANGED <<cache, shared, lenient>>
  BY DEF TryConsume, BudgetOpen, ReadClock, RunScript, LimiterOpen
<1>2. Proc[t] \in Procs /\ Host[t] \in Hosts
  BY <1>0, AskingFacts
<1>3. CacheInv' /\ SharedInv'
  BY <1>0, <1>1 DEF CacheInv, SharedInv, Sound
<1>4. /\ task \in [Tasks -> TaskState] /\ used \in [Hosts -> Nat] /\ admitted \in [Hosts -> Nat]
      /\ bucket \in [Hosts -> Bucket \cup {NoValue}] /\ token \in [Hosts -> Token \cup {NoValue}]
      /\ \A h \in Hosts : bucket[h] = NoValue <=> token[h] = NoValue
  BY <1>0 DEF LimitTypes
<1>5. /\ task' \in [Tasks -> TaskState] /\ \A u \in Tasks : u # t => task'[u] = task[u]
      /\ task'[t].pc \notin {"load", "fetch"}
  <2>1. [pc |-> "ask", asks |-> "delay"] \in TaskState /\ Done \in TaskState
    BY DEF TaskState, Asking
  <2>2. CASE task' = [task EXCEPT ![t] = [pc |-> "ask", asks |-> "delay"]]
    BY <1>4, <2>1, <2>2
  <2>3. CASE task' = [task EXCEPT ![t] = Done]
    BY <1>4, <2>1, <2>3 DEF Done
  <2>4. CASE ReadClock(t)
    <3> DEFINE n == [pc |-> "script", delay |-> task[t].delay, lag |-> 0]
    <3>1. task[t] \in Queued /\ task' = [task EXCEPT ![t] = n]
      BY <1>0, <2>4, AskingFacts DEF ReadClock
    <3>2. n \in Calling /\ n.pc = "script"
      BY <3>1 DEF Queued, Calling
    <3> QED BY <1>4, <3>1, <3>2 DEF TaskState
  <2>5. CASE task[t].pc = "script"
             /\ task' = [task EXCEPT ![t] = [pc |-> "token", delay |-> @.delay]]
    <3> DEFINE n == [pc |-> "token", delay |-> task[t].delay]
    <3>1. task[t].delay \in {DefaultDelay, CrawlDelay} /\ task' = [task EXCEPT ![t] = n]
      BY <1>0, <2>5, AskingFacts
    <3>2. n \in Queued /\ n.pc = "token"
      BY <3>1 DEF Queued
    <3> QED BY <1>4, <3>1, <3>2 DEF TaskState
  <2> QED BY <2>2, <2>3, <2>4, <2>5 DEF TryConsume, BudgetOpen, RunScript, LimiterOpen
<1>6. LockInv'
  BY <1>0, <1>5, LockKept
<1>7. /\ used' \in [Hosts -> Nat] /\ admitted' \in [Hosts -> Nat] /\ BudgetInv'
  <2> DEFINE h == Host[t]
             n == UpTo(used[h] + 1, Budget + 1)
  <2>1. n \in Nat /\ Budget \in Nat /\ used[h] \in Nat /\ admitted[h] \in Nat
    BY <1>2, <1>4, LimitsAssumption DEF UpTo
  <2>2. admitted[h] <= used[h] /\ admitted[h] <= Budget
    BY <1>0, <1>2 DEF BudgetInv
  <2>3. n >= admitted[h] /\ (used[h] + 1 <= Budget => n >= admitted[h] + 1)
    BY <2>1, <2>2 DEF UpTo
  <2>4. CASE UNCHANGED <<used, admitted>>
    BY <1>0, <1>4, <2>4 DEF BudgetInv
  <2>5. CASE used' = [used EXCEPT ![h] = n] /\ admitted' = admitted
    <3> HIDE DEF n
    <3> QED BY <1>0, <1>2, <1>4, <2>1, <2>3, <2>5 DEF BudgetInv
  <2>6. CASE used' = [used EXCEPT ![h] = n] /\ used[h] + 1 <= Budget
             /\ admitted' = [admitted EXCEPT ![h] = @ + 1]
    <3> HIDE DEF n
    <3>1. admitted[h] + 1 <= Budget
      BY <2>1, <2>2, <2>6
    <3> QED BY <1>0, <1>2, <1>4, <2>1, <2>3, <2>6, <3>1 DEF BudgetInv
  <2>7. TryConsume(t) => \/ used' = [used EXCEPT ![h] = n] /\ admitted' = admitted
                         \/ /\ used' = [used EXCEPT ![h] = n] /\ used[h] + 1 <= Budget
                            /\ admitted' = [admitted EXCEPT ![h] = @ + 1]
    BY DEF TryConsume, WithinBudget
  <2>8. BudgetOpen(t) => admitted' = admitted /\ used' \in {used, [used EXCEPT ![h] = n]}
    BY DEF BudgetOpen
  <2>9. ReadClock(t) \/ RunScript(t) \/ LimiterOpen(t) => UNCHANGED <<used, admitted>>
    BY DEF ReadClock, RunScript, LimiterOpen
  <2> QED BY <2>4, <2>5, <2>6, <2>7, <2>8, <2>9
<1>8. /\ bucket' \in [Hosts -> Bucket \cup {NoValue}]
      /\ token' \in [Hosts -> Token \cup {NoValue}]
      /\ \A h \in Hosts : bucket'[h] = NoValue <=> token'[h] = NoValue
  <2>1. CASE RunScript(t)
    <3> DEFINE h == Host[t]
               credit == Credit(h, Stamp(t), task[t].delay)
               left == [credit |-> Spent(credit), age |-> Stamp(t), idle |-> 0]
               taken == IF credit >= Full THEN [age |-> Stamp(t), rewound |-> 0]
                        ELSE [token[h] EXCEPT !.rewound = @ + Max0(Stamp(t) - bucket[h].age)]
    <3>1. /\ left \in Bucket /\ bucket' = [bucket EXCEPT ![h] = left]
          /\ taken \in Token /\ token' = [token EXCEPT ![h] = taken]
      BY <1>0, <2>1, ScriptFacts
    <3> HIDE DEF h, left, taken
    <3>2. h \in Hosts
      BY <1>2 DEF h
    <3> QED BY <1>4, <3>1, <3>2, NoValueAssumption
  <2>2. CASE ~RunScript(t)
    <3>1. UNCHANGED <<token, bucket>>
      BY <2>2 DEF TryConsume, BudgetOpen, ReadClock, LimiterOpen
    <3> QED BY <1>4, <3>1
  <2> QED BY <2>1, <2>2
<1> QED BY <1>0, <1>1, <1>3, <1>5, <1>6, <1>7, <1>8 DEF LimitsInv, LimitTypes

\* Time passes for a call on its way to Redis.
LEMMA TickTask ==
    ASSUME LimitTypes, Tick, NEW t \in Tasks
    PROVE  /\ task'[t] \in TaskState /\ task'[t].pc = task[t].pc
           /\ task[t].pc \in {"token", "script"} => task'[t].delay = task[t].delay
<1>1. task[t] \in TaskState
  BY DEF LimitTypes
<1>2. CASE task[t].pc = "script"
  <2>1. task[t] \in Calling /\ task'[t] = [task[t] EXCEPT !.lag = @ + 1]
    BY <1>2, AskingFacts DEF Tick
  <2>2. task'[t] \in Calling /\ task'[t].pc = task[t].pc /\ task'[t].delay = task[t].delay
    BY <2>1 DEF Calling
  <2> QED BY <2>2 DEF TaskState
<1>3. CASE task[t].pc # "script"
  BY <1>1, <1>3 DEF Tick
<1> QED BY <1>2, <1>3

\* Time passes for a bucket: it expires, or its stamps age alike (redis_limiter.py:45-48).
LEMMA TickBucket ==
    ASSUME LimitTypes, Tick, NEW h \in Hosts
    PROVE  \/ bucket'[h] = NoValue /\ token'[h] = NoValue
           \/ /\ bucket[h] \in Bucket /\ token[h] \in Token
              /\ bucket'[h] \in Bucket /\ token'[h] \in Token
              /\ bucket'[h].age = bucket[h].age + 1 /\ bucket'[h].credit = bucket[h].credit
              /\ token'[h].age = token[h].age + 1 /\ token'[h].rewound = token[h].rewound
<1>1. CASE Expires(h)
  BY <1>1 DEF Tick
<1>2. CASE ~Expires(h)
  <2>1. bucket[h] \in Bucket /\ token[h] \in Token
    BY <1>2 DEF Expires, LimitTypes
  <2>2. /\ bucket'[h] = [bucket[h] EXCEPT !.age = @ + 1, !.idle = @ + 1]
        /\ token'[h] = [token[h] EXCEPT !.age = @ + 1]
    BY <1>2 DEF Tick
  <2>3. /\ bucket'[h] \in Bucket
        /\ bucket'[h].age = bucket[h].age + 1 /\ bucket'[h].credit = bucket[h].credit
    <3>1. bucket[h].credit \in Nat /\ bucket[h].age \in Int /\ bucket[h].idle \in Nat
          /\ bucket[h] = [credit |-> bucket[h].credit, age |-> bucket[h].age,
                           idle |-> bucket[h].idle]
      BY <2>1 DEF Bucket
    <3>2. bucket'[h] = [credit |-> bucket[h].credit, age |-> bucket[h].age + 1,
                        idle |-> bucket[h].idle + 1]
      BY <2>2, <3>1
    <3> QED BY <3>1, <3>2 DEF Bucket
  <2>4. /\ token'[h] \in Token
        /\ token'[h].age = token[h].age + 1 /\ token'[h].rewound = token[h].rewound
    BY <2>1, <2>2 DEF Token
  <2> QED BY <2>1, <2>3, <2>4
<1> QED BY <1>1, <1>2

\* Time passes: a text in Redis expires (robots_cache.py:88-90).
LEMMA TickLimits ==
    ASSUME LimitsInv, Tick
    PROVE  LimitsInv'
<1>0. LimitTypes /\ CacheInv /\ SharedInv /\ LockInv /\ BudgetInv
  BY DEF LimitsInv
<1>1. UNCHANGED <<lenient, used, admitted>>
  BY DEF Tick, budget
<1>7. /\ task' \in [Tasks -> TaskState]
      /\ \A t \in Tasks : task'[t].pc = task[t].pc
  <2>1. ASSUME NEW t \in Tasks PROVE task'[t] \in TaskState /\ task'[t].pc = task[t].pc
    BY <1>0, TickTask DEF TaskState
  <2> QED BY <2>1 DEF Tick
<1>2. cache' \in [Procs -> Seq(Entry)] /\ CacheInv'
  BY <1>0, TickCaches
<1>3. shared' \in [Hosts -> SharedText \cup {NoValue}] /\ SharedInv'
  <2>1. ASSUME NEW h \in Hosts
        PROVE  \/ shared'[h] = NoValue
               \/ /\ shared'[h] \in SharedText /\ shared'[h].age < Ttl
                  /\ shared'[h].text = "rules" \/ h \in lenient
    <3>1. CASE shared[h] = NoValue \/ shared[h].age + 1 >= Ttl
      BY <3>1 DEF Tick
    <3>2. CASE ~(shared[h] = NoValue \/ shared[h].age + 1 >= Ttl)
      <4>1. shared[h] \in SharedText /\ (shared[h].text = "rules" \/ h \in lenient)
        BY <1>0, <3>2 DEF LimitTypes, SharedInv
      <4>2. shared'[h] = [shared[h] EXCEPT !.age = @ + 1]
        BY <3>2 DEF Tick
      <4>3. shared[h].age \in Nat /\ Ttl \in Nat
        BY <4>1, LimitsAssumption DEF SharedText
      <4>4. shared[h].age + 1 < Ttl
        BY <3>2, <4>3
      <4> QED BY <4>1, <4>2, <4>3, <4>4 DEF SharedText
    <3> QED BY <3>1, <3>2
  <2>2. shared' \in [Hosts -> SharedText \cup {NoValue}]
    BY <2>1 DEF Tick
  <2> QED BY <1>1, <2>1, <2>2 DEF SharedInv
<1>4. /\ bucket' \in [Hosts -> Bucket \cup {NoValue}]
      /\ token' \in [Hosts -> Token \cup {NoValue}]
      /\ \A h \in Hosts : bucket'[h] = NoValue <=> token'[h] = NoValue
  <2>1. ASSUME NEW h \in Hosts
        PROVE  \/ bucket'[h] = NoValue /\ token'[h] = NoValue
               \/ bucket'[h] \in Bucket /\ token'[h] \in Token
    BY <1>0, TickBucket
  <2> QED BY <2>1, NoValueAssumption DEF Tick
<1>6. LockInv' /\ BudgetInv'
  BY <1>0, <1>1, <1>7 DEF LockInv, Loading, BudgetInv
<1> QED BY <1>0, <1>1, <1>2, <1>3, <1>4, <1>6, <1>7 DEF LimitsInv, LimitTypes

LEMMA LimitsStep == LimitsInv /\ [Next]_vars => LimitsInv'
<1> SUFFICES ASSUME LimitsInv, [Next]_vars PROVE LimitsInv'
  OBVIOUS
<1>1. ASSUME NEW t \in Tasks, TaskStep(t) PROVE LimitsInv'
  BY <1>1, RobotsSteps, LimiterSteps DEF TaskStep
<1>2. ASSUME NEW p \in Procs, LoadElsewhere(p) PROVE LimitsInv'
  <2> DEFINE e == [host |-> Elsewhere, text |-> "empty", age |-> 0, textAge |-> 0]
  <2>1. cache' = [cache EXCEPT ![p] = PutEntry(p, e)]
        /\ UNCHANGED <<task, shared, lenient, bucket, token, used, admitted>>
    BY <1>2 DEF LoadElsewhere, limits, budget
  <2>2. e \in Entry
    BY DEF Entry
  <2>3. Sound(e)'
    BY LimitsAssumption DEF Sound
  <2> HIDE DEF e
  <2>4. cache' \in [Procs -> Seq(Entry)] /\ CacheInv'
    BY <1>2, <2>1, <2>2, <2>3, PutUpdate DEF LimitsInv
  <2>5. SharedInv' /\ LockInv' /\ BudgetInv'
    BY <2>1 DEF LimitsInv, SharedInv, LockInv, Loading, BudgetInv
  <2> QED BY <2>1, <2>4, <2>5 DEF LimitsInv, LimitTypes
<1>3. CASE UNCHANGED vars
  <2>1. UNCHANGED <<task, cache, shared, lenient, bucket, token, used, admitted>>
    BY <1>3 DEF vars, robots, limits, budget
  <2> QED
    BY <2>1 DEF LimitsInv, LimitTypes, CacheInv, Sound, SharedInv, LockInv, Loading, BudgetInv
<1> QED BY <1>1, <1>2, <1>3, TickLimits DEF Next

LEMMA LimitsHold == Spec => []LimitsInv
<1> QED BY InitLimits, LimitsStep, PTL DEF Spec

-----------------------------------------------------------------------------
(* The theorems                                                             *)

\* Whatever the interleaving, a process's robots cache stays within its capacity with one
\* entry per origin, one of its tasks loads a robots.txt at a time, and the counter lets
\* no more pages of a host through than its budget (robots_cache.py:60-66, lru.py:38-43,
\* budget.py:61-71).
THEOREM CapsAlwaysHold == Spec => []CapsHold
<1>1. LimitsInv => CapsHold
  BY DEF LimitsInv, CapsHold, CacheInv, OnePerHost, LockInv, BudgetInv
<1> QED BY <1>1, LimitsHold, PTL

\* A robots text is used for less than two times its Ttl after it was fetched
\* (robots_cache.py:37-40, 73-75, 88-90).
THEOREM RobotsStayFresh == Spec => []RobotsFresh
<1>1. LimitsInv => RobotsFresh
  <2> SUFFICES ASSUME LimitsInv, NEW p \in Procs, NEW e \in Range(cache[p]), e.age <= Ttl
               PROVE  e.textAge < 2 * Ttl
    BY DEF RobotsFresh
  <2>1. cache[p] \in Seq(Entry)
    BY DEF LimitsInv, LimitTypes
  <2>2. e \in Entry
    BY <2>1 DEF Range
  <2>3. e.age \in Nat /\ e.textAge \in Nat /\ Ttl \in Nat
    BY <2>2, LimitsAssumption DEF Entry
  <2>4. e.textAge < e.age + Ttl
    BY DEF LimitsInv, CacheInv, Sound
  <2> QED BY <2>3, <2>4
<1> QED BY <1>1, LimitsHold, PTL

-----------------------------------------------------------------------------
(* The spacing of tokens                                                    *)

\* Products with a positive factor.
LEMMA Products ==
    ASSUME NEW k \in Nat, NEW a \in Nat, NEW b \in Nat
    PROVE  /\ a * k \in Nat /\ 0 * k = 0 /\ (a + 1) * k = a * k + k
           /\ a <= b => a * k <= b * k
           /\ a < b /\ k > 0 => a * k < b * k
  OBVIOUS

\* The constants behind Spacing and Refill.
LEMMA Rates ==
    ASSUME NEW h \in Hosts
    PROVE  /\ Spacing(h) \in Nat /\ Spacing(h) > 0 /\ Spacing(h) <= CrawlDelay
           /\ Refill(h) \in Nat /\ Refill(h) > 0 /\ DefaultDelay <= Refill(h)
           /\ Spacing(h) * Refill(h) = Full
<1>1. /\ DefaultDelay \in Nat /\ DefaultDelay > 0 /\ CrawlDelay \in Nat /\ CrawlDelay > 0
      /\ DefaultDelay <= CrawlDelay
  BY Units, LimitsAssumption
<1>2. CrawlDelay * DefaultDelay = DefaultDelay * CrawlDelay
  BY <1>1
<1> QED BY <1>1, <1>2 DEF Spacing, Refill, Full

\* A call whose stamp is later than the bucket's refills it for the difference; one whose
\* stamp is earlier refills it for nothing and rewinds it (token_bucket.lua:26-39).
LEMMA CreditEarned ==
    ASSUME LimitTypes, TokenInv, NEW t \in Tasks, task[t].pc = "script",
           bucket[Host[t]] # NoValue
    PROVE  LET h == Host[t]
               earned == Refilled(h) + Max0(bucket[h].age - Stamp(t))
           IN  /\ earned \in Nat
               /\ Credit(h, Stamp(t), task[t].delay) <= earned * Refill(h)
               /\ Credit(h, Stamp(t), task[t].delay) >= Full => bucket[h].age > Stamp(t)
<1> DEFINE h == Host[t]
           b == bucket[h]
           elapsed == Max0(b.age - Stamp(t))
           earned == Refilled(h) + elapsed
           rate == Full \div task[t].delay
           credit == Credit(h, Stamp(t), task[t].delay)
<1>1. /\ h \in Hosts /\ task[t].delay \in {DefaultDelay, CrawlDelay}
      /\ Stamp(t) \in Int
  BY AskingFacts
<1>2. task[t].delay = CrawlDelay \/ h \in lenient
  BY DEF TokenInv, DelayInv
<1>3. Refill(h) \in Nat /\ DefaultDelay <= Refill(h)
  BY <1>1, Rates
<1>4. /\ b.credit \in Nat /\ b.age \in Int
      /\ token[h].age \in Int /\ token[h].rewound \in Nat
  <2>1. b \in Bucket /\ token[h] \in Token
    BY <1>1 DEF LimitTypes
  <2> QED BY <2>1 DEF Bucket, Token
<1>5. /\ Refilled(h) \in Nat /\ b.credit < Full /\ b.credit <= Refilled(h) * Refill(h)
  BY <1>1, <1>4 DEF TokenInv, BucketInv, Refilled
<1>6. elapsed \in Nat /\ (elapsed > 0 => b.age > Stamp(t))
  BY <1>1, <1>4 DEF Max0
<1>7. rate \in Nat /\ rate <= Refill(h)
  <2>1. CASE task[t].delay = CrawlDelay
    BY <1>3, <2>1, Units
  <2>2. CASE task[t].delay = DefaultDelay /\ h \in lenient
    BY <2>2, Units DEF Refill
  <2> QED BY <1>1, <1>2, <2>1, <2>2
<1>8. credit = UpTo(b.credit + elapsed * rate, Full)
  BY DEF Credit
<1>9. Full \in Nat
  BY Units
<1> HIDE DEF h, b, elapsed, rate, credit
<1>10. /\ elapsed * rate \in Nat /\ elapsed * Refill(h) \in Nat
       /\ Refilled(h) * Refill(h) \in Nat
       /\ elapsed * rate <= elapsed * Refill(h)
       /\ (Refilled(h) + elapsed) * Refill(h) = Refilled(h) * Refill(h) + elapsed * Refill(h)
  <2>1. rate * elapsed <= Refill(h) * elapsed
    BY <1>3, <1>6, <1>7, Products
  <2>2. rate * elapsed = elapsed * rate /\ Refill(h) * elapsed = elapsed * Refill(h)
    BY <1>3, <1>6, <1>7
  <2>3. elapsed * rate \in Nat /\ elapsed * Refill(h) \in Nat /\ Refilled(h) * Refill(h) \in Nat
    BY <1>3, <1>5, <1>6, <1>7
  <2>4. (Refilled(h) + elapsed) * Refill(h) = Refilled(h) * Refill(h) + elapsed * Refill(h)
    BY <1>3, <1>5, <1>6
  <2> QED BY <2>1, <2>2, <2>3, <2>4
<1>11. credit <= b.credit + elapsed * rate
  BY <1>4, <1>8, <1>9, <1>10 DEF UpTo
<1>12. credit \in Nat
  BY <1>4, <1>8, <1>9, <1>10 DEF UpTo
<1>13. credit <= earned * Refill(h)
  BY <1>4, <1>5, <1>10, <1>11, <1>12
<1>14. credit >= Full => elapsed > 0
  <2>1. elapsed = 0 => elapsed * rate = 0
    BY <1>7
  <2> QED BY <1>4, <1>5, <1>6, <1>9, <1>11, <1>12, <2>1
<1>15. earned \in Nat
  BY <1>5, <1>6
<1> QED BY <1>6, <1>13, <1>14, <1>15 DEF h, b, elapsed, credit

\* A host that becomes lenient only quickens the refill of its bucket.
LEMMA BucketStays ==
    ASSUME LimitTypes, NEW h \in Hosts, BucketInv(h), UNCHANGED <<bucket, token>>,
           lenient \subseteq lenient'
    PROVE  BucketInv(h)'
<1>1. Refilled(h)' = Refilled(h)
  BY DEF Refilled
<1>2. Refill(h) \in Nat /\ Refill(h)' \in Nat /\ Refill(h) <= Refill(h)'
  BY Units, LimitsAssumption DEF Refill
<1>3. CASE bucket[h] = NoValue
  BY <1>3 DEF BucketInv
<1>4. CASE bucket[h] # NoValue
  <2>1. bucket[h] \in Bucket /\ token[h] \in Token
    BY <1>4 DEF LimitTypes
  <2>2. bucket[h].credit \in Nat /\ Refilled(h) \in Int
    BY <2>1 DEF Bucket, Token, Refilled
  <2>3. /\ Refilled(h) >= 0 /\ bucket[h].credit < Full
        /\ bucket[h].credit <= Refilled(h) * Refill(h)
    BY <1>4 DEF BucketInv
  <2> DEFINE x == Refilled(h)
             k == Refill(h)
             m == Refill(h)'
  <2>4. x \in Nat /\ k \in Nat /\ m \in Nat /\ k <= m
    BY <1>2, <2>2, <2>3
  <2> HIDE DEF x, k, m
  <2>5. x * k \in Nat /\ x * m \in Nat /\ x * k <= x * m
    BY <2>4
  <2>6. bucket[h].credit <= x * m
    BY <2>2, <2>3, <2>5 DEF x, k
  <2> QED BY <1>1, <2>3, <2>6 DEF BucketInv, x, m
<1> QED BY <1>3, <1>4

\* The stamps of a bucket and of its last token age alike.
LEMMA BucketTicks ==
    ASSUME LimitTypes, NEW h \in Hosts, BucketInv(h), Tick
    PROVE  BucketInv(h)'
<1>1. CASE bucket'[h] = NoValue
  BY <1>1 DEF BucketInv
<1>2. CASE bucket'[h] # NoValue
  <2>1. /\ bucket[h] \in Bucket /\ token[h] \in Token
        /\ bucket'[h].age = bucket[h].age + 1 /\ bucket'[h].credit = bucket[h].credit
        /\ token'[h].age = token[h].age + 1 /\ token'[h].rewound = token[h].rewound
    BY <1>2, TickBucket
  <2>2. bucket[h] # NoValue
    BY <2>1, NoValueAssumption
  <2>3. bucket[h].age \in Int /\ token[h].age \in Int /\ token[h].rewound \in Nat
    BY <2>1 DEF Bucket, Token
  <2>4. Refilled(h)' = Refilled(h)
    BY <2>1, <2>3 DEF Refilled
  <2>5. Refill(h)' = Refill(h)
    BY DEF Tick, Refill
  <2> QED BY <2>1, <2>2, <2>4, <2>5 DEF BucketInv
<1> QED BY <1>1, <1>2

\* A call of the script leaves what it found, or nothing when it grants a token.
LEMMA BucketTaken ==
    ASSUME LimitTypes, TokenInv, NEW t \in Tasks, RunScript(t), NEW h \in Hosts
    PROVE  BucketInv(h)'
<1> DEFINE credit == Credit(Host[t], Stamp(t), task[t].delay)
           left == [credit |-> Spent(credit), age |-> Stamp(t), idle |-> 0]
           taken == IF credit >= Full THEN [age |-> Stamp(t), rewound |-> 0]
                    ELSE [token[Host[t]] EXCEPT
                            !.rewound = @ + Max0(Stamp(t) - bucket[Host[t]].age)]
<1>1. /\ left \in Bucket /\ bucket' = [bucket EXCEPT ![Host[t]] = left]
      /\ taken \in Token /\ token' = [token EXCEPT ![Host[t]] = taken]
      /\ credit < Full => bucket[Host[t]] \in Bucket /\ token[Host[t]] \in Token
  BY ScriptFacts
<1>2. /\ Host[t] \in Hosts /\ task[t].delay \in {DefaultDelay, CrawlDelay}
      /\ Stamp(t) \in Int /\ task[t].pc = "script" /\ lenient' = lenient
  BY AskingFacts DEF RunScript, robots
<1>3. Refill(h)' = Refill(h) /\ Refill(h) \in Nat
  BY <1>2, Rates DEF Refill
<1>4. bucket \in [Hosts -> Bucket \cup {NoValue}] /\ token \in [Hosts -> Token \cup {NoValue}]
  BY DEF LimitTypes
<1>5. CASE h # Host[t]
  <2>1. bucket'[h] = bucket[h] /\ token'[h] = token[h]
    BY <1>1, <1>4, <1>5
  <2> QED BY <1>3, <2>1 DEF TokenInv, BucketInv, Refilled
<1>6. CASE h = Host[t]
  <2>1. /\ credit \in Nat /\ Full \in Nat /\ Full > 0
        /\ Spent(credit) \in Nat /\ Spent(credit) < Full /\ credit <= Full
    BY <1>2, CreditFacts, Units
  <2>2. bucket'[h] = left /\ token'[h] = taken
    BY <1>1, <1>4, <1>6
  <2> HIDE DEF credit
  <2>3. bucket'[h].credit = Spent(credit) /\ bucket'[h].age = Stamp(t)
    BY <2>2
  <2> HIDE DEF left
  <2>4. CASE credit >= Full
    <3>1. Spent(credit) = 0
      BY <2>1, <2>4 DEF Spent
    <3>2. token'[h].age = Stamp(t) /\ token'[h].rewound = 0
      BY <2>2, <2>4
    <3>3. Refilled(h)' = 0
      BY <1>2, <2>3, <3>2 DEF Refilled
    <3>4. 0 * Refill(h) = 0
      BY <1>3
    <3> QED BY <1>3, <2>1, <2>3, <3>1, <3>3, <3>4 DEF BucketInv
  <2>5. CASE ~(credit >= Full)
    <3>1. bucket[h] \in Bucket /\ token[h] \in Token
      BY <1>1, <1>6, <2>1, <2>5
    <3>2. /\ bucket[h].age \in Int /\ token[h].age \in Int /\ token[h].rewound \in Nat
      BY <3>1 DEF Bucket, Token
    <3>3. taken = [token[h] EXCEPT !.rewound = @ + Max0(Stamp(t) - bucket[h].age)]
      BY <1>6, <2>5
    <3>4. /\ token'[h].age = token[h].age
          /\ token'[h].rewound = token[h].rewound + Max0(Stamp(t) - bucket[h].age)
      BY <2>2, <3>1, <3>3 DEF Token
    <3>5. Refilled(h)' = Refilled(h) + Max0(bucket[h].age - Stamp(t))
      BY <1>2, <2>3, <3>2, <3>4 DEF Refilled, Max0
    <3>6. bucket[h] # NoValue
      BY <3>1, NoValueAssumption
    <3> DEFINE earned == Refilled(h) + Max0(bucket[h].age - Stamp(t))
    <3>7. earned \in Nat /\ credit <= earned * Refill(h)
      BY <1>2, <1>6, <3>6, CreditEarned DEF credit
    <3>8. Spent(credit) = credit
      BY <2>5 DEF Spent
    <3> QED BY <1>3, <2>1, <2>3, <3>5, <3>7, <3>8 DEF BucketInv
  <2> QED BY <2>4, <2>5
<1> QED BY <1>5, <1>6

\* The delay a page waits for comes from a text that its host has had (politeness.py:54-63).
LEMMA DelayStep ==
    ASSUME LimitsInv, DelayInv, NEW t \in Tasks, TaskStep(t)
    PROVE  DelayInv' /\ lenient \subseteq lenient'
<1> USE DEF limits, budget, robots
<1>0. LimitTypes /\ CacheInv /\ SharedInv
  BY DEF LimitsInv
<1>1. ASSUME lenient \subseteq lenient', \A u \in Tasks : u # t => task'[u] = task[u],
             task'[t].pc \in {"token", "script"} => \/ task'[t].delay = CrawlDelay
                                                  \/ Host[t] \in lenient'
      PROVE  DelayInv'
  BY <1>1 DEF DelayInv
<1>2. task \in [Tasks -> TaskState] /\ Host[t] \in Hosts /\ Proc[t] \in Procs
  BY <1>0, AskingFacts DEF LimitTypes
<1>3. ASSUME NEW text \in Texts, Resume(t, text), task[t].pc \in {"ask", "load", "fetch"},
             text = "rules" \/ Host[t] \in lenient', lenient \subseteq lenient'
      PROVE  DelayInv'
  <2>1. task[t] \in Asking
    BY <1>0, <1>3, AskingFacts
  <2>2. /\ \A u \in Tasks : u # t => task'[u] = task[u]
        /\ task'[t].pc # "script"
        /\ task'[t].pc = "token" => task'[t].delay = Delay(text)
    BY <1>0, <1>3, <2>1, ResumeFacts
  <2> QED BY <1>1, <1>3, <2>2 DEF Delay
<1>4. ASSUME task'[t].pc \notin {"token", "script"}, lenient' = lenient,
             \A u \in Tasks : u # t => task'[u] = task[u]
      PROVE  DelayInv' /\ lenient \subseteq lenient'
  BY <1>1, <1>4
<1>5. CASE CacheHit(t)
  <2>1. PICK e \in Hits(Proc[t], Host[t]) : Resume(t, e.text)
    BY <1>5 DEF CacheHit
  <2>2. e \in Range(cache[Proc[t]]) /\ e.host = Host[t]
    BY DEF Hits, Entries
  <2>3. cache[Proc[t]] \in Seq(Entry)
    BY <1>0, <1>2 DEF LimitTypes
  <2>4. e \in Entry
    BY <2>2, <2>3 DEF Range
  <2>5. Sound(e)
    BY <1>0, <1>2, <2>2 DEF CacheInv
  <2>6. e.text \in Texts
    BY <2>4 DEF Entry, Texts
  <2>7. e.text = "rules" \/ Host[t] \in lenient
    BY <1>2, <2>2, <2>5, LimitsAssumption DEF Sound
  <2> QED BY <1>3, <1>5, <2>1, <2>6, <2>7 DEF CacheHit
<1>6. CASE CacheMiss(t) \/ SharedMiss(t)
  <2>1. PICK x \in {"load", "fetch"} : task' = [task EXCEPT ![t].pc = x]
    BY <1>6 DEF CacheMiss, SharedMiss
  <2>2. task[t].pc \in {"ask", "load"} /\ lenient' = lenient
    BY <1>6 DEF CacheMiss, SharedMiss
  <2>3. task[t] \in Asking
    BY <1>0, <2>2, AskingFacts
  <2>4. task'[t].pc = x /\ \A u \in Tasks : u # t => task'[u] = task[u]
    BY <1>2, <2>1, <2>3 DEF Asking
  <2> QED BY <1>4, <2>2, <2>4
<1>7. CASE SharedHit(t)
  <2> DEFINE c == shared[Host[t]]
  <2>1. /\ c # NoValue /\ Loaded(t, c.text, c.age) /\ task[t].pc = "load"
    BY <1>7 DEF SharedHit
  <2>2. c.text \in Texts /\ c.age \in Nat /\ c.age < Ttl
    BY <1>0, <1>2, <2>1 DEF LimitTypes, SharedText, SharedInv
  <2>3. lenient \subseteq lenient' /\ (c.text # "rules" => Host[t] \in lenient')
    BY <1>0, <2>1, <2>2, LoadedFacts
  <2>4. Resume(t, c.text)
    BY <2>1 DEF Loaded
  <2> QED BY <1>3, <2>1, <2>2, <2>3, <2>4
<1>8. ASSUME NEW text \in Texts, FetchRobots(t, text)
      PROVE  DelayInv' /\ lenient \subseteq lenient'
  <2>1. Loaded(t, text, 0) /\ Resume(t, text) /\ task[t].pc = "fetch"
    BY <1>8 DEF FetchRobots, Loaded
  <2>2. lenient \subseteq lenient' /\ (text # "rules" => Host[t] \in lenient')
    BY <1>0, <2>1, LimitsAssumption, LoadedFacts
  <2> QED BY <1>3, <2>1, <2>2
<1>9. CASE TryConsume(t) \/ BudgetOpen(t) \/ LimiterOpen(t)
  <2>1. /\ lenient' = lenient
        /\ \E n \in {[pc |-> "ask", asks |-> "delay"], Done} : task' = [task EXCEPT ![t] = n]
    BY <1>9 DEF TryConsume, BudgetOpen, LimiterOpen
  <2>2. task'[t].pc \notin {"token", "script"} /\ \A u \in Tasks : u # t => task'[u] = task[u]
    BY <1>2, <2>1 DEF Done
  <2> QED BY <1>4, <2>1, <2>2
<1>10. CASE ReadClock(t) \/ RunScript(t)
  <2>1. /\ lenient' = lenient /\ task[t].pc \in {"token", "script"}
        /\ \/ task' = [task EXCEPT ![t] = Done]
           \/ task' = [task EXCEPT ![t] = [pc |-> "token", delay |-> task[t].delay]]
           \/ task' = [task EXCEPT ![t] = [pc |-> "script", delay |-> task[t].delay, lag |-> 0]]
    BY <1>10 DEF ReadClock, RunScript
  <2>2. /\ \A u \in Tasks : u # t => task'[u] = task[u]
        /\ task'[t].pc \in {"token", "script"} => task'[t].delay = task[t].delay
    BY <1>2, <2>1 DEF Done
  <2>3. task[t].delay = CrawlDelay \/ Host[t] \in lenient
    BY <2>1 DEF DelayInv
  <2> QED BY <1>1, <2>1, <2>2, <2>3
<1> QED BY <1>5, <1>6, <1>7, <1>8, <1>9, <1>10 DEF TaskStep

LEMMA TokenHolds == Spec => []TokenInv
<1>1. Init => TokenInv
  <2> SUFFICES ASSUME Init PROVE TokenInv
    OBVIOUS
  <2>1. DelayInv
    BY DEF Init, DelayInv
  <2>2. ASSUME NEW h \in Hosts PROVE BucketInv(h)
    BY LimitsAssumption DEF Init, BucketInv
  <2> QED BY <2>1, <2>2 DEF TokenInv
<1>2. LimitsInv /\ TokenInv /\ [Next]_vars => TokenInv'
  <2> SUFFICES ASSUME LimitsInv, TokenInv, [Next]_vars PROVE TokenInv'
    OBVIOUS
  <2>0. LimitTypes /\ DelayInv /\ \A h \in Hosts : BucketInv(h)
    BY DEF LimitsInv, TokenInv
  <2>1. ASSUME NEW t \in Tasks, TaskStep(t) PROVE TokenInv'
    <3>1. DelayInv' /\ lenient \subseteq lenient'
      BY <2>0, <2>1, DelayStep
    <3>2. CASE RunScript(t)
      <4>1. ASSUME NEW h \in Hosts PROVE BucketInv(h)'
        BY <2>0, <3>2, BucketTaken
      <4> QED BY <3>1, <4>1 DEF TokenInv
    <3>3. CASE ~RunScript(t)
      <4>1. UNCHANGED <<bucket, token>>
        BY <2>1, <3>3 DEF TaskStep, CacheHit, CacheMiss, SharedHit, SharedMiss, FetchRobots,
                          TryConsume, BudgetOpen, ReadClock, LimiterOpen, limits
      <4>2. ASSUME NEW h \in Hosts PROVE BucketInv(h)'
        BY <2>0, <3>1, <4>1, BucketStays
      <4> QED BY <3>1, <4>2 DEF TokenInv
    <3> QED BY <3>2, <3>3
  <2>2. CASE Tick
    <3>1. DelayInv'
      BY <2>0, <2>2, TickTask DEF DelayInv, Tick
    <3>2. ASSUME NEW h \in Hosts PROVE BucketInv(h)'
      BY <2>0, <2>2, BucketTicks
    <3> QED BY <3>1, <3>2 DEF TokenInv
  <2>3. CASE UNCHANGED vars \/ \E p \in Procs : LoadElsewhere(p)
    <3>1. UNCHANGED <<task, lenient, bucket, token>>
      BY <2>3 DEF LoadElsewhere, vars, robots, limits
    <3>2. DelayInv'
      BY <2>0, <3>1 DEF DelayInv
    <3>3. ASSUME NEW h \in Hosts PROVE BucketInv(h)'
      BY <2>0, <3>1, BucketStays
    <3> QED BY <3>2, <3>3 DEF TokenInv
  <2> QED BY <2>1, <2>2, <2>3 DEF Next
<1> QED BY <1>1, <1>2, LimitsHold, PTL DEF Spec

\* However late the calls reach Redis, whatever their clocks say and whenever the bucket
\* expires, two tokens of one bucket go to calls whose stamps are at least the crawl delay
\* apart - the default delay once the robots text of the host counted as empty somewhere -
\* less what calls in between moved the stamp back (redis_limiter.py:43-48,
\* token_bucket.lua:26-39, politeness.py:54-71).
THEOREM TokensStaySpaced == Spec => TokensSpaced
<1> DEFINE Spaced(t) ==
             LET h == Host[t] IN
             RunScript(t) /\ task'[t] = Done /\ bucket[h] # NoValue =>
                 token[h].age - Stamp(t) + token[h].rewound >= Spacing(h)
<1>1. LimitsInv /\ TokenInv => \A t \in Tasks : Spaced(t)
  <2> SUFFICES ASSUME LimitsInv, TokenInv, NEW t \in Tasks, RunScript(t), task'[t] = Done,
                      bucket[Host[t]] # NoValue
               PROVE  token[Host[t]].age - Stamp(t) + token[Host[t]].rewound >= Spacing(Host[t])
    OBVIOUS
  <2> DEFINE h == Host[t]
             credit == Credit(h, Stamp(t), task[t].delay)
             earned == Refilled(h) + Max0(bucket[h].age - Stamp(t))
  <2>1. LimitTypes /\ task[t].pc = "script"
    BY DEF LimitsInv, RunScript
  <2>2. h \in Hosts /\ task[t].delay \in {DefaultDelay, CrawlDelay} /\ Stamp(t) \in Int
    BY <2>1, AskingFacts
  <2>3. /\ credit \in Nat /\ Full \in Nat /\ Spacing(h) \in Nat
        /\ Refill(h) \in Nat /\ Refill(h) > 0 /\ Spacing(h) * Refill(h) = Full
    BY <2>1, <2>2, CreditFacts, Units, Rates
  <2>4. credit >= Full
    BY <2>1, <2>2 DEF LimitTypes, RunScript, Done
  <2>5. earned \in Nat /\ credit <= earned * Refill(h) /\ bucket[h].age > Stamp(t)
    BY <2>1, <2>4, CreditEarned
  <2>6. bucket[h].age \in Int /\ token[h].age \in Int /\ token[h].rewound \in Nat
    <3>1. bucket[h] \in Bucket /\ token[h] \in Token
      BY <2>1, <2>2 DEF LimitTypes
    <3> QED BY <3>1 DEF Bucket, Token
  <2>7. earned = token[h].age - Stamp(t) + token[h].rewound
    BY <2>2, <2>5, <2>6 DEF Refilled, Max0
  <2> HIDE DEF earned, credit
  <2>8. earned >= Spacing(h)
    <3>1. earned * Refill(h) \in Nat
      BY <2>3, <2>5
    <3>2. ~(earned * Refill(h) < Spacing(h) * Refill(h))
      BY <2>3, <2>4, <2>5, <3>1
    <3>3. ~(earned < Spacing(h))
      BY <2>3, <2>5, <3>2, Products
    <3> QED BY <2>3, <2>5, <3>3
  <2> QED BY <2>7, <2>8
<1>2. LimitsInv /\ TokenInv => [\A t \in Tasks : Spaced(t)]_vars
  BY <1>1
<1> QED BY <1>2, LimitsHold, TokenHolds, PTL DEF TokensSpaced
=============================================================================
