----------------------------- MODULE KafkaFleet -----------------------------
(***************************************************************************)
(* The distributed crawl: CrawlWorker (worker.py) consuming the frontier    *)
(* and retry topics in a consumer group, process_message                     *)
(* (pipeline/distributed.py), KafkaFrontier's producers                      *)
(* (frontier/kafka_frontier.py), and the stores the fleet shares: the        *)
(* Redis seen-set, the Redis content fingerprints and the document table.    *)
(* Workers start, stop and crash, and partitions move while a batch is being *)
(* handled.                                                                  *)
(*                                                                          *)
(* Kafka is external: a partition is an append-only log with one committed   *)
(* offset; after a rebalance every member reads again from the committed     *)
(* offsets of the partitions it is given, and a batch polled before it can   *)
(* no longer be committed.                                                   *)
(***************************************************************************)
EXTENDS Naturals, Sequences, FiniteSets, ContentIndex

CONSTANTS
    Urls,
    Workers,
    Seeds,         \* the URLs "crawler seed" or the API publishes
    Links,         \* Links[u]: what parse_page finds on page u
    Text,          \* Text[u]: what extract_text finds on page u, NotHtml if not HTML
    NotHtml,
    Validators,    \* pages whose answers carry an ETag or Last-Modified
    Partitions,    \* partitions of the frontier topic
    PartitionFor,  \* PartitionFor[u]: ring.get(registered_domain(u))
    RetryPart,     \* the partition of the retry topic
    Hash,          \* Hash[u]: the two MurmurHash3 values of u
    BloomSize,     \* m, the bits of the Bloom filter
    BloomHashes,   \* k, the bits set for one URL
    MaxDepth,
    MaxRetries,    \* kafka.max_retries
    BatchSize,     \* getmany's max_records
    MaxFaults,     \* bound: failed fetches and exceptions in one behaviour
    MaxRebalances  \* bound: crashes, stops and rebalances in one behaviour

ASSUME UrlsAssumption == Seeds \subseteq Urls /\ IsFiniteSet(Urls)
ASSUME PagesAssumption ==
    Links \in [Urls -> SUBSET Urls] /\ PartitionFor \in [Urls -> Partitions]
ASSUME TopicsAssumption == RetryPart \notin Partitions
ASSUME BloomAssumption ==
    /\ BloomSize \in Nat \ {0} /\ BloomHashes \in Nat \ {0}
    /\ \A u \in Urls : Hash[u][1] \in Nat /\ Hash[u][2] \in Nat /\ Hash[u][2] % 2 = 1
ASSUME LimitsAssumption ==
    /\ MaxDepth \in Nat /\ MaxRetries \in Nat /\ BatchSize \in Nat \ {0}
    /\ MaxFaults \in Nat /\ MaxRebalances \in Nat

Topics == Partitions \cup {RetryPart}

VARIABLES
    log,         \* the records of each partition
    committed,   \* the group's committed offset of each partition
    dlq,         \* messages on the dead-letter topic
    owner,       \* the worker each partition is assigned to
    generation,  \* number of rebalances so far
    tasks,       \* the _handle tasks of every worker's current batch
    seen,        \* the bits set in RedisBloomFilter's bitfield
    known,       \* fingerprints in the Redis LSH index
    docs,        \* the document table
    faults,      \* number of faults so far
    handled,     \* history: records whose _handle returned, as <<partition, offset>>
    resolved     \* history: URLs that reached a final outcome

vars == <<log, committed, dlq, owner, generation, tasks, seen, known, docs, faults,
          handled, resolved>>

Message == [url : Urls, depth : 0..MaxDepth, attempts : 0..MaxRetries]

\* A _handle task: the record it handles and where it is suspended.
Task == [worker : Workers, part : Topics, off : Nat, gen : Nat,
         pc : {"fetch", "register", "save", "links", "enqueue", "retry", "requeue", "done"},
         dup : BOOLEAN, todo : SUBSET Urls, link : SUBSET Urls]

\* The fingerprint of every page that has one.
Fingerprint == [u \in {v \in Urls : Text[v] # NotHtml} |-> simhash_text(Text[u])]

msg(t) == log[t.part][t.off]
TasksOf(w) == {t \in tasks : t.worker = w}

-----------------------------------------------------------------------------
(* Helpers                                                                  *)

Send(p, m) == log' = [log EXCEPT ![p] = Append(@, m)]

Step(t, next) == tasks' = (tasks \ {t}) \cup {next}
Goto(t, p) == Step(t, [t EXCEPT !.pc = p])

\* _handle returns.
Return(t) ==
    /\ Step(t, [t EXCEPT !.pc = "done", !.todo = {}, !.link = {}])
    /\ handled' = handled \cup {<<t.part, t.off>>}

\* The task goes on with the links in rest, or returns when none is left.
Continue(t, rest) ==
    IF rest = {}
    THEN Return(t) /\ resolved' = resolved \cup {msg(t).url}
    ELSE /\ Step(t, [t EXCEPT !.pc = "links", !.todo = rest, !.link = {}])
         /\ UNCHANGED <<handled, resolved>>

-----------------------------------------------------------------------------
\* The seeds have been published, each on its domain's partition and in any order; every
\* worker has joined the group.
Init ==
    /\ LET SeedMessage == [url : Seeds, depth : {0}, attempts : {0}]
           SeedsOn(p) == {u \in Seeds : PartitionFor[u] = p}
       IN  /\ log \in [Topics -> UNION {[1..n -> SeedMessage] : n \in 0..Cardinality(Seeds)}]
           /\ \A p \in Topics :
                 /\ {log[p][i].url : i \in DOMAIN log[p]} = SeedsOn(p)
                 /\ Len(log[p]) = Cardinality(SeedsOn(p))
    /\ committed = [p \in Topics |-> 0]
    /\ dlq = {}
    /\ owner \in [Topics -> Workers]
    /\ generation = 0
    /\ tasks = {}
    /\ seen = {}
    /\ known = {}
    /\ docs = << >>
    /\ faults = 0
    /\ handled = {}
    /\ resolved = {}

-----------------------------------------------------------------------------
(* The consumer loop of one worker                                          *)

NewTask(w, p, o) ==
    [worker |-> w, part |-> p, off |-> o, gen |-> generation,
     pc |-> IF p = RetryPart THEN "requeue" ELSE "fetch",
     dup |-> FALSE, todo |-> {}, link |-> {}]

\* The tasks for the next records of w's partitions, upTo[p] of p at most, from the
\* committed offset on.
Batch(w, upTo) ==
    UNION {{NewTask(w, p, o) :
               o \in {k \in 1..Len(log[p]) : committed[p] < k /\ k <= committed[p] + upTo[p]}} :
           p \in {q \in Topics : owner[q] = w}}

\* getmany returns max_records in all at the most, of some or all of the partitions, and
\* the loop starts one _handle task for each.
Poll(w) ==
    /\ TasksOf(w) = {}
    /\ \E upTo \in [Topics -> 0..BatchSize] :
          /\ Cardinality(Batch(w, upTo)) \in 1..BatchSize
          /\ tasks' = tasks \cup Batch(w, upTo)
    /\ UNCHANGED <<log, committed, dlq, owner, generation, seen, known, docs, faults,
                   handled, resolved>>

\* Mutant: the loop commits as soon as it has polled.
BatchStarted(w) == TRUE

\* gather returned: every task of the batch has.
BatchHandled(w) == \A t \in TasksOf(w) : t.pc = "done"

\* Mutant: the commit does not move the group's offsets.
PositionLost(w, p) == committed[p]

\* The position of partition p after w's batch.  A batch polled before the last
\* rebalance has lost its positions.
Position(w, p) ==
    LET read == {t.off : t \in {x \in TasksOf(w) : x.part = p /\ x.gen = generation}}
    IN  IF read = {} THEN committed[p] ELSE CHOOSE o \in read : \A k \in read : k <= o

\* consumer.commit, after gather.
Commit(w) ==
    /\ TasksOf(w) # {}
    /\ BatchHandled(w)
    /\ committed' = [p \in Topics |-> Position(w, p)]
    /\ tasks' = tasks \ TasksOf(w)
    /\ UNCHANGED <<log, dlq, owner, generation, seen, known, docs, faults, handled, resolved>>

\* The partitions are given out again, among the workers in group.
Regroup(group) ==
    /\ generation < MaxRebalances
    /\ generation' = generation + 1
    /\ owner' \in [Topics -> group]
    /\ UNCHANGED <<log, committed, dlq, seen, known, docs, faults, handled, resolved>>

\* A worker starts and joins the group, or one polls too late and joins it again.
Rebalance ==
    /\ Regroup(Workers)
    /\ UNCHANGED tasks

\* A worker asked to stop finishes its batch, leaves the loop and with it the group.
Leave(w) ==
    /\ TasksOf(w) = {}
    /\ Regroup(Workers \ {w})
    /\ UNCHANGED tasks

\* A worker dies with its batch: a crash, or an exception that leaves gather.  It is
\* restarted by the time partitions are given out.
Crash(w) ==
    /\ TasksOf(w) # {}
    /\ Regroup(Workers)
    /\ tasks' = tasks \ TasksOf(w)

-----------------------------------------------------------------------------
(* _handle, for a record of the frontier topic                               *)

\* robots, breaker or budget refuses the URL: no retry.
Refuse(t) ==
    /\ t.pc = "fetch"
    /\ Return(t)
    /\ resolved' = resolved \cup {msg(t).url}
    /\ UNCHANGED <<log, committed, dlq, owner, generation, seen, known, docs, faults>>

\* The page is stored with a validator and the site answers 304.
NotModified(t) ==
    /\ t.pc = "fetch"
    /\ msg(t).url \in DOMAIN docs \cap Validators
    /\ Return(t)
    /\ resolved' = resolved \cup {msg(t).url}
    /\ UNCHANGED <<log, committed, dlq, owner, generation, seen, known, docs, faults>>

\* The page arrives; RedisContentDedup reads the buckets of its fingerprint.
FetchOk(t) ==
    LET u == msg(t).url
        html == u \in DOMAIN Fingerprint
        dup == html /\ is_duplicate(known, Fingerprint[u])
    IN
    /\ t.pc = "fetch"
    /\ Step(t, [t EXCEPT !.pc = IF html /\ ~dup THEN "register" ELSE "save", !.dup = dup])
    /\ UNCHANGED <<log, committed, dlq, owner, generation, seen, known, docs, faults,
                   handled, resolved>>

\* RedisContentDedup adds the fingerprint, a round trip after it looked.
Register(t) ==
    /\ t.pc = "register"
    /\ known' = known \cup {Fingerprint[msg(t).url]}
    /\ Goto(t, "save")
    /\ UNCHANGED <<log, committed, dlq, owner, generation, seen, docs, faults,
                   handled, resolved>>

\* upsert_document: a row takes every column from the record, a missing
\* storage_key included.
Upsert(url, row) ==
    docs' = [v \in DOMAIN docs \cup {url} |-> IF v = url THEN row ELSE docs[v]]

\* The body is put (unless a near-duplicate) and the upsert commits; then the links
\* are followed unless the page is a near-duplicate or at the depth limit.
Save(t) ==
    /\ t.pc = "save"
    /\ Upsert(msg(t).url, [depth |-> msg(t).depth, key |-> ~t.dup])
    /\ Continue(t, IF t.dup \/ msg(t).depth >= MaxDepth THEN {} ELSE Links[msg(t).url])
    /\ UNCHANGED <<log, committed, dlq, owner, generation, seen, known, faults>>

\* Mutant: the filter answers that every URL is new.
NeverSeen(v) == FALSE

\* The k bits of a URL: h1 + i * h2, modulo m.
bloom_indices(v) == {(Hash[v][1] + i * Hash[v][2]) % BloomSize : i \in 0..(BloomHashes - 1)}

\* Every bit of v is set already; another URL's bits may have done it.
AlreadySeen(v) == bloom_indices(v) \subseteq seen

\* seen.check_and_add of the next link, one atomic script in Redis.
CheckLink(t, v) ==
    /\ t.pc = "links"
    /\ v \in t.todo
    /\ seen' = seen \cup bloom_indices(v)
    /\ IF AlreadySeen(v)
       THEN Continue(t, t.todo \ {v})
       ELSE /\ Step(t, [t EXCEPT !.pc = "enqueue", !.todo = @ \ {v}, !.link = {v}])
            /\ UNCHANGED <<handled, resolved>>
    /\ UNCHANGED <<log, committed, dlq, owner, generation, known, docs, faults>>

\* The link is published on its domain's partition of the frontier topic.
EnqueueLink(t, v) ==
    /\ t.pc = "enqueue"
    /\ v \in t.link
    /\ Send(PartitionFor[v], [url |-> v, depth |-> msg(t).depth + 1, attempts |-> 0])
    /\ Continue(t, t.todo)
    /\ UNCHANGED <<committed, dlq, owner, generation, seen, known, docs, faults>>

\* The fetch fails, or Redis, the database or Kafka raises in process_message.
Fail(t) ==
    /\ t.pc \in {"fetch", "register", "save", "links", "enqueue"}
    /\ faults < MaxFaults
    /\ faults' = faults + 1
    /\ Step(t, [t EXCEPT !.pc = "retry", !.todo = {}, !.link = {}])
    /\ UNCHANGED <<log, committed, dlq, owner, generation, seen, known, docs, handled,
                   resolved>>

\* Mutant: the last retry is not made.
OutOfAttemptsEarly(t) == msg(t).attempts + 1 >= MaxRetries

\* Mutant: one retry too many.
OutOfAttemptsLate(t) == msg(t).attempts > MaxRetries

OutOfAttempts(t) == msg(t).attempts >= MaxRetries

\* _schedule_retry: a message out of attempts goes to the dead-letter topic.
SendDlq(t) ==
    /\ t.pc = "retry"
    /\ OutOfAttempts(t)
    /\ dlq' = dlq \cup {msg(t)}
    /\ resolved' = resolved \cup {msg(t).url}
    /\ Return(t)
    /\ UNCHANGED <<log, committed, owner, generation, seen, known, docs, faults>>

SendRetry(t) ==
    /\ t.pc = "retry"
    /\ ~OutOfAttempts(t)
    /\ Send(RetryPart, [msg(t) EXCEPT !.attempts = @ + 1])
    /\ Return(t)
    /\ UNCHANGED <<committed, dlq, owner, generation, seen, known, docs, faults, resolved>>

\* Mutant: a record of the retry topic is consumed without being published again.
RequeueDropped(t) ==
    /\ t.pc = "requeue"
    /\ Return(t)
    /\ UNCHANGED <<log, committed, dlq, owner, generation, seen, known, docs, faults,
                   resolved>>

\* _handle, for a record of the retry topic: publish it on the frontier again.
Requeue(t) ==
    /\ t.pc = "requeue"
    /\ Send(PartitionFor[msg(t).url], msg(t))
    /\ Return(t)
    /\ UNCHANGED <<committed, dlq, owner, generation, seen, known, docs, faults, resolved>>

HandleStep(t) ==
    \/ Refuse(t) \/ NotModified(t) \/ FetchOk(t) \/ Register(t) \/ Save(t)
    \/ \E v \in t.todo : CheckLink(t, v)
    \/ \E v \in t.link : EnqueueLink(t, v)
    \/ Fail(t) \/ SendDlq(t) \/ SendRetry(t) \/ Requeue(t)

-----------------------------------------------------------------------------
Drained == tasks = {} /\ \A p \in Topics : committed[p] = Len(log[p])

\* The topics are drained: every worker waits in getmany.
Waiting == Drained /\ UNCHANGED vars

Next ==
    \/ \E w \in Workers : Poll(w) \/ Commit(w) \/ Crash(w) \/ Leave(w)
    \/ \E t \in tasks : HandleStep(t)
    \/ Rebalance
    \/ Waiting

\* Workers keep polling, every await of a task is answered, a handled batch is
\* committed.  Crashes, stops, rebalances and faults are never required to happen.
Fairness ==
    /\ \A w \in Workers : WF_vars(Poll(w)) /\ WF_vars(Commit(w))
    /\ \A w \in Workers : WF_vars(\E t \in TasksOf(w) : HandleStep(t))

Spec == Init /\ [][Next]_vars /\ Fairness

-----------------------------------------------------------------------------
(* Properties                                                               *)

\* The variables have the types the code gives them.
TypeOK ==
    /\ log \in [Topics -> Seq(Message)]
    /\ committed \in [Topics -> Nat]
    /\ dlq \subseteq Message
    /\ owner \in [Topics -> Workers]
    /\ generation \in 0..MaxRebalances
    /\ tasks \subseteq Task
    /\ seen \subseteq 0..(BloomSize - 1)
    /\ known \subseteq Fingerprints
    /\ DOMAIN docs \subseteq Urls
    /\ faults \in 0..MaxFaults
    /\ resolved \subseteq Urls

\* At-least-once: a committed record has been handled to the end by some worker,
\* whatever crashes and rebalances came in between (worker.py:8-10, 98-111).
CommittedIsHandled ==
    \A p \in Topics : \A o \in 1..committed[p] : <<p, o>> \in handled

\* Across the whole fleet a URL is published as a child at most once, however often
\* its parents are handled (distributed.py:28-29, 34-37).
ChildEnqueuedOnce ==
    \A p, q \in Partitions : \A i \in 1..Len(log[p]), j \in 1..Len(log[q]) :
        LET m == log[p][i]
            n == log[q][j]
        IN  /\ m.url = n.url /\ m.depth > 0 /\ n.depth > 0
            /\ m.attempts = 0 /\ n.attempts = 0
            => p = q /\ i = j

\* A message reaches the dead-letter topic only after max_retries retries, each of
\* them published on the retry topic (worker.py:157-164).
DlqAfterAllRetries ==
    \A m \in dlq : \A k \in 1..MaxRetries :
        \E i \in 1..Len(log[RetryPart]) : log[RetryPart][i] = [m EXCEPT !.attempts = k]

\* When the topics are drained, every URL that was ever published has a final
\* outcome: stored, unchanged, refused or dead-lettered (worker.py:145-164).
NoUrlLost ==
    Drained => \A p \in Topics : \A i \in 1..Len(log[p]) : log[p][i].url \in resolved

\* The fleet drains its topics once crashes, stops, rebalances and faults cease,
\* whichever workers went and came back (worker.py:97-117).
FleetDrains == <>[]Drained

\* "Reprocessing a message is harmless" (worker.py:8-10, DESIGN.md:115-117): once
\* drained, the links of every stored page above the depth limit have been published.
LinksFollowed ==
    Drained =>
        \A u \in DOMAIN docs : docs[u].depth < MaxDepth =>
            \A v \in Links[u] : \E i \in 1..Len(log[PartitionFor[v]]) :
                log[PartitionFor[v]][i].url = v
=============================================================================
