# Formal model of the web crawler

TLA+ modules, TLC configurations and TLAPS proofs for the crawler in `src/crawler`.
Paths below are relative to `src/crawler` unless they start with `src/`.

## 1. The system

| Part | State it keeps | Operations | Talks to |
|---|---|---|---|
| Single-node engine (`pipeline/engine.py`) | page count, worker tasks | `run`, `_worker`, `_handle` | frontier, pipeline |
| In-memory frontier (`frontier/memory.py`) | FIFO queue, unfinished counter, seen set | `add`, `get`, `task_done`, `join` | engine |
| Pipeline (`pipeline/pipeline.py`) | none of its own | `process` | politeness, breaker, budget, fetcher, dedup, storage |
| Circuit breaker (`resilience/circuit_breaker.py`) | per-host state, failure count, opening time; a gauge | `allow`, `record_success`, `record_failure` | pipeline, metrics |
| Politeness, back-pressure, local limiter (`robots/politeness.py`, `resilience/backpressure.py`, `ratelimit/local.py`) | gate permits, slot permits, token buckets | `slot`, `__aenter__`/`__aexit__`, `acquire` | pipeline, robots cache |
| Fetcher (`fetcher/fetcher.py`) | HTTP session | `fetch` (with retries), `close` | the web |
| Worker (`worker.py`, `pipeline/distributed.py`) | a batch of `_handle` tasks | consumer loop, `_handle`, `_schedule_retry`, `process_message` | Kafka, pipeline, seen-set |
| Kafka frontier (`frontier/kafka_frontier.py`, `frontier/messages.py`) | producer, hash ring | `add_message`, `send_retry`, `send_dlq` | Kafka |
| Content dedup (`dedup/dedup_service.py`, `dedup/simhash.py`) | LSH buckets, in memory or Redis | `is_duplicate` | pipeline |
| URL seen-set (`dedup/bloom.py`, `dedup/seen.py`) | Bloom bits, in memory or Redis | `check_and_add` | `process_message` |
| Storage (`storage/*`) | documents, link edges, crawl rows, bodies | upsert, degree recomputation, staleness queries | pipeline, control plane, recrawl |
| Control plane (`api/service.py`, `local_crawl.py`, `src/run.py`) | crawl row status, running tasks | `create_crawl`, `stop_crawl`, `execute_crawl` | engine, storage, Kafka frontier |
| Redis limiter (`ratelimit/redis_limiter.py`, `token_bucket.lua`) | one bucket per host in Redis | `acquire` | politeness |
| Robots cache, LRU cache (`robots/robots_cache.py`, `cache/lru.py`) | texts per process and in Redis, a lock per origin | `_parser`, `_load`, `get`, `put` | politeness |
| Domain budget (`resilience/budget.py`) | counter per domain | `try_consume` | pipeline |
| Hash ring (`sharding/*`) | ring entries, sorted hashes, nodes | `add_node`, `remove_node`, `get` | Kafka frontier |
| Recrawl (`scheduler/recrawl.py`, `cli.py`) | heap of due URLs | `select_stale`, `schedule`, `pop_due` | storage, Kafka frontier |
| URL and HTML (`url_utils.py`, `parser/html_parser.py`) | none | `normalize_url`, `registered_domain`, `parse_page` | everyone |

What is hard in it: worker tasks interleave at every await and share the frontier, the
breaker, the dedup index and the page budget; outcomes reach the breaker long after the
decision they belong to; a worker process can die, or lose its partitions, between any two
effects of handling a record; a record is delivered again; a stop arrives while workers are
busy, and races the crawl's own end; processes share buckets, texts and counters in a Redis
that may be down; stored pages are read, fetched and written again while the site changes. `PROJECT.json` lists these hazards one by one, each at its line.

What makes each part correct: the engine loses no URL, handles none twice, and `join()`
returns exactly when the work is done; the breaker opens on a run of failures and recovers;
the gates conserve their permits, space the tokens and serve everyone; the fleet commits only
what it handled and loses nothing it published; a crawl's final status tells how it ended;
what is stored of a page is consistent and becomes fresh again; the shared limits hold across
processes; the ring moves few keys; the index misses no near-duplicate; one page has one URL.

## 2. Modules

| Module | Models | Composition |
|---|---|---|
| `WorkPool` | what a frontier promises: a URL is pending until completed once; finished means nothing pending | abstract specification |
| `CrawlEngine` | engine + memory frontier + outcomes of the pipeline + upsert + stop | implements `WorkPool` through the mapping `Pool` |
| `CrawlEngineProofs` | theorems about `CrawlEngine` and `ContentIndex` | |
| `CircuitBreaker`, `CircuitBreakerProofs` | the breaker under concurrent tasks; theorems | |
| `PoliteFetch`, `PoliteFetchProofs` | gate → slot → token bucket → attempts of a fetch; theorems | |
| `KafkaFleet`, `KafkaFleetProofs` | workers, topics, shared Redis and database, crashes, rebalances; theorems | uses `ContentIndex` |
| `ContentIndex` | SimHash, bands, `is_duplicate` | used by `CrawlEngine`, `KafkaFleet` |
| `UrlUtils` | normalisation and links as functions of URL parts | gives `MCCrawlEngine` its site |
| `ControlPlane`, `ControlPlaneProofs` | crawl rows, stop requests, the task of a crawl, the process; theorems | takes the end of `engine.run` from `CrawlEngine` |
| `DocumentStore`, `DocumentStoreProofs` | rows, edges, bodies, conditional GET, recrawl; theorems | |
| `SharedLimits`, `SharedLimitsProofs` | robots cache, Redis budget and token bucket across processes; theorems | fleet counterpart of `PoliteFetch` |
| `HashRing`, `HashRingProofs` | the ring and its measures; theorems about it and about `UrlUtils` | justifies `KafkaFleet`'s `PartitionFor` |
| `MC*` | the small instances TLC checks | |

### CrawlEngine

One action is the code between two awaits that suspend. `MemoryFrontier.add` never suspends,
because its queue has no bound, so seeding and the loop over a page's links are one step each.
`queue`, `unfinished`, `seen`, `processed` are the fields of the same meaning; `pc` and `hold`
say where each worker is and which item it took; `dup` is the local `duplicate` of its
`process()`; `known` is the fingerprint index; `docs` the document rows this crawl wrote
(depth, and whether the row has a storage key); `phase` is where `run`/`execute_crawl` is.
`foundAt`, `done`, `fetched`, `expanded` are history.

`Take`/`Drain` are the loop head of `_worker` within and past the page budget; `Refuse`,
`StartFetch`, `FetchFails`, `NotModified`, `FetchOk`, `SaveFails`, `SavePage` are the ways
through `process()`; `Expand` is the rest of `_handle` together with `task_done`;
`JoinReturns`, `StopCrawl`, `CloseFetcher` are the driver. A stop leaves `run()` inside
`join()`, so the workers stay alive, and after the fetcher is closed their fetches fail.
Steps that the code makes without suspending are sometimes split here, which only adds
interleavings. One model serves the command line (bodies, conditional requests) and the
control plane (stop), so it has the behaviours of both. URLs and links are data: any site,
redirect map, texts and domains, given by constants. A page has a non-empty body.
`concurrency = 0`, with which `join()` waits for ever, is excluded by `WorkersAssumption`.
The instance's site is written as anchors with raw hrefs (relative, upper-case, with
fragments and tracking parameters), and `SiteIsParsed` makes TLC check that the links it is
crawled by are what `UrlUtils` makes of them. `Canon`, the URL a fetched page is stored
under, is any map, so pages whose URL changes when it is normalised again are covered.

### ContentIndex

A fingerprint is the set of its 1 bits, a text a bag of words that stand for their hashes.
The buckets hold a fingerprint once per band, so the index is a set of fingerprints and the
bands show in `Candidates`. Similarity is not transitive, and the engine's instance has a page
within the threshold of two others that are not within it of each other.

### UrlUtils

An href is the record of the parts `urlsplit` finds. Letter case, percent-encoding, the
cleaning of a query, path resolution and the public-suffix list belong to libraries and are
uninterpreted constants (`LibrariesAssumption`: well-typed). Only the spelling of a host is
taken to be stable (`Encoded`). `Quoted` and `Cleaned` are not: `/%2525` becomes `/%25` and
that `/%`, a tracking parameter written `%75tm_source` survives one pass, and the instance has
a path that changes twice (`QuotedTwice`). `Refused` are the URLs for which a library raises,
and which become `None`. `DocumentStore` and `KafkaFleet` identify a page with its URL.

### CircuitBreaker

`state`, `failures` are the fields; `age` is the time since `opened_at`, and `age` and
`failures` are counted only up to the limits the code compares them with, which answers every
comparison as the code does (`Capped` is a bound of the model; the code's counter goes on).
Every crawl of a process has a breaker of its own and all write the one gauge of the process:
`OtherRefresh` is such a write by another crawl, of a count in `OtherCounts`, and `writer`
says whose was the last. `target[t]` is the host a task was allowed to fetch. `Drop` is a
task that was allowed and reports nothing: the domain budget refused it, or it raised. Whether
a host answers (`up`) is the environment's choice.

### PoliteFetch

The tasks of one process in the order of `async with gate, slot` (`pipeline/pipeline.py:105`).
A token is measured in the ticks it takes to refill, so the bucket's arithmetic is exact over
integers: capacity 1.0 is `Delay[h]`, the refill one per tick. `tokens` and `age` are the two
halves of `_state[host]`. The lock is held across the sleeps, as in the code. Retries use the
token of the first attempt, as in the code.

### KafkaFleet

Kafka is external and modelled from its use: a partition is a log with a committed offset, a
rebalance raises `generation`, gives partitions to any workers, and makes positions of batches
polled before it worthless. A `_handle` task is a record in `tasks`; each await that reaches a
store or Kafka is a step, and the look-up and the registration of a fingerprint in Redis are
two. `Fail` is any exception or failed fetch; `Crash` is the death of a worker, an exception
that leaves `gather` included; `Leave` is the stop by a signal, which takes effect between two
batches, so nothing is in hand. The seen-set is the bits of the Bloom filter, set and tested in
one step as the Lua script does, and a false positive loses the URL as it does in the code.
There is no time: a retry may be handled at any moment (`not_before` and the 5 s cap are not
modelled), and no redirects. A message beyond the depth limit or that cannot be decoded is a
`Refuse`. The retry topic is one partition. A `Poll` returns at most `BatchSize` records in
all, from any of the worker's partitions, and possibly from some of them only.

### ControlPlane

`row` is the committed status of a crawl, `task` where the task that runs `execute_crawl` is,
`registry` is `_RUNNING_CRAWLS`. A `session_scope` reads in one step and commits in a later
one, so the end of the task and two stop requests interleave between read and write. A
cancellation is delivered at the task's next step: in the body it ends in the `except` clause
(`CancelledInBody`), before the first step or inside the `finally` it ends the task
(`CancelledOutside`). A COMMIT that its sender no longer waits for, because it was cancelled,
lost its connection or died (`GiveUp`), is in `doubt`: it takes effect at any later moment
(`LateCommit`), or never. A stop request reads the row only when the event loop has delivered
its cancellation, because the database answers in a later iteration; what it reads may still
be overtaken by a `LateCommit`. Row locks are not modelled: a writer that the database would
make wait for another can here also come first, and overwrites as it does after the wait. `RunCrawl` is the crawl of
`run.py --seeds`, whose task is not registered. `ExitAsked`, `CancelLauncher`, `CancelRest`,
`ExitDone` are the shutdown, `Killed` and `Restart` the death of the process. `Stoppable`
bounds the crawls that requests are about, `Posted` those that the API creates.

### DocumentStore

A content is one body a URL may serve and stands for its hash and its ETag; near-duplicates
are classes here. `order` is the table sorted by `last_crawled`. A handler goes through
`Pipeline.process` with conditional requests: `Take` reads the validators, `NotModified` stores
nothing, `Fetched`, `Dedup` (the look-up), `Register`, `Put`, `SavePage` are the rest, `Fails` and `Redelivered` the
faults. `SelectStale`/`Publish` are `crawler recrawl`; `RecomputeDegrees` may run at any time.
Bounds: at most one waiting record per URL, one recrawl at a time, `MaxFaults` faults.

### SharedLimits

A page passes `allowed`, `try_consume`, `crawl_delay` and `acquire` in the pipeline's order.
Times are ages cut off where no comparison distinguishes them any more; a token is worth
`DefaultDelay * CrawlDelay` units, so a refill at either rate is exact over integers. Each
access to Redis may fail and then lets the page through. A text that the parser rejects is
shared but not cached, and its host counts as having no rules (`Loaded`). `textAge` is the time since a text
was fetched from the host, which no field of the code has. `LoadElsewhere` stands for the
other origins that compete for a place in the cache. The fetch of a robots.txt, its write to
Redis and the put into the cache are one step, so the bound of `RobotsFresh` holds up to what
those calls take.

`acquire` reads the clock of its process (`ReadClock`) before it awaits the script
(`RunScript`), which takes the caller's stamp for the present and stores it. Clocks may differ
(`Skew`) and a call may be late (at most `MaxLag` in a run), so stamps reach the bucket out of
order. The history `token` keeps the stamp that got the last token, and in `rewound` how far
later calls moved the bucket's stamp back; a bucket expires after `BucketTtl`, whatever the
delay. `Waiting` are tasks that have passed the gates before the token at the start: a bound,
so that a third page can reach the limiter although the budget admits one.

### HashRing

The hash function is data: every placement of the virtual nodes is an initial state, with
collisions. `ring` is `_ring`, `places` counts the occurrences in `_sorted_hashes`, which
`remove_node` may leave without an entry when hashes collide.

## 3. Runs

| Run | Expectation | What it shows |
|---|---|---|
| `engine_workers` | pass | task accounting, soundness of `join`, each URL once, overshoot of the page budget, provenance of depths, closure of a finished crawl, one body per content, termination, refinement of `WorkPool` |
| `engine_stop` | violation | pages are saved after the crawl is marked stopped |
| `engine_redirect_body` | violation | a redirect to a stored page erases its storage key |
| `breaker` | pass | counting, opening, reopening, gauge as far as it is this crawl's, recovery |
| `breaker_probe` | violation | more than one probe in the half-open state |
| `politeness` | pass | permits, exclusive bucket, spacing of tokens, everyone served |
| `fleet` | pass | at-least-once, one publication per child, retries before dead letters, no lost URL, draining |
| `fleet_links` | violation | a record handled again after a crash never publishes its links |
| `control_plane` | pass | truthful and lasting final statuses, every running crawl settles |
| `document_store` | pass | keys lead to bodies, degrees count stored edges, pages become fresh |
| `shared_limits` | pass | caps of cache, lock and budget, age of robots texts, spacing of stamps across processes |
| `hash_ring` | pass | which keys a change of the ring moves |

Bounds. `engine_workers` has three workers and a page budget of three, on a site with enough
pages that three more can be in flight when the budget is reached: two seeds, a page
reachable at two depths, an out-of-domain link, an over-long URL, a document that is not HTML,
a redirect and two near-duplicates, and
every order of links and seeds is explored. `breaker` has two hosts, so that the gauge counts
more than one breaker, two tasks, so that a late outcome meets every state the other task
brought the breaker to, and threshold and cooldown of two, the least at which counting and
waiting differ from being immediate; the other crawls write 0 or 1, less or more than what
this one has open. `politeness` has four tasks, three permits and two slots per host: the three
tasks of the slow host can hold all permits, one of them waiting for a slot inside the gate,
while the task of the other host waits. `fleet` allows
one crash or rebalance (`MaxRebalances`) and two faults (`MaxFaults`): enough for a record to
be redelivered at every point and for a message to use up its retry and be dead-lettered;
a batch holds three records, of one or several partitions; its
filter has one URL to check beside the seeds, so a false positive cannot happen there.
`control_plane` has two crawls, one of them `Stoppable` by two requests at once and created by
the API or by `run.py`, so that requests race each other, the task and a late COMMIT while the
exit has another crawl to cancel; the process
may end and start again any number of times. `document_store` has a page that answers 304, one
whose small edit adds a link and one that is not HTML, two handlers and one fault; `Limit` is
two, one more than the pages that answer 304, which `EventuallyFresh` needs (with a limit of
one TLC finds the starvation below). `shared_limits` has two processes, one with two tasks, and
a cache of one text, so that every hit can be evicted; the clock of the second process is one
tick ahead, a call may be one tick late, one task waits at the limiter from the start, and
crawl delay, default delay and times to live are the least that differ. `hash_ring` covers every placement of three
nodes with two virtual nodes on six hashes, up to renaming; at most `MaxPlaces` virtual nodes
share a hash.

Fairness. Engine: each worker keeps taking steps, since every fetch has a timeout, and the
event loop resumes the driver; a stop is never required. Breaker: time passes, each host's
URLs keep being offered, and not every allowed task of a host is dropped. Gates: attempts end
by their timeout, sleeps end, and waiters of asyncio semaphores and locks are served in order,
hence strong fairness of `Enter`, a task's wait for the gate, its slot or its bucket. Fleet: workers poll, awaits are answered, handled batches are
committed; crashes, rebalances and faults are never required and are finitely many. Control
plane: the event loop resumes every task and request that can go on, and `engine.run` ends
(`CrawlQuiesces`). Documents: handlers go on, records are delivered, and the operator repeats
the recrawl when its records have been taken, hence strong fairness for the selection. The
shared limits and the ring have no liveness property, and no fairness.

Every property of a passing run has a mutant in `PROJECT.json`: a plausible bug in a mapped
definition under which TLC finds the property violated.

### Disagreements between code and documentation

The four violation runs are the `findings`. Modelling also met these, which no run checks:
`--max-pages` says "Stop after this many pages" (`cli.py:95`) while pages in flight overshoot
it (`OvershootBound` gives the exact bound); with several workers a URL can be found deeper
than breadth-first order would (`frontier/memory.py:3`); a save that fails after the
fingerprint was registered leaves near-duplicates without any body (`pipeline/pipeline.py:143`);
a late success ends a breaker's cooldown early and `allow()` leaves the gauge stale
(`circuit_breaker.py:67,77`); in the fleet, seeds are not put in the seen-set
(`pipeline/distributed.py:28-29`), a rebalance in mid-batch gives a partition two handlers, and
look-up and registration of a fingerprint in Redis are two steps (`dedup_service.py:67-83`).

From the later modules:

- A stop of `run.py`'s own crawl, or in the gap between the row's commit and the launch, marks
  the row but finds no task; the crawl goes on and overwrites the status when it ends. A stop
  that read the row as running may overwrite "completed". And an answer need not be final when
  the stop cancels the task while its COMMIT is on the way (`local_crawl.py:107-110`): the
  first request reads "running", the COMMIT takes effect, a second request answers "completed",
  and the first commits "stopped". `loose` in `AnswerIsFinal` names exactly these crawls.
- The circuit gauge is overwritten by the breaker of whichever crawl of the process refreshed
  last (`circuit_breaker.py:98-99`, `local_crawl.py:69`), so with two crawls it can report
  fewer open hosts than there are; `GaugeCoversOpen` is about the time until then.
- Rows stay "running" when the process dies, and nothing repairs them at a start; crawls on
  the Kafka backend never get "completed" (`excused` in `CrawlSettles`).
- A 304 does not move `last_crawled`, so pages that answer 304 stay the stalest and, if there
  are `--limit` of them, keep all others from being selected (against
  `repositories.py:287-288`).
- A recrawled page without validators is a near-duplicate of itself and loses storage key and
  links (against `sinks.py:51-52`); a handler that comes late overwrites newer content.
- A robots.txt that could not be fetched is shared as empty with the whole fleet, and a text
  can be used for almost twice its time to live (`RobotsFresh` gives the bound).
- "politeness holds even when many machines crawl the same domain" (`redis_limiter.py:3-4`):
  a stamp that is older than the bucket's sets the bucket's clock back, and the next call is
  credited for the same time again. That happens with skewed clocks, and with equal ones when
  a call is late. Without its `rewound` term TLC violates `TokensSpaced` with a `Skew` of 1
  and no lag, and with a lag of 1 and no skew. Also, a crawl delay of more than the hour of
  `ttl_ms` outlives the bucket, which is full when it is created again.
- When the hashes of a ring collide (mmh3 has 32 bits), removing a node can make `get` raise
  `KeyError` (`consistent_hash.py:52`).
- "collapses the many textual forms of the *same* resource into one canonical key"
  (`url_utils.py:3-6`): http and https, and the forms with and without a trailing slash, stay
  apart; a canonical key can change when it is normalised again (see `UrlUtils`), as the URL of
  a stored page is at a recrawl; and of a repeated parameter only the first is kept, so
  different resources can share a key.
- `config.py` does not relate `simhash_hamming_threshold` to `simhash_lsh_bands`, while the
  index is complete only with a smaller threshold (`IndexIsComplete`).

## 4. Proofs

The theorems hold for every value of the constants that satisfies the named assumptions
(finite sets of URLs, workers, tasks and hosts; natural-number limits; well-typed site data).

- `CrawlEngineProofs`. The inductive invariant `IndInv` is the conjunction of `TypeOK`,
  `Accounting`, `JoinIsSound`, `EachUrlOnce`, `OvershootBound` and `StatsTruthful`. None is
  inductive alone: `JoinIsSound` needs `Accounting` (a zero counter means nothing queued or in
  hand), `StatsTruthful` needs `EachUrlOnce` (a URL fetched twice would be counted twice),
  `EachUrlOnce` needs that nothing moves after `join`. The lemmas `TakeHead` and `AddAll` say
  what taking from and adding to a queue without repeats does to its set of URLs;
  `FinishItem` treats the steps that end in `task_done` once for all of them. From `IndInv`
  follow the six invariants and `EngineImplementsWorkPool`, the refinement of
  `WorkPool`'s safety part.
  The provenance of depths needs `ProvenanceInv`: items in the queue and in a worker's hands
  carry the depth their URL was found at, expanded pages are done (so their own depth no
  longer changes), and every link in scope of an expanded page has been added. Closure of a
  finished crawl follows from it and from `EachUrlOnce` with an empty queue. One body per
  content needs `ContentInv`: a body that is stored, *or that a worker is about to store*, is
  registered, and any two of these are further apart than the threshold; the window between
  the registration and the save is where two workers could meet. It rests on
  `IndexIsComplete`: fingerprints that differ in every band differ in at least as many bits as
  there are bands (an injection from bands to differing bits), so searching the buckets is as
  good as searching everything. Both assume `Threshold < BandCount`, as the defaults of
  `config.py` do.
- `CircuitBreakerProofs`. `CountInv` (types and `ClosedCountsStreak`) is inductive; from it
  follow that a closed breaker opens only at the threshold and that an open one ends only by
  cooldown or success. The gauge bound is inductive with the types: every step that opens a
  host also refreshes the gauge, and then `writer` is this breaker; after a write by another
  crawl nothing is claimed until the next refresh.
- `PoliteFetchProofs`. `CreditInv` — a bucket holds no more credit than the time since its
  last grant explains — is what makes the spacing of tokens inductive. Conservation of permits
  counts the tasks past the gate and in each slot.
- `KafkaFleetProofs`. Five layers, each resting on the ones before. `FleetTypes` adds to the
  types where a task stands with its record. `BatchInv` gives `CommittedIsHandled`: the tasks
  of the current generation cover every offset from the committed one up to their own, so a
  commit up to the last of them skips nothing; tasks of an older generation cannot commit.
  `Outstanding` gives `NoUrlLost`: a URL with a handled record has its outcome or another
  record nobody has handled, and a drained topic has none. `RetryInv` says that a message with
  *n* attempts went through the retry topic with 1 to *n* of them. `ChildInv` gives
  `ChildEnqueuedOnce`: a child that is published, or that a task is about to publish, has its
  bits in the seen-set, so no other task will find it new, and a child about to be published
  is in one task's hands and on no topic yet.
- `ControlPlaneProofs`. `StatusInv` follows the status a task is going to write from its
  origin to the row: what it will write is earned before it writes (`TaskEarned`), also when
  the COMMIT takes effect after its sender is gone (`DoubtEarned`), and who is cancelled was
  asked to stop (`AskedFirst`). `AnswersInv` is about the time between read and write, for
  crawls that are not `loose`: their COMMITs in doubt are all "stopped"; while a request is
  under way, the task has nothing left to write but "stopped", or is about to be cancelled; a
  request that read "running" meets only its own kind. `AnswerIsFinal` is a consequence for
  each step.
- `DocumentStoreProofs`. `BodyAvailable` needs that a handler about to save has its content
  among the bodies (`TasksOK`); the degrees need that edges never shrink and that the
  cardinalities of finite edge sets are monotonic (`EdgesGrow`, `LinksCounted`).
- `SharedLimitsProofs`. `LimitsInv`: caches as sequences with one entry per host and within
  capacity, which `MoveFacts` and `PutFacts` show to survive a hit and a put with eviction;
  every cached text less than a `Ttl` older than its entry (why twice the `Ttl` is the bound);
  one lock holder; no more admitted than counted. For the spacing of tokens `BucketInv` bounds
  the credit by the time the bucket was refilled for since its last token: from the stamp of
  that token to the bucket's own, and what was rewound in between a second time, at the host's
  fastest rate. `CreditEarned` shows that a call preserves it whichever of the two stamps is
  the later one; it survives the moment at which a host becomes lenient because a faster
  refill only raises the bound. Nothing is assumed of the clocks, of the lateness of calls or
  of `BucketTtl`.
- `HashRingProofs`. `RingIsExact`: without collisions the entries and places are exactly the
  virtual nodes of the present nodes. From it, and from a lemma on the nearest place
  clockwise before and after a change, follows `RingMovesLittle`, whose part about added
  nodes needs no such assumption. For the keys: `LinksAreKeys` (a link is an absolute http(s)
  URL without fragment, scheme and host in one spelling), `NormalizeAgain` (a second
  normalisation changes nothing but what the libraries do to path and query) and
  `DomainIsStable` (so partition, budget and scope of a page never change), by cases, from the
  stable spelling of hosts; idempotence of path or query is not assumed.

Every invariant and action property of the passing runs has a theorem. Only model-checked:
liveness (`CrawlQuiesces`, `Recovers`, `EveryTaskServed`, `FleetDrains`, `CrawlSettles`,
`EventuallyFresh` and the fairness part of `ImplementsWorkPool`), which the prover cannot do.
The prover cannot reason about `SelectSeq` either, so the modules take an element out of a
sequence with `RemoveAt`.

## 5. Not modelled, and the plan

Not modelled: configuration and wiring (no behaviour), metrics, logging, dashboard and
benchmark (observation only), migrations, read-side queries and endpoints (they change
nothing), text and title extraction, the libraries behind URL normalisation, process
supervision of `run.py --distributed` (it ends every process when one ends), creation of the
MinIO bucket (a check and a create that may race; the loser's put fails and is retried), the
lengths of back-offs and retry delays, expiry of Redis keys other than buckets and robots
texts, `next_interval` and `seconds_until_next` (no caller).

Next:

1. For the fleet, an abstract specification of at-least-once handling (a published record is
   pending until it is handled, possibly more than once) that `KafkaFleet` refines, as
   `CrawlEngine` refines `WorkPool`.
2. Row locks of the database in the control plane, and which of the `loose` cases they rule
   out; the starvation by pages that answer 304 as a run of its own.
3. A clock for the retry topic.
