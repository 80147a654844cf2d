---------------------------- MODULE CrawlEngine ----------------------------
(***************************************************************************)
(* The single-node crawl: CrawlEngine (pipeline/engine.py) driving         *)
(* Pipeline.process (pipeline/pipeline.py) over a MemoryFrontier            *)
(* (frontier/memory.py), started and stopped by the control plane          *)
(* (local_crawl.py, api/service.py).                                        *)
(*                                                                          *)
(* asyncio interleaves tasks only at awaits that suspend, so one action is  *)
(* the code between two such awaits.  frontier.add never suspends (its      *)
(* queue is unbounded): seeding, and the whole loop over a page's links,    *)
(* are one step each.                                                       *)
(***************************************************************************)
EXTENDS Naturals, Sequences, FiniteSets, ContentIndex

CONSTANTS
    Urls,            \* normalised URLs
    Workers,         \* the worker tasks, "concurrency" many
    Seeds,           \* the seeds that normalize_url accepts
    Links,           \* Links[u]: what parse_page finds on page u
    Canon,           \* Canon[u]: normalised final URL of a fetch of u (redirects)
    Domain,          \* Domain[u]: registered_domain(u)
    TooLong,         \* URLs longer than max_url_length
    AllowedDomains,  \* the explicit allow-list, or NoList
    NoList,
    SameDomainOnly,  \* same_domain_only
    Text,            \* Text[u]: what extract_text finds on page u, NotHtml if not HTML
    NotHtml,
    NoItem,          \* what an idle worker holds
    Conditional,     \* conditional_get: a fetch may answer 304
    MaxDepth,        \* max_depth
    MaxPages         \* max_pages

ASSUME UrlsAssumption == IsFiniteSet(Urls) /\ Seeds \subseteq Urls
ASSUME WorkersAssumption == IsFiniteSet(Workers) /\ Workers # {}
ASSUME PagesAssumption ==
    /\ Links \in [Urls -> SUBSET Urls]
    /\ Canon \in [Urls -> Urls]
    /\ \A u \in Urls : Text[u] = NotHtml => Links[u] = {}
ASSUME BoundsAssumption == MaxDepth \in Nat /\ MaxPages \in Nat

VARIABLES
    queue,       \* MemoryFrontier._queue
    unfinished,  \* its unfinished-task counter, which join() waits for
    seen,        \* MemoryFrontier._seen
    processed,   \* CrawlEngine._processed
    pc,          \* where each worker task is suspended
    hold,        \* the FrontierItem each worker took, NoItem when idle
    dup,         \* the "duplicate" local of each worker's process()
    known,       \* fingerprints registered by InMemoryContentDedup
    docs,        \* the rows of the document table this crawl wrote, by canonical URL
    phase,       \* where execute_crawl / engine.run is
    foundAt,     \* history: the depth at which each seen URL was added
    done,        \* history: URLs whose task_done has been called
    fetched,     \* history: URLs whose result had fetched = True
    expanded     \* history: URLs whose links were offered to the frontier

vars == <<queue, unfinished, seen, processed, pc, hold, dup, known, docs,
          phase, foundAt, done, fetched, expanded>>

Item == [url : Urls, depth : 0..MaxDepth]
WorkerPc == {"idle", "admit", "fetch", "save", "expand"}
Phases == {"joining", "finished", "closing", "stopped"}
Busy == {w \in Workers : pc[w] # "idle"}

-----------------------------------------------------------------------------
(* Helpers                                                                  *)

\* The fingerprint of every page that has one.
Fingerprint == [u \in {v \in Urls : Text[v] # NotHtml} |-> simhash_text(Text[u])]

SeedDomains == {Domain[u] : u \in Seeds}

\* The filters a child link passes before frontier.add; an allow-list takes
\* precedence over same_domain_only.
InScope(v) ==
    /\ v \notin TooLong
    /\ IF AllowedDomains # NoList
       THEN Domain[v] \in AllowedDomains
       ELSE SameDomainOnly => Domain[v] \in SeedDomains

\* Sequences that list a set once each.  The order of links on a page and of
\* seeds on the command line is data: every order is considered.
Arrangements(S) ==
    {s \in [1..Cardinality(S) -> S] :
        /\ \A i, j \in DOMAIN s : s[i] = s[j] => i = j
        /\ \A x \in S : \E i \in DOMAIN s : s[i] = x}

\* asyncio.Queue.put, for several items.
Put(s) == queue \o s

\* The FrontierItems of a sequence of URLs, all at depth d.
ItemsAt(s, d) == [i \in DOMAIN s |-> [url |-> s[i], depth |-> d]]

\* Mutant: task_done is called both on the exception and in the finally clause.
TaskDoneTwice(w, found) ==
    /\ unfinished' = (unfinished + found) - 2
    /\ done' = done \cup {hold[w].url}
    /\ pc' = [pc EXCEPT ![w] = "idle"]
    /\ hold' = [hold EXCEPT ![w] = NoItem]

\* Mutant: task_done is not reached.
TaskDoneMissed(w, found) ==
    /\ unfinished' = unfinished + found
    /\ done' = done \cup {hold[w].url}
    /\ pc' = [pc EXCEPT ![w] = "idle"]
    /\ hold' = [hold EXCEPT ![w] = NoItem]

\* The finally clause of _worker: one task_done per item taken.  "found" is the
\* number of items the same step put on the queue.
TaskDone(w, found) ==
    /\ unfinished' = (unfinished + found) - 1
    /\ done' = done \cup {hold[w].url}
    /\ pc' = [pc EXCEPT ![w] = "idle"]
    /\ hold' = [hold EXCEPT ![w] = NoItem]

\* process() returned without links, or raised and the worker logged it.
GiveUp(w) ==
    /\ TaskDone(w, 0)
    /\ UNCHANGED <<queue, seen, processed, dup, known, docs, phase, foundAt,
                   fetched, expanded>>

-----------------------------------------------------------------------------
(* Initial states: run() has added the seeds and created the workers.       *)
Init ==
    /\ \E s \in Arrangements(Seeds) : queue = ItemsAt(s, 0)
    /\ unfinished = Cardinality(Seeds)
    /\ seen = Seeds
    /\ processed = 0
    /\ pc = [w \in Workers |-> "idle"]
    /\ hold = [w \in Workers |-> NoItem]
    /\ dup = [w \in Workers |-> FALSE]
    /\ known = {}
    /\ docs = << >>
    /\ phase = "joining"
    /\ foundAt = [u \in Urls |-> 0]
    /\ done = {}
    /\ fetched = {}
    /\ expanded = {}

-----------------------------------------------------------------------------
(* One worker task                                                          *)

\* Mutant: the page budget is tested one page late.
BudgetLeftLate == processed <= MaxPages

\* The page budget is not used up.
BudgetLeft == processed < MaxPages

\* frontier.get returns an item within the page budget.
Take(w) ==
    /\ pc[w] = "idle"
    /\ queue # << >>
    /\ BudgetLeft
    /\ hold' = [hold EXCEPT ![w] = Head(queue)]
    /\ queue' = Tail(queue)
    /\ pc' = [pc EXCEPT ![w] = "admit"]
    /\ UNCHANGED <<unfinished, seen, processed, dup, known, docs, phase, foundAt,
                   done, fetched, expanded>>

\* The page budget is used up: the item is dropped, task_done still runs.
Drain(w) ==
    /\ pc[w] = "idle"
    /\ queue # << >>
    /\ ~BudgetLeft
    /\ queue' = Tail(queue)
    /\ unfinished' = unfinished - 1
    /\ done' = done \cup {Head(queue).url}
    /\ UNCHANGED <<seen, processed, pc, hold, dup, known, docs, phase, foundAt,
                   fetched, expanded>>

\* robots, the circuit breaker or the domain budget refuses the URL.
Refuse(w) == pc[w] = "admit" /\ GiveUp(w)

\* The URL is admitted; the worker waits for the gate, the slot and the fetch.
StartFetch(w) ==
    /\ pc[w] = "admit"
    /\ pc' = [pc EXCEPT ![w] = "fetch"]
    /\ UNCHANGED <<queue, unfinished, seen, processed, hold, dup, known, docs,
                   phase, foundAt, done, fetched, expanded>>

\* The fetch fails for good: a fetch_error result, or the RuntimeError that
\* Fetcher.session raises once the fetcher is closed.
FetchFails(w) == pc[w] = "fetch" /\ GiveUp(w)

\* 304, to the validators an earlier crawl stored: counted as fetched, nothing to
\* store or expand.
NotModified(w) ==
    /\ pc[w] = "fetch"
    /\ Conditional
    /\ phase # "stopped"
    /\ processed' = processed + 1
    /\ fetched' = fetched \cup {hold[w].url}
    /\ TaskDone(w, 0)
    /\ UNCHANGED <<queue, seen, dup, known, docs, phase, foundAt, expanded>>

\* Mutant: a new fingerprint is not added to the index.
KnownForgotten(f) == known

\* The index after is_duplicate saw fingerprint f: a duplicate is not registered.
KnownAfter(f) == IF is_duplicate(known, f) THEN known ELSE known \cup {f}

\* A page arrives, is parsed and fingerprinted.  is_duplicate checks and
\* registers the fingerprint without suspending.
FetchOk(w) ==
    LET page == Canon[hold[w].url]
        html == page \in DOMAIN Fingerprint
    IN
    /\ pc[w] = "fetch"
    /\ phase # "stopped"
    /\ dup' = [dup EXCEPT ![w] = html /\ is_duplicate(known, Fingerprint[page])]
    /\ known' = IF html THEN KnownAfter(Fingerprint[page]) ELSE known
    /\ pc' = [pc EXCEPT ![w] = "save"]
    /\ UNCHANGED <<queue, unfinished, seen, processed, hold, docs, phase, foundAt,
                   done, fetched, expanded>>

\* object_store.put or save_page raises.
SaveFails(w) == pc[w] = "save" /\ GiveUp(w)

\* upsert_document: a row takes every column from the record, a missing
\* storage_key included.
Upsert(url, row) ==
    docs' = [u \in DOMAIN docs \cup {url} |-> IF u = url THEN row ELSE docs[u]]

\* The body is put (unless a near-duplicate) and the upsert commits.
SavePage(w) ==
    /\ pc[w] = "save"
    /\ Upsert(Canon[hold[w].url], [depth |-> hold[w].depth, key |-> ~dup[w]])
    /\ pc' = [pc EXCEPT ![w] = "expand"]
    /\ UNCHANGED <<queue, unfinished, seen, processed, hold, dup, known, phase,
                   foundAt, done, fetched, expanded>>

\* _handle goes on to the links of the page.
Expands(w) == ~dup[w] /\ hold[w].depth < MaxDepth

\* Mutant: no link is filtered.
OfferedUnfiltered(w) == IF Expands(w) THEN Links[Canon[hold[w].url]] ELSE {}

\* The links that pass the filters.
Offered(w) ==
    IF Expands(w) THEN {v \in Links[Canon[hold[w].url]] : InScope(v)} ELSE {}

\* Mutant: MemoryFrontier.add does not look at the seen set.
NewLinksUnchecked(w) == Offered(w)

\* The links MemoryFrontier.add accepts.
NewLinks(w) == Offered(w) \ seen

\* _handle resumes with the result: the page is counted, its links in scope are
\* added to the frontier, and task_done runs.
Expand(w) ==
    LET url == hold[w].url
        below == hold[w].depth + 1
        new == NewLinks(w)
    IN
    /\ pc[w] = "expand"
    /\ processed' = processed + 1
    /\ fetched' = fetched \cup {url}
    /\ \E s \in Arrangements(new) : queue' = Put(ItemsAt(s, below))
    /\ seen' = seen \cup new
    /\ foundAt' = [u \in Urls |-> IF u \in new THEN below ELSE foundAt[u]]
    /\ expanded' = IF Expands(w) THEN expanded \cup {url} ELSE expanded
    /\ TaskDone(w, Cardinality(new))
    /\ UNCHANGED <<dup, known, docs, phase>>

\* A worker takes steps until run() cancels it after join() returned.  A stopped
\* crawl does not cancel its workers.
WorkerStep(w) ==
    /\ phase # "finished"
    /\ \/ Take(w) \/ Drain(w) \/ Refuse(w) \/ StartFetch(w) \/ FetchFails(w)
       \/ NotModified(w) \/ FetchOk(w) \/ SaveFails(w) \/ SavePage(w) \/ Expand(w)

-----------------------------------------------------------------------------
(* The driver: engine.run inside execute_crawl, and stop_crawl              *)

\* Mutant: run() waits for an empty queue instead of for every task_done.
JoinOnEmptyQueue ==
    /\ phase = "joining"
    /\ queue = << >>
    /\ phase' = "finished"
    /\ UNCHANGED <<queue, unfinished, seen, processed, pc, hold, dup, known, docs,
                   foundAt, done, fetched, expanded>>

\* join() returns; run() cancels its workers and reports.
JoinReturns ==
    /\ phase = "joining"
    /\ unfinished = 0
    /\ phase' = "finished"
    /\ UNCHANGED <<queue, unfinished, seen, processed, pc, hold, dup, known, docs,
                   foundAt, done, fetched, expanded>>

\* stop_crawl cancels the task, which is suspended in join(); CancelledError
\* leaves run() before the loop that would cancel the workers.
StopCrawl ==
    /\ phase = "joining"
    /\ phase' = "closing"
    /\ UNCHANGED <<queue, unfinished, seen, processed, pc, hold, dup, known, docs,
                   foundAt, done, fetched, expanded>>

\* The async with block closes the fetcher; the crawl row is marked stopped.
CloseFetcher ==
    /\ phase = "closing"
    /\ phase' = "stopped"
    /\ UNCHANGED <<queue, unfinished, seen, processed, pc, hold, dup, known, docs,
                   foundAt, done, fetched, expanded>>

Idle == queue = << >> /\ Busy = {}

\* Nothing is left to do: the workers are cancelled, or wait in get() for ever.
Terminated ==
    /\ phase \in {"finished", "stopped"}
    /\ Idle
    /\ UNCHANGED vars

Next ==
    \/ \E w \in Workers : WorkerStep(w)
    \/ JoinReturns
    \/ StopCrawl
    \/ CloseFetcher
    \/ Terminated

\* Every fetch has a timeout and every await of a worker is eventually answered,
\* so each worker keeps taking steps; the event loop resumes the driver.
Fairness ==
    /\ \A w \in Workers : WF_vars(WorkerStep(w))
    /\ WF_vars(JoinReturns)
    /\ WF_vars(CloseFetcher)

Spec == Init /\ [][Next]_vars /\ Fairness

-----------------------------------------------------------------------------
(* Properties                                                               *)

\* The variables have the types the code gives them; a worker holds an item
\* exactly while it is busy.
TypeOK ==
    /\ queue \in Seq(Item)
    /\ unfinished \in Nat
    /\ seen \in SUBSET Urls
    /\ processed \in Nat
    /\ pc \in [Workers -> WorkerPc]
    /\ hold \in [Workers -> Item \cup {NoItem}]
    /\ \A w \in Workers : pc[w] # "idle" => hold[w] \in Item
    /\ dup \in [Workers -> BOOLEAN]
    /\ phase \in Phases
    /\ foundAt \in [Urls -> 0..MaxDepth]
    /\ done \in SUBSET Urls
    /\ fetched \in SUBSET Urls
    /\ expanded \in SUBSET Urls
    /\ DOMAIN docs \subseteq Urls

UrlsOf(q) == {q[i].url : i \in 1..Len(q)}
NoRepeats(q) == \A i, j \in 1..Len(q) : q[i].url = q[j].url => i = j
QueuedUrls == UrlsOf(queue)
HeldUrls == {hold[w].url : w \in Busy}

\* Every task is accounted for: the counter join() waits on (engine.py:70) is the
\* number of queued items plus the number of items in a worker's hands, on every
\* path through process() including the ones that raise.
Accounting == unfinished = Len(queue) + Cardinality(Busy)

\* join() returns only when the frontier has really drained: no item is queued
\* and no worker is cancelled in the middle of a page (engine.py:3-5, 70-72).
JoinIsSound == phase = "finished" => Idle

\* Every URL ever added to the frontier is in exactly one place: queued once,
\* held by one worker, or done.  No URL is handled twice and none is lost
\* (memory.py:20-25, engine.py:83-93).
EachUrlOnce ==
    /\ NoRepeats(queue)
    /\ \A v, w \in Busy : hold[v].url = hold[w].url => v = w
    /\ QueuedUrls \cap HeldUrls = {}
    /\ QueuedUrls \cap done = {}
    /\ HeldUrls \cap done = {}
    /\ seen = QueuedUrls \cup HeldUrls \cup done

\* The page budget is tested before the fetch and charged after it, so the pages
\* in flight overshoot it, but by less than the number of workers (engine.py:85, 98).
OvershootBound ==
    processed + Cardinality(Busy) < MaxPages + Cardinality(Workers)

\* The count run() reports is the number of distinct URLs fetched, whatever the
\* order in which workers finish (engine.py:97-98).
StatsTruthful ==
    /\ fetched \subseteq done
    /\ processed = Cardinality(fetched)

\* The inductive invariant that carries the safety theorems.
IndInv ==
    /\ TypeOK
    /\ Accounting
    /\ JoinIsSound
    /\ EachUrlOnce
    /\ OvershootBound
    /\ StatsTruthful

\* A URL that is not a seed is in scope and one level below a page that was really
\* fetched, expanded and links to it (engine.py:101-115).
DepthHasProvenance ==
    \A u \in seen \ Seeds :
        /\ InScope(u)
        /\ \E p \in expanded :
              /\ u \in Links[Canon[p]]
              /\ foundAt[u] = foundAt[p] + 1

\* When a crawl finishes its result is closed under links: every link in scope of
\* every expanded page was itself taken from the frontier, to be fetched, refused
\* or, once the page budget is used up, dropped (engine.py:70, 104-115).
FinishedIsClosed ==
    phase = "finished" =>
        \A p \in expanded : \A v \in Links[Canon[p]] : InScope(v) => v \in done

\* Two pages within the Hamming threshold of each other are never both stored with a
\* body, whichever workers fetch them and in whatever order, although the index is only
\* searched by bands and similarity is not transitive (pipeline.py:141-153,
\* dedup_service.py:30-42, simhash.py:49-54).
OneBodyPerContent ==
    \A u, v \in DOMAIN docs \cap DOMAIN Fingerprint :
        docs[u].key /\ docs[v].key /\ u # v
            => hamming_distance(Fingerprint[u], Fingerprint[v]) > Threshold

\* A row that points to a stored body keeps pointing to one (pipeline.py:148-153).
BodyKept ==
    [][\A u \in DOMAIN docs : docs[u].key => docs'[u].key]_vars

\* Once the crawl is marked stopped it writes no more pages (service.py:141).
NothingSavedAfterStop == [][phase = "stopped" => docs' = docs]_vars

\* Every crawl ends: join() returns or the stop completes, and the workers come to
\* rest with an empty queue (engine.py:3-5).
CrawlQuiesces == <>[](phase \in {"finished", "stopped"} /\ Idle)

\* The engine implements the abstract frontier: it finishes only when nothing is
\* pending, completes each URL once and eventually stops or finishes.
Pool == INSTANCE WorkPool WITH
    pending <- seen \ done,
    completed <- done,
    outcome <- CASE phase = "joining" -> "running"
                 [] phase = "finished" -> "finished"
                 [] OTHER -> "stopped"

ImplementsWorkPool == Pool!Spec
=============================================================================
