--------------------------- MODULE DocumentStore ---------------------------
(***************************************************************************)
(* What is stored of a page and how it is kept fresh: rows and link edges   *)
(* (storage/repositories.py, storage/sinks.py), bodies                      *)
(* (storage/object_store.py), the conditional GET of Pipeline.process, the  *)
(* degree recomputation and "crawler recrawl" (cli.py,                      *)
(* scheduler/recrawl.py), while handlers of the fleet run concurrently and  *)
(* the site changes.                                                        *)
(*                                                                          *)
(* A content is one body a URL may serve; it stands for its SHA-256 and for *)
(* the ETag a server that sends one derives from it.  last_crawled is       *)
(* abstracted to the order of the rows by it: oldest first.                 *)
(***************************************************************************)
EXTENDS Naturals, FiniteSets, SequencesExt

CONSTANTS
    Urls,
    Handlers,    \* concurrent _handle tasks of the fleet
    Serves,      \* Serves[u]: the contents u serves, one after the other
    Class,       \* Class[c]: near-duplicate class of content c, NotHtml if not HTML
    NotHtml,
    Links,       \* Links[c]: what parse_page finds in content c
    Validated,   \* URLs whose answers carry a validator and honour it
    NoValue,     \* a NULL column, or no task
    Limit,       \* recrawl --limit
    MaxFaults    \* bound: failures and redeliveries in one behaviour

Contents == UNION {Range(Serves[u]) : u \in Urls}

ASSUME SitesAssumption ==
    /\ IsFiniteSet(Urls) /\ Limit \in Nat \ {0} /\ MaxFaults \in Nat
    /\ Validated \subseteq Urls
    /\ \A u \in Urls : Serves[u] \in Seq(Contents) /\ Serves[u] # << >>
    /\ Links \in [Contents -> SUBSET Urls]
    /\ \A c \in Contents : Class[c] = NotHtml => Links[c] = {}

VARIABLES
    version,   \* how far each URL has got in Serves
    docs,      \* the document table, by URL
    order,     \* its URLs by last_crawled, oldest first
    edges,     \* the link_edge table
    bodies,    \* content hashes in the object store
    known,     \* fingerprints in the Redis LSH index
    topic,     \* the frontier topic: URLs with a record nobody has taken, in order
    task,      \* what each handler is doing
    plan,      \* entries of the RecrawlScheduler of a running "crawler recrawl"
    faults

store == <<docs, order, edges>>
vars == <<version, store, bodies, known, topic, task, plan, faults>>

\* The tables.  A row is found by its URL and an edge by its ends; a body is stored under
\* its content hash.
Document ==
    [content : Contents, key : Contents \cup {NoValue}, etag : Contents \cup {NoValue},
     outDegree : Nat, inDegree : Nat]
LinkEdge == Urls \X Urls
PageBody == Contents

Current(u) == Serves[u][version[u]]
EdgesOf(u, E) == {e \in E : e[1] = u}
EdgesTo(u, E) == {e \in E : e[2] = u}

\* The first crawl: every URL has been published and nothing is stored.
Init ==
    /\ version = [u \in Urls |-> 1]
    /\ docs = << >>
    /\ order = << >>
    /\ edges = {}
    /\ bodies = {}
    /\ known = {}
    /\ topic = SetToSeq(Urls)
    /\ task = [h \in Handlers |-> NoValue]
    /\ plan = {}
    /\ faults = 0

\* The site serves its next content.
SiteChanges(u) ==
    /\ version[u] < Len(Serves[u])
    /\ version' = [version EXCEPT ![u] = @ + 1]
    /\ UNCHANGED <<store, bodies, known, topic, task, plan, faults>>

-----------------------------------------------------------------------------
(* One handler: Pipeline.process with conditional_get                       *)

At(h, pc) == task[h] # NoValue /\ task[h].pc = pc
Set(h, t) == task' = [task EXCEPT ![h] = t]

\* The topic after one more message for u.  Bound: one record per URL is waiting.
Sent(u) == IF u \in Range(topic) THEN topic ELSE Append(topic, u)

\* The validators of the stored row.
get_validators(u) == IF u \in DOMAIN docs THEN docs[u].etag ELSE NoValue

\* A record is delivered and admitted, and _conditional_headers reads the validators
\* of the stored row.  Handlers are alike: any free one will do.
Take ==
    LET u == Head(topic)
        free == {h \in Handlers : task[h] = NoValue}
        h == CHOOSE x \in free : TRUE
    IN
    /\ free # {}
    /\ topic # << >>
    /\ topic' = Tail(topic)
    /\ Set(h, [url |-> u, pc |-> "fetch", content |-> NoValue, dup |-> FALSE,
               etag |-> get_validators(u)])
    /\ UNCHANGED <<version, store, bodies, known, plan, faults>>

\* 304: nothing is stored, and last_crawled stays as it was.
NotModified(h) ==
    /\ At(h, "fetch")
    /\ task[h].etag = Current(task[h].url)
    /\ Set(h, NoValue)
    /\ UNCHANGED <<version, store, bodies, known, topic, plan, faults>>

\* The page arrives, with the content the site serves now.
Fetched(h) ==
    LET c == Current(task[h].url) IN
    /\ At(h, "fetch")
    /\ task[h].etag # c
    /\ Set(h, [task[h] EXCEPT !.pc = "dedup", !.content = c, !.etag = NoValue])
    /\ UNCHANGED <<version, store, bodies, known, topic, plan, faults>>

\* is_duplicate looks for a near-duplicate among the fingerprints of every page and of
\* every earlier crawl.  A near-duplicate skips the put, a page that is not HTML the index.
Dedup(h) ==
    LET class == Class[task[h].content]
        dup == class # NotHtml /\ class \in known
        next == IF dup THEN "save" ELSE IF class = NotHtml THEN "put" ELSE "register"
    IN
    /\ At(h, "dedup")
    /\ Set(h, [task[h] EXCEPT !.pc = next, !.dup = dup])
    /\ UNCHANGED <<version, store, bodies, known, topic, plan, faults>>

\* It found none and, in another round trip, registers the fingerprint.
Register(h) ==
    /\ At(h, "register")
    /\ Set(h, [task[h] EXCEPT !.pc = "put"])
    /\ known' = known \cup {Class[task[h].content]}
    /\ UNCHANGED <<version, store, bodies, topic, plan, faults>>

\* Mutant: a failed write of a body is ignored.
PutIgnored(c) == bodies

\* ObjectStore.put: a body is stored once per content hash.
PutBody(c) == bodies \cup {c}

Put(h) ==
    /\ At(h, "put")
    /\ Set(h, [task[h] EXCEPT !.pc = "save"])
    /\ bodies' = PutBody(task[h].content)
    /\ UNCHANGED <<version, store, known, topic, plan, faults>>

\* What process() hands to the sink: a near-duplicate has no storage key and no links.
PageRecord(t) ==
    [url |-> t.url,
     content |-> t.content,
     key |-> IF t.dup THEN NoValue ELSE t.content,
     etag |-> IF t.url \in Validated THEN t.content ELSE NoValue,
     links |-> IF t.dup THEN {} ELSE Links[t.content]]

\* Mutant: out_degree is taken from the parsed page, not from the record.
OutDegreeParsed(record) == Cardinality(Links[record.content])

OutDegree(record) == Cardinality(record.links)

\* Mutant: a row that is written again keeps its earlier place too.
TouchedTwice(u) == Append(order, u)

\* last_crawled = now(): the row becomes the most recent one.
Touched(u) ==
    LET i == CHOOSE j \in DOMAIN order : order[j] = u
    IN  Append(IF u \in Range(order) THEN RemoveAt(order, i) ELSE order, u)

\* upsert_document: a row takes every update column from the record; only in_degree
\* survives.
Upsert(record) ==
    LET u == record.url
        row == [content |-> record.content, key |-> record.key, etag |-> record.etag,
                outDegree |-> OutDegree(record),
                inDegree |-> IF u \in DOMAIN docs THEN docs[u].inDegree ELSE 0]
    IN  [v \in DOMAIN docs \cup {u} |-> IF v = u THEN row ELSE docs[v]]

\* add_link_edges: edges that are there already, and edges of earlier contents, stay.
AddLinkEdges(record) == edges \cup ({record.url} \X record.links)

\* save_page: the upsert and the new edges are one transaction.
SavePage(h) ==
    LET record == PageRecord(task[h]) IN
    /\ At(h, "save")
    /\ docs' = Upsert(record)
    /\ order' = Touched(record.url)
    /\ edges' = AddLinkEdges(record)
    /\ Set(h, NoValue)
    /\ UNCHANGED <<version, bodies, known, topic, plan, faults>>

\* The fetch, the index, the object store or the database fails, or the worker dies:
\* the record is tried again, or goes to the dead-letter topic.
Fails(h) ==
    /\ task[h] # NoValue
    /\ faults < MaxFaults
    /\ faults' = faults + 1
    /\ topic' \in {topic, Sent(task[h].url)}
    /\ Set(h, NoValue)
    /\ UNCHANGED <<version, store, bodies, known, plan>>

\* A worker dies after the save and before the commit: the record comes again.
Redelivered(u) ==
    /\ u \in DOMAIN docs
    /\ faults < MaxFaults
    /\ faults' = faults + 1
    /\ topic' = Sent(u)
    /\ UNCHANGED <<version, store, bodies, known, task, plan>>

HandlerStep(h) ==
    NotModified(h) \/ Fetched(h) \/ Dedup(h) \/ Register(h) \/ Put(h) \/ SavePage(h)

-----------------------------------------------------------------------------
(* Maintenance                                                              *)

\* recompute_degrees, one transaction over the whole table.
RecomputeDegrees ==
    /\ docs' = [u \in DOMAIN docs |->
                  [docs[u] EXCEPT !.outDegree = Cardinality(EdgesOf(u, edges)),
                                  !.inDegree = Cardinality(EdgesTo(u, edges))]]
    /\ UNCHANGED <<version, order, edges, bodies, known, topic, task, plan, faults>>

\* Mutant: the most recent rows first.
StalestReversed(n) == {order[i] : i \in {j \in DOMAIN order : j > Len(order) - n}}

\* ORDER BY last_crawled ASC LIMIT n.
Stalest(n) == {order[i] : i \in {j \in DOMAIN order : j <= n}}

\* RecrawlScheduler.schedule, with interval 0: an entry for each URL, due at once.
Schedule(urls) == plan \cup urls

\* The entries whose due time has come: all of them.
pop_due == plan

\* "crawler recrawl" selects the stale rows, at most Limit of them, and puts them in
\* the scheduler; "stale" of them are older than the cut-off.  Bound: the command is
\* run when the records of the one before have been taken.
SelectStale(stale) ==
    /\ plan = {}
    /\ topic = << >>
    /\ plan' = Schedule(Stalest(IF stale < Limit THEN stale ELSE Limit))
    /\ UNCHANGED <<version, store, bodies, known, topic, task, faults>>

\* One message after the other is published.
Publish(u) ==
    /\ u \in pop_due
    /\ plan' = plan \ {u}
    /\ topic' = Sent(u)
    /\ UNCHANGED <<version, store, bodies, known, task, faults>>

\* The command dies, or a send raises: the rest of the plan is forgotten.
RecrawlDies ==
    /\ plan # {}
    /\ faults < MaxFaults
    /\ faults' = faults + 1
    /\ plan' = {}
    /\ UNCHANGED <<version, store, bodies, known, topic, task>>

-----------------------------------------------------------------------------
Next ==
    \/ \E u \in Urls : SiteChanges(u) \/ Redelivered(u) \/ Publish(u)
    \/ Take
    \/ \E h \in Handlers : HandlerStep(h) \/ Fails(h)
    \/ \E stale \in DOMAIN order : SelectStale(stale)
    \/ RecomputeDegrees
    \/ RecrawlDies

\* Records are delivered, handlers go on, and an operator runs "crawler recrawl" again
\* and again, every row having become older than the cut-off in between.
Fairness ==
    /\ \A h \in Handlers : WF_vars(HandlerStep(h))
    /\ WF_vars(Take)
    /\ WF_vars(\E u \in Urls : Publish(u))
    /\ SF_vars(SelectStale(Len(order)))

Spec == Init /\ [][Next]_vars /\ Fairness

-----------------------------------------------------------------------------
(* Properties                                                               *)

\* The variables have the types the code gives them; a URL has at most one row, and so
\* one place in the order of last_crawled, however many handlers save it
\* (orm.py:53, repositories.py:85-88).
TypeOK ==
    /\ \A u \in Urls : version[u] \in DOMAIN Serves[u]
    /\ DOMAIN docs \subseteq Urls /\ Range(docs) \subseteq Document
    /\ Range(order) = DOMAIN docs /\ IsInjective(order)
    /\ edges \subseteq LinkEdge /\ \A e \in edges : e[1] \in DOMAIN docs
    /\ bodies \subseteq PageBody
    /\ Range(topic) \subseteq Urls /\ IsInjective(topic)
    /\ plan \subseteq DOMAIN docs

\* A storage key always leads to a body, and to the body of the content the row
\* describes: at every point a worker may die, and whichever of two handlers of one
\* URL saves last (pipeline.py:148-159, sinks.py:51-52).
BodyAvailable ==
    \A u \in DOMAIN docs :
        docs[u].key # NoValue => docs[u].key \in bodies /\ docs[u].key = docs[u].content

\* The degrees the graph view shows never count a link that is not in the edge table,
\* between recomputations, recrawls and re-saves as near-duplicates
\* (repositories.py:81, 92-110, 132-134).
DegreesWithinEdges ==
    \A u \in DOMAIN docs :
        /\ docs[u].outDegree <= Cardinality(EdgesOf(u, edges))
        /\ docs[u].inDegree <= Cardinality(EdgesTo(u, edges))

\* When the site stops changing, repeated recrawls bring every stored page up to date
\* for good, late handlers with an old content included - as long as fewer pages than
\* Limit answer 304, which leaves them the stalest (repositories.py:284-288).
EventuallyFresh ==
    \A u \in Urls : <>[](u \in DOMAIN docs => docs[u].content = Current(u))
=============================================================================
