-------------------------- MODULE KafkaFleetProofs --------------------------
(***************************************************************************)
(* Proofs about KafkaFleet, for any number of workers, partitions, URLs,    *)
(* retries, faults and rebalances, and any batch size.                      *)
(***************************************************************************)
EXTENDS KafkaFleet, FiniteSetTheorems, WellFoundedInduction, TLAPS

\* The records of the topics, by their place.
Places == {r \in Topics \X Nat : r[2] \in 1..Len(log[r[1]])}

\* The types, and where each task is: a record it was started for is in the log, retries
\* come from the retry topic alone, links are followed above the depth limit.
FleetTypes ==
    /\ TypeOK
    /\ handled \subseteq Places
    /\ \A p \in Topics : committed[p] <= Len(log[p])
    /\ \A t \in tasks :
          /\ <<t.part, t.off>> \in Places
          /\ t.gen <= generation
          /\ t.pc = "requeue" => t.part = RetryPart
          /\ t.pc \in {"links", "enqueue"} => msg(t).depth < MaxDepth
          /\ t.pc = "register" => msg(t).url \in DOMAIN Fingerprint

\* A task that is done has handled its record.  The batch of the current generation covers
\* every offset from the committed one on, and its worker owns the partition.
BatchInv ==
    /\ \A t \in tasks : t.pc = "done" => <<t.part, t.off>> \in handled
    /\ \A t \in tasks : t.gen = generation =>
          /\ owner[t.part] = t.worker
          /\ \A k \in (committed[t.part] + 1)..t.off :
                \E x \in tasks : /\ x.worker = t.worker /\ x.part = t.part
                                /\ x.off = k /\ x.gen = generation

\* A URL whose record is handled has its outcome, or a record that nobody has handled.
Outstanding ==
    \A r \in handled :
        \/ log[r[1]][r[2]].url \in resolved
        \/ \E q \in Places : q \notin handled /\ log[q[1]][q[2]].url = log[r[1]][r[2]].url

\* A message with n attempts was on the retry topic with 1, ..., n of them.
Retried(m) ==
    \A k \in 1..m.attempts :
        \E i \in 1..Len(log[RetryPart]) : log[RetryPart][i] = [m EXCEPT !.attempts = k]

RetryInv ==
    /\ \A p \in Topics : \A i \in 1..Len(log[p]) : Retried(log[p][i])
    /\ \A i \in 1..Len(log[RetryPart]) : log[RetryPart][i].attempts > 0
    /\ DlqAfterAllRetries

\* The record of a child that is published for the first time.
ChildAt(p, i, v) ==
    /\ i \in 1..Len(log[p])
    /\ log[p][i].url = v /\ log[p][i].depth > 0 /\ log[p][i].attempts = 0

\* A child that is published, or that a task is about to publish, is in the seen-set; the
\* latter is not published yet and is nobody else's.
ChildInv ==
    /\ \A p, q \in Partitions, v \in Urls : \A i, j \in Nat :
          ChildAt(p, i, v) /\ ChildAt(q, j, v) => p = q /\ i = j
    /\ \A p \in Partitions, v \in Urls : \A i \in Nat :
          ChildAt(p, i, v) => bloom_indices(v) \subseteq seen
    /\ \A t \in tasks : \A v \in t.link :
          /\ bloom_indices(v) \subseteq seen
          /\ \A p \in Partitions : \A i \in Nat : ~ChildAt(p, i, v)
          /\ \A x \in tasks : v \in x.link => x = t

-----------------------------------------------------------------------------
(* Steps of a task                                                          *)

\* The logs are append-only.
LogGrows ==
    /\ log' \in [Topics -> Seq(Message)]
    /\ \A p \in Topics : /\ Len(log[p]) <= Len(log'[p])
                         /\ \A i \in 1..Len(log[p]) : log'[p][i] = log[p][i]

\* A task goes on to next, for the same record and in the same batch.
Moved(t, next) ==
    /\ tasks' = (tasks \ {t}) \cup {next} /\ next \in Task
    /\ next.worker = t.worker /\ next.part = t.part /\ next.off = t.off /\ next.gen = t.gen
    /\ UNCHANGED <<committed, owner, generation>>

\* The topics are the partitions of the frontier and the retry topic.
LEMMA TopicFacts ==
    /\ RetryPart \in Topics /\ Partitions \subseteq Topics /\ RetryPart \notin Partitions
    /\ \A u \in Urls : PartitionFor[u] \in Topics /\ PartitionFor[u] # RetryPart
                       /\ PartitionFor[u] \in Partitions
BY TopicsAssumption, PagesAssumption DEF Topics

\* Sending appends one record.
LEMMA SendFacts ==
    ASSUME log \in [Topics -> Seq(Message)], NEW p \in Topics, NEW m \in Message, Send(p, m)
    PROVE  /\ LogGrows
           /\ Len(log[p]) \in Nat /\ Len(log'[p]) = Len(log[p]) + 1
           /\ log'[p][Len(log[p]) + 1] = m
           /\ \A q \in Topics : q # p => log'[q] = log[q]
<1>1. log' = [log EXCEPT ![p] = Append(log[p], m)]
  BY DEF Send
<1>2. log[p] \in Seq(Message)
  OBVIOUS
<1>3. /\ Append(log[p], m) \in Seq(Message) /\ Len(log[p]) \in Nat
      /\ Len(Append(log[p], m)) = Len(log[p]) + 1
      /\ Append(log[p], m)[Len(log[p]) + 1] = m
      /\ \A i \in 1..Len(log[p]) : Append(log[p], m)[i] = log[p][i]
  BY <1>2
<1>4. log'[p] = Append(log[p], m) /\ \A q \in Topics : q # p => log'[q] = log[q]
  BY <1>1
<1>5. log' \in [Topics -> Seq(Message)]
  BY <1>1, <1>3
<1>6. ASSUME NEW q \in Topics
      PROVE  /\ Len(log[q]) <= Len(log'[q])
             /\ \A i \in 1..Len(log[q]) : log'[q][i] = log[q][i]
  <2>1. CASE q = p
    BY <1>3, <1>4, <2>1
  <2>2. CASE q # p
    BY <1>4, <2>2
  <2> QED BY <2>1, <2>2
<1> QED BY <1>3, <1>4, <1>5, <1>6 DEF LogGrows

\* The record of a task is a message, and stays what it is.
LEMMA RecordFacts ==
    ASSUME FleetTypes, NEW t \in tasks
    PROVE  /\ t \in Task /\ t.part \in Topics /\ t.off \in 1..Len(log[t.part])
           /\ Len(log[t.part]) \in Nat /\ log[t.part] \in Seq(Message)
           /\ msg(t) \in Message /\ msg(t).url \in Urls
           /\ msg(t).depth \in 0..MaxDepth /\ msg(t).attempts \in 0..MaxRetries
           /\ (LogGrows => log'[t.part][t.off] = msg(t))
<1>1. t \in Task /\ <<t.part, t.off>> \in Places /\ log \in [Topics -> Seq(Message)]
  BY DEF FleetTypes, TypeOK
<1>2. t.part \in Topics /\ t.off \in 1..Len(log[t.part])
  BY <1>1 DEF Task, Places
<1>3. log[t.part] \in Seq(Message) /\ Len(log[t.part]) \in Nat
  BY <1>1, <1>2
<1>4. msg(t) \in Message
  BY <1>2, <1>3 DEF msg
<1>5. msg(t).url \in Urls /\ msg(t).depth \in 0..MaxDepth /\ msg(t).attempts \in 0..MaxRetries
  BY <1>4 DEF Message
<1> QED BY <1>1, <1>2, <1>3, <1>4, <1>5 DEF LogGrows, msg

\* The types survive a step of a task that keeps to these.
LEMMA TypesStep ==
    ASSUME FleetTypes, NEW t \in tasks, NEW next, Moved(t, next), LogGrows,
           dlq' \subseteq Message, seen' \subseteq 0..(BloomSize - 1),
           known' \subseteq Fingerprints, DOMAIN docs' \subseteq Urls,
           faults' \in 0..MaxFaults, resolved' \subseteq Urls,
           handled' \subseteq handled \cup {<<t.part, t.off>>},
           next.pc = "requeue" => t.pc = "requeue",
           next.pc \in {"links", "enqueue"} => msg(t).depth < MaxDepth,
           next.pc = "register" => msg(t).url \in DOMAIN Fingerprint
    PROVE  FleetTypes'
<1>1. TypeOK'
  BY DEF TypeOK, FleetTypes, Moved, LogGrows, Fingerprints
<1>2. Places \subseteq Places'
  <2>1. \A p \in Topics : Len(log[p]) \in Nat /\ Len(log'[p]) \in Nat
                         /\ Len(log[p]) <= Len(log'[p])
    BY DEF FleetTypes, TypeOK, LogGrows
  <2> QED BY <2>1 DEF Places
<1>3. handled' \subseteq Places'
  BY <1>2 DEF FleetTypes
<1>4. \A p \in Topics : committed'[p] <= Len(log'[p])
  <2>1. \A p \in Topics : /\ Len(log[p]) \in Nat /\ Len(log'[p]) \in Nat
                         /\ committed[p] \in Nat /\ Len(log[p]) <= Len(log'[p])
    BY DEF FleetTypes, TypeOK, LogGrows
  <2> QED BY <2>1 DEF FleetTypes, Moved
<1>5. ASSUME NEW x \in tasks
      PROVE  /\ <<x.part, x.off>> \in Places' /\ x.gen <= generation'
             /\ log'[x.part][x.off] = msg(x)
             /\ x.pc = "requeue" => x.part = RetryPart
             /\ x.pc \in {"links", "enqueue"} => msg(x).depth < MaxDepth
             /\ x.pc = "register" => msg(x).url \in DOMAIN Fingerprint
  BY <1>2, RecordFacts DEF FleetTypes, Moved
<1>6. \A x \in tasks' :
          /\ <<x.part, x.off>> \in Places' /\ x.gen <= generation'
          /\ x.pc = "requeue" => x.part = RetryPart
          /\ x.pc \in {"links", "enqueue"} => log'[x.part][x.off].depth < MaxDepth
          /\ x.pc = "register" => log'[x.part][x.off].url \in DOMAIN Fingerprint
  BY <1>5 DEF Moved
<1> QED BY <1>1, <1>3, <1>4, <1>6 DEF FleetTypes, msg, Fingerprint

\* How a step of a task ends for its record: it goes on, or it returns with the outcome
\* of the URL, or it returns with another record for the URL.
Outcome(t, next) ==
    \/ next.pc # "done" /\ UNCHANGED <<handled, resolved>>
    \/ /\ next.pc = "done" /\ handled' = handled \cup {<<t.part, t.off>>}
       /\ \/ resolved' = resolved \cup {msg(t).url}
          \/ /\ resolved' = resolved
             /\ \E p \in Topics : /\ Len(log'[p]) = Len(log[p]) + 1
                                  /\ log'[p][Len(log[p]) + 1].url = msg(t).url

LEMMA ReturnFacts ==
    ASSUME FleetTypes, NEW t \in tasks, Return(t), UNCHANGED <<committed, owner, generation>>
    PROVE  /\ handled' = handled \cup {<<t.part, t.off>>}
           /\ \E next : Moved(t, next) /\ next.pc = "done" /\ next.link = {}
<1> DEFINE next == [t EXCEPT !.pc = "done", !.todo = {}, !.link = {}]
<1>1. t \in Task
  BY RecordFacts
<1>2. /\ next \in Task /\ next.pc = "done" /\ next.link = {} /\ next.worker = t.worker
      /\ next.part = t.part /\ next.off = t.off /\ next.gen = t.gen
  BY <1>1 DEF Task
<1>3. tasks' = (tasks \ {t}) \cup {next} /\ handled' = handled \cup {<<t.part, t.off>>}
  BY DEF Return, Step
<1> HIDE DEF next
<1>4. Moved(t, next)
  BY <1>2, <1>3 DEF Moved
<1> QED BY <1>2, <1>3, <1>4

LEMMA ContinueFacts ==
    ASSUME FleetTypes, NEW t \in tasks, NEW rest \in SUBSET Urls, Continue(t, rest),
           UNCHANGED <<committed, owner, generation>>
    PROVE  \E next : /\ Moved(t, next) /\ Outcome(t, next) /\ next.link = {}
                     /\ next.pc \in {"done", "links"} /\ (next.pc = "links" => rest # {})
<1>1. CASE rest = {}
  <2>1. Return(t) /\ resolved' = resolved \cup {msg(t).url}
    BY <1>1 DEF Continue
  <2> QED BY <2>1, ReturnFacts DEF Outcome
<1>2. CASE rest # {}
  <2> DEFINE next == [t EXCEPT !.pc = "links", !.todo = rest, !.link = {}]
  <2>1. t \in Task
    BY RecordFacts
  <2>2. /\ next \in Task /\ next.pc = "links" /\ next.link = {} /\ next.worker = t.worker
        /\ next.part = t.part /\ next.off = t.off /\ next.gen = t.gen
    BY <2>1 DEF Task
  <2>3. tasks' = (tasks \ {t}) \cup {next} /\ UNCHANGED <<handled, resolved>>
    BY <1>2 DEF Continue, Step
  <2> HIDE DEF next
  <2>4. Moved(t, next) /\ Outcome(t, next)
    BY <2>2, <2>3 DEF Moved, Outcome
  <2> QED BY <1>2, <2>2, <2>4
<1> QED BY <1>1, <1>2

\* The logs are as they were.
LEMMA LogStays == ASSUME FleetTypes, UNCHANGED log PROVE LogGrows
BY DEF FleetTypes, TypeOK, LogGrows

\* The bits of a URL are bits of the filter.
LEMMA BloomType == ASSUME NEW v \in Urls PROVE bloom_indices(v) \subseteq 0..(BloomSize - 1)
<1> SUFFICES ASSUME NEW i \in 0..(BloomHashes - 1)
             PROVE  (Hash[v][1] + i * Hash[v][2]) % BloomSize \in 0..(BloomSize - 1)
  BY DEF bloom_indices
<1> DEFINE n == Hash[v][1] + i * Hash[v][2]
<1>1. n \in Nat /\ BloomSize \in Nat \ {0}
  <2>1. i \in Nat /\ Hash[v][1] \in Nat /\ Hash[v][2] \in Nat
    BY BloomAssumption
  <2>2. i * Hash[v][2] \in Nat
    BY <2>1
  <2> QED BY <2>1, <2>2, BloomAssumption
<1> HIDE DEF n
<1>2. n % BloomSize \in 0..(BloomSize - 1)
  BY <1>1
<1> QED BY <1>2 DEF n

\* A fingerprint of a page is one of the fingerprints.
LEMMA FingerprintType == \A u \in DOMAIN Fingerprint : Fingerprint[u] \in Fingerprints
BY DEF Fingerprint, simhash_text, Fingerprints

\* What a step of a task does to its record, its batch and the log; the types hold.
LEMMA HandleFacts ==
    ASSUME FleetTypes, NEW t \in tasks, HandleStep(t)
    PROVE  /\ FleetTypes' /\ LogGrows
           /\ \E next : Moved(t, next) /\ Outcome(t, next)
<1>1. /\ t \in Task /\ t.part \in Topics /\ msg(t) \in Message /\ msg(t).url \in Urls
      /\ msg(t).depth \in 0..MaxDepth /\ msg(t).attempts \in 0..MaxRetries
  BY RecordFacts
<1>2. /\ dlq \subseteq Message /\ seen \subseteq 0..(BloomSize - 1)
      /\ known \subseteq Fingerprints /\ DOMAIN docs \subseteq Urls
      /\ faults \in 0..MaxFaults /\ resolved \subseteq Urls
      /\ log \in [Topics -> Seq(Message)]
  BY DEF FleetTypes, TypeOK
<1>3. UNCHANGED <<committed, owner, generation>>
  BY DEF HandleStep, Refuse, NotModified, FetchOk, Register, Save, CheckLink, EnqueueLink,
         Fail, SendDlq, SendRetry, Requeue
<1>4. CASE Refuse(t) \/ NotModified(t) \/ SendDlq(t)
  <2>1. /\ Return(t) /\ resolved' = resolved \cup {msg(t).url}
        /\ (dlq' = dlq \/ dlq' = dlq \cup {msg(t)})
        /\ UNCHANGED <<log, seen, known, docs, faults>>
    BY <1>4 DEF Refuse, NotModified, SendDlq
  <2>2. PICK next : Moved(t, next) /\ next.pc = "done"
    BY <1>3, <2>1, ReturnFacts
  <2>3. handled' = handled \cup {<<t.part, t.off>>} /\ LogGrows
    BY <1>3, <2>1, ReturnFacts, LogStays
  <2>4. FleetTypes'
    BY <1>1, <1>2, <2>1, <2>2, <2>3, TypesStep
  <2> QED BY <2>1, <2>2, <2>3, <2>4 DEF Outcome
<1>5. CASE FetchOk(t)
  <2> DEFINE html == msg(t).url \in DOMAIN Fingerprint
             dup == html /\ is_duplicate(known, Fingerprint[msg(t).url])
             next == [t EXCEPT !.pc = IF html /\ ~dup THEN "register" ELSE "save",
                               !.dup = dup]
  <2>1. /\ tasks' = (tasks \ {t}) \cup {next}
        /\ UNCHANGED <<log, dlq, seen, known, docs, faults, handled, resolved>>
    BY <1>5 DEF FetchOk, Step
  <2>2. dup \in BOOLEAN
    OBVIOUS
  <2>3. /\ next \in Task /\ next.pc \in {"register", "save"}
        /\ (next.pc = "register" => html) /\ next.worker = t.worker
        /\ next.part = t.part /\ next.off = t.off /\ next.gen = t.gen
    <3> HIDE DEF dup, html
    <3> QED BY <1>1, <2>2 DEF Task
  <2> HIDE DEF next, dup
  <2>4. Moved(t, next) /\ LogGrows
    BY <1>3, <2>1, <2>3, LogStays DEF Moved
  <2>5. FleetTypes'
    BY <1>2, <2>1, <2>3, <2>4, TypesStep
  <2> QED BY <2>1, <2>3, <2>4, <2>5 DEF Outcome
<1>6. CASE Register(t) \/ Fail(t)
  <2>1. \E next : /\ Moved(t, next) /\ next.pc \in {"save", "retry"}
    <3>1. CASE Register(t)
      <4> DEFINE next == [t EXCEPT !.pc = "save"]
      <4>1. tasks' = (tasks \ {t}) \cup {next}
        BY <3>1 DEF Register, Goto, Step
      <4>2. /\ next \in Task /\ next.pc = "save" /\ next.worker = t.worker
            /\ next.part = t.part /\ next.off = t.off /\ next.gen = t.gen
        BY <1>1 DEF Task
      <4> HIDE DEF next
      <4> QED BY <1>3, <4>1, <4>2 DEF Moved
    <3>2. CASE Fail(t)
      <4> DEFINE next == [t EXCEPT !.pc = "retry", !.todo = {}, !.link = {}]
      <4>1. tasks' = (tasks \ {t}) \cup {next}
        BY <3>2 DEF Fail, Step
      <4>2. /\ next \in Task /\ next.pc = "retry" /\ next.worker = t.worker
            /\ next.part = t.part /\ next.off = t.off /\ next.gen = t.gen
        BY <1>1 DEF Task
      <4> HIDE DEF next
      <4> QED BY <1>3, <4>1, <4>2 DEF Moved
    <3> QED BY <1>6, <3>1, <3>2
  <2>2. /\ UNCHANGED <<log, dlq, seen, docs, handled, resolved>> /\ LogGrows
    BY <1>6, LogStays DEF Register, Fail
  <2>3. faults' \in 0..MaxFaults
    BY <1>2, <1>6, LimitsAssumption DEF Register, Fail
  <2>4. known' \subseteq Fingerprints
    <3>1. Register(t) => msg(t).url \in DOMAIN Fingerprint
      BY DEF Register, FleetTypes
    <3>2. Register(t) => Fingerprint[msg(t).url] \in Fingerprints
      BY <3>1, FingerprintType
    <3>3. \/ known' = known
          \/ Register(t) /\ known' = known \cup {Fingerprint[msg(t).url]}
      BY <1>6 DEF Register, Fail
    <3> QED BY <1>2, <3>2, <3>3
  <2>5. FleetTypes'
    BY <1>2, <2>1, <2>2, <2>3, <2>4, TypesStep
  <2> QED BY <2>1, <2>2, <2>5 DEF Outcome
<1>7. CASE Save(t)
  <2> DEFINE rest == IF t.dup \/ msg(t).depth >= MaxDepth THEN {} ELSE Links[msg(t).url]
  <2>1. /\ Continue(t, rest) /\ DOMAIN docs' = DOMAIN docs \cup {msg(t).url}
        /\ UNCHANGED <<log, dlq, seen, known, faults>> /\ LogGrows
    BY <1>7, LogStays DEF Save, Upsert
  <2>2. rest \in SUBSET Urls /\ (rest # {} => msg(t).depth < MaxDepth)
    BY <1>1, PagesAssumption, LimitsAssumption
  <2> HIDE DEF rest
  <2>3. PICK next : /\ Moved(t, next) /\ Outcome(t, next)
                    /\ next.pc \in {"done", "links"} /\ (next.pc = "links" => rest # {})
    BY <1>3, <2>1, <2>2, ContinueFacts
  <2>4. FleetTypes'
    BY <1>1, <1>2, <2>1, <2>2, <2>3, TypesStep DEF Outcome
  <2> QED BY <2>1, <2>3, <2>4
<1>8. ASSUME NEW v \in t.todo, CheckLink(t, v)
      PROVE  FleetTypes' /\ LogGrows /\ \E next : Moved(t, next) /\ Outcome(t, next)
  <2>1. t.todo \in SUBSET Urls /\ v \in Urls /\ msg(t).depth < MaxDepth
    BY <1>1, <1>8 DEF Task, CheckLink, FleetTypes
  <2>2. /\ seen' = seen \cup bloom_indices(v) /\ LogGrows
        /\ UNCHANGED <<log, dlq, known, docs, faults>>
    BY <1>8, LogStays DEF CheckLink
  <2>3. seen' \subseteq 0..(BloomSize - 1)
    BY <1>2, <2>1, <2>2, BloomType
  <2>4. PICK next : /\ Moved(t, next) /\ Outcome(t, next)
                    /\ next.pc \in {"done", "links", "enqueue"}
    <3>1. CASE AlreadySeen(v)
      <4>1. Continue(t, t.todo \ {v}) /\ t.todo \ {v} \in SUBSET Urls
        BY <1>8, <2>1, <3>1 DEF CheckLink
      <4> QED BY <1>3, <4>1, ContinueFacts
    <3>2. CASE ~AlreadySeen(v)
      <4> DEFINE next == [t EXCEPT !.pc = "enqueue", !.todo = @ \ {v}, !.link = {v}]
      <4>1. tasks' = (tasks \ {t}) \cup {next} /\ UNCHANGED <<handled, resolved>>
        BY <1>8, <3>2 DEF CheckLink, Step
      <4>2. /\ next \in Task /\ next.pc = "enqueue" /\ next.worker = t.worker
            /\ next.part = t.part /\ next.off = t.off /\ next.gen = t.gen
        BY <1>1, <2>1 DEF Task
      <4> HIDE DEF next
      <4> QED BY <1>3, <4>1, <4>2 DEF Moved, Outcome
    <3> QED BY <3>1, <3>2
  <2>5. FleetTypes'
    BY <1>1, <1>2, <2>1, <2>2, <2>3, <2>4, TypesStep DEF Outcome
  <2> QED BY <2>2, <2>4, <2>5
<1>9. ASSUME NEW v \in t.link, EnqueueLink(t, v)
      PROVE  FleetTypes' /\ LogGrows /\ \E next : Moved(t, next) /\ Outcome(t, next)
  <2> DEFINE m == [url |-> v, depth |-> msg(t).depth + 1, attempts |-> 0]
  <2>1. t.todo \in SUBSET Urls /\ v \in Urls /\ msg(t).depth < MaxDepth
    BY <1>1, <1>9 DEF Task, EnqueueLink, FleetTypes
  <2>2. /\ Send(PartitionFor[v], m) /\ Continue(t, t.todo)
        /\ UNCHANGED <<dlq, seen, known, docs, faults>>
    BY <1>9 DEF EnqueueLink
  <2>3. m \in Message
    BY <1>1, <2>1, LimitsAssumption DEF Message
  <2> HIDE DEF m
  <2>4. LogGrows
    BY <1>2, <2>1, <2>2, <2>3, SendFacts, TopicFacts
  <2>5. PICK next : Moved(t, next) /\ Outcome(t, next) /\ next.pc \in {"done", "links"}
    BY <1>3, <2>1, <2>2, ContinueFacts
  <2>6. FleetTypes'
    BY <1>1, <1>2, <2>1, <2>2, <2>4, <2>5, TypesStep DEF Outcome
  <2> QED BY <2>4, <2>5, <2>6
<1>10. CASE SendRetry(t) \/ Requeue(t)
  <2>1. PICK p \in Topics, m \in Message : Send(p, m) /\ m.url = msg(t).url
    <3>1. CASE SendRetry(t)
      <4> DEFINE m == [msg(t) EXCEPT !.attempts = @ + 1]
      <4>1. Send(RetryPart, m) /\ ~(msg(t).attempts >= MaxRetries)
        BY <3>1 DEF SendRetry, OutOfAttempts
      <4>2. m \in Message /\ m.url = msg(t).url
        BY <1>1, <4>1, LimitsAssumption DEF Message
      <4> QED BY <4>1, <4>2, TopicFacts
    <3>2. CASE Requeue(t)
      BY <1>1, <3>2, TopicFacts DEF Requeue
    <3> QED BY <1>10, <3>1, <3>2
  <2>2. LogGrows /\ Len(log'[p]) = Len(log[p]) + 1 /\ log'[p][Len(log[p]) + 1] = m
    BY <1>2, <2>1, SendFacts
  <2>3. Return(t) /\ UNCHANGED <<dlq, seen, known, docs, faults, resolved>>
    BY <1>10 DEF SendRetry, Requeue
  <2>4. PICK next : Moved(t, next) /\ next.pc = "done"
    BY <1>3, <2>3, ReturnFacts
  <2>5. handled' = handled \cup {<<t.part, t.off>>}
    BY <1>3, <2>3, ReturnFacts
  <2>6. FleetTypes'
    BY <1>2, <2>2, <2>3, <2>4, <2>5, TypesStep
  <2> QED BY <2>1, <2>2, <2>3, <2>4, <2>5, <2>6 DEF Outcome
<1> QED BY <1>4, <1>5, <1>6, <1>7, <1>8, <1>9, <1>10 DEF HandleStep

-----------------------------------------------------------------------------
(* The consumer loop                                                        *)

LEMMA InitFleet == Init => FleetTypes
<1> SUFFICES ASSUME Init PROVE FleetTypes
  OBVIOUS
<1>1. ASSUME NEW p \in Topics PROVE log[p] \in Seq(Message)
  <2> DEFINE SeedMessage == [url : Seeds, depth : {0}, attempts : {0}]
  <2>0. log[p] \in UNION {[1..n -> SeedMessage] : n \in 0..Cardinality(Seeds)}
    <3> HIDE DEF SeedMessage
    <3>1. log \in [Topics -> UNION {[1..n -> SeedMessage] : n \in 0..Cardinality(Seeds)}]
      BY DEF Init, SeedMessage
    <3> QED BY <3>1
  <2>1. PICK n \in 0..Cardinality(Seeds) : log[p] \in [1..n -> SeedMessage]
    <3> HIDE DEF SeedMessage
    <3> QED BY <2>0
  <2>2. [url : Seeds, depth : {0}, attempts : {0}] \subseteq Message
    BY UrlsAssumption, LimitsAssumption DEF Message
  <2>3. n \in Nat
    BY <2>1
  <2>4. log[p] \in [1..n -> Message]
    BY <2>1, <2>2
  <2> QED BY <2>3, <2>4
<1>2. log \in [Topics -> Seq(Message)]
  <2>1. log = [p \in Topics |-> log[p]]
    BY DEF Init
  <2> QED BY <1>1, <2>1
<1>3. TypeOK
  BY <1>2, LimitsAssumption, BloomAssumption DEF Init, TypeOK
<1>4. handled = {} /\ tasks = {} /\ \A p \in Topics : committed[p] <= Len(log[p])
  BY <1>2 DEF Init
<1> QED BY <1>3, <1>4 DEF FleetTypes

\* A new task is for its record, in the current generation.
LEMMA NewTaskFacts ==
    ASSUME FleetTypes, NEW w \in Workers, NEW p \in Topics, NEW o \in Nat
    PROVE  LET t == NewTask(w, p, o) IN
           /\ t \in Task /\ t.worker = w /\ t.gen = generation /\ t.part = p /\ t.off = o
           /\ t.pc \in {"fetch", "requeue"} /\ t.link = {}
           /\ t.pc = "requeue" => t.part = RetryPart
<1>1. generation \in Nat
  BY LimitsAssumption DEF FleetTypes, TypeOK
<1> QED BY <1>1 DEF NewTask, Task

\* A task is started for each record of a batch, from the committed offset on.
LEMMA PollFacts ==
    ASSUME FleetTypes, NEW w \in Workers, Poll(w)
    PROVE  \E upTo \in [Topics -> 0..BatchSize] :
             /\ tasks' = tasks \cup Batch(w, upTo)
             /\ \A t \in Batch(w, upTo) :
                   /\ t \in Task /\ t.worker = w /\ t.gen = generation /\ owner[t.part] = w
                   /\ t.pc \in {"fetch", "requeue"} /\ t.link = {}
                   /\ t.pc = "requeue" => t.part = RetryPart
                   /\ <<t.part, t.off>> \in Places
                   /\ \A k \in (committed[t.part] + 1)..t.off :
                         NewTask(w, t.part, k) \in Batch(w, upTo)
<1>1. PICK upTo \in [Topics -> 0..BatchSize] : tasks' = tasks \cup Batch(w, upTo)
  BY DEF Poll
<1>3. ASSUME NEW t \in Batch(w, upTo)
      PROVE  \E p \in Topics, o \in Nat :
                /\ t = NewTask(w, p, o) /\ owner[p] = w /\ o \in 1..Len(log[p])
                /\ committed[p] < o /\ o <= committed[p] + upTo[p]
  BY DEF Batch, FleetTypes, TypeOK
<1>4. ASSUME NEW p \in Topics, owner[p] = w, NEW o \in 1..Len(log[p]),
             committed[p] < o, o <= committed[p] + upTo[p]
      PROVE  NewTask(w, p, o) \in Batch(w, upTo)
  BY <1>4 DEF Batch
<1>5. ASSUME NEW t \in Batch(w, upTo)
      PROVE  /\ t \in Task /\ t.worker = w /\ t.gen = generation /\ owner[t.part] = w
             /\ t.pc \in {"fetch", "requeue"} /\ t.link = {}
             /\ t.pc = "requeue" => t.part = RetryPart
             /\ <<t.part, t.off>> \in Places
             /\ \A k \in (committed[t.part] + 1)..t.off :
                   NewTask(w, t.part, k) \in Batch(w, upTo)
  <2>1. PICK p \in Topics, o \in Nat :
           /\ t = NewTask(w, p, o) /\ owner[p] = w /\ o \in 1..Len(log[p])
           /\ committed[p] < o /\ o <= committed[p] + upTo[p]
    BY <1>3
  <2>2. t.part = p /\ t.off = o
    BY <2>1, NewTaskFacts
  <2>3. committed[p] \in Nat /\ upTo[p] \in Nat /\ Len(log[p]) \in Nat
    BY LimitsAssumption DEF FleetTypes, TypeOK
  <2>4. ASSUME NEW k \in (committed[p] + 1)..o PROVE NewTask(w, p, k) \in Batch(w, upTo)
    <3>1. k \in 1..Len(log[p]) /\ committed[p] < k /\ k <= committed[p] + upTo[p]
      BY <2>1, <2>3
    <3> QED BY <1>4, <2>1, <3>1
  <2>5. <<p, o>> \in Places
    BY <2>1 DEF Places
  <2> QED BY <2>1, <2>2, <2>4, <2>5, NewTaskFacts
<1> QED BY <1>1, <1>5

\* A set of numbers with a bound has a greatest one.
LEMMA GreatestExists ==
    ASSUME NEW n \in Nat, NEW S \in SUBSET (0..n), S # {}
    PROVE  \E o \in S : \A k \in S : k <= o
<1> DEFINE R == {ss \in Nat \X Nat : ss[1] < ss[2]}
           D == {n - k : k \in S}
<1>1. IsWellFoundedOn(R, Nat)
  BY NatLessThanWellFounded DEF OpToRel
<1>2. D \subseteq Nat /\ D # {}
  <2>1. \A k \in S : n - k \in Nat
    OBVIOUS
  <2> QED BY <2>1
<1>3. PICK d \in D : \A e \in D : ~(<<e, d>> \in R)
  <2> HIDE DEF R, D
  <2> QED BY <1>1, <1>2, WFMin
<1>4. PICK o \in S : d = n - o
  OBVIOUS
<1>5. ASSUME NEW k \in S PROVE k <= o
  <2>1. n - k \in D /\ n - k \in Nat /\ d \in Nat
    BY <1>2
  <2>2. ~(n - k < d)
    BY <1>3, <2>1
  <2> QED BY <1>4, <2>1, <2>2
<1> QED BY <1>5

\* A commit leaves a partition alone, or moves to the last record of the batch.
LEMMA PositionFacts ==
    ASSUME FleetTypes, NEW w \in Workers, NEW p \in Topics
    PROVE  \/ /\ Position(w, p) = committed[p]
              /\ \A t \in TasksOf(w) : ~(t.part = p /\ t.gen = generation)
           \/ \E t \in TasksOf(w) : /\ t.part = p /\ t.gen = generation
                                     /\ Position(w, p) = t.off
<1> DEFINE current == {x \in TasksOf(w) : x.part = p /\ x.gen = generation}
           read == {t.off : t \in current}
<1>1. CASE current = {}
  <2>1. read = {}
    BY <1>1
  <2>2. Position(w, p) = committed[p]
    BY <2>1 DEF Position
  <2> QED BY <1>1, <2>2
<1>2. CASE current # {}
  <2>1. read # {}
    BY <1>2
  <2>2. read \in SUBSET (0..Len(log[p])) /\ Len(log[p]) \in Nat
    <3>1. Len(log[p]) \in Nat
      BY DEF FleetTypes, TypeOK
    <3>2. ASSUME NEW t \in current PROVE t.off \in 0..Len(log[p])
      BY <3>1, RecordFacts DEF TasksOf
    <3> QED BY <3>1, <3>2
  <2>3. Position(w, p) = CHOOSE o \in read : \A k \in read : k <= o
    BY <2>1 DEF Position
  <2> HIDE DEF read
  <2>4. \E o \in read : \A k \in read : k <= o
    BY <2>1, <2>2, GreatestExists
  <2>5. Position(w, p) \in read
    BY <2>3, <2>4
  <2> QED BY <2>5 DEF read
<1> QED BY <1>1, <1>2

\* A rebalance starts a new generation, to which no task belongs.
LEMMA RegroupFacts ==
    ASSUME FleetTypes, Rebalance \/ \E w \in Workers : Leave(w) \/ Crash(w)
    PROVE  /\ generation' = generation + 1 /\ generation' \in 0..MaxRebalances
           /\ owner' \in [Topics -> Workers] /\ tasks' \subseteq tasks
           /\ \A t \in tasks' : t.gen # generation'
           /\ UNCHANGED <<log, committed, dlq, seen, known, docs, faults, handled, resolved>>
<1>1. PICK group \in SUBSET Workers : Regroup(group) /\ tasks' \subseteq tasks
  <2>1. \A w \in Workers : Workers \ {w} \in SUBSET Workers
    OBVIOUS
  <2> QED BY <2>1 DEF Rebalance, Leave, Crash
<1>2. /\ generation < MaxRebalances /\ generation' = generation + 1
      /\ owner' \in [Topics -> group]
      /\ UNCHANGED <<log, committed, dlq, seen, known, docs, faults, handled, resolved>>
  BY <1>1 DEF Regroup
<1>3. generation \in 0..MaxRebalances
  BY DEF FleetTypes, TypeOK
<1>4. \A t \in tasks : t.gen <= generation /\ t.gen \in Nat
  BY DEF FleetTypes, TypeOK, Task
<1>5. generation' \in 0..MaxRebalances /\ \A t \in tasks' : t.gen # generation'
  BY <1>1, <1>2, <1>3, <1>4, LimitsAssumption
<1>6. owner' \in [Topics -> Workers]
  BY <1>1, <1>2
<1> QED BY <1>1, <1>2, <1>5, <1>6

\* The types survive the steps of the consumer loops.
LEMMA LoopTypes ==
    ASSUME FleetTypes,
           \/ \E w \in Workers : Poll(w) \/ Commit(w) \/ Crash(w) \/ Leave(w)
           \/ Rebalance \/ UNCHANGED vars
    PROVE  FleetTypes' /\ LogGrows /\ UNCHANGED <<log, dlq, seen, handled, resolved>>
<1>1. UNCHANGED <<log, dlq, seen, known, docs, faults, handled, resolved>>
  BY DEF Poll, Commit, Crash, Leave, Rebalance, Regroup, vars
<1>2. LogGrows
  BY <1>1, LogStays
<1>3. ASSUME tasks' \subseteq tasks, UNCHANGED <<log, handled, generation>>,
             committed' \in [Topics -> Nat], \A p \in Topics : committed'[p] <= Len(log[p]),
             UNCHANGED owner
      PROVE  FleetTypes'
  BY <1>1, <1>3 DEF FleetTypes, TypeOK, Places, msg, Fingerprint, Fingerprints, Bits
<1>4. ASSUME NEW w \in Workers, Poll(w) PROVE FleetTypes'
  <2>1. PICK batch : /\ tasks' = tasks \cup batch
                     /\ \A t \in batch : /\ t \in Task /\ t.gen = generation
                                         /\ t.pc \in {"fetch", "requeue"}
                                         /\ t.pc = "requeue" => t.part = RetryPart
                                         /\ <<t.part, t.off>> \in Places
    BY <1>4, PollFacts
  <2>2. UNCHANGED <<committed, owner, generation>>
    BY <1>4 DEF Poll
  <2>3. generation \in Nat
    BY LimitsAssumption DEF FleetTypes, TypeOK
  <2>4. TypeOK'
    BY <1>1, <2>1, <2>2 DEF FleetTypes, TypeOK, Fingerprints, Bits
  <2> QED BY <1>1, <2>1, <2>2, <2>3, <2>4 DEF FleetTypes, Places, msg, Fingerprint
<1>5. ASSUME NEW w \in Workers, Commit(w) PROVE FleetTypes'
  <2>1. ASSUME NEW p \in Topics
        PROVE  Position(w, p) \in Nat /\ Position(w, p) <= Len(log[p])
    <3>1. CASE Position(w, p) = committed[p]
      BY <3>1 DEF FleetTypes, TypeOK
    <3>2. CASE \E t \in TasksOf(w) : t.part = p /\ Position(w, p) = t.off
      <4>1. PICK t \in tasks : t.part = p /\ Position(w, p) = t.off
        BY <3>2 DEF TasksOf
      <4>2. t.off \in 1..Len(log[p]) /\ Len(log[p]) \in Nat
        BY <4>1, RecordFacts
      <4> QED BY <4>1, <4>2
    <3> QED BY <3>1, <3>2, PositionFacts
  <2>2. committed' = [p \in Topics |-> Position(w, p)] /\ tasks' \subseteq tasks
        /\ UNCHANGED <<owner, generation>>
    BY <1>5 DEF Commit
  <2> QED BY <1>1, <1>3, <2>1, <2>2
<1>6. ASSUME Rebalance \/ \E w \in Workers : Leave(w) \/ Crash(w) PROVE FleetTypes'
  <2>1. /\ generation' = generation + 1 /\ generation' \in 0..MaxRebalances
        /\ owner' \in [Topics -> Workers] /\ tasks' \subseteq tasks
        /\ committed' = committed
    BY <1>6, RegroupFacts
  <2>2. \A t \in tasks : t.gen <= generation /\ t.gen \in Nat
    BY DEF FleetTypes, TypeOK, Task
  <2>3. TypeOK'
    BY <1>1, <2>1 DEF FleetTypes, TypeOK, Fingerprints, Bits
  <2>4. \A t \in tasks' : t.gen <= generation'
    <3>1. generation \in Nat
      BY LimitsAssumption DEF FleetTypes, TypeOK
    <3> QED BY <2>1, <2>2, <3>1
  <2> QED BY <1>1, <2>1, <2>3, <2>4 DEF FleetTypes, Places, msg, Fingerprint
<1>7. ASSUME UNCHANGED vars PROVE FleetTypes'
  BY <1>3, <1>7 DEF vars, FleetTypes, TypeOK
<1> QED BY <1>1, <1>2, <1>4, <1>5, <1>6, <1>7

LEMMA FleetTypesHold == Spec => []FleetTypes
<1>1. FleetTypes /\ [Next]_vars => FleetTypes'
  BY LoopTypes, HandleFacts DEF Next, Waiting
<1> QED BY <1>1, InitFleet, PTL DEF Spec

\* The variables of the fleet keep their types (worker.py:97-164, distributed.py:25-40).
THEOREM FleetTypeOK == Spec => []TypeOK
<1>1. FleetTypes => TypeOK
  BY DEF FleetTypes
<1> QED BY <1>1, FleetTypesHold, PTL

-----------------------------------------------------------------------------
(* At least once                                                            *)

LEMMA InitBatch == Init => BatchInv /\ CommittedIsHandled
<1> SUFFICES ASSUME Init PROVE BatchInv /\ CommittedIsHandled
  OBVIOUS
<1>1. tasks = {} /\ \A p \in Topics : committed[p] = 0
  BY DEF Init
<1> QED BY <1>1 DEF BatchInv, CommittedIsHandled

\* A step of a task keeps its place in the batch.
LEMMA HandleBatch ==
    ASSUME FleetTypes, BatchInv, CommittedIsHandled, NEW t \in tasks, HandleStep(t)
    PROVE  BatchInv' /\ CommittedIsHandled'
<1>1. PICK next : Moved(t, next) /\ Outcome(t, next)
  BY HandleFacts
<1>2. /\ tasks' = (tasks \ {t}) \cup {next} /\ next.worker = t.worker
      /\ next.part = t.part /\ next.off = t.off /\ next.gen = t.gen
      /\ UNCHANGED <<committed, owner, generation>>
  BY <1>1 DEF Moved
<1>3. handled \subseteq handled' /\ (next.pc = "done" => <<t.part, t.off>> \in handled')
  BY <1>1 DEF Outcome
<1>4. \A x \in tasks' : x.pc = "done" => <<x.part, x.off>> \in handled'
  BY <1>2, <1>3 DEF BatchInv
<1>5. ASSUME NEW x \in tasks', x.gen = generation'
      PROVE  /\ owner'[x.part] = x.worker
             /\ \A k \in (committed'[x.part] + 1)..x.off :
                   \E y \in tasks' : /\ y.worker = x.worker /\ y.part = x.part
                                    /\ y.off = k /\ y.gen = generation'
  <2>1. PICK z \in tasks : /\ z.worker = x.worker /\ z.part = x.part
                          /\ z.off = x.off /\ z.gen = x.gen
    BY <1>2
  <2>2. z.gen = generation
    BY <1>2, <1>5, <2>1
  <2>3. owner[z.part] = z.worker
    BY <2>2 DEF BatchInv
  <2>4. ASSUME NEW k \in (committed[z.part] + 1)..z.off
        PROVE  \E y \in tasks' : /\ y.worker = z.worker /\ y.part = z.part
                                 /\ y.off = k /\ y.gen = generation
    <3>1. PICK y \in tasks : /\ y.worker = z.worker /\ y.part = z.part
                            /\ y.off = k /\ y.gen = generation
      BY <2>2 DEF BatchInv
    <3> QED BY <1>2, <3>1
  <2> QED BY <1>2, <2>1, <2>3, <2>4
<1>6. BatchInv'
  BY <1>4, <1>5 DEF BatchInv
<1>7. CommittedIsHandled'
  BY <1>2, <1>3 DEF CommittedIsHandled
<1> QED BY <1>6, <1>7

\* A commit covers what its batch has handled, and nobody else's batch.
LEMMA CommitBatch ==
    ASSUME FleetTypes, BatchInv, CommittedIsHandled, NEW w \in Workers, Commit(w)
    PROVE  BatchInv' /\ CommittedIsHandled'
<1>1. /\ committed' = [p \in Topics |-> Position(w, p)] /\ tasks' = tasks \ TasksOf(w)
      /\ UNCHANGED <<owner, generation, handled>> /\ \A t \in TasksOf(w) : t.pc = "done"
  BY DEF Commit, BatchHandled
<1>2. ASSUME NEW p \in Topics, NEW o \in 1..Position(w, p) PROVE <<p, o>> \in handled
  <2>1. CASE Position(w, p) = committed[p]
    BY <2>1 DEF CommittedIsHandled
  <2>2. CASE \E t \in TasksOf(w) : /\ t.part = p /\ t.gen = generation
                                   /\ Position(w, p) = t.off
    <3>1. PICK t \in tasks : /\ t.worker = w /\ t.part = p /\ t.gen = generation
                            /\ Position(w, p) = t.off
      BY <2>2 DEF TasksOf
    <3>2. o \in Nat /\ committed[p] \in Nat /\ t.off \in Nat /\ o \in 1..t.off
      BY <3>1 DEF FleetTypes, TypeOK, Task
    <3>3. CASE o <= committed[p]
      BY <3>2, <3>3 DEF CommittedIsHandled
    <3>4. CASE o > committed[p]
      <4>1. o \in (committed[t.part] + 1)..t.off
        BY <3>1, <3>2, <3>4
      <4>2. PICK x \in tasks : x.worker = w /\ x.part = p /\ x.off = o
        BY <3>1, <4>1 DEF BatchInv
      <4>3. x \in TasksOf(w) /\ x.pc = "done"
        BY <1>1, <4>2 DEF TasksOf
      <4> QED BY <4>2, <4>3 DEF BatchInv
    <3> QED BY <3>2, <3>3, <3>4
  <2> QED BY <2>1, <2>2, PositionFacts
<1>3. CommittedIsHandled'
  BY <1>1, <1>2 DEF CommittedIsHandled
<1>4. ASSUME NEW t \in tasks', t.gen = generation
      PROVE  /\ owner[t.part] = t.worker
             /\ \A k \in (committed'[t.part] + 1)..t.off :
                   \E x \in tasks' : /\ x.worker = t.worker /\ x.part = t.part
                                    /\ x.off = k /\ x.gen = generation
  <2>1. t \in tasks /\ t.worker # w /\ t.part \in Topics /\ owner[t.part] = t.worker
    BY <1>1, <1>4, RecordFacts DEF TasksOf, BatchInv
  <2>2. \A x \in TasksOf(w) : x.gen = generation => x.part # t.part
    BY <2>1 DEF BatchInv, TasksOf
  <2>3. committed'[t.part] = committed[t.part]
    BY <1>1, <2>1, <2>2, PositionFacts
  <2>4. ASSUME NEW k \in (committed[t.part] + 1)..t.off
        PROVE  \E x \in tasks' : /\ x.worker = t.worker /\ x.part = t.part
                                 /\ x.off = k /\ x.gen = generation
    <3>1. PICK x \in tasks : /\ x.worker = t.worker /\ x.part = t.part
                            /\ x.off = k /\ x.gen = generation
      BY <1>4, <2>1 DEF BatchInv
    <3>2. x \in tasks'
      BY <1>1, <2>1, <3>1 DEF TasksOf
    <3> QED BY <3>1, <3>2
  <2> QED BY <2>1, <2>3, <2>4
<1>5. BatchInv'
  BY <1>1, <1>4 DEF BatchInv
<1> QED BY <1>3, <1>5

\* A batch starts at the committed offset, and a rebalance ends the generation of all.
LEMMA LoopBatch ==
    ASSUME FleetTypes, BatchInv, CommittedIsHandled,
           \/ \E w \in Workers : Poll(w) \/ Crash(w) \/ Leave(w)
           \/ Rebalance \/ UNCHANGED vars
    PROVE  BatchInv' /\ CommittedIsHandled'
<1>1. UNCHANGED <<committed, handled>>
  BY DEF Poll, Crash, Leave, Rebalance, Regroup, vars
<1>2. CommittedIsHandled'
  BY <1>1 DEF CommittedIsHandled
<1>3. ASSUME NEW w \in Workers, Poll(w) PROVE BatchInv'
  <2>1. UNCHANGED <<owner, generation>>
    BY <1>3 DEF Poll
  <2>2. PICK upTo \in [Topics -> 0..BatchSize] :
           /\ tasks' = tasks \cup Batch(w, upTo)
           /\ \A t \in Batch(w, upTo) :
                 /\ t \in Task /\ t.worker = w /\ t.gen = generation /\ owner[t.part] = w
                 /\ t.pc \in {"fetch", "requeue"}
                 /\ \A k \in (committed[t.part] + 1)..t.off :
                       NewTask(w, t.part, k) \in Batch(w, upTo)
    BY <1>3, PollFacts
  <2>3. ASSUME NEW t \in Batch(w, upTo), NEW k \in (committed[t.part] + 1)..t.off
        PROVE  \E x \in tasks' : /\ x.worker = t.worker /\ x.part = t.part
                                 /\ x.off = k /\ x.gen = generation
    <3>1. t.part \in Topics /\ t.off \in Nat
      BY <2>2 DEF Task
    <3>2. committed[t.part] \in Nat
      BY <3>1 DEF FleetTypes, TypeOK
    <3>3. k \in Nat
      BY <3>1, <3>2
    <3>4. NewTask(w, t.part, k) \in tasks'
      BY <2>2
    <3> QED BY <2>2, <3>1, <3>3, <3>4, NewTaskFacts
  <2>4. \A t \in tasks' : t.pc = "done" => <<t.part, t.off>> \in handled'
    BY <1>1, <2>2 DEF BatchInv
  <2>5. ASSUME NEW t \in tasks, t.gen = generation
        PROVE  /\ owner[t.part] = t.worker
               /\ \A k \in (committed[t.part] + 1)..t.off :
                     \E x \in tasks' : /\ x.worker = t.worker /\ x.part = t.part
                                      /\ x.off = k /\ x.gen = generation
    BY <2>2, <2>5 DEF BatchInv
  <2> QED BY <1>1, <2>1, <2>2, <2>3, <2>4, <2>5 DEF BatchInv
<1>4. ASSUME Rebalance \/ \E w \in Workers : Leave(w) \/ Crash(w) PROVE BatchInv'
  <2>1. tasks' \subseteq tasks /\ \A t \in tasks' : t.gen # generation'
    BY <1>4, RegroupFacts
  <2> QED BY <1>1, <2>1 DEF BatchInv
<1>5. ASSUME UNCHANGED vars PROVE BatchInv'
  BY <1>5 DEF vars, BatchInv
<1> QED BY <1>2, <1>3, <1>4, <1>5

LEMMA BatchHolds == Spec => [](BatchInv /\ CommittedIsHandled)
<1>1. FleetTypes /\ (BatchInv /\ CommittedIsHandled) /\ [Next]_vars
      => (BatchInv /\ CommittedIsHandled)'
  BY HandleBatch, CommitBatch, LoopBatch DEF Next, Waiting
<1> QED BY <1>1, FleetTypesHold, InitBatch, PTL DEF Spec

\* A committed record has been handled to the end, whatever crashes and rebalances came in
\* between: the offsets are committed after the whole batch, and a batch of an earlier
\* generation commits nothing (worker.py:8-10, 98-111).
THEOREM CommittedRecordsAreHandled == Spec => []CommittedIsHandled
BY BatchHolds, PTL

-----------------------------------------------------------------------------
(* No URL is lost                                                           *)

\* A record keeps its URL, and a record with the same URL as a handled one that is still
\* to be handled stays so until a task handles it and leaves an outcome or another one.
LEMMA HandleOutstanding ==
    ASSUME FleetTypes, Outstanding, NEW t \in tasks, HandleStep(t)
    PROVE  Outstanding'
<1> DEFINE url(r) == log[r[1]][r[2]].url
           own == <<t.part, t.off>>
<1>1. PICK next : Outcome(t, next)
  BY HandleFacts
<1>2. FleetTypes' /\ LogGrows
  BY HandleFacts
<1>3. \A r \in Places : r \in Places' /\ log'[r[1]][r[2]] = log[r[1]][r[2]]
  <2>1. \A p \in Topics : /\ Len(log[p]) \in Nat /\ Len(log'[p]) \in Nat
                         /\ Len(log[p]) <= Len(log'[p])
                         /\ \A i \in 1..Len(log[p]) : log'[p][i] = log[p][i]
    BY <1>2 DEF FleetTypes, TypeOK, LogGrows
  <2> QED BY <2>1 DEF Places
<1>4. own \in Places /\ handled \subseteq Places /\ url(own) = msg(t).url
  BY DEF FleetTypes, msg
<1>5. CASE UNCHANGED <<handled, resolved>>
  BY <1>3, <1>4, <1>5 DEF Outstanding
<1>6. CASE handled' = handled \cup {own} /\ resolved' = resolved \cup {msg(t).url}
  <2> SUFFICES ASSUME NEW r \in handled', url(r) # msg(t).url
               PROVE  \/ log'[r[1]][r[2]].url \in resolved'
                      \/ \E q \in Places' : /\ q \notin handled'
                                            /\ log'[q[1]][q[2]].url = log'[r[1]][r[2]].url
    BY <1>3, <1>4, <1>6 DEF Outstanding
  <2>1. r \in handled /\ r \in Places
    BY <1>4, <1>6
  <2>2. CASE url(r) \in resolved
    BY <1>3, <1>6, <2>1, <2>2
  <2>3. CASE \E q \in Places : q \notin handled /\ url(q) = url(r)
    <3>1. PICK q \in Places : q \notin handled /\ url(q) = url(r)
      BY <2>3
    <3>2. q # own
      BY <1>4, <3>1
    <3> QED BY <1>3, <1>6, <2>1, <3>1, <3>2
  <2> QED BY <2>1, <2>2, <2>3 DEF Outstanding
<1>7. ASSUME handled' = handled \cup {own}, resolved' = resolved,
             NEW p \in Topics, Len(log'[p]) = Len(log[p]) + 1,
             log'[p][Len(log[p]) + 1].url = msg(t).url
      PROVE  Outstanding'
  <2> DEFINE new == <<p, Len(log[p]) + 1>>
  <2>1. Len(log[p]) \in Nat
    BY DEF FleetTypes, TypeOK
  <2>2. new \in Places' /\ new \notin Places /\ log'[new[1]][new[2]].url = msg(t).url
    BY <1>7, <2>1 DEF Places
  <2>3. new \notin handled'
    BY <1>4, <1>7, <2>2
  <2> HIDE DEF new
  <2> SUFFICES ASSUME NEW r \in handled', url(r) # msg(t).url
               PROVE  \/ log'[r[1]][r[2]].url \in resolved'
                      \/ \E q \in Places' : /\ q \notin handled'
                                            /\ log'[q[1]][q[2]].url = log'[r[1]][r[2]].url
    BY <1>3, <1>4, <1>7, <2>2, <2>3 DEF Outstanding
  <2>4. r \in handled /\ r \in Places
    BY <1>4, <1>7
  <2>5. CASE url(r) \in resolved
    BY <1>3, <1>7, <2>4, <2>5
  <2>6. CASE \E q \in Places : q \notin handled /\ url(q) = url(r)
    <3>1. PICK q \in Places : q \notin handled /\ url(q) = url(r)
      BY <2>6
    <3>2. q # own
      BY <1>4, <3>1
    <3> QED BY <1>3, <1>7, <2>4, <3>1, <3>2
  <2> QED BY <2>4, <2>5, <2>6 DEF Outstanding
<1> QED BY <1>1, <1>5, <1>6, <1>7 DEF Outcome

LEMMA OutstandingHolds == Spec => []Outstanding
<1>1. Init => Outstanding
  BY DEF Init, Outstanding
<1>2. FleetTypes /\ Outstanding /\ [Next]_vars => Outstanding'
  <2> SUFFICES ASSUME FleetTypes, Outstanding, [Next]_vars PROVE Outstanding'
    OBVIOUS
  <2>1. ASSUME NEW t \in tasks, HandleStep(t) PROVE Outstanding'
    BY <2>1, HandleOutstanding
  <2>2. CASE \/ \E w \in Workers : Poll(w) \/ Commit(w) \/ Crash(w) \/ Leave(w)
             \/ Rebalance \/ UNCHANGED vars
    <3>1. UNCHANGED <<log, handled, resolved>>
      BY <2>2, LoopTypes
    <3> QED BY <3>1 DEF Outstanding, Places
  <2> QED BY <2>1, <2>2 DEF Next, Waiting
<1> QED BY <1>1, <1>2, FleetTypesHold, PTL DEF Spec

\* When the topics are drained every URL that was ever published has its outcome: a record
\* that is handled without one has left another record, and a drained topic has only
\* handled ones (worker.py:145-164).
THEOREM NoUrlIsLost == Spec => []NoUrlLost
<1>1. FleetTypes /\ CommittedIsHandled /\ Outstanding => NoUrlLost
  <2> SUFFICES ASSUME FleetTypes, CommittedIsHandled, Outstanding, Drained,
                      NEW p \in Topics, NEW i \in 1..Len(log[p])
               PROVE  log[p][i].url \in resolved
    BY DEF NoUrlLost
  <2>1. Places \subseteq handled
    <3> SUFFICES ASSUME NEW q \in Topics, NEW o \in 1..Len(log[q])
                 PROVE  <<q, o>> \in handled
      BY DEF Places
    <3> QED BY DEF Drained, CommittedIsHandled
  <2>2. <<p, i>> \in handled
    BY DEF Drained, CommittedIsHandled
  <2> QED BY <2>1, <2>2 DEF Outstanding
<1> QED BY <1>1, FleetTypesHold, BatchHolds, OutstandingHolds, PTL

-----------------------------------------------------------------------------
(* Retries                                                                  *)

\* The records of a message on the retry topic stay there.
LEMMA RetriedStays ==
    ASSUME FleetTypes, LogGrows, NEW m, Retried(m)
    PROVE  Retried(m)'
<1>1. /\ Len(log[RetryPart]) \in Nat /\ Len(log'[RetryPart]) \in Nat
      /\ Len(log[RetryPart]) <= Len(log'[RetryPart])
      /\ \A i \in 1..Len(log[RetryPart]) : log'[RetryPart][i] = log[RetryPart][i]
  BY TopicFacts DEF FleetTypes, TypeOK, LogGrows
<1>2. ASSUME NEW k \in 1..m.attempts
      PROVE  \E i \in 1..Len(log'[RetryPart]) : log'[RetryPart][i] = [m EXCEPT !.attempts = k]
  <2>1. PICK i \in 1..Len(log[RetryPart]) : log[RetryPart][i] = [m EXCEPT !.attempts = k]
    BY DEF Retried
  <2> QED BY <1>1, <2>1
<1> QED BY <1>2 DEF Retried

\* A record may be sent if its earlier attempts are on the retry topic and, should it be
\* a further attempt, it goes there itself.
LEMMA SendRetried ==
    ASSUME FleetTypes, RetryInv, NEW p \in Topics, NEW m \in Message, Send(p, m),
           UNCHANGED dlq, p = RetryPart => m.attempts > 0,
           \A k \in 1..m.attempts :
               \/ k = m.attempts /\ p = RetryPart
               \/ \E i \in 1..Len(log[RetryPart]) : log[RetryPart][i] = [m EXCEPT !.attempts = k]
    PROVE  RetryInv'
<1> DEFINE n == Len(log[p]) + 1
<1>1. log \in [Topics -> Seq(Message)] /\ RetryPart \in Topics
  BY TopicFacts DEF FleetTypes, TypeOK
<1>2. /\ LogGrows /\ Len(log[p]) \in Nat /\ Len(log'[p]) = n /\ log'[p][n] = m
      /\ \A q \in Topics : q # p => log'[q] = log[q]
  BY <1>1, SendFacts
<1>3. /\ Len(log[RetryPart]) \in Nat /\ Len(log'[RetryPart]) \in Nat
      /\ Len(log[RetryPart]) <= Len(log'[RetryPart])
      /\ \A i \in 1..Len(log[RetryPart]) : log'[RetryPart][i] = log[RetryPart][i]
  BY <1>1, <1>2 DEF LogGrows
<1>4. Retried(m)'
  <2>1. ASSUME NEW k \in 1..m.attempts
        PROVE  \E i \in 1..Len(log'[RetryPart]) : log'[RetryPart][i] = [m EXCEPT !.attempts = k]
    <3>1. CASE k = m.attempts /\ p = RetryPart
      <4>1. [m EXCEPT !.attempts = k] = m
        BY <3>1 DEF Message
      <4>2. n \in 1..Len(log'[RetryPart]) /\ log'[RetryPart][n] = m
        BY <1>2, <3>1
      <4> QED BY <4>1, <4>2
    <3>2. CASE \E i \in 1..Len(log[RetryPart]) : log[RetryPart][i] = [m EXCEPT !.attempts = k]
      <4>1. PICK i \in 1..Len(log[RetryPart]) : log[RetryPart][i] = [m EXCEPT !.attempts = k]
        BY <3>2
      <4> QED BY <1>3, <4>1
    <3> QED BY <3>1, <3>2
  <2> QED BY <2>1 DEF Retried
<1> HIDE DEF n
<1>5. ASSUME NEW q \in Topics, NEW i \in 1..Len(log'[q])
      PROVE  \/ i \in 1..Len(log[q]) /\ log'[q][i] = log[q][i]
             \/ q = p /\ i = n /\ log'[q][i] = m
  <2>1. Len(log[q]) \in Nat /\ \A j \in 1..Len(log[q]) : log'[q][j] = log[q][j]
    BY <1>1, <1>2 DEF LogGrows
  <2>2. CASE q # p
    BY <1>2, <2>1, <2>2
  <2>3. CASE q = p
    BY <1>2, <2>1, <2>3 DEF n
  <2> QED BY <2>2, <2>3
<1>6. ASSUME NEW q \in Topics, NEW i \in 1..Len(log'[q]) PROVE Retried(log[q][i])'
  <2>1. CASE i \in 1..Len(log[q]) /\ log'[q][i] = log[q][i]
    <3>1. PICK r : r = log[q][i]
      OBVIOUS
    <3>2. Retried(r)'
      BY <1>2, <2>1, <3>1, RetriedStays DEF RetryInv
    <3> QED BY <2>1, <3>1, <3>2 DEF Retried
  <2>2. CASE log'[q][i] = m
    BY <1>4, <2>2 DEF Retried
  <2> QED BY <1>5, <2>1, <2>2
<1>7. \A i \in 1..Len(log'[RetryPart]) : log'[RetryPart][i].attempts > 0
  BY <1>1, <1>5 DEF RetryInv
<1>8. DlqAfterAllRetries'
  <2> SUFFICES ASSUME NEW d \in dlq, NEW k \in 1..MaxRetries
               PROVE  \E i \in 1..Len(log'[RetryPart]) :
                          log'[RetryPart][i] = [d EXCEPT !.attempts = k]
    BY DEF DlqAfterAllRetries
  <2>1. PICK i \in 1..Len(log[RetryPart]) : log[RetryPart][i] = [d EXCEPT !.attempts = k]
    BY DEF RetryInv, DlqAfterAllRetries
  <2> QED BY <1>3, <2>1
<1> QED BY <1>6, <1>7, <1>8 DEF RetryInv

\* Only retries carry attempts; each was on the retry topic with one attempt less.
LEMMA HandleRetry ==
    ASSUME FleetTypes, RetryInv, NEW t \in tasks, HandleStep(t)
    PROVE  RetryInv'
<1>1. /\ t.part \in Topics /\ t.off \in 1..Len(log[t.part])
      /\ msg(t) \in Message /\ msg(t).url \in Urls
      /\ msg(t).depth \in 0..MaxDepth /\ msg(t).attempts \in 0..MaxRetries
  BY RecordFacts
<1>2. Retried(msg(t))
  BY <1>1 DEF RetryInv, msg
<1>3. CASE SendRetry(t)
  <2> DEFINE m == [msg(t) EXCEPT !.attempts = @ + 1]
  <2>1. Send(RetryPart, m) /\ ~(msg(t).attempts >= MaxRetries) /\ UNCHANGED dlq
    BY <1>3 DEF SendRetry, OutOfAttempts
  <2>2. m \in Message /\ m.attempts = msg(t).attempts + 1
    BY <1>1, <2>1, LimitsAssumption DEF Message
  <2>3. ASSUME NEW k \in 1..m.attempts
        PROVE  \/ k = m.attempts
               \/ \E i \in 1..Len(log[RetryPart]) : log[RetryPart][i] = [m EXCEPT !.attempts = k]
    <3>1. [m EXCEPT !.attempts = k] = [msg(t) EXCEPT !.attempts = k]
      BY <1>1 DEF Message
    <3>2. k = m.attempts \/ k \in 1..msg(t).attempts
      BY <1>1, <2>2
    <3> HIDE DEF m
    <3> QED BY <1>2, <3>1, <3>2 DEF Retried
  <2>4. m.attempts > 0
    BY <1>1, <2>2
  <2> HIDE DEF m
  <2> QED BY <2>1, <2>2, <2>3, <2>4, SendRetried, TopicFacts
<1>4. CASE Requeue(t)
  <2>1. Send(PartitionFor[msg(t).url], msg(t)) /\ UNCHANGED dlq
    BY <1>4 DEF Requeue
  <2>2. PartitionFor[msg(t).url] \in Topics /\ PartitionFor[msg(t).url] # RetryPart
    BY <1>1, TopicFacts
  <2> QED BY <1>1, <1>2, <2>1, <2>2, SendRetried DEF Retried
<1>5. ASSUME NEW v \in t.link, EnqueueLink(t, v) PROVE RetryInv'
  <2> DEFINE m == [url |-> v, depth |-> msg(t).depth + 1, attempts |-> 0]
  <2>1. v \in Urls /\ msg(t).depth < MaxDepth
    BY <1>5, RecordFacts DEF Task, EnqueueLink, FleetTypes
  <2>2. Send(PartitionFor[v], m) /\ UNCHANGED dlq
    BY <1>5 DEF EnqueueLink
  <2>3. m \in Message /\ m.attempts = 0
    BY <1>1, <2>1, LimitsAssumption DEF Message
  <2>4. PartitionFor[v] \in Topics /\ PartitionFor[v] # RetryPart
    BY <2>1, TopicFacts
  <2> HIDE DEF m
  <2>5. \A k \in 1..m.attempts : FALSE
    BY <2>3
  <2> QED BY <2>2, <2>3, <2>4, <2>5, SendRetried
<1>6. CASE SendDlq(t)
  <2>1. UNCHANGED log /\ dlq' = dlq \cup {msg(t)} /\ msg(t).attempts >= MaxRetries
    BY <1>6 DEF SendDlq, OutOfAttempts
  <2>2. msg(t).attempts = MaxRetries
    BY <1>1, <2>1, LimitsAssumption
  <2>3. DlqAfterAllRetries'
    BY <1>2, <2>1, <2>2 DEF DlqAfterAllRetries, RetryInv, Retried
  <2> QED BY <2>1, <2>3 DEF RetryInv, Retried
<1>7. CASE UNCHANGED <<log, dlq>>
  BY <1>7 DEF RetryInv, Retried, DlqAfterAllRetries
<1> QED
  BY <1>3, <1>4, <1>5, <1>6, <1>7
  DEF HandleStep, Refuse, NotModified, FetchOk, Register, Save, CheckLink, Fail

LEMMA RetryHolds == Spec => []RetryInv
<1>1. Init => RetryInv
  <2> SUFFICES ASSUME Init PROVE RetryInv
    OBVIOUS
  <2>1. dlq = {}
    BY DEF Init
  <2>2. ASSUME NEW p \in Topics, NEW i \in 1..Len(log[p])
        PROVE  log[p][i].attempts = 0 /\ p # RetryPart
    <3>1. log[p] \in Seq(Message)
      BY InitFleet DEF FleetTypes, TypeOK
    <3>2. i \in DOMAIN log[p]
      BY <3>1
    <3> DEFINE SeedMessage == [url : Seeds, depth : {0}, attempts : {0}]
    <3>3. log[p][i] \in SeedMessage
      <4> HIDE DEF SeedMessage
      <4>1. log \in [Topics -> UNION {[1..n -> SeedMessage] : n \in 0..Cardinality(Seeds)}]
        BY DEF Init, SeedMessage
      <4>2. PICK n \in 0..Cardinality(Seeds) : log[p] \in [1..n -> SeedMessage]
        BY <4>1
      <4> QED BY <3>2, <4>2
    <3>4. log[p][i].url \in {u \in Seeds : PartitionFor[u] = p}
      BY <3>2 DEF Init
    <3> QED BY <3>3, <3>4, TopicFacts, UrlsAssumption
  <2>3. ASSUME NEW p \in Topics, NEW i \in 1..Len(log[p]) PROVE Retried(log[p][i])
    BY <2>2 DEF Retried
  <2> QED BY <2>1, <2>2, <2>3, TopicFacts DEF RetryInv, DlqAfterAllRetries
<1>2. FleetTypes /\ RetryInv /\ [Next]_vars => RetryInv'
  <2> SUFFICES ASSUME FleetTypes, RetryInv, [Next]_vars PROVE RetryInv'
    OBVIOUS
  <2>1. ASSUME NEW t \in tasks, HandleStep(t) PROVE RetryInv'
    BY <2>1, HandleRetry
  <2>2. CASE \/ \E w \in Workers : Poll(w) \/ Commit(w) \/ Crash(w) \/ Leave(w)
             \/ Rebalance \/ UNCHANGED vars
    <3>1. UNCHANGED <<log, dlq>>
      BY <2>2, LoopTypes
    <3> QED BY <3>1 DEF RetryInv, Retried, DlqAfterAllRetries
  <2> QED BY <2>1, <2>2 DEF Next, Waiting
<1> QED BY <1>1, <1>2, FleetTypesHold, PTL DEF Spec

\* A message reaches the dead-letter topic only after each of its retries was published
\* on the retry topic (worker.py:157-164).
THEOREM DlqAfterRetries == Spec => []DlqAfterAllRetries
<1>1. RetryInv => DlqAfterAllRetries
  BY DEF RetryInv
<1> QED BY <1>1, RetryHolds, PTL

-----------------------------------------------------------------------------
(* Children                                                                 *)

\* A link comes to a task only from the seen-set.
LEMMA LinksShrink ==
    ASSUME FleetTypes, NEW t \in tasks, HandleStep(t),
           \A v \in t.todo : CheckLink(t, v) => AlreadySeen(v)
    PROVE  \E next : tasks' = (tasks \ {t}) \cup {next} /\ next.link \subseteq t.link
<1>1. t \in Task /\ msg(t).url \in Urls /\ t.todo \in SUBSET Urls
  BY RecordFacts DEF Task
<1>2. UNCHANGED <<committed, owner, generation>>
  BY DEF HandleStep, Refuse, NotModified, FetchOk, Register, Save, CheckLink, EnqueueLink,
         Fail, SendDlq, SendRetry, Requeue
<1>3. ASSUME Return(t)
      PROVE  \E next : tasks' = (tasks \ {t}) \cup {next} /\ next.link \subseteq t.link
  BY <1>2, <1>3, ReturnFacts DEF Moved
<1>4. ASSUME NEW rest \in SUBSET Urls, Continue(t, rest)
      PROVE  \E next : tasks' = (tasks \ {t}) \cup {next} /\ next.link \subseteq t.link
  BY <1>2, <1>4, ContinueFacts DEF Moved
<1>5. CASE Refuse(t) \/ NotModified(t) \/ SendDlq(t) \/ SendRetry(t) \/ Requeue(t)
  BY <1>3, <1>5 DEF Refuse, NotModified, SendDlq, SendRetry, Requeue
<1>6. CASE Save(t)
  <2> DEFINE rest == IF t.dup \/ msg(t).depth >= MaxDepth THEN {} ELSE Links[msg(t).url]
  <2>1. rest \in SUBSET Urls /\ Continue(t, rest)
    BY <1>1, <1>6, PagesAssumption DEF Save
  <2> HIDE DEF rest
  <2> QED BY <1>4, <2>1
<1>7. ASSUME NEW v \in t.todo, CheckLink(t, v)
      PROVE  \E next : tasks' = (tasks \ {t}) \cup {next} /\ next.link \subseteq t.link
  <2>1. Continue(t, t.todo \ {v}) /\ t.todo \ {v} \in SUBSET Urls
    BY <1>1, <1>7 DEF CheckLink
  <2> QED BY <1>4, <2>1
<1>8. ASSUME NEW v \in t.link, EnqueueLink(t, v)
      PROVE  \E next : tasks' = (tasks \ {t}) \cup {next} /\ next.link \subseteq t.link
  BY <1>1, <1>4, <1>8 DEF EnqueueLink
<1>9. CASE FetchOk(t) \/ Register(t) \/ Fail(t)
  <2>1. PICK pc, dup, todo :
           \/ tasks' = (tasks \ {t}) \cup {[t EXCEPT !.pc = pc, !.dup = dup]}
           \/ tasks' = (tasks \ {t}) \cup {[t EXCEPT !.pc = pc]}
           \/ tasks' = (tasks \ {t}) \cup {[t EXCEPT !.pc = pc, !.todo = {}, !.link = {}]}
    BY <1>9 DEF FetchOk, Register, Fail, Step, Goto
  <2>2. /\ [t EXCEPT !.pc = pc, !.dup = dup].link = t.link
        /\ [t EXCEPT !.pc = pc].link = t.link
        /\ [t EXCEPT !.pc = pc, !.todo = {}, !.link = {}].link = {}
    BY <1>1 DEF Task
  <2> QED BY <2>1, <2>2
<1> QED BY <1>5, <1>6, <1>7, <1>8, <1>9 DEF HandleStep

\* Nothing is disturbed while no child is published and no link comes to a task.
LEMMA ChildStays ==
    ASSUME ChildInv, seen \subseteq seen',
           \A p \in Partitions, v \in Urls : \A i \in Nat : ChildAt(p, i, v)' => ChildAt(p, i, v),
           \/ tasks' \subseteq tasks \cup {x \in tasks' : x.link = {}}
           \/ \E t \in tasks : \E next :
                 tasks' = (tasks \ {t}) \cup {next} /\ next.link \subseteq t.link,
           \A t \in tasks : t.link \subseteq Urls
    PROVE  ChildInv'
<1>1. \A p, q \in Partitions, v \in Urls : \A i, j \in Nat :
          ChildAt(p, i, v)' /\ ChildAt(q, j, v)' => p = q /\ i = j
  BY DEF ChildInv
<1>2. \A p \in Partitions, v \in Urls : \A i \in Nat :
          ChildAt(p, i, v)' => bloom_indices(v) \subseteq seen'
  BY DEF ChildInv
<1>3. ASSUME NEW t \in tasks', NEW v \in t.link
      PROVE  /\ v \in Urls /\ bloom_indices(v) \subseteq seen'
             /\ \A p \in Partitions : \A i \in Nat : ~ChildAt(p, i, v)'
             /\ \A x \in tasks' : v \in x.link => x = t
  BY DEF ChildInv
<1> QED BY <1>1, <1>2, <1>3 DEF ChildInv, bloom_indices

\* check_and_add gives a link to one task, ever; it is published at most once.
LEMMA HandleChild ==
    ASSUME FleetTypes, RetryInv, ChildInv, NEW t \in tasks, HandleStep(t)
    PROVE  ChildInv'
<1>1. /\ t \in Task /\ t.part \in Topics /\ t.off \in 1..Len(log[t.part])
      /\ msg(t) \in Message /\ msg(t).url \in Urls /\ msg(t).depth \in 0..MaxDepth
      /\ log \in [Topics -> Seq(Message)]
  BY RecordFacts DEF FleetTypes, TypeOK
<1>2. \A x \in tasks : x.link \subseteq Urls /\ x.todo \subseteq Urls
  BY DEF FleetTypes, TypeOK, Task
<1>3. ASSUME NEW v \in t.todo, CheckLink(t, v), ~AlreadySeen(v) PROVE ChildInv'
  <2> DEFINE next == [t EXCEPT !.pc = "enqueue", !.todo = @ \ {v}, !.link = {v}]
  <2>1. /\ tasks' = (tasks \ {t}) \cup {next} /\ seen' = seen \cup bloom_indices(v)
        /\ log' = log
    BY <1>3 DEF CheckLink, Step
  <2>2. next.link = {v} /\ v \in Urls
    BY <1>1, <1>2 DEF Task
  <2> HIDE DEF next
  <2>3. \A p \in Partitions, u \in Urls : \A i \in Nat : ChildAt(p, i, u)' <=> ChildAt(p, i, u)
    BY <2>1 DEF ChildAt
  <2>4. /\ \A p \in Partitions : \A i \in Nat : ~ChildAt(p, i, v)
        /\ \A x \in tasks : v \notin x.link
    BY <1>3, <2>2 DEF ChildInv, AlreadySeen
  <2>5. ASSUME NEW x \in tasks', NEW u \in x.link
        PROVE  /\ u \in Urls /\ bloom_indices(u) \subseteq seen'
               /\ \A p \in Partitions : \A i \in Nat : ~ChildAt(p, i, u)'
               /\ \A y \in tasks' : u \in y.link => y = x
    BY <1>2, <2>1, <2>2, <2>3, <2>4 DEF ChildInv
  <2>6. \A p \in Partitions, u \in Urls : \A i \in Nat :
            ChildAt(p, i, u)' => bloom_indices(u) \subseteq seen'
    BY <2>1, <2>3 DEF ChildInv
  <2>7. \A p, q \in Partitions, u \in Urls : \A i, j \in Nat :
            ChildAt(p, i, u)' /\ ChildAt(q, j, u)' => p = q /\ i = j
    BY <2>3 DEF ChildInv
  <2> QED BY <2>5, <2>6, <2>7 DEF ChildInv, bloom_indices
<1>4. ASSUME \A v \in t.todo : CheckLink(t, v) => AlreadySeen(v),
             \A v \in t.link : ~EnqueueLink(t, v)
      PROVE  ChildInv'
  <2>1. \E next : tasks' = (tasks \ {t}) \cup {next} /\ next.link \subseteq t.link
    BY <1>4, LinksShrink
  <2>2. seen \subseteq seen'
    BY <1>4 DEF HandleStep, Refuse, NotModified, FetchOk, Register, Save, CheckLink, Fail,
                SendDlq, SendRetry, Requeue
  <2>3. \/ log' = log \/ \E m : Send(RetryPart, m)
        \/ t.pc = "requeue" /\ Send(PartitionFor[msg(t).url], msg(t))
    BY <1>4 DEF HandleStep, Refuse, NotModified, FetchOk, Register, Save, CheckLink, Fail,
                SendDlq, SendRetry, Requeue
  <2>4. \A p \in Partitions, v \in Urls : \A i \in Nat : ChildAt(p, i, v)' => ChildAt(p, i, v)
    <3>1. CASE log' = log
      BY <3>1 DEF ChildAt
    <3>2. CASE \E m : Send(RetryPart, m)
      <4>1. \A p \in Partitions : log'[p] = log[p]
        BY <1>1, <3>2, TopicFacts DEF Send
      <4> QED BY <4>1 DEF ChildAt
    <3>3. CASE t.pc = "requeue" /\ Send(PartitionFor[msg(t).url], msg(t))
      <4> DEFINE q == PartitionFor[msg(t).url]
      <4>1. q \in Topics /\ Send(q, msg(t))
        BY <1>1, <3>3, TopicFacts
      <4>2. msg(t).attempts > 0
        BY <1>1, <3>3 DEF FleetTypes, RetryInv, msg
      <4> HIDE DEF q
      <4>3. /\ LogGrows /\ Len(log[q]) \in Nat /\ Len(log'[q]) = Len(log[q]) + 1
            /\ log'[q][Len(log[q]) + 1] = msg(t)
            /\ \A p \in Topics : p # q => log'[p] = log[p]
        BY <1>1, <4>1, SendFacts
      <4>4. \A i \in 1..Len(log'[q]) : i \in 1..Len(log[q]) \/ i = Len(log[q]) + 1
        BY <4>3
      <4>5. \A i \in 1..Len(log[q]) : log'[q][i] = log[q][i]
        BY <4>1, <4>3 DEF LogGrows
      <4>6. ~(msg(t).attempts = 0)
        BY <4>2
      <4> QED BY <4>3, <4>4, <4>5, <4>6, TopicFacts DEF ChildAt
    <3> QED BY <2>3, <3>1, <3>2, <3>3
  <2> QED BY <1>2, <2>1, <2>2, <2>4, ChildStays
<1>5. ASSUME NEW v \in t.link, EnqueueLink(t, v) PROVE ChildInv'
  <2> DEFINE m == [url |-> v, depth |-> msg(t).depth + 1, attempts |-> 0]
             q == PartitionFor[v]
             n == Len(log[q]) + 1
  <2>1. v \in Urls /\ msg(t).depth < MaxDepth /\ q \in Topics /\ q \in Partitions
    BY <1>2, <1>5, TopicFacts DEF EnqueueLink, FleetTypes
  <2>2. Send(q, m) /\ Continue(t, t.todo) /\ UNCHANGED <<seen, committed, owner, generation>>
    BY <1>5 DEF EnqueueLink
  <2>3. m \in Message /\ m.url = v
    BY <1>1, <2>1, LimitsAssumption DEF Message
  <2>4. PICK next : Moved(t, next) /\ next.link = {}
    <3>1. t.todo \in SUBSET Urls
      BY <1>2
    <3> QED BY <2>2, <3>1, ContinueFacts
  <2> HIDE DEF m, q
  <2>5. /\ LogGrows /\ Len(log[q]) \in Nat /\ Len(log'[q]) = n /\ log'[q][n] = m
        /\ \A p \in Topics : p # q => log'[p] = log[p]
    BY <1>1, <2>1, <2>2, <2>3, SendFacts
  <2>6. /\ \A i \in 1..Len(log'[q]) : i \in 1..Len(log[q]) \/ i = n
        /\ \A i \in 1..Len(log[q]) : log'[q][i] = log[q][i]
    BY <2>1, <2>5 DEF LogGrows
  <2> HIDE DEF n
  <2>7. \A p \in Partitions, u \in Urls : \A i \in Nat :
            ChildAt(p, i, u)' => ChildAt(p, i, u) \/ (p = q /\ i = n /\ u = v)
    BY <2>3, <2>5, <2>6, TopicFacts DEF ChildAt
  <2>8. /\ bloom_indices(v) \subseteq seen
        /\ \A p \in Partitions : \A i \in Nat : ~ChildAt(p, i, v)
        /\ \A x \in tasks : v \in x.link => x = t
    BY DEF ChildInv
  <2>9. \A p, r \in Partitions, u \in Urls : \A i, j \in Nat :
            ChildAt(p, i, u)' /\ ChildAt(r, j, u)' => p = r /\ i = j
    BY <2>7, <2>8 DEF ChildInv
  <2>10. \A p \in Partitions, u \in Urls : \A i \in Nat :
            ChildAt(p, i, u)' => bloom_indices(u) \subseteq seen'
    BY <2>2, <2>7, <2>8 DEF ChildInv
  <2>11. ASSUME NEW x \in tasks', NEW u \in x.link
         PROVE  /\ bloom_indices(u) \subseteq seen'
                /\ \A p \in Partitions : \A i \in Nat : ~ChildAt(p, i, u)'
                /\ \A y \in tasks' : u \in y.link => y = x
    <3>1. x \in tasks /\ x # t /\ u \in Urls /\ u # v
      BY <1>2, <2>4, <2>8 DEF Moved
    <3>2. /\ bloom_indices(u) \subseteq seen
          /\ \A p \in Partitions : \A i \in Nat : ~ChildAt(p, i, u)
          /\ \A y \in tasks : u \in y.link => y = x
      BY <3>1 DEF ChildInv
    <3> QED BY <2>2, <2>4, <2>7, <3>1, <3>2 DEF Moved
  <2> QED BY <2>9, <2>10, <2>11 DEF ChildInv, bloom_indices
<1> QED BY <1>3, <1>4, <1>5

LEMMA ChildHolds == Spec => []ChildInv
<1>1. Init => ChildInv
  <2> SUFFICES ASSUME Init PROVE ChildInv
    OBVIOUS
  <2>1. tasks = {}
    BY DEF Init
  <2>2. ASSUME NEW p \in Topics, NEW i \in 1..Len(log[p]) PROVE log[p][i].depth = 0
    <3>1. log[p] \in Seq(Message)
      BY InitFleet DEF FleetTypes, TypeOK
    <3>2. i \in DOMAIN log[p]
      BY <3>1
    <3> DEFINE SeedMessage == [url : Seeds, depth : {0}, attempts : {0}]
    <3> HIDE DEF SeedMessage
    <3>3. log \in [Topics -> UNION {[1..n -> SeedMessage] : n \in 0..Cardinality(Seeds)}]
      BY DEF Init, SeedMessage
    <3>4. PICK n \in 0..Cardinality(Seeds) : log[p] \in [1..n -> SeedMessage]
      BY <3>3
    <3>5. log[p][i] \in SeedMessage
      BY <3>2, <3>4
    <3> QED BY <3>5 DEF SeedMessage
  <2>3. \A p \in Partitions, v \in Urls : \A i \in Nat : ~ChildAt(p, i, v)
    BY <2>2, TopicFacts DEF ChildAt
  <2> QED BY <2>1, <2>3 DEF ChildInv
<1>2. FleetTypes /\ RetryInv /\ ChildInv /\ [Next]_vars => ChildInv'
  <2> SUFFICES ASSUME FleetTypes, RetryInv, ChildInv, [Next]_vars PROVE ChildInv'
    OBVIOUS
  <2>1. ASSUME NEW t \in tasks, HandleStep(t) PROVE ChildInv'
    BY <2>1, HandleChild
  <2>2. CASE \/ \E w \in Workers : Poll(w) \/ Commit(w) \/ Crash(w) \/ Leave(w)
             \/ Rebalance \/ UNCHANGED vars
    <3>1. UNCHANGED <<log, seen>>
      BY <2>2, LoopTypes
    <3>2. tasks' \subseteq tasks \cup {x \in tasks' : x.link = {}}
      <4>1. ASSUME NEW w \in Workers, Poll(w)
            PROVE  tasks' \subseteq tasks \cup {x \in tasks' : x.link = {}}
        BY <4>1, PollFacts
      <4>2. CASE \/ \E w \in Workers : Commit(w) \/ Crash(w) \/ Leave(w)
                 \/ Rebalance \/ UNCHANGED vars
        BY <4>2 DEF Commit, Crash, Leave, Rebalance, vars
      <4> QED BY <2>2, <4>1, <4>2
    <3>3. \A t \in tasks : t.link \subseteq Urls
      BY DEF FleetTypes, TypeOK, Task
    <3>4. \A p \in Partitions, v \in Urls : \A i \in Nat : ChildAt(p, i, v)' => ChildAt(p, i, v)
      BY <3>1 DEF ChildAt
    <3> QED BY <3>1, <3>2, <3>3, <3>4, ChildStays
  <2> QED BY <2>1, <2>2 DEF Next, Waiting
<1> QED BY <1>1, <1>2, FleetTypesHold, RetryHolds, PTL DEF Spec

\* Across the fleet a URL is published as a child at most once, however often its parents
\* are handled and whichever workers find it (distributed.py:28-29, 34-37).
THEOREM ChildrenEnqueuedOnce == Spec => []ChildEnqueuedOnce
<1>1. FleetTypes /\ ChildInv => ChildEnqueuedOnce
  <2> SUFFICES ASSUME FleetTypes, ChildInv,
                      NEW p \in Partitions, NEW q \in Partitions,
                      NEW i \in 1..Len(log[p]), NEW j \in 1..Len(log[q]),
                      log[p][i].url = log[q][j].url,
                      log[p][i].depth > 0, log[q][j].depth > 0,
                      log[p][i].attempts = 0, log[q][j].attempts = 0
               PROVE  p = q /\ i = j
    BY DEF ChildEnqueuedOnce
  <2>1. log[p] \in Seq(Message) /\ i \in Nat /\ j \in Nat
    BY TopicFacts DEF FleetTypes, TypeOK
  <2>2. log[p][i].url \in Urls
    <3>1. i \in DOMAIN log[p]
      BY <2>1
    <3>2. log[p][i] \in Message
      BY <2>1, <3>1
    <3> QED BY <3>2 DEF Message
  <2>3. ChildAt(p, i, log[p][i].url) /\ ChildAt(q, j, log[p][i].url)
    BY DEF ChildAt
  <2> QED BY <2>1, <2>2, <2>3 DEF ChildInv
<1> QED BY <1>1, FleetTypesHold, ChildHolds, PTL

=============================================================================
