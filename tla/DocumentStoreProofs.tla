------------------------ MODULE DocumentStoreProofs ------------------------
(***************************************************************************)
(* Proofs about DocumentStore, for any site, any number of handlers and     *)
(* any number of faults.                                                    *)
(***************************************************************************)
EXTENDS DocumentStore, FiniteSetTheorems, TLAPS

\* What a handler is doing: it has a content once the page has arrived, and the body of a
\* page that is no near-duplicate is stored before its row is written.
Task ==
    [url : Urls, pc : {"fetch", "dedup", "register", "put", "save"},
     content : Contents \cup {NoValue}, dup : BOOLEAN, etag : Contents \cup {NoValue}]

TasksOK ==
    /\ task \in [Handlers -> Task \cup {NoValue}]
    /\ \A h \in Handlers : task[h] # NoValue =>
          /\ task[h].pc # "fetch" => task[h].content \in Contents
          /\ task[h].pc = "save" => task[h].dup \/ task[h].content \in bodies

\* The types, with those of the sequences.
StoreTypes ==
    /\ TypeOK
    /\ version \in [Urls -> Nat]
    /\ order \in Seq(Urls) /\ topic \in Seq(Urls)

StoreInv == StoreTypes /\ TasksOK /\ BodyAvailable /\ DegreesWithinEdges

-----------------------------------------------------------------------------
(* Sequences                                                                *)

\* Removing an element of a sequence closes the gap.
LEMMA RemoveAtFacts ==
    ASSUME NEW S, NEW s \in Seq(S), NEW i \in DOMAIN s
    PROVE  /\ RemoveAt(s, i) \in Seq(S)
           /\ Len(RemoveAt(s, i)) = Len(s) - 1
           /\ \A j \in 1..(Len(s) - 1) :
                 RemoveAt(s, i)[j] = s[IF j < i THEN j ELSE j + 1]
<1>1. i \in 1..Len(s) /\ Len(s) \in Nat
  OBVIOUS
<1> DEFINE a == SubSeq(s, 1, i - 1)
           b == SubSeq(s, i + 1, Len(s))
<1>2. a \in Seq(S) /\ Len(a) = i - 1 /\ \A j \in 1..(i - 1) : a[j] = s[j]
  BY <1>1
<1>3. b \in Seq(S) /\ Len(b) = Len(s) - i /\ \A j \in 1..(Len(s) - i) : b[j] = s[i + j]
  BY <1>1
<1>4. RemoveAt(s, i) = a \o b
  BY DEF RemoveAt
<1> HIDE DEF a, b
<1>5. a \o b \in Seq(S) /\ Len(a \o b) = Len(s) - 1
  BY <1>1, <1>2, <1>3
<1>6. ASSUME NEW j \in 1..(Len(s) - 1) PROVE (a \o b)[j] = s[IF j < i THEN j ELSE j + 1]
  <2>1. CASE j < i
    BY <1>1, <1>2, <1>3, <2>1
  <2>2. CASE j >= i
    <3>1. (a \o b)[j] = b[j - (i - 1)]
      BY <1>1, <1>2, <1>3, <2>2
    <3>2. j - (i - 1) \in 1..(Len(s) - i) /\ i + (j - (i - 1)) = j + 1
      BY <1>1, <2>2
    <3>3. b[j - (i - 1)] = s[i + (j - (i - 1))]
      BY <1>3, <3>2
    <3> QED BY <2>2, <3>1, <3>2, <3>3
  <2>3. j < i \/ j >= i
    BY <1>1
  <2> QED BY <2>1, <2>2, <2>3
<1> QED BY <1>4, <1>5, <1>6

\* Appending a new element keeps a sequence free of repetitions.
LEMMA AppendNew ==
    ASSUME NEW S, NEW s \in Seq(S), NEW e \in S, IsInjective(s), e \notin Range(s)
    PROVE  /\ Append(s, e) \in Seq(S) /\ IsInjective(Append(s, e))
           /\ Range(Append(s, e)) = Range(s) \cup {e}
<1> DEFINE t == Append(s, e)
<1>1. t \in Seq(S) /\ Len(t) = Len(s) + 1 /\ DOMAIN t = 1..(Len(s) + 1)
      /\ t[Len(s) + 1] = e /\ \A i \in DOMAIN s : t[i] = s[i]
  OBVIOUS
<1>2. DOMAIN s = 1..Len(s) /\ Len(s) \in Nat
  OBVIOUS
<1> HIDE DEF t
<1>3. IsInjective(t)
  BY <1>1, <1>2 DEF IsInjective, Range
<1>4. Range(t) = Range(s) \cup {e}
  BY <1>1, <1>2 DEF Range
<1> QED BY <1>1, <1>3, <1>4 DEF t

\* Taking the first element keeps the others.
LEMMA TailKeeps ==
    ASSUME NEW S, NEW s \in Seq(S), s # << >>, IsInjective(s)
    PROVE  /\ Head(s) \in S /\ Tail(s) \in Seq(S) /\ IsInjective(Tail(s))
           /\ Range(Tail(s)) \subseteq Range(s)
<1>1. /\ Len(s) \in Nat \ {0} /\ DOMAIN s = 1..Len(s)
      /\ DOMAIN Tail(s) = 1..(Len(s) - 1)
      /\ \A i \in 1..(Len(s) - 1) : Tail(s)[i] = s[i + 1]
  OBVIOUS
<1>2. Head(s) \in S /\ Tail(s) \in Seq(S)
  OBVIOUS
<1>3. IsInjective(Tail(s))
  <2> SUFFICES ASSUME NEW i \in DOMAIN Tail(s), NEW j \in DOMAIN Tail(s),
                      Tail(s)[i] = Tail(s)[j]
               PROVE  i = j
    BY DEF IsInjective
  <2>1. i \in Nat /\ j \in Nat /\ i + 1 \in DOMAIN s /\ j + 1 \in DOMAIN s
        /\ s[i + 1] = s[j + 1]
    BY <1>1
  <2> QED BY <2>1 DEF IsInjective
<1>4. Range(Tail(s)) \subseteq Range(s)
  BY <1>1 DEF Range
<1> QED BY <1>2, <1>3, <1>4

\* Moving an element to the end, or adding it there.
LEMMA TouchedFacts ==
    ASSUME NEW u \in Urls, order \in Seq(Urls), IsInjective(order)
    PROVE  /\ Touched(u) \in Seq(Urls) /\ IsInjective(Touched(u))
           /\ Range(Touched(u)) = Range(order) \cup {u}
<1>1. CASE u \notin Range(order)
  BY <1>1, AppendNew DEF Touched
<1>2. CASE u \in Range(order)
  <2> DEFINE i == CHOOSE j \in DOMAIN order : order[j] = u
             s == RemoveAt(order, i)
  <2>1. i \in DOMAIN order /\ order[i] = u
    BY <1>2 DEF Range
  <2> HIDE DEF i
  <2>2. /\ s \in Seq(Urls) /\ Len(s) = Len(order) - 1
        /\ \A j \in 1..(Len(order) - 1) : s[j] = order[IF j < i THEN j ELSE j + 1]
    BY <2>1, RemoveAtFacts
  <2>3. i \in 1..Len(order) /\ Len(order) \in Nat /\ DOMAIN order = 1..Len(order)
    BY <2>1
  <2> HIDE DEF s
  <2>4. DOMAIN s = 1..(Len(order) - 1)
    BY <2>2
  <2>5. IsInjective(s)
    BY <2>2, <2>3, <2>4 DEF IsInjective
  <2>6. Range(s) = Range(order) \ {u}
    <3>1. ASSUME NEW j \in DOMAIN s PROVE s[j] \in Range(order) \ {u}
      BY <2>1, <2>2, <2>3, <2>4 DEF IsInjective, Range
    <3>2. ASSUME NEW k \in DOMAIN order, order[k] # u PROVE order[k] \in Range(s)
      <4>1. CASE k < i
        <5>1. k \in DOMAIN s /\ s[k] = order[k]
          BY <2>2, <2>3, <2>4, <4>1
        <5> QED BY <5>1 DEF Range
      <4>2. CASE k > i
        <5>1. k - 1 \in DOMAIN s /\ s[k - 1] = order[k]
          BY <2>2, <2>3, <2>4, <4>2
        <5> QED BY <5>1 DEF Range
      <4> QED BY <2>1, <2>3, <3>2, <4>1, <4>2
    <3> QED BY <3>1, <3>2 DEF Range
  <2>7. Touched(u) = Append(s, u)
    BY <1>2 DEF Touched, s, i
  <2> QED BY <1>2, <2>2, <2>5, <2>6, <2>7, AppendNew
<1> QED BY <1>1, <1>2

\* The seeds on the topic.
LEMMA InitialTopic == SetToSeq(Urls) \in Seq(Urls) /\ IsInjective(SetToSeq(Urls))
<1> DEFINE n == Cardinality(Urls)
<1>1. n \in Nat /\ ExistsBijection(1..n, Urls)
  BY FS_CardinalityType, SitesAssumption
<1>2. PICK f \in [1..n -> Urls] : IsInjective(f)
  BY <1>1 DEF ExistsBijection, Bijection, Injection
<1>3. SetToSeq(Urls) \in [1..n -> Urls] /\ IsInjective(SetToSeq(Urls))
  BY <1>2 DEF SetToSeq
<1> HIDE DEF n
<1> QED BY <1>1, <1>3

-----------------------------------------------------------------------------
(* Edges                                                                    *)

\* The degrees are natural numbers, and grow with the edge table.
LEMMA EdgesGrow ==
    ASSUME NEW F \in SUBSET LinkEdge, NEW E \in SUBSET F, NEW u
    PROVE  /\ Cardinality(EdgesOf(u, E)) \in Nat /\ Cardinality(EdgesTo(u, E)) \in Nat
           /\ Cardinality(EdgesOf(u, E)) <= Cardinality(EdgesOf(u, F))
           /\ Cardinality(EdgesTo(u, E)) <= Cardinality(EdgesTo(u, F))
<1>1. IsFiniteSet(LinkEdge)
  BY FS_Product, SitesAssumption DEF LinkEdge
<1>2. /\ EdgesOf(u, F) \in SUBSET LinkEdge /\ EdgesTo(u, F) \in SUBSET LinkEdge
      /\ EdgesOf(u, E) \in SUBSET EdgesOf(u, F) /\ EdgesTo(u, E) \in SUBSET EdgesTo(u, F)
  BY DEF EdgesOf, EdgesTo
<1>3. IsFiniteSet(EdgesOf(u, F)) /\ IsFiniteSet(EdgesTo(u, F))
  BY <1>1, <1>2, FS_Subset
<1>4. IsFiniteSet(EdgesOf(u, E)) /\ IsFiniteSet(EdgesTo(u, E))
  BY <1>2, <1>3, FS_Subset
<1> QED BY <1>2, <1>3, <1>4, FS_Subset, FS_CardinalityType

\* The links of a record are edges of its URL once they are added.
LEMMA LinksCounted ==
    ASSUME NEW u \in Urls, NEW L \in SUBSET Urls, NEW F \in SUBSET LinkEdge,
           {u} \X L \subseteq F
    PROVE  Cardinality(L) \in Nat /\ Cardinality(L) <= Cardinality(EdgesOf(u, F))
<1>1. IsFiniteSet(L) /\ Cardinality(L) \in Nat
  BY FS_Subset, FS_CardinalityType, SitesAssumption
<1>2. IsFiniteSet({u}) /\ Cardinality({u}) = 1
  BY FS_Singleton
<1>3. Cardinality({u} \X L) = 1 * Cardinality(L)
  BY <1>1, <1>2, FS_Product
<1>4. IsFiniteSet(EdgesOf(u, F))
  <2>1. IsFiniteSet(LinkEdge)
    BY FS_Product, SitesAssumption DEF LinkEdge
  <2>2. EdgesOf(u, F) \in SUBSET LinkEdge
    BY DEF EdgesOf
  <2> QED BY <2>1, <2>2, FS_Subset
<1>5. {u} \X L \in SUBSET EdgesOf(u, F)
  BY DEF EdgesOf
<1>6. Cardinality({u} \X L) <= Cardinality(EdgesOf(u, F))
  BY <1>4, <1>5, FS_Subset
<1> QED BY <1>1, <1>3, <1>6

-----------------------------------------------------------------------------
(* The invariant                                                            *)

LEMMA InitStore == Init => StoreInv
<1> SUFFICES ASSUME Init PROVE StoreInv
  OBVIOUS
<1>1. \A u \in Urls : version[u] \in DOMAIN Serves[u]
  BY SitesAssumption DEF Init
<1>2. StoreTypes
  BY <1>1, InitialTopic, SitesAssumption DEF Init, StoreTypes, TypeOK, Range, IsInjective
<1>3. TasksOK /\ BodyAvailable /\ DegreesWithinEdges
  BY DEF Init, TasksOK, BodyAvailable, DegreesWithinEdges
<1> QED BY <1>2, <1>3 DEF StoreInv

\* What a URL serves is a content.
LEMMA CurrentType ==
    ASSUME StoreTypes, NEW u \in Urls
    PROVE  Current(u) \in Contents
<1>1. version[u] \in DOMAIN Serves[u]
  BY DEF StoreTypes, TypeOK
<1> QED BY <1>1 DEF Current, Contents, Range

\* Rows stay good while nobody writes them, edges stay and bodies are only added.
LEMMA RowsKept ==
    ASSUME StoreInv, UNCHANGED <<docs, edges>>, bodies \subseteq bodies'
    PROVE  BodyAvailable' /\ DegreesWithinEdges'
BY DEF StoreInv, BodyAvailable, DegreesWithinEdges, EdgesOf, EdgesTo

\* So do the types, when the topic keeps its own.
LEMMA TypesKept ==
    ASSUME StoreTypes, UNCHANGED <<version, docs, order, edges>>,
           bodies' \subseteq PageBody, plan' \subseteq DOMAIN docs,
           topic' \in Seq(Urls), IsInjective(topic'), Range(topic') \subseteq Urls
    PROVE  StoreTypes'
<1>1. TypeOK'
  BY Zenon DEF StoreTypes, TypeOK
<1> QED BY <1>1, Zenon DEF StoreTypes

\* Publishing a message keeps the topic free of repetitions.
LEMMA SentType ==
    ASSUME StoreTypes, NEW u \in Urls
    PROVE  /\ Sent(u) \in Seq(Urls) /\ IsInjective(Sent(u))
           /\ Range(Sent(u)) \subseteq Urls
<1>1. topic \in Seq(Urls) /\ IsInjective(topic) /\ Range(topic) \subseteq Urls
  BY DEF StoreTypes, TypeOK
<1>2. CASE u \in Range(topic)
  BY <1>1, <1>2 DEF Sent
<1>3. CASE u \notin Range(topic)
  BY <1>1, <1>3, AppendNew DEF Sent
<1> QED BY <1>2, <1>3

\* The steps that leave the tables and the tasks alone.
LEMMA TopicSteps ==
    ASSUME StoreInv,
           \/ \E u \in Urls : SiteChanges(u) \/ Redelivered(u) \/ Publish(u)
           \/ \E stale \in DOMAIN order : SelectStale(stale)
           \/ RecrawlDies
    PROVE  StoreInv'
<1>1. UNCHANGED <<docs, order, edges, bodies, task>>
  BY DEF SiteChanges, Redelivered, Publish, SelectStale, RecrawlDies, store
<1>2. TasksOK' /\ BodyAvailable' /\ DegreesWithinEdges'
  BY <1>1, RowsKept DEF StoreInv, TasksOK
<1>3. StoreTypes
  BY DEF StoreInv
<1>4. ASSUME NEW u \in Urls, SiteChanges(u) PROVE StoreTypes'
  <2>1. version' \in [Urls -> Nat] /\ UNCHANGED <<topic, plan>>
    BY <1>3, <1>4 DEF StoreTypes, SiteChanges
  <2>2. ASSUME NEW v \in Urls PROVE version'[v] \in DOMAIN Serves[v]
    BY <1>3, <1>4, SitesAssumption DEF StoreTypes, TypeOK, SiteChanges
  <2> QED BY <1>1, <1>3, <2>1, <2>2 DEF StoreTypes, TypeOK
<1>5. ASSUME NEW u \in Urls, Redelivered(u) \/ Publish(u) PROVE StoreTypes'
  <2>1. topic' = Sent(u) /\ plan' \subseteq plan /\ UNCHANGED version
    BY <1>5 DEF Redelivered, Publish
  <2> QED BY <1>1, <1>3, <2>1, SentType DEF StoreTypes, TypeOK
<1>6. ASSUME NEW stale \in DOMAIN order, SelectStale(stale) PROVE StoreTypes'
  <2>1. plan' \subseteq plan \cup Range(order) /\ UNCHANGED <<topic, version>>
    BY <1>6 DEF SelectStale, Schedule, Stalest, Range
  <2> QED BY <1>1, <1>3, <2>1 DEF StoreTypes, TypeOK
<1>7. ASSUME RecrawlDies PROVE StoreTypes'
  <2>1. plan' = {} /\ UNCHANGED <<topic, version>>
    BY <1>7 DEF RecrawlDies
  <2>2. /\ topic \in Seq(Urls) /\ IsInjective(topic) /\ Range(topic) \subseteq Urls
        /\ bodies \subseteq PageBody
    BY <1>3 DEF StoreTypes, TypeOK
  <2> QED BY <1>1, <1>3, <2>1, <2>2, TypesKept
<1> QED BY <1>2, <1>4, <1>5, <1>6, <1>7 DEF StoreInv

\* The steps of a handler before the row is written: a body that was due is stored, and a
\* record that failed may be on the topic again.
LEMMA HandlerSteps ==
    ASSUME StoreInv,
           \/ Take
           \/ \E h \in Handlers : \/ NotModified(h) \/ Fetched(h) \/ Dedup(h)
                                  \/ Register(h) \/ Put(h) \/ Fails(h)
    PROVE  StoreInv'
<1>1. StoreTypes /\ TasksOK
  BY DEF StoreInv
<1>2. UNCHANGED <<version, docs, order, edges, plan>>
  BY DEF Take, NotModified, Fetched, Dedup, Register, Put, Fails, store
<1>3. CASE Take
  <2> DEFINE u == Head(topic)
             h == CHOOSE x \in {y \in Handlers : task[y] = NoValue} : TRUE
             t == [url |-> u, pc |-> "fetch", content |-> NoValue, dup |-> FALSE,
                   etag |-> get_validators(u)]
  <2>1. /\ h \in Handlers /\ topic # << >> /\ topic' = Tail(topic)
        /\ task' = [task EXCEPT ![h] = t] /\ bodies' = bodies
    BY <1>3 DEF Take, Set
  <2>2. u \in Urls /\ Tail(topic) \in Seq(Urls) /\ IsInjective(Tail(topic))
        /\ Range(Tail(topic)) \subseteq Urls
    BY <1>1, <2>1, TailKeeps DEF StoreTypes, TypeOK
  <2>3. get_validators(u) \in Contents \cup {NoValue}
    <3>1. u \in DOMAIN docs => docs[u] \in Document
      BY <1>1 DEF StoreTypes, TypeOK, Range
    <3> QED BY <3>1 DEF get_validators, Document
  <2> HIDE DEF h, u
  <2>4. t \in Task /\ t.pc = "fetch"
    BY <2>2, <2>3 DEF Task
  <2> HIDE DEF t
  <2>5. TasksOK'
    BY <1>1, <2>1, <2>4 DEF TasksOK
  <2>6. StoreTypes'
    BY <1>1, <1>2, <2>1, <2>2 DEF StoreTypes, TypeOK
  <2> QED BY <1>2, <2>1, <2>5, <2>6, RowsKept DEF StoreInv
<1>4. ASSUME NEW h \in Handlers, NotModified(h) \/ Fails(h) PROVE StoreInv'
  <2>1. bodies' = bodies /\ task' = [task EXCEPT ![h] = NoValue] /\ task[h] # NoValue
        /\ (topic' = topic \/ topic' = Sent(task[h].url))
    BY <1>4 DEF NotModified, Fails, Set, At
  <2>2. TasksOK'
    BY <1>1, <2>1 DEF TasksOK
  <2>3. task[h].url \in Urls
    BY <1>1, <2>1 DEF TasksOK, Task
  <2>4. StoreTypes'
    BY <1>1, <1>2, <2>1, <2>3, SentType DEF StoreTypes, TypeOK
  <2> QED BY <1>2, <2>1, <2>2, <2>4, RowsKept DEF StoreInv
<1>5. ASSUME NEW h \in Handlers, Fetched(h) \/ Dedup(h) \/ Register(h) \/ Put(h)
      PROVE  StoreInv'
  <2>1. task[h] \in Task /\ topic' = topic
    BY <1>1, <1>5 DEF Fetched, Dedup, Register, Put, At, TasksOK
  <2>2. CASE Fetched(h)
    <3>1. Current(task[h].url) \in Contents
      BY <1>1, <2>1, CurrentType DEF Task
    <3>2. /\ bodies' = bodies
          /\ task' = [task EXCEPT ![h] = [task[h] EXCEPT !.pc = "dedup", !.etag = NoValue,
                                                        !.content = Current(task[h].url)]]
      BY <2>2 DEF Fetched, Set
    <3>3. TasksOK'
      BY <1>1, <2>1, <3>1, <3>2 DEF TasksOK, Task
    <3>4. StoreTypes'
      BY <1>1, <1>2, <2>1, <3>2 DEF StoreTypes, TypeOK
    <3> QED BY <1>2, <3>2, <3>3, <3>4, RowsKept DEF StoreInv
  <2>3. CASE Dedup(h)
    <3>1. /\ bodies' = bodies /\ task[h].pc = "dedup" /\ task[h] # NoValue
          /\ \/ task' = [task EXCEPT ![h] = [task[h] EXCEPT !.pc = "save", !.dup = TRUE]]
             \/ \E n \in {"put", "register"} :
                   task' = [task EXCEPT ![h] = [task[h] EXCEPT !.pc = n, !.dup = FALSE]]
      BY <2>3 DEF Dedup, Set, At
    <3>2. task[h].content \in Contents
      BY <1>1, <3>1 DEF TasksOK
    <3>3. TasksOK'
      <4> DEFINE s == [task[h] EXCEPT !.pc = "save", !.dup = TRUE]
                 p == [task[h] EXCEPT !.pc = "put", !.dup = FALSE]
                 r == [task[h] EXCEPT !.pc = "register", !.dup = FALSE]
      <4>1. /\ s \in Task /\ s.pc = "save" /\ s.dup = TRUE /\ s.content = task[h].content
            /\ p \in Task /\ p.pc = "put" /\ p.content = task[h].content
            /\ r \in Task /\ r.pc = "register" /\ r.content = task[h].content
        BY <2>1 DEF Task
      <4>2. \/ task' = [task EXCEPT ![h] = s]
            \/ task' = [task EXCEPT ![h] = p]
            \/ task' = [task EXCEPT ![h] = r]
        BY <3>1
      <4> HIDE DEF s, p, r
      <4> QED BY <1>1, <3>1, <3>2, <4>1, <4>2 DEF TasksOK
    <3>4. StoreTypes'
      BY <1>1, <1>2, <2>1, <3>1 DEF StoreTypes, TypeOK
    <3> QED BY <1>2, <3>1, <3>3, <3>4, RowsKept DEF StoreInv
  <2>4. CASE Put(h)
    <3>1. /\ bodies' = bodies \cup {task[h].content} /\ task[h].pc = "put"
          /\ task[h] # NoValue
          /\ task' = [task EXCEPT ![h] = [task[h] EXCEPT !.pc = "save"]]
      BY <2>4 DEF Put, PutBody, Set, At
    <3>2. task[h].content \in Contents
      BY <1>1, <3>1 DEF TasksOK
    <3>3. TasksOK'
      BY <1>1, <2>1, <3>1, <3>2 DEF TasksOK, Task
    <3>4. StoreTypes'
      BY <1>1, <1>2, <2>1, <3>1, <3>2 DEF StoreTypes, TypeOK, PageBody
    <3> QED BY <1>2, <3>1, <3>3, <3>4, RowsKept DEF StoreInv
  <2>5. CASE Register(h)
    <3>1. /\ bodies' = bodies /\ task[h].pc = "register" /\ task[h] # NoValue
          /\ task' = [task EXCEPT ![h] = [task[h] EXCEPT !.pc = "put"]]
      BY <2>5 DEF Register, Set, At
    <3>2. task[h].content \in Contents
      BY <1>1, <3>1 DEF TasksOK
    <3>3. TasksOK'
      BY <1>1, <2>1, <3>1, <3>2 DEF TasksOK, Task
    <3>4. StoreTypes'
      BY <1>1, <1>2, <2>1, <3>1 DEF StoreTypes, TypeOK
    <3> QED BY <1>2, <3>1, <3>3, <3>4, RowsKept DEF StoreInv
  <2> QED BY <1>5, <2>2, <2>3, <2>4, <2>5
<1> QED BY <1>3, <1>4, <1>5

\* The row that is written: its storage key, if it has one, leads to the body of its
\* content, and its degrees count edges of the table (repositories.py:65-110).
LEMMA SaveStep ==
    ASSUME StoreInv, NEW h \in Handlers, SavePage(h)
    PROVE  StoreInv'
<1> DEFINE t == task[h]
           u == t.url
           c == t.content
           links == IF t.dup THEN {} ELSE Links[c]
           in == IF u \in DOMAIN docs THEN docs[u].inDegree ELSE 0
           row == [content |-> c, key |-> IF t.dup THEN NoValue ELSE c,
                   etag |-> IF u \in Validated THEN c ELSE NoValue,
                   outDegree |-> Cardinality(links), inDegree |-> in]
<1>1. StoreTypes /\ TypeOK /\ TasksOK /\ BodyAvailable /\ DegreesWithinEdges
  BY DEF StoreInv, StoreTypes
<1>2. t \in Task /\ c \in Contents /\ (t.dup \/ c \in bodies)
  BY <1>1 DEF SavePage, At, TasksOK
<1>3. u \in Urls /\ t.dup \in BOOLEAN
  BY <1>2 DEF Task
<1>4. links \in SUBSET Urls
  BY <1>2, SitesAssumption
<1>5. /\ docs' = [v \in DOMAIN docs \cup {u} |-> IF v = u THEN row ELSE docs[v]]
      /\ order' = Touched(u) /\ edges' = edges \cup ({u} \X links)
      /\ task' = [task EXCEPT ![h] = NoValue]
      /\ UNCHANGED <<version, bodies, topic, plan>>
  BY DEF SavePage, PageRecord, Upsert, OutDegree, AddLinkEdges, Set
<1>6. edges' \in SUBSET LinkEdge /\ edges \in SUBSET edges' /\ {u} \X links \subseteq edges'
  <2> HIDE DEF links
  <2> QED BY <1>1, <1>3, <1>4, <1>5 DEF TypeOK, LinkEdge
<1>7. Cardinality(links) \in Nat /\ Cardinality(links) <= Cardinality(EdgesOf(u, edges'))
  <2> HIDE DEF links
  <2> QED BY <1>3, <1>4, <1>6, LinksCounted
<1>8. \A v \in DOMAIN docs : docs[v] \in Document
  BY <1>1 DEF TypeOK, Range
<1>9. in \in Nat /\ in <= Cardinality(EdgesTo(u, edges'))
  <2>1. CASE u \in DOMAIN docs
    <3>1. docs[u].inDegree \in Nat /\ docs[u].inDegree <= Cardinality(EdgesTo(u, edges))
      BY <1>1, <1>8, <2>1 DEF DegreesWithinEdges, Document
    <3>2. /\ Cardinality(EdgesTo(u, edges)) <= Cardinality(EdgesTo(u, edges'))
          /\ Cardinality(EdgesTo(u, edges)) \in Nat
          /\ Cardinality(EdgesTo(u, edges')) \in Nat
      BY <1>6, EdgesGrow
    <3> QED BY <2>1, <3>1, <3>2
  <2>2. CASE u \notin DOMAIN docs
    <3>1. Cardinality(EdgesTo(u, edges')) \in Nat
      BY <1>6, EdgesGrow
    <3> QED BY <2>2, <3>1
  <2> QED BY <2>1, <2>2
<1> HIDE DEF in, links
<1>10. /\ row.content = c /\ row.key = (IF t.dup THEN NoValue ELSE c)
       /\ row.outDegree = Cardinality(links) /\ row.inDegree = in
  OBVIOUS
<1>11. row \in Document
  BY <1>2, <1>7, <1>9 DEF Document
<1> HIDE DEF row, t, u, c
<1>12. /\ DOMAIN docs' = DOMAIN docs \cup {u} /\ docs'[u] = row
       /\ \A v \in DOMAIN docs : v # u => docs'[v] = docs[v]
  BY <1>5
<1>13. StoreTypes'
  <2>1. order' \in Seq(Urls) /\ IsInjective(order') /\ Range(order') = DOMAIN docs'
    BY <1>1, <1>3, <1>5, <1>12, TouchedFacts DEF StoreTypes, TypeOK
  <2>2. DOMAIN docs' \subseteq Urls /\ Range(docs') \subseteq Document
    BY <1>1, <1>3, <1>8, <1>11, <1>12 DEF TypeOK, Range
  <2>3. \A e \in edges' : e[1] \in DOMAIN docs'
    BY <1>1, <1>5, <1>12 DEF TypeOK
  <2>4. plan' \subseteq DOMAIN docs'
    BY <1>1, <1>5, <1>12 DEF TypeOK
  <2>5. TypeOK'
    BY <1>1, <1>5, <1>6, <2>1, <2>2, <2>3, <2>4 DEF TypeOK
  <2> QED BY <1>1, <1>5, <2>1, <2>5 DEF StoreTypes
<1>14. TasksOK'
  BY <1>1, <1>5 DEF TasksOK
<1>15. BodyAvailable'
  BY <1>1, <1>2, <1>3, <1>5, <1>10, <1>12 DEF BodyAvailable
<1>16. DegreesWithinEdges'
  <2>1. ASSUME NEW v \in DOMAIN docs, v # u
        PROVE  /\ docs'[v].outDegree <= Cardinality(EdgesOf(v, edges'))
               /\ docs'[v].inDegree <= Cardinality(EdgesTo(v, edges'))
    <3>1. /\ docs[v].outDegree <= Cardinality(EdgesOf(v, edges))
          /\ docs[v].inDegree <= Cardinality(EdgesTo(v, edges))
          /\ docs[v].outDegree \in Nat /\ docs[v].inDegree \in Nat
      BY <1>1, <1>8 DEF DegreesWithinEdges, Document
    <3>2. /\ Cardinality(EdgesOf(v, edges)) <= Cardinality(EdgesOf(v, edges'))
          /\ Cardinality(EdgesTo(v, edges)) <= Cardinality(EdgesTo(v, edges'))
          /\ Cardinality(EdgesOf(v, edges)) \in Nat /\ Cardinality(EdgesTo(v, edges)) \in Nat
          /\ Cardinality(EdgesOf(v, edges')) \in Nat
          /\ Cardinality(EdgesTo(v, edges')) \in Nat
      BY <1>6, EdgesGrow
    <3> QED BY <1>12, <2>1, <3>1, <3>2
  <2>2. /\ docs'[u].outDegree <= Cardinality(EdgesOf(u, edges'))
        /\ docs'[u].inDegree <= Cardinality(EdgesTo(u, edges'))
    BY <1>7, <1>9, <1>10, <1>12
  <2> QED BY <1>12, <2>1, <2>2 DEF DegreesWithinEdges, EdgesOf, EdgesTo
<1> QED BY <1>13, <1>14, <1>15, <1>16 DEF StoreInv

\* After a recomputation the degrees are those of the edge table (repositories.py:129-149).
LEMMA RecomputeStep == ASSUME StoreInv, RecomputeDegrees PROVE StoreInv'
<1> DEFINE row(v) == [docs[v] EXCEPT !.outDegree = Cardinality(EdgesOf(v, edges)),
                                     !.inDegree = Cardinality(EdgesTo(v, edges))]
<1>1. StoreTypes /\ TypeOK /\ TasksOK /\ BodyAvailable
  BY DEF StoreInv, StoreTypes
<1>2. /\ docs' = [v \in DOMAIN docs |-> row(v)]
      /\ UNCHANGED <<version, order, edges, bodies, topic, task, plan>>
  BY DEF RecomputeDegrees
<1>3. ASSUME NEW v \in DOMAIN docs
      PROVE  /\ docs'[v] \in Document
             /\ docs'[v].key = docs[v].key /\ docs'[v].content = docs[v].content
             /\ docs'[v].outDegree = Cardinality(EdgesOf(v, edges))
             /\ docs'[v].inDegree = Cardinality(EdgesTo(v, edges))
             /\ Cardinality(EdgesOf(v, edges)) \in Nat
             /\ Cardinality(EdgesTo(v, edges)) \in Nat
  <2>1. docs[v] \in Document /\ edges \in SUBSET LinkEdge
    BY <1>1 DEF TypeOK, Range
  <2>2. Cardinality(EdgesOf(v, edges)) \in Nat /\ Cardinality(EdgesTo(v, edges)) \in Nat
    BY <2>1, EdgesGrow
  <2>3. docs'[v] = row(v)
    BY <1>2
  <2> QED BY <2>1, <2>2, <2>3 DEF Document
<1>4. DOMAIN docs' = DOMAIN docs
  BY <1>2
<1>5. StoreTypes'
  <2>1. Range(docs') \subseteq Document
    BY <1>3, <1>4 DEF Range
  <2>2. TypeOK'
    BY <1>1, <1>2, <1>4, <2>1 DEF TypeOK
  <2> QED BY <1>1, <1>2, <2>2 DEF StoreTypes
<1> HIDE DEF row
<1>6. TasksOK'
  BY <1>1, <1>2 DEF TasksOK
<1>7. BodyAvailable'
  <2> SUFFICES ASSUME NEW v \in DOMAIN docs, docs'[v].key # NoValue
               PROVE  docs'[v].key \in bodies' /\ docs'[v].key = docs'[v].content
    BY <1>4 DEF BodyAvailable
  <2> QED BY <1>1, <1>2, <1>3 DEF BodyAvailable
<1>8. DegreesWithinEdges'
  <2> SUFFICES ASSUME NEW v \in DOMAIN docs
               PROVE  /\ docs'[v].outDegree <= Cardinality(EdgesOf(v, edges))
                      /\ docs'[v].inDegree <= Cardinality(EdgesTo(v, edges))
    BY <1>2, <1>4 DEF DegreesWithinEdges, EdgesOf, EdgesTo
  <2> QED BY <1>3
<1> QED BY <1>5, <1>6, <1>7, <1>8 DEF StoreInv

LEMMA NextStore == StoreInv /\ [Next]_vars => StoreInv'
<1> SUFFICES ASSUME StoreInv, [Next]_vars PROVE StoreInv'
  OBVIOUS
<1>1. CASE UNCHANGED vars
  <2>1. StoreTypes'
    BY <1>1, Zenon DEF vars, store, StoreInv, StoreTypes, TypeOK
  <2> QED BY <1>1, <2>1, RowsKept DEF vars, store, StoreInv, TasksOK
<1>2. CASE Next
  BY <1>2, TopicSteps, HandlerSteps, SaveStep, RecomputeStep DEF Next, HandlerStep
<1> QED BY <1>1, <1>2

LEMMA StoreHolds == Spec => []StoreInv
BY InitStore, NextStore, PTL DEF Spec

\* The tables keep their types, and a URL has one row and one place in the order of
\* last_crawled, however many handlers save it (orm.py:53, repositories.py:85-88).
THEOREM StoreTypesHold == Spec => []TypeOK
<1>1. StoreInv => TypeOK
  BY DEF StoreInv, StoreTypes
<1> QED BY <1>1, StoreHolds, PTL

\* A storage key leads to the body of the content its row describes, wherever a handler
\* fails and whichever of two saves last (pipeline.py:148-159, sinks.py:51-52).
THEOREM BodiesAvailable == Spec => []BodyAvailable
<1>1. StoreInv => BodyAvailable
  BY DEF StoreInv
<1> QED BY <1>1, StoreHolds, PTL

\* The stored degrees never exceed what the edge table holds, between recomputations and
\* re-saves (repositories.py:81, 92-110, 132-134).
THEOREM DegreesHold == Spec => []DegreesWithinEdges
<1>1. StoreInv => DegreesWithinEdges
  BY DEF StoreInv
<1> QED BY <1>1, StoreHolds, PTL
=============================================================================
