------------------------ MODULE CrawlEngineProofs ------------------------
(***************************************************************************)
(* Theorems about the single-node engine, for every site, every number of  *)
(* workers and every limit; and about the content index it searches.         *)
(***************************************************************************)
EXTENDS CrawlEngine, FiniteSetTheorems, TLAPS

-----------------------------------------------------------------------------
(* The content index: searching by bands misses no near-duplicate            *)

\* Two fingerprints differ in finitely many bits.
LEMMA DifferenceFinite ==
    ASSUME NEW a \in Fingerprints, NEW b \in Fingerprints
    PROVE  IsFiniteSet(Difference(a, b))
<1>1. 0 \in Int /\ Width - 1 \in Int
  BY IndexAssumption
<1>2. IsFiniteSet(Bits)
  BY <1>1, FS_Interval DEF Bits
<1>3. Difference(a, b) \subseteq Bits
  BY DEF Difference, Fingerprints
<1>4. QED
  BY <1>2, <1>3, FS_Subset

\* Fingerprints that differ in every band differ in at least BandCount bits.
LEMMA Pigeonhole ==
    ASSUME NEW a \in Fingerprints, NEW b \in Fingerprints,
           \A band \in Bands : band_value(a, band) # band_value(b, band)
    PROVE  BandCount <= hamming_distance(a, b)
<1> DEFINE D == {i \in Difference(a, b) : BandOf(i) \in Bands}
           f == [i \in D |-> BandOf(i)]
<1>1. IsFiniteSet(D) /\ Cardinality(D) <= Cardinality(Difference(a, b))
  BY DifferenceFinite, FS_Subset
<1>2. ASSUME NEW band \in Bands
      PROVE  \E i \in D : f[i] = band
  <2>1. band_value(a, band) # band_value(b, band)
    OBVIOUS
  <2>2. PICK i : ~(i \in band_value(a, band) <=> i \in band_value(b, band))
    BY <2>1
  <2>3. i \in Difference(a, b) /\ BandOf(i) = band
    BY <2>2 DEF band_value, Difference
  <2>4. QED
    BY <2>3
<1>3. f \in Surjection(D, Bands)
  BY <1>2 DEF Surjection
<1>4. Cardinality(Bands) <= Cardinality(D)
  BY <1>1, <1>3, FS_Surjection
<1>5. Cardinality(Bands) = BandCount
  BY IndexAssumption, FS_Interval DEF Bands
<1>6. Cardinality(D) \in Nat /\ Cardinality(Difference(a, b)) \in Nat
  BY <1>1, DifferenceFinite, FS_CardinalityType
<1>7. QED
  BY <1>1, <1>4, <1>5, <1>6, IndexAssumption DEF hamming_distance

\* "Two fingerprints within Hamming distance < bands must, by pigeonhole, share at least
\* one identical band" (simhash.py:49-54): with a threshold below the number of bands, as
\* shipped (config.py:76-77), is_duplicate finds a near-duplicate exactly when the index
\* holds one.
THEOREM IndexIsComplete ==
    ASSUME Threshold < BandCount,
           NEW index \in SUBSET Fingerprints, NEW f \in Fingerprints
    PROVE  is_duplicate(index, f)
             <=> \E other \in index : hamming_distance(f, other) <= Threshold
<1>1. ASSUME NEW other \in index, hamming_distance(f, other) <= Threshold
      PROVE  other \in Candidates(index, f)
  <2>1. hamming_distance(f, other) \in Nat
    BY DifferenceFinite, FS_CardinalityType DEF hamming_distance
  <2>2. ~(BandCount <= hamming_distance(f, other))
    BY <1>1, <2>1, IndexAssumption
  <2>3. \E band \in Bands : band_value(f, band) = band_value(other, band)
    BY <2>2, Pigeonhole
  <2>4. QED
    BY <2>3 DEF Candidates
<1>2. Candidates(index, f) \subseteq index
  BY DEF Candidates
<1>3. QED
  BY <1>1, <1>2 DEF is_duplicate

\* The distance of two fingerprints is symmetric, and zero from a fingerprint to itself.
LEMMA DistanceFacts ==
    ASSUME NEW a \in Fingerprints, NEW b \in Fingerprints
    PROVE  /\ hamming_distance(a, b) \in Nat
           /\ hamming_distance(a, b) = hamming_distance(b, a)
           /\ hamming_distance(a, a) = 0
<1>1. hamming_distance(a, b) \in Nat
  BY DifferenceFinite, FS_CardinalityType DEF hamming_distance
<1>2. Difference(a, b) = Difference(b, a) /\ Difference(a, a) = {}
  BY DEF Difference
<1> QED BY <1>1, <1>2, FS_EmptySet DEF hamming_distance

-----------------------------------------------------------------------------
(* The frontier queue                                                        *)

\* Taking the head of a queue without repeats (MemoryFrontier.get) removes
\* exactly that URL.
LEMMA TakeHead ==
    ASSUME NEW q \in Seq(Item), q # << >>, NoRepeats(q)
    PROVE  /\ Head(q) \in Item
           /\ Tail(q) \in Seq(Item)
           /\ Len(q) \in Nat
           /\ Len(Tail(q)) = Len(q) - 1
           /\ Len(q) >= 1
           /\ NoRepeats(Tail(q))
           /\ UrlsOf(Tail(q)) = UrlsOf(q) \ {Head(q).url}
           /\ Head(q).url \in UrlsOf(q)
<1>1. /\ Head(q) = q[1] /\ Head(q) \in Item /\ Tail(q) \in Seq(Item)
      /\ Len(q) \in Nat /\ Len(Tail(q)) = Len(q) - 1 /\ Len(q) >= 1
  OBVIOUS
<1>2. \A i \in 1..Len(Tail(q)) : Tail(q)[i] = q[i + 1] /\ i + 1 \in 1..Len(q)
  BY <1>1
<1>3. NoRepeats(Tail(q))
  <2>1. SUFFICES ASSUME NEW i \in 1..Len(Tail(q)), NEW j \in 1..Len(Tail(q)),
                        Tail(q)[i].url = Tail(q)[j].url
                 PROVE  i = j
    BY DEF NoRepeats
  <2>2. i + 1 = j + 1
    BY <1>2, <2>1 DEF NoRepeats
  <2> QED BY <2>2, <1>1
<1>4. UrlsOf(Tail(q)) = UrlsOf(q) \ {Head(q).url}
  <2>1. ASSUME NEW u \in UrlsOf(Tail(q)) PROVE u \in UrlsOf(q) /\ u # Head(q).url
    <3>1. PICK i \in 1..Len(Tail(q)) : u = Tail(q)[i].url
      BY <2>1 DEF UrlsOf
    <3>2. u = q[i + 1].url /\ i + 1 \in 1..Len(q) /\ 1 \in 1..Len(q) /\ i + 1 # 1
      BY <3>1, <1>1, <1>2
    <3>3. u # q[1].url
      BY <3>2 DEF NoRepeats
    <3> QED BY <3>2, <3>3, <1>1 DEF UrlsOf
  <2>2. ASSUME NEW u \in UrlsOf(q), u # Head(q).url PROVE u \in UrlsOf(Tail(q))
    <3>1. PICK i \in 1..Len(q) : u = q[i].url
      BY <2>2 DEF UrlsOf
    <3>2. i # 1
      BY <3>1, <2>2, <1>1
    <3>3. i - 1 \in 1..Len(Tail(q)) /\ Tail(q)[i - 1] = q[i]
      BY <3>2, <1>1
    <3> QED BY <3>1, <3>3 DEF UrlsOf
  <2> QED BY <2>1, <2>2
<1>5. Head(q).url \in UrlsOf(q)
  BY <1>1 DEF UrlsOf
<1> QED BY <1>1, <1>3, <1>4, <1>5

\* Adding URLs that are not in the queue, once each and in any order
\* (MemoryFrontier.add for each new link), adds exactly those URLs.
LEMMA AddAll ==
    ASSUME NEW q \in Seq(Item), NoRepeats(q),
           NEW S \in SUBSET Urls, S \cap UrlsOf(q) = {},
           NEW d \in 0..MaxDepth,
           NEW s \in Arrangements(S)
    PROVE  /\ q \o ItemsAt(s, d) \in Seq(Item)
           /\ Cardinality(S) \in Nat
           /\ Len(q) \in Nat
           /\ Len(q \o ItemsAt(s, d)) = Len(q) + Cardinality(S)
           /\ NoRepeats(q \o ItemsAt(s, d))
           /\ UrlsOf(q \o ItemsAt(s, d)) = UrlsOf(q) \cup S
<1> DEFINE t == ItemsAt(s, d)
           n == Cardinality(S)
           r == q \o t
<1>1. IsFiniteSet(S) /\ n \in Nat
  BY UrlsAssumption, FS_Subset, FS_CardinalityType
<1>2. s \in [1..n -> S] /\ DOMAIN s = 1..n
  BY DEF Arrangements
<1>3. t \in [1..n -> Item] /\ \A i \in 1..n : t[i].url = s[i]
  BY <1>2 DEF ItemsAt, Item
<1>4. t \in Seq(Item) /\ Len(t) = n
  BY <1>1, <1>3
<1> HIDE DEF t, n
<1>5. r \in Seq(Item) /\ Len(r) = Len(q) + n /\ Len(q) \in Nat
  BY <1>1, <1>4
<1>6. \A i \in 1..Len(q) : i \in 1..Len(r) /\ r[i] = q[i]
  BY <1>1, <1>4, <1>5
<1>7. \A i \in 1..n : Len(q) + i \in 1..Len(r) /\ r[Len(q) + i] = t[i]
  BY <1>1, <1>4, <1>5
<1>8. \A k \in 1..Len(r) : k \in 1..Len(q) \/ \E i \in 1..n : k = Len(q) + i
  <2>1. SUFFICES ASSUME NEW k \in 1..Len(r), k \notin 1..Len(q)
                 PROVE  k - Len(q) \in 1..n /\ k = Len(q) + (k - Len(q))
    OBVIOUS
  <2> QED BY <2>1, <1>1, <1>5
<1> HIDE DEF r
<1>9. \A i \in 1..n : t[i].url \in S
  BY <1>2, <1>3
<1>10. \A i \in 1..Len(q) : q[i].url \notin S
  BY DEF UrlsOf
<1>11. NoRepeats(r)
  <2>1. SUFFICES ASSUME NEW k \in 1..Len(r), NEW l \in 1..Len(r), r[k].url = r[l].url
                 PROVE  k = l
    BY DEF NoRepeats
  <2>2. CASE k \in 1..Len(q) /\ l \in 1..Len(q)
    BY <2>1, <2>2, <1>6 DEF NoRepeats
  <2>2a. \A m \in 1..Len(r) : IF m \in 1..Len(q) THEN r[m].url \notin S ELSE r[m].url \in S
    <3>1. SUFFICES ASSUME NEW m \in 1..Len(r)
                   PROVE  IF m \in 1..Len(q) THEN r[m].url \notin S ELSE r[m].url \in S
      OBVIOUS
    <3>2. CASE m \in 1..Len(q)
      BY <3>2, <1>6, <1>10
    <3>3. CASE m \notin 1..Len(q)
      <4>1. PICK i \in 1..n : m = Len(q) + i
        BY <3>3, <1>8
      <4> QED BY <3>3, <4>1, <1>7, <1>9
    <3> QED BY <3>2, <3>3
  <2>3. CASE k \in 1..Len(q) /\ l \notin 1..Len(q)
    BY <2>1, <2>3, <2>2a
  <2>4. CASE k \notin 1..Len(q) /\ l \in 1..Len(q)
    BY <2>1, <2>4, <2>2a
  <2>5. CASE k \notin 1..Len(q) /\ l \notin 1..Len(q)
    <3>1. PICK i \in 1..n : k = Len(q) + i
      BY <2>5, <1>8
    <3>2. PICK j \in 1..n : l = Len(q) + j
      BY <2>5, <1>8
    <3>3. s[i] = s[j]
      BY <3>1, <3>2, <2>1, <1>7, <1>3
    <3>4. i = j
      BY <3>3, <1>2 DEF Arrangements
    <3> QED BY <3>1, <3>2, <3>4
  <2> QED BY <2>2, <2>3, <2>4, <2>5
<1>12. UrlsOf(r) = UrlsOf(q) \cup S
  <2>1. ASSUME NEW u \in UrlsOf(r) PROVE u \in UrlsOf(q) \cup S
    <3>1. PICK k \in 1..Len(r) : u = r[k].url
      BY DEF UrlsOf
    <3>2. CASE k \in 1..Len(q)
      BY <3>1, <3>2, <1>6 DEF UrlsOf
    <3>3. CASE k \notin 1..Len(q)
      BY <3>1, <3>3, <1>7, <1>8, <1>9
    <3> QED BY <3>2, <3>3
  <2>2. ASSUME NEW u \in UrlsOf(q) PROVE u \in UrlsOf(r)
    BY <1>6 DEF UrlsOf
  <2>3. ASSUME NEW u \in S PROVE u \in UrlsOf(r)
    <3>1. PICK i \in 1..n : s[i] = u
      BY <1>2 DEF Arrangements
    <3> QED BY <3>1, <1>3, <1>7 DEF UrlsOf
  <2> QED BY <2>1, <2>2, <2>3
<1> QED BY <1>1, <1>5, <1>11, <1>12 DEF r, t, n

-----------------------------------------------------------------------------
(* The workers                                                               *)

\* The busy workers can be counted.
LEMMA BusyIsFinite ==
    /\ IsFiniteSet(Busy)
    /\ Cardinality(Busy) \in Nat
    /\ Cardinality(Workers) \in Nat
    /\ Cardinality(Busy) <= Cardinality(Workers)
    /\ Cardinality(Workers) >= 1
<1>1. Busy \subseteq Workers /\ IsFiniteSet(Workers) /\ Workers # {}
  BY WorkersAssumption DEF Busy
<1>2. IsFiniteSet(Busy) /\ Cardinality(Busy) <= Cardinality(Workers)
  BY <1>1, FS_Subset
<1>3. Cardinality(Busy) \in Nat /\ Cardinality(Workers) \in Nat
  BY <1>1, <1>2, FS_CardinalityType
<1>4. Cardinality(Workers) # 0
  BY <1>1, FS_EmptySet
<1> QED BY <1>2, <1>3, <1>4

\* A worker that keeps its item stays where the other workers see it.
LEMMA StayBusy ==
    ASSUME TypeOK, NEW w \in Workers, pc[w] # "idle",
           NEW p \in WorkerPc \ {"idle"},
           pc' = [pc EXCEPT ![w] = p], hold' = hold
    PROVE  /\ Busy' = Busy
           /\ HeldUrls' = HeldUrls
<1>1. Busy' = Busy
  BY DEF TypeOK, Busy
<1> QED BY <1>1 DEF HeldUrls

\* A worker that calls task_done gives up exactly its own URL.
LEMMA LeaveBusy ==
    ASSUME TypeOK, EachUrlOnce, NEW w \in Workers, pc[w] # "idle",
           pc' = [pc EXCEPT ![w] = "idle"],
           hold' = [hold EXCEPT ![w] = NoItem]
    PROVE  /\ Busy' = Busy \ {w}
           /\ Cardinality(Busy') = Cardinality(Busy) - 1
           /\ Cardinality(Busy) >= 1
           /\ HeldUrls' = HeldUrls \ {hold[w].url}
           /\ hold[w].url \in HeldUrls
           /\ hold[w] \in Item
<1>1. w \in Busy /\ hold[w] \in Item
  BY DEF Busy, TypeOK
<1>2. Busy' = Busy \ {w}
  BY DEF TypeOK, Busy
<1>3. Cardinality(Busy') = Cardinality(Busy) - 1
  BY <1>1, <1>2, BusyIsFinite, FS_RemoveElement
<1>4. Cardinality(Busy) >= 1
  <2>1. Cardinality(Busy) # 0
    BY <1>1, BusyIsFinite, FS_EmptySet
  <2> QED BY <2>1, BusyIsFinite
<1>5. \A v \in Busy' : hold'[v] = hold[v] /\ v \in Busy /\ v # w
  BY <1>2 DEF TypeOK, Busy
<1>6. \A v \in Busy' : hold[v].url # hold[w].url
  BY <1>1, <1>5 DEF EachUrlOnce
<1>7. HeldUrls' = HeldUrls \ {hold[w].url}
  BY <1>1, <1>2, <1>5, <1>6 DEF HeldUrls
<1> QED BY <1>1, <1>2, <1>3, <1>4, <1>7 DEF HeldUrls

\* A worker that takes an item becomes busy with exactly that URL.
LEMMA EnterBusy ==
    ASSUME TypeOK, NEW w \in Workers, pc[w] = "idle", NEW item \in Item,
           pc' = [pc EXCEPT ![w] = "admit"],
           hold' = [hold EXCEPT ![w] = item]
    PROVE  /\ Busy' = Busy \cup {w}
           /\ w \notin Busy
           /\ Cardinality(Busy') = Cardinality(Busy) + 1
           /\ HeldUrls' = HeldUrls \cup {item.url}
           /\ hold'[w] = item
           /\ \A v \in Busy : hold'[v] = hold[v]
<1>1. w \notin Busy
  BY DEF Busy
<1>2. Busy' = Busy \cup {w}
  BY DEF TypeOK, Busy
<1>3. Cardinality(Busy') = Cardinality(Busy) + 1
  BY <1>1, <1>2, BusyIsFinite, FS_AddElement
<1>4. hold'[w] = item /\ \A v \in Busy : hold'[v] = hold[v]
  BY <1>1 DEF TypeOK, Busy
<1>5. HeldUrls' = HeldUrls \cup {item.url}
  BY <1>2, <1>4 DEF HeldUrls
<1> QED BY <1>1, <1>2, <1>3, <1>4, <1>5

-----------------------------------------------------------------------------
(* Every step preserves the inductive invariant                              *)

\* The seeded frontier of run() satisfies the inductive invariant.
LEMMA InitIndInv == Init => IndInv
<1> SUFFICES ASSUME Init PROVE IndInv
  OBVIOUS
<1>1. PICK s \in Arrangements(Seeds) : queue = ItemsAt(s, 0)
  BY DEF Init
<1>2. Seeds \in SUBSET Urls /\ 0 \in 0..MaxDepth
  BY UrlsAssumption, BoundsAssumption
<1>3. << >> \in Seq(Item) /\ Len(<< >>) = 0 /\ NoRepeats(<< >>) /\ UrlsOf(<< >>) = {}
  BY DEF NoRepeats, UrlsOf
<1>4. << >> \o ItemsAt(s, 0) = queue
  <2>1. s \in [1..Cardinality(Seeds) -> Seeds] /\ Cardinality(Seeds) \in Nat
    BY UrlsAssumption, FS_Subset, FS_CardinalityType DEF Arrangements
  <2>2. ItemsAt(s, 0) \in [1..Cardinality(Seeds) -> Item]
    BY <1>2, <2>1 DEF ItemsAt, Item
  <2>3. ItemsAt(s, 0) \in Seq(Item)
    BY <2>1, <2>2
  <2> QED BY <1>1, <2>3
<1>4a. Seeds \cap UrlsOf(<< >>) = {}
  BY <1>3
<1>4b. /\ << >> \o ItemsAt(s, 0) \in Seq(Item)
      /\ Cardinality(Seeds) \in Nat
      /\ Len(<< >> \o ItemsAt(s, 0)) = Len(<< >>) + Cardinality(Seeds)
      /\ NoRepeats(<< >> \o ItemsAt(s, 0))
      /\ UrlsOf(<< >> \o ItemsAt(s, 0)) = UrlsOf(<< >>) \cup Seeds
  BY <1>1, <1>2, <1>3, <1>4a, AddAll
<1>5. /\ queue \in Seq(Item)
      /\ Len(queue) = Cardinality(Seeds)
      /\ Cardinality(Seeds) \in Nat
      /\ NoRepeats(queue)
      /\ UrlsOf(queue) = Seeds
  <2>1. /\ queue \in Seq(Item)
        /\ Len(queue) = Len(<< >>) + Cardinality(Seeds)
        /\ Cardinality(Seeds) \in Nat
        /\ NoRepeats(queue)
        /\ UrlsOf(queue) = UrlsOf(<< >>) \cup Seeds
    BY <1>4, <1>4b, Zenon
  <2>2. Len(queue) = Cardinality(Seeds)
    BY <2>1, <1>3
  <2>3. UrlsOf(queue) = Seeds
    BY <2>1, <1>3
  <2> QED BY <2>1, <2>2, <2>3
<1>6. Busy = {} /\ HeldUrls = {} /\ Cardinality(Busy) = 0
  <2>1. Busy = {}
    BY DEF Init, Busy
  <2> QED BY <2>1, FS_EmptySet DEF HeldUrls
<1>7. TypeOK
  BY <1>2, <1>5 DEF Init, TypeOK, WorkerPc, Phases
<1>8. Accounting
  BY <1>5, <1>6 DEF Accounting, Init
<1>9. JoinIsSound
  BY DEF JoinIsSound, Init
<1>10. EachUrlOnce
  BY <1>5, <1>6 DEF EachUrlOnce, QueuedUrls, Init, Busy
<1>11. OvershootBound
  BY <1>6, BusyIsFinite, BoundsAssumption DEF OvershootBound, Init
<1>12. StatsTruthful
  BY FS_EmptySet DEF StatsTruthful, Init
<1> QED BY <1>7, <1>8, <1>9, <1>10, <1>11, <1>12 DEF IndInv

\* Steps in which a busy worker moves on without touching the frontier.
LEMMA MoveOn ==
    ASSUME IndInv, NEW w \in Workers, pc[w] # "idle", phase # "finished",
           NEW p \in WorkerPc \ {"idle"},
           pc' = [pc EXCEPT ![w] = p],
           UNCHANGED <<queue, unfinished, seen, processed, hold, phase, foundAt,
                       done, fetched, expanded>>,
           dup' \in [Workers -> BOOLEAN],
           (DOMAIN docs)' \subseteq Urls
    PROVE  IndInv'
<1>1. Busy' = Busy /\ HeldUrls' = HeldUrls
  BY StayBusy DEF IndInv
<1>2. TypeOK'
  BY DEF IndInv, TypeOK
<1>3. Accounting' /\ OvershootBound' /\ StatsTruthful' /\ JoinIsSound'
  BY <1>1 DEF IndInv, Accounting, OvershootBound, StatsTruthful, JoinIsSound
<1>4. EachUrlOnce'
  BY <1>1 DEF IndInv, EachUrlOnce, QueuedUrls, UrlsOf, NoRepeats
<1> QED BY <1>2, <1>3, <1>4 DEF IndInv

\* Steps that end with task_done, after adding the URLs "new" to the frontier and
\* counting the page or not.
LEMMA FinishItem ==
    ASSUME IndInv, NEW w \in Workers, pc[w] # "idle", phase # "finished",
           NEW new \in SUBSET Urls, new \cap seen = {},
           NEW n \in Nat,
           queue' \in Seq(Item), NoRepeats(queue'),
           Len(queue') = Len(queue) + n,
           UrlsOf(queue') = UrlsOf(queue) \cup new,
           seen' = seen \cup new,
           TaskDone(w, n),
           \/ UNCHANGED <<processed, fetched>>
           \/ /\ processed' = processed + 1
              /\ fetched' = fetched \cup {hold[w].url},
           UNCHANGED <<dup, docs, phase>>,
           foundAt' \in [Urls -> 0..MaxDepth],
           expanded' \in SUBSET Urls
    PROVE  IndInv'
<1> USE DEF IndInv
<1>1. pc' = [pc EXCEPT ![w] = "idle"] /\ hold' = [hold EXCEPT ![w] = NoItem]
  BY DEF TaskDone
<1>2. /\ Busy' = Busy \ {w}
      /\ Cardinality(Busy') = Cardinality(Busy) - 1
      /\ Cardinality(Busy) >= 1
      /\ HeldUrls' = HeldUrls \ {hold[w].url}
      /\ hold[w].url \in HeldUrls
      /\ hold[w] \in Item
  BY <1>1, LeaveBusy
<1>3. hold[w].url \in Urls
  BY <1>2 DEF Item
<1>4. Len(queue) \in Nat /\ Cardinality(Busy) \in Nat
  BY BusyIsFinite DEF TypeOK
<1>5. unfinished' \in Nat /\ unfinished' = Len(queue') + Cardinality(Busy')
  <2>1. unfinished' = (unfinished + n) - 1
    BY DEF TaskDone
  <2>2. unfinished = Len(queue) + Cardinality(Busy)
    BY DEF Accounting
  <2> QED BY <1>2, <1>4, <2>1, <2>2
<1>6. hold[w].url \notin fetched /\ hold[w].url \notin done
  BY <1>2 DEF EachUrlOnce, StatsTruthful
<1>7. StatsTruthful' /\ processed' \in Nat /\ fetched' \in SUBSET Urls
  <2>1. done' = done \cup {hold[w].url}
    BY DEF TaskDone
  <2>2. IsFiniteSet(fetched) /\ processed \in Nat /\ fetched \in SUBSET Urls
    BY UrlsAssumption, FS_Subset DEF TypeOK
  <2>3. CASE UNCHANGED <<processed, fetched>>
    BY <2>1, <2>2, <2>3 DEF StatsTruthful
  <2>4. CASE processed' = processed + 1 /\ fetched' = fetched \cup {hold[w].url}
    <3>1. Cardinality(fetched \cup {hold[w].url}) = Cardinality(fetched) + 1
      BY <1>6, <2>2, FS_AddElement
    <3> QED BY <1>3, <2>1, <2>2, <2>4, <3>1 DEF StatsTruthful
  <2> QED BY <2>3, <2>4
<1>8. TypeOK'
  <2>1. pc' \in [Workers -> WorkerPc] /\ hold' \in [Workers -> Item \cup {NoItem}]
    BY <1>1 DEF TypeOK, WorkerPc
  <2>2. \A v \in Workers : pc'[v] # "idle" => hold'[v] \in Item
    BY <1>1 DEF TypeOK
  <2>3. done' \in SUBSET Urls /\ seen' \in SUBSET Urls
    BY <1>3 DEF TypeOK, TaskDone
  <2> QED BY <1>5, <1>7, <2>1, <2>2, <2>3 DEF TypeOK
<1>9. Accounting'
  BY <1>5 DEF Accounting
<1>10. OvershootBound'
  <2>1. processed' <= processed + 1 /\ processed \in Nat /\ processed' \in Nat
    BY <1>7 DEF TypeOK
  <2>2. processed' + Cardinality(Busy') <= processed + Cardinality(Busy)
    BY <1>2, <1>4, <2>1
  <2>3. Cardinality(Busy') \in Nat /\ Cardinality(Workers) \in Nat /\ MaxPages \in Nat
    BY <1>2, <1>4, BusyIsFinite, BoundsAssumption
  <2> QED BY <1>4, <2>1, <2>2, <2>3 DEF OvershootBound
<1>11. JoinIsSound'
  BY DEF JoinIsSound
<1>12. EachUrlOnce'
  <2>1. done' = done \cup {hold[w].url}
    BY DEF TaskDone
  <2>2. QueuedUrls' = QueuedUrls \cup new
    BY DEF QueuedUrls
  <2>3. new \cap (QueuedUrls \cup HeldUrls \cup done) = {}
    BY DEF EachUrlOnce
  <2>4. \A u, v \in Busy' : hold'[u].url = hold'[v].url => u = v
    <3>1. \A v \in Busy' : hold'[v] = hold[v] /\ v \in Busy
      BY <1>1, <1>2 DEF TypeOK, Busy
    <3> QED BY <3>1 DEF EachUrlOnce
  <2>5. NoRepeats(queue)'
    BY DEF NoRepeats
  <2> QED BY <1>2, <2>1, <2>2, <2>3, <2>4, <2>5 DEF EachUrlOnce
<1> QED BY <1>7, <1>8, <1>9, <1>10, <1>11, <1>12

\* frontier.get within the page budget.
LEMMA TakePreserves ==
    ASSUME IndInv, NEW w \in Workers, phase # "finished", Take(w)
    PROVE  IndInv'
<1> USE DEF IndInv
<1>1. /\ pc[w] = "idle" /\ queue # << >> /\ processed < MaxPages
      /\ hold' = [hold EXCEPT ![w] = Head(queue)]
      /\ queue' = Tail(queue)
      /\ pc' = [pc EXCEPT ![w] = "admit"]
      /\ UNCHANGED <<unfinished, seen, processed, dup, docs, phase, foundAt, done,
                     fetched, expanded>>
  BY DEF Take, BudgetLeft
<1>2. /\ Head(queue) \in Item
      /\ Tail(queue) \in Seq(Item)
      /\ Len(queue) \in Nat
      /\ Len(Tail(queue)) = Len(queue) - 1
      /\ NoRepeats(Tail(queue))
      /\ UrlsOf(Tail(queue)) = UrlsOf(queue) \ {Head(queue).url}
      /\ Head(queue).url \in UrlsOf(queue)
  BY <1>1, TakeHead DEF TypeOK, EachUrlOnce
<1>3. /\ Busy' = Busy \cup {w}
      /\ w \notin Busy
      /\ Cardinality(Busy') = Cardinality(Busy) + 1
      /\ HeldUrls' = HeldUrls \cup {Head(queue).url}
      /\ hold'[w] = Head(queue)
      /\ \A v \in Busy : hold'[v] = hold[v]
  BY <1>1, <1>2, EnterBusy
<1>4. TypeOK'
  <2>1. pc' \in [Workers -> WorkerPc] /\ hold' \in [Workers -> Item \cup {NoItem}]
    BY <1>1, <1>2 DEF TypeOK, WorkerPc
  <2>2. \A v \in Workers : pc'[v] # "idle" => hold'[v] \in Item
    BY <1>1, <1>2 DEF TypeOK
  <2> QED BY <1>1, <1>2, <2>1, <2>2 DEF TypeOK
<1>5. Accounting'
  BY <1>1, <1>2, <1>3, BusyIsFinite DEF Accounting
<1>6. OvershootBound'
  <2>1. Cardinality(Busy') <= Cardinality(Workers) /\ Cardinality(Workers) \in Nat
        /\ Cardinality(Busy') \in Nat
    <3>1. Busy' \subseteq Workers /\ IsFiniteSet(Workers)
      BY WorkersAssumption DEF Busy
    <3> QED BY <3>1, FS_Subset, FS_CardinalityType
  <2>2. processed' < MaxPages /\ processed' \in Nat /\ MaxPages \in Nat
    BY <1>1, BoundsAssumption DEF TypeOK
  <2> QED BY <2>1, <2>2 DEF OvershootBound
<1>7. StatsTruthful' /\ JoinIsSound'
  BY <1>1 DEF StatsTruthful, JoinIsSound
<1>8. EachUrlOnce'
  <2>1. QueuedUrls' = QueuedUrls \ {Head(queue).url} /\ Head(queue).url \in QueuedUrls
    BY <1>1, <1>2 DEF QueuedUrls
  <2>2. NoRepeats(queue)'
    BY <1>1, <1>2
  <2>3. \A v \in Busy : hold[v].url # Head(queue).url
    BY <2>1 DEF EachUrlOnce, HeldUrls
  <2>4. \A u, v \in Busy' : hold'[u].url = hold'[v].url => u = v
    BY <1>3, <2>3 DEF EachUrlOnce
  <2>5. UNCHANGED <<seen, done>>
    BY <1>1
  <2> QED BY <1>3, <2>1, <2>2, <2>4, <2>5 DEF EachUrlOnce
<1> QED BY <1>4, <1>5, <1>6, <1>7, <1>8

\* An item dropped because the page budget is used up (engine.py:85-86).
LEMMA DrainPreserves ==
    ASSUME IndInv, NEW w \in Workers, phase # "finished", Drain(w)
    PROVE  IndInv'
<1> USE DEF IndInv
<1>1. /\ queue # << >>
      /\ queue' = Tail(queue)
      /\ unfinished' = unfinished - 1
      /\ done' = done \cup {Head(queue).url}
      /\ UNCHANGED <<seen, processed, pc, hold, dup, docs, phase, foundAt, fetched,
                     expanded>>
  BY DEF Drain
<1>2. /\ Head(queue) \in Item
      /\ Tail(queue) \in Seq(Item)
      /\ Len(queue) \in Nat
      /\ Len(queue) >= 1
      /\ Len(Tail(queue)) = Len(queue) - 1
      /\ NoRepeats(Tail(queue))
      /\ UrlsOf(Tail(queue)) = UrlsOf(queue) \ {Head(queue).url}
      /\ Head(queue).url \in UrlsOf(queue)
  BY <1>1, TakeHead DEF TypeOK, EachUrlOnce
<1>3. Busy' = Busy /\ HeldUrls' = HeldUrls
  BY <1>1 DEF Busy, HeldUrls
<1>4. Accounting' /\ unfinished' \in Nat
  BY <1>1, <1>2, <1>3, BusyIsFinite DEF Accounting
<1>5. TypeOK'
  <2>1. done' \in SUBSET Urls
    BY <1>1, <1>2 DEF TypeOK, Item
  <2> QED BY <1>1, <1>2, <1>4, <2>1 DEF TypeOK
<1>6. OvershootBound' /\ StatsTruthful' /\ JoinIsSound'
  BY <1>1, <1>3 DEF OvershootBound, StatsTruthful, JoinIsSound
<1>7. EachUrlOnce'
  <2>1. QueuedUrls' = QueuedUrls \ {Head(queue).url} /\ Head(queue).url \in QueuedUrls
    BY <1>1, <1>2 DEF QueuedUrls
  <2>2. NoRepeats(queue)'
    BY <1>1, <1>2
  <2>3. \A u, v \in Busy' : hold'[u].url = hold'[v].url => u = v
    BY <1>1, <1>3 DEF EachUrlOnce
  <2> QED BY <1>1, <1>3, <2>1, <2>2, <2>3 DEF EachUrlOnce
<1> QED BY <1>4, <1>5, <1>6, <1>7

\* The steps in which process() ends without links: refused, failed, or 304.
LEMMA GiveUpPreserves ==
    ASSUME IndInv, NEW w \in Workers, phase # "finished",
           Refuse(w) \/ FetchFails(w) \/ SaveFails(w) \/ NotModified(w)
    PROVE  IndInv'
<1>1. /\ pc[w] # "idle"
      /\ TaskDone(w, 0)
      /\ UNCHANGED <<queue, seen, dup, docs, phase, foundAt, expanded>>
      /\ \/ UNCHANGED <<processed, fetched>>
         \/ /\ processed' = processed + 1
            /\ fetched' = fetched \cup {hold[w].url}
  BY DEF Refuse, FetchFails, SaveFails, NotModified, GiveUp
<1>2. /\ queue' \in Seq(Item) /\ NoRepeats(queue')
      /\ Len(queue') = Len(queue) + 0
      /\ UrlsOf(queue') = UrlsOf(queue) \cup {}
      /\ seen' = seen \cup {}
      /\ foundAt' \in [Urls -> 0..MaxDepth]
      /\ expanded' \in SUBSET Urls
  BY <1>1 DEF IndInv, TypeOK, EachUrlOnce
<1>3. {} \in SUBSET Urls /\ {} \cap seen = {} /\ 0 \in Nat
  OBVIOUS
<1>4. UNCHANGED <<dup, docs, phase>>
  BY <1>1
<1> QED BY <1>1, <1>2, <1>3, <1>4, FinishItem

\* The URL is admitted.
LEMMA StartFetchPreserves ==
    ASSUME IndInv, NEW w \in Workers, phase # "finished", StartFetch(w)
    PROVE  IndInv'
<1>1. /\ pc[w] # "idle" /\ pc' = [pc EXCEPT ![w] = "fetch"]
      /\ UNCHANGED <<queue, unfinished, seen, processed, hold, phase, foundAt,
                     done, fetched, expanded>>
      /\ dup' \in [Workers -> BOOLEAN]
      /\ (DOMAIN docs)' \subseteq Urls
  BY DEF StartFetch, IndInv, TypeOK
<1>2. "fetch" \in WorkerPc \ {"idle"}
  BY DEF WorkerPc
<1> QED BY <1>1, <1>2, MoveOn

\* The page arrives and is fingerprinted.
LEMMA FetchOkPreserves ==
    ASSUME IndInv, NEW w \in Workers, phase # "finished", FetchOk(w)
    PROVE  IndInv'
<1>1. /\ pc[w] # "idle" /\ pc' = [pc EXCEPT ![w] = "save"]
      /\ UNCHANGED <<queue, unfinished, seen, processed, hold, phase, foundAt,
                     done, fetched, expanded>>
      /\ dup' \in [Workers -> BOOLEAN]
      /\ (DOMAIN docs)' \subseteq Urls
  BY DEF FetchOk, IndInv, TypeOK
<1>2. "save" \in WorkerPc \ {"idle"}
  BY DEF WorkerPc
<1> QED BY <1>1, <1>2, MoveOn

\* The page is stored.
LEMMA SavePagePreserves ==
    ASSUME IndInv, NEW w \in Workers, phase # "finished", SavePage(w)
    PROVE  IndInv'
<1>1. /\ pc[w] # "idle" /\ pc' = [pc EXCEPT ![w] = "expand"]
      /\ UNCHANGED <<queue, unfinished, seen, processed, hold, phase, foundAt,
                     done, fetched, expanded>>
      /\ dup' \in [Workers -> BOOLEAN]
  BY DEF SavePage, Upsert, IndInv, TypeOK
<1>2. (DOMAIN docs)' \subseteq Urls
  <2>1. Canon[hold[w].url] \in Urls
    BY <1>1, PagesAssumption DEF IndInv, TypeOK, Item
  <2> QED BY <2>1 DEF SavePage, Upsert, IndInv, TypeOK
<1>3. "expand" \in WorkerPc \ {"idle"}
  BY DEF WorkerPc
<1> QED BY <1>1, <1>2, <1>3, MoveOn

\* The links of a page are added to the frontier (engine.py:95-117).
LEMMA ExpandPreserves ==
    ASSUME IndInv, NEW w \in Workers, phase # "finished", Expand(w)
    PROVE  IndInv'
<1> DEFINE item == hold[w]
           new == NewLinks(w)
<1>1. /\ pc[w] = "expand"
      /\ processed' = processed + 1
      /\ fetched' = fetched \cup {item.url}
      /\ \E s \in Arrangements(new) : queue' = queue \o ItemsAt(s, item.depth + 1)
      /\ seen' = seen \cup new
      /\ foundAt' = [u \in Urls |-> IF u \in new THEN item.depth + 1 ELSE foundAt[u]]
      /\ expanded' = IF Expands(w) THEN expanded \cup {item.url} ELSE expanded
      /\ TaskDone(w, Cardinality(new))
      /\ UNCHANGED <<dup, docs, phase>>
  BY DEF Expand, Put
<1>2. item \in Item /\ item.url \in Urls /\ item.depth \in 0..MaxDepth
  BY <1>1 DEF IndInv, TypeOK, Item
<1>3. new \in SUBSET Urls /\ new \cap seen = {} /\ (new # {} => item.depth < MaxDepth)
  BY <1>2, PagesAssumption DEF NewLinks, Offered, Expands
<1>4. Cardinality(new) \in Nat
  BY <1>3, UrlsAssumption, FS_Subset, FS_CardinalityType
<1>5. pc[w] # "idle"
  BY <1>1
<1>6. expanded' \in SUBSET Urls
  BY <1>1, <1>2 DEF IndInv, TypeOK
<1>7. new # {} => item.depth + 1 \in 0..MaxDepth
  BY <1>2, <1>3, BoundsAssumption
<1>8. foundAt' \in [Urls -> 0..MaxDepth]
  BY <1>1, <1>7 DEF IndInv, TypeOK
<1>9. /\ queue' \in Seq(Item)
      /\ Len(queue') = Len(queue) + Cardinality(new)
      /\ NoRepeats(queue')
      /\ UrlsOf(queue') = UrlsOf(queue) \cup new
  <2>1. PICK s \in Arrangements(new) : queue' = queue \o ItemsAt(s, item.depth + 1)
    BY <1>1
  <2>2. queue \in Seq(Item) /\ NoRepeats(queue)
    BY DEF IndInv, TypeOK, EachUrlOnce
  <2>3. new \cap UrlsOf(queue) = {}
    BY <1>3 DEF IndInv, EachUrlOnce, QueuedUrls
  <2>4. CASE new # {}
    BY <1>3, <1>7, <2>1, <2>2, <2>3, <2>4, AddAll
  <2>5. CASE new = {}
    <3>1. Cardinality(new) = 0 /\ s \in [1..0 -> {}]
      BY <2>1, <2>5, FS_EmptySet DEF Arrangements
    <3>2. ItemsAt(s, item.depth + 1) = << >>
      BY <3>1 DEF ItemsAt
    <3>3. queue' = queue
      BY <2>1, <2>2, <3>2
    <3>4. Len(queue) \in Nat
      BY <2>2
    <3> QED BY <2>2, <2>5, <3>1, <3>3, <3>4
  <2> QED BY <2>4, <2>5
<1>10. /\ processed' = processed + 1
       /\ fetched' = fetched \cup {hold[w].url}
       /\ seen' = seen \cup new
       /\ TaskDone(w, Cardinality(new))
       /\ UNCHANGED <<dup, docs, phase>>
  BY <1>1
<1> HIDE DEF new
<1> QED BY <1>3, <1>4, <1>5, <1>6, <1>8, <1>9, <1>10, FinishItem

\* join() returns: with the counter at zero nothing is queued or in hand.
LEMMA JoinReturnsPreserves ==
    ASSUME IndInv, JoinReturns
    PROVE  IndInv'
<1> USE DEF IndInv
<1>1. /\ unfinished = 0 /\ phase' = "finished"
      /\ UNCHANGED <<queue, unfinished, seen, processed, pc, hold, dup, docs,
                     foundAt, done, fetched, expanded>>
  BY DEF JoinReturns
<1>2. Busy' = Busy /\ HeldUrls' = HeldUrls /\ QueuedUrls' = QueuedUrls
  BY <1>1 DEF Busy, HeldUrls, QueuedUrls
<1>3. TypeOK' /\ Accounting' /\ OvershootBound' /\ StatsTruthful'
  BY <1>1, <1>2 DEF TypeOK, Accounting, OvershootBound, StatsTruthful, Phases
<1>4. EachUrlOnce'
  BY <1>1, <1>2 DEF EachUrlOnce
<1>5. Len(queue) = 0 /\ Cardinality(Busy) = 0
  <2>1. Len(queue) \in Nat
    BY DEF TypeOK
  <2> QED BY <1>1, <2>1, BusyIsFinite DEF Accounting
<1>6. queue = << >> /\ Busy = {}
  <2>1. queue = << >>
    BY <1>5 DEF TypeOK
  <2> QED BY <1>5, <2>1, BusyIsFinite, FS_EmptySet
<1>7. JoinIsSound'
  BY <1>1, <1>2, <1>6 DEF JoinIsSound, Idle
<1> QED BY <1>3, <1>4, <1>7

\* A stop, and the closing of the fetcher.
LEMMA StopPreserves ==
    ASSUME IndInv, StopCrawl \/ CloseFetcher
    PROVE  IndInv'
<1> USE DEF IndInv
<1>1. /\ phase' \in {"closing", "stopped"}
      /\ UNCHANGED <<queue, unfinished, seen, processed, pc, hold, dup, docs,
                     foundAt, done, fetched, expanded>>
  BY DEF StopCrawl, CloseFetcher
<1>2. Busy' = Busy /\ HeldUrls' = HeldUrls /\ QueuedUrls' = QueuedUrls
  BY <1>1 DEF Busy, HeldUrls, QueuedUrls
<1>3. TypeOK' /\ Accounting' /\ OvershootBound' /\ StatsTruthful'
  BY <1>1, <1>2 DEF TypeOK, Accounting, OvershootBound, StatsTruthful, Phases
<1>4. EachUrlOnce' /\ JoinIsSound'
  BY <1>1, <1>2 DEF EachUrlOnce, JoinIsSound
<1> QED BY <1>3, <1>4

\* Nothing happens.
LEMMA StutterPreserves ==
    ASSUME IndInv, UNCHANGED vars
    PROVE  IndInv'
BY DEF IndInv, TypeOK, Accounting, JoinIsSound, EachUrlOnce, OvershootBound,
       StatsTruthful, Idle, Busy, HeldUrls, QueuedUrls, vars

\* Every step of the engine preserves the inductive invariant.
THEOREM NextIndInv == IndInv /\ [Next]_vars => IndInv'
<1> SUFFICES ASSUME IndInv, [Next]_vars PROVE IndInv'
  OBVIOUS
<1>1. ASSUME NEW w \in Workers, WorkerStep(w) PROVE IndInv'
  <2>1. phase # "finished"
    BY <1>1 DEF WorkerStep
  <2>2. CASE Take(w)
    BY <2>1, <2>2, TakePreserves
  <2>3. CASE Drain(w)
    BY <2>1, <2>3, DrainPreserves
  <2>4. CASE Refuse(w) \/ FetchFails(w) \/ SaveFails(w) \/ NotModified(w)
    BY <2>1, <2>4, GiveUpPreserves
  <2>5. CASE StartFetch(w)
    BY <2>1, <2>5, StartFetchPreserves
  <2>6. CASE FetchOk(w)
    BY <2>1, <2>6, FetchOkPreserves
  <2>7. CASE SavePage(w)
    BY <2>1, <2>7, SavePagePreserves
  <2>8. CASE Expand(w)
    BY <2>1, <2>8, ExpandPreserves
  <2> QED BY <1>1, <2>2, <2>3, <2>4, <2>5, <2>6, <2>7, <2>8 DEF WorkerStep
<1>2. CASE JoinReturns
  BY <1>2, JoinReturnsPreserves
<1>3. CASE StopCrawl \/ CloseFetcher
  BY <1>3, StopPreserves
<1>4. CASE Terminated \/ UNCHANGED vars
  BY <1>4, StutterPreserves DEF Terminated
<1> QED BY <1>1, <1>2, <1>3, <1>4 DEF Next

\* The inductive invariant holds in every crawl, for any site, number of workers,
\* depth limit and page budget.
THEOREM IndInvHolds == Spec => []IndInv
BY InitIndInv, NextIndInv, PTL DEF Spec

\* The variables keep their types in every crawl (engine.py, memory.py).
THEOREM TypeCorrect == Spec => []TypeOK
<1>1. IndInv => TypeOK
  BY DEF IndInv
<1> QED BY <1>1, IndInvHolds, PTL

\* The counter join() waits on is always the number of items queued or in hand, so
\* run() neither returns early nor waits for a task_done that never comes.
THEOREM AccountingHolds == Spec => []Accounting
<1>1. IndInv => Accounting
  BY DEF IndInv
<1> QED BY <1>1, IndInvHolds, PTL

\* run() cancels its workers only when every one is waiting on an empty queue
\* (engine.py:70-72).
THEOREM JoinSound == Spec => []JoinIsSound
<1>1. IndInv => JoinIsSound
  BY DEF IndInv
<1> QED BY <1>1, IndInvHolds, PTL

\* No URL is lost and none is handled twice, for any number of workers.
THEOREM UrlsHandledOnce == Spec => []EachUrlOnce
<1>1. IndInv => EachUrlOnce
  BY DEF IndInv
<1> QED BY <1>1, IndInvHolds, PTL

\* The page budget is exceeded by less than the number of workers (engine.py:85, 98).
THEOREM Overshoot == Spec => []OvershootBound
<1>1. IndInv => OvershootBound
  BY DEF IndInv
<1> QED BY <1>1, IndInvHolds, PTL

\* The page count reported is the number of distinct URLs fetched (engine.py:97-98).
THEOREM StatsHold == Spec => []StatsTruthful
<1>1. IndInv => StatsTruthful
  BY DEF IndInv
<1> QED BY <1>1, IndInvHolds, PTL

-----------------------------------------------------------------------------
(* The engine implements the abstract frontier                               *)

\* The seeded frontier is an initial abstract frontier.
LEMMA InitRefines == Init => Pool!Init
BY UrlsAssumption DEF Init, Pool!Init

\* A step that ends with task_done completes the URL in hand.
LEMMA CompletionRefines ==
    ASSUME IndInv, NEW w \in Workers, pc[w] # "idle", phase # "finished",
           NEW new \in SUBSET Urls, new \cap seen = {}, NEW n,
           seen' = seen \cup new, TaskDone(w, n), phase' = phase
    PROVE  Pool!CompleteSome
<1>1. hold[w].url \in Urls /\ hold[w].url \in HeldUrls
  BY DEF IndInv, TypeOK, Busy, HeldUrls, Item
<1>2. hold[w].url \in seen \ done /\ done \subseteq seen
  BY <1>1 DEF IndInv, EachUrlOnce
<1>3. done' = done \cup {hold[w].url}
  BY DEF TaskDone
<1>4. seen' \ done' = ((seen \ done) \ {hold[w].url}) \cup new
  BY <1>2, <1>3
<1>5. phase = "joining" \/ phase = "closing" \/ phase = "stopped"
  BY DEF IndInv, TypeOK, Phases
<1>6. Pool!Complete(hold[w].url, new)
  BY <1>2, <1>3, <1>4, <1>5 DEF Pool!Complete
<1> QED BY <1>1, <1>6 DEF Pool!CompleteSome

\* The steps of a worker that the abstract frontier does not see.
LEMMA InvisibleRefines ==
    ASSUME UNCHANGED <<seen, done, phase>>
    PROVE  UNCHANGED Pool!vars
BY DEF Pool!vars

\* Every step of a worker completes one URL or is invisible.
LEMMA WorkerRefines ==
    ASSUME IndInv, NEW w \in Workers, WorkerStep(w)
    PROVE  [Pool!Next]_(Pool!vars)
<1>1. phase # "finished"
  BY DEF WorkerStep
<1>2. CASE Take(w) \/ StartFetch(w) \/ FetchOk(w) \/ SavePage(w)
  <2>1. UNCHANGED <<seen, done, phase>>
    BY <1>2 DEF Take, StartFetch, FetchOk, SavePage
  <2> QED BY <2>1, InvisibleRefines
<1>3. CASE Drain(w)
  <2>1. /\ queue # << >> /\ done' = done \cup {Head(queue).url}
        /\ UNCHANGED <<seen, phase>>
    BY <1>3 DEF Drain
  <2>2. Head(queue).url \in QueuedUrls /\ Head(queue) \in Item
    BY <2>1, TakeHead DEF IndInv, TypeOK, EachUrlOnce, QueuedUrls
  <2>3. Head(queue).url \in seen \ done /\ done \subseteq seen /\ Head(queue).url \in Urls
    BY <2>2 DEF IndInv, EachUrlOnce, Item
  <2>4. seen' \ done' = ((seen \ done) \ {Head(queue).url}) \cup {}
    BY <2>1, <2>3
  <2>5. phase = "joining" \/ phase = "closing" \/ phase = "stopped"
    BY <1>1 DEF IndInv, TypeOK, Phases
  <2>6. Pool!Complete(Head(queue).url, {})
    BY <2>1, <2>3, <2>4, <2>5 DEF Pool!Complete
  <2> QED BY <2>3, <2>6 DEF Pool!CompleteSome, Pool!Next
<1>4. CASE Refuse(w) \/ FetchFails(w) \/ SaveFails(w) \/ NotModified(w)
  <2>1. pc[w] # "idle" /\ TaskDone(w, 0) /\ phase' = phase /\ seen' = seen \cup {}
    BY <1>4 DEF Refuse, FetchFails, SaveFails, NotModified, GiveUp
  <2>2. {} \in SUBSET Urls /\ {} \cap seen = {}
    OBVIOUS
  <2> QED BY <1>1, <2>1, <2>2, CompletionRefines DEF Pool!Next
<1>5. CASE Expand(w)
  <2> DEFINE new == NewLinks(w)
  <2>1. /\ pc[w] = "expand" /\ seen' = seen \cup new /\ phase' = phase
        /\ TaskDone(w, Cardinality(new))
    BY <1>5 DEF Expand
  <2>2. hold[w].url \in Urls
    BY <2>1 DEF IndInv, TypeOK, Item
  <2>3. new \in SUBSET Urls /\ new \cap seen = {}
    BY <2>2, PagesAssumption DEF NewLinks, Offered
  <2> HIDE DEF new
  <2> QED BY <1>1, <2>1, <2>3, CompletionRefines DEF Pool!Next
<1> QED BY <1>2, <1>3, <1>4, <1>5 DEF WorkerStep

\* Every step of the engine is a step of the abstract frontier, or a stutter.
LEMMA NextRefines == IndInv /\ [Next]_vars => [Pool!Next]_(Pool!vars)
<1> SUFFICES ASSUME IndInv, [Next]_vars PROVE [Pool!Next]_(Pool!vars)
  OBVIOUS
<1>1. CASE \E w \in Workers : WorkerStep(w)
  BY <1>1, WorkerRefines
<1>2. CASE JoinReturns
  <2>1. phase = "joining" /\ phase' = "finished" /\ UNCHANGED <<seen, done>>
    BY <1>2 DEF JoinReturns
  <2>2. QueuedUrls = {} /\ HeldUrls = {}
    <3>1. (queue = << >> /\ Busy = {})'
      BY <1>2, <2>1, JoinReturnsPreserves DEF IndInv, JoinIsSound, Idle
    <3>2. queue = << >> /\ Busy = {}
      BY <1>2, <3>1 DEF JoinReturns, Busy
    <3> QED BY <3>2 DEF QueuedUrls, UrlsOf, HeldUrls
  <2>3. seen \ done = {}
    BY <2>2 DEF IndInv, EachUrlOnce
  <2> QED BY <2>1, <2>3 DEF Pool!Next, Pool!Finish
<1>3. CASE StopCrawl
  BY <1>3 DEF StopCrawl, Pool!Next, Pool!Stop
<1>4. CASE CloseFetcher
  BY <1>4 DEF CloseFetcher, Pool!vars
<1>5. CASE Terminated \/ UNCHANGED vars
  <2>1. UNCHANGED <<seen, done, phase>>
    BY <1>5 DEF Terminated, vars
  <2> QED BY <2>1, InvisibleRefines
<1> QED BY <1>1, <1>2, <1>3, <1>4, <1>5 DEF Next

\* Every crawl is a behaviour of the abstract frontier: each discovered URL is
\* completed once, and the crawl is finished only when nothing is pending.
THEOREM EngineImplementsWorkPool == Spec => Pool!Safety
BY IndInvHolds, InitRefines, NextRefines, PTL DEF Spec, Pool!Safety

-----------------------------------------------------------------------------
(* Where the URLs of a crawl come from                                       *)

\* An item carries the depth its URL was found at, and only finished pages are expanded.
DepthsRecorded ==
    /\ \A i \in 1..Len(queue) : queue[i].depth = foundAt[queue[i].url]
    /\ \A w \in Busy : hold[w].depth = foundAt[hold[w].url]
    /\ expanded \subseteq done

\* Every link in scope of an expanded page has been added to the frontier.
LinksSeen == \A p \in expanded : \A v \in Links[Canon[p]] : InScope(v) => v \in seen

\* DepthHasProvenance needs to know the depth of the item a worker holds and, since
\* foundAt changes when a URL is added, that expanded pages were added before.
ProvenanceInv == DepthsRecorded /\ LinksSeen /\ DepthHasProvenance

LEMMA InitProvenance == Init => ProvenanceInv
<1> SUFFICES ASSUME Init PROVE ProvenanceInv
  OBVIOUS
<1>1. IndInv
  BY InitIndInv
<1>2. PICK s \in Arrangements(Seeds) : queue = ItemsAt(s, 0)
  BY DEF Init
<1>3. DOMAIN queue = 1..Len(queue) /\ DOMAIN queue = DOMAIN s
  BY <1>1, <1>2 DEF IndInv, TypeOK, ItemsAt
<1>4. \A i \in 1..Len(queue) : queue[i].depth = 0 /\ queue[i].url \in Urls
  <2>1. \A i \in 1..Len(queue) : queue[i] = [url |-> s[i], depth |-> 0]
    BY <1>2, <1>3 DEF ItemsAt
  <2>2. \A i \in 1..Len(queue) : queue[i] \in Item
    BY <1>1 DEF IndInv, TypeOK
  <2>3. \A i \in 1..Len(queue) : queue[i].url \in Urls
    BY <2>2 DEF Item
  <2>4. ASSUME NEW i \in 1..Len(queue) PROVE queue[i].depth = 0
    <3>1. queue[i] = [url |-> s[i], depth |-> 0]
      BY <2>1
    <3>2. [url |-> s[i], depth |-> 0].depth = 0
      OBVIOUS
    <3> QED BY <3>1, <3>2, Zenon
  <2> QED BY <2>3, <2>4
<1>5. Busy = {}
  BY DEF Init, Busy
<1>6. DepthsRecorded
  BY <1>4, <1>5 DEF Init, DepthsRecorded
<1> QED BY <1>6 DEF Init, ProvenanceInv, LinksSeen, DepthHasProvenance

\* Taking an item from the queue, to work on it or to drop it, keeps the depths.
LEMMA TakeDepths ==
    ASSUME IndInv, DepthsRecorded, queue # << >>, queue' = Tail(queue),
           UNCHANGED foundAt
    PROVE  /\ \A i \in 1..Len(queue') : queue'[i].depth = foundAt'[queue'[i].url]
           /\ Head(queue).depth = foundAt[Head(queue).url]
<1>1. queue \in Seq(Item)
  BY DEF IndInv, TypeOK
<1>2. Head(queue) = queue[1] /\ 1 \in 1..Len(queue)
  BY <1>1
<1>3. \A i \in 1..Len(queue') : queue'[i] = queue[i + 1] /\ i + 1 \in 1..Len(queue)
  BY <1>1
<1> QED BY <1>2, <1>3 DEF DepthsRecorded

\* Steps of a worker that add no URL to the frontier.
LEMMA QuietProvenance ==
    ASSUME IndInv, ProvenanceInv, NEW w \in Workers,
           Take(w) \/ Drain(w) \/ Refuse(w) \/ StartFetch(w) \/ FetchFails(w)
             \/ NotModified(w) \/ FetchOk(w) \/ SaveFails(w) \/ SavePage(w)
    PROVE  ProvenanceInv'
<1> USE DEF ProvenanceInv
<1>1. UNCHANGED <<seen, foundAt, expanded>> /\ done \subseteq done'
  BY DEF Take, Drain, Refuse, StartFetch, FetchFails, NotModified, FetchOk, SaveFails,
         SavePage, GiveUp, TaskDone
<1>2. LinksSeen' /\ DepthHasProvenance'
  BY <1>1 DEF LinksSeen, DepthHasProvenance
<1>3. CASE Take(w)
  <2>1. /\ queue # << >> /\ queue' = Tail(queue) /\ pc' = [pc EXCEPT ![w] = "admit"]
        /\ hold' = [hold EXCEPT ![w] = Head(queue)]
    BY <1>3 DEF Take
  <2>2. Head(queue).depth = foundAt[Head(queue).url]
        /\ \A i \in 1..Len(queue') : queue'[i].depth = foundAt'[queue'[i].url]
    BY <1>1, <2>1, TakeDepths
  <2>3. ASSUME NEW v \in Busy' PROVE hold'[v].depth = foundAt'[hold'[v].url]
    BY <1>1, <2>1, <2>2 DEF Busy, DepthsRecorded, IndInv, TypeOK
  <2> QED BY <1>1, <1>2, <2>2, <2>3 DEF DepthsRecorded
<1>4. CASE Drain(w)
  <2>1. queue # << >> /\ queue' = Tail(queue) /\ UNCHANGED <<pc, hold>>
    BY <1>4 DEF Drain
  <2>2. \A i \in 1..Len(queue') : queue'[i].depth = foundAt'[queue'[i].url]
    BY <1>1, <2>1, TakeDepths
  <2> QED BY <1>1, <1>2, <2>1, <2>2 DEF DepthsRecorded, Busy
<1>5. ASSUME ~Take(w), ~Drain(w) PROVE ProvenanceInv'
  <2>1. queue' = queue /\ pc[w] # "idle"
    BY <1>5 DEF Refuse, StartFetch, FetchFails, NotModified, FetchOk, SaveFails, SavePage,
                GiveUp
  <2>2. \E p : pc' = [pc EXCEPT ![w] = p]
    BY <1>5 DEF Refuse, StartFetch, FetchFails, NotModified, FetchOk, SaveFails, SavePage,
                GiveUp, TaskDone
  <2>3. hold' = hold \/ (pc' = [pc EXCEPT ![w] = "idle"]
                           /\ hold' = [hold EXCEPT ![w] = NoItem])
    BY <1>5 DEF Refuse, StartFetch, FetchFails, NotModified, FetchOk, SaveFails, SavePage,
                GiveUp, TaskDone
  <2>4. ASSUME NEW v \in Busy' PROVE hold'[v] = hold[v] /\ v \in Busy
    BY <2>1, <2>2, <2>3 DEF Busy, IndInv, TypeOK
  <2> QED BY <1>1, <1>2, <2>1, <2>4 DEF DepthsRecorded
<1> QED BY <1>3, <1>4, <1>5

\* Expanding a page gives its new links a parent and a depth (engine.py:101-115).
LEMMA ExpandProvenance ==
    ASSUME IndInv, ProvenanceInv, NEW w \in Workers, Expand(w)
    PROVE  ProvenanceInv'
<1> USE DEF ProvenanceInv
<1> DEFINE url == hold[w].url
           below == hold[w].depth + 1
           new == NewLinks(w)
<1>1. /\ pc[w] = "expand"
      /\ \E s \in Arrangements(new) : queue' = queue \o ItemsAt(s, below)
      /\ seen' = seen \cup new
      /\ foundAt' = [u \in Urls |-> IF u \in new THEN below ELSE foundAt[u]]
      /\ expanded' = IF Expands(w) THEN expanded \cup {url} ELSE expanded
      /\ done' = done \cup {url}
      /\ pc' = [pc EXCEPT ![w] = "idle"]
      /\ hold' = [hold EXCEPT ![w] = NoItem]
  BY DEF Expand, Put, TaskDone
<1>2. w \in Busy /\ url \in Urls /\ url \in HeldUrls /\ hold[w].depth \in 0..MaxDepth
  BY <1>1 DEF IndInv, TypeOK, Item, Busy, HeldUrls
<1>3. /\ QueuedUrls \subseteq seen /\ HeldUrls \subseteq seen /\ done \subseteq seen
      /\ seen \subseteq Urls
  BY DEF IndInv, EachUrlOnce, TypeOK
<1>4. new \in SUBSET Urls /\ new \cap seen = {}
  BY <1>2, PagesAssumption DEF NewLinks, Offered
<1>5. \A u \in seen : foundAt'[u] = foundAt[u]
  BY <1>1, <1>3, <1>4
<1>6. \A u \in new : foundAt'[u] = below
  BY <1>1, <1>4
<1>7. hold[w].depth = foundAt[url]
  BY <1>2 DEF DepthsRecorded
<1>8. DepthsRecorded'
  <2>1. PICK s \in Arrangements(new) : queue' = queue \o ItemsAt(s, below)
    BY <1>1
  <2>2. Cardinality(new) \in Nat
    BY <1>4, UrlsAssumption, FS_Subset, FS_CardinalityType
  <2>3. s \in [1..Cardinality(new) -> new]
    BY <2>1 DEF Arrangements
  <2> DEFINE t == ItemsAt(s, below)
             n == Cardinality(new)
             Found == [url : new, depth : {below}]
  <2> HIDE DEF new, below, url
  <2>4. t \in Seq(Found) /\ Len(t) = n
    <3>1. t = [i \in 1..n |-> [url |-> s[i], depth |-> below]]
      BY <2>3 DEF ItemsAt
    <3>2. \A i \in 1..n : [url |-> s[i], depth |-> below] \in Found
      BY <2>3
    <3>3. t \in [1..n -> Found]
      BY <3>1, <3>2
    <3> HIDE DEF t, n, Found
    <3> QED BY <2>2, <3>3 DEF n
  <2>5. queue \in Seq(Item) /\ Len(queue) \in Nat
    BY DEF IndInv, TypeOK
  <2> HIDE DEF t, n
  <2>6. ASSUME NEW i \in 1..Len(queue')
        PROVE  queue'[i].depth = foundAt'[queue'[i].url]
    <3>1. CASE i \in 1..Len(queue)
      <4>1. queue'[i] = queue[i]
        BY <2>1, <2>4, <2>5, <3>1 DEF t
      <4>2. queue[i].url \in seen
        BY <1>3, <3>1 DEF QueuedUrls, UrlsOf
      <4> QED BY <1>5, <3>1, <4>1, <4>2 DEF DepthsRecorded
    <3>2. CASE i \notin 1..Len(queue)
      <4>1. /\ i - Len(queue) \in 1..Len(t)
            /\ queue'[i] = t[i - Len(queue)]
        BY <2>1, <2>2, <2>4, <2>5, <3>2 DEF t, n
      <4>2. t[i - Len(queue)] \in Found
        <5> HIDE DEF Found
        <5> QED BY <2>4, <4>1
      <4> QED BY <1>6, <4>1, <4>2
    <3> QED BY <3>1, <3>2
  <2>7. ASSUME NEW v \in Busy' PROVE hold'[v].depth = foundAt'[hold'[v].url]
    <3>1. v \in Busy /\ hold'[v] = hold[v]
      BY <1>1 DEF Busy, IndInv, TypeOK
    <3>2. hold[v].url \in seen
      BY <1>3, <3>1 DEF HeldUrls
    <3> QED BY <1>5, <3>1, <3>2 DEF DepthsRecorded
  <2>8. expanded' \subseteq done'
    BY <1>1 DEF DepthsRecorded
  <2> QED BY <2>6, <2>7, <2>8 DEF DepthsRecorded
<1>9. LinksSeen'
  <2> SUFFICES ASSUME NEW p \in expanded', NEW v \in Links[Canon[p]], InScope(v)
               PROVE  v \in seen'
    BY DEF LinksSeen, InScope, SeedDomains
  <2>1. CASE p \in expanded
    BY <1>1, <2>1 DEF LinksSeen
  <2>2. CASE p \notin expanded
    <3>1. p = url /\ Expands(w)
      BY <1>1, <2>2
    <3>2. v \in Offered(w)
      BY <3>1 DEF Offered
    <3> QED BY <1>1, <3>2 DEF NewLinks
  <2> QED BY <2>1, <2>2
<1>10. DepthHasProvenance'
  <2> SUFFICES ASSUME NEW u \in seen' \ Seeds
               PROVE  /\ InScope(u)
                      /\ \E p \in expanded' : /\ u \in Links[Canon[p]]
                                               /\ foundAt'[u] = foundAt'[p] + 1
    BY DEF DepthHasProvenance, InScope, SeedDomains
  <2>1. CASE u \in seen
    <3>1. PICK p \in expanded : u \in Links[Canon[p]] /\ foundAt[u] = foundAt[p] + 1
      BY <2>1 DEF DepthHasProvenance
    <3>2. p \in seen /\ p \in expanded'
      BY <1>1, <1>3 DEF DepthsRecorded
    <3> QED BY <1>5, <2>1, <3>1, <3>2 DEF DepthHasProvenance
  <2>2. CASE u \notin seen
    <3>1. u \in new
      BY <1>1, <2>2
    <3>2. Expands(w) /\ InScope(u) /\ u \in Links[Canon[url]]
      BY <3>1 DEF NewLinks, Offered
    <3>3. url \in expanded' /\ foundAt'[url] = foundAt[url]
      BY <1>1, <1>2, <1>3, <1>5, <3>2
    <3>4. foundAt'[u] = foundAt'[url] + 1
      BY <1>6, <1>7, <3>1, <3>3
    <3> QED BY <3>2, <3>3, <3>4
  <2> QED BY <2>1, <2>2
<1> QED BY <1>8, <1>9, <1>10

LEMMA NextProvenance == IndInv /\ ProvenanceInv /\ [Next]_vars => ProvenanceInv'
<1> SUFFICES ASSUME IndInv, ProvenanceInv, [Next]_vars PROVE ProvenanceInv'
  OBVIOUS
<1>1. ASSUME NEW w \in Workers, WorkerStep(w) PROVE ProvenanceInv'
  BY <1>1, QuietProvenance, ExpandProvenance DEF WorkerStep
<1>2. CASE JoinReturns \/ StopCrawl \/ CloseFetcher \/ Terminated \/ UNCHANGED vars
  <2>1. UNCHANGED <<queue, seen, pc, hold, foundAt, done, expanded>>
    BY <1>2 DEF JoinReturns, StopCrawl, CloseFetcher, Terminated, vars
  <2> QED BY <2>1 DEF ProvenanceInv, DepthsRecorded, LinksSeen, DepthHasProvenance, Busy
<1> QED BY <1>1, <1>2 DEF Next

LEMMA ProvenanceHolds == Spec => []ProvenanceInv
BY IndInvHolds, InitProvenance, NextProvenance, PTL DEF Spec

\* Every URL of a crawl that is not a seed is in scope and one level below an expanded page
\* that links to it, whichever workers found it first (engine.py:101-115).
THEOREM DepthsHaveProvenance == Spec => []DepthHasProvenance
<1>1. ProvenanceInv => DepthHasProvenance
  BY DEF ProvenanceInv
<1> QED BY <1>1, ProvenanceHolds, PTL

\* A finished crawl is closed under the links in scope of its expanded pages: none was
\* forgotten by a worker that was cancelled (engine.py:70, 104-115).
THEOREM FinishedClosed == Spec => []FinishedIsClosed
<1>1. IndInv /\ ProvenanceInv => FinishedIsClosed
  <2> SUFFICES ASSUME IndInv, ProvenanceInv, phase = "finished" PROVE seen = done
    BY DEF FinishedIsClosed, ProvenanceInv, LinksSeen
  <2>1. queue = << >> /\ Busy = {}
    BY DEF IndInv, JoinIsSound, Idle
  <2>2. QueuedUrls = {} /\ HeldUrls = {}
    BY <2>1 DEF QueuedUrls, UrlsOf, HeldUrls
  <2> QED BY <2>2 DEF IndInv, EachUrlOnce
<1> QED BY <1>1, IndInvHolds, ProvenanceHolds, PTL

-----------------------------------------------------------------------------
(* One body per content                                                      *)

\* The page a worker has fetched, and the workers that are about to store the body of one.
PageOf(w) == Canon[hold[w].url]
Claims == {w \in Workers : pc[w] = "save" /\ ~dup[w] /\ PageOf(w) \in DOMAIN Fingerprint}

\* The pages that are stored with a body.
Stored == {u \in DOMAIN docs \cap DOMAIN Fingerprint : docs[u].key}

\* Two fingerprints are not near-duplicates.
Apart(f, g) == hamming_distance(f, g) > Threshold

\* A body that is stored, and one that a worker is about to store, is registered in the
\* index; any two of them are apart.
ContentInv ==
    /\ known \subseteq Fingerprints
    /\ \A u \in Stored : Fingerprint[u] \in known
    /\ \A w \in Claims : Fingerprint[PageOf(w)] \in known
    /\ \A u, v \in Stored : u # v => Apart(Fingerprint[u], Fingerprint[v])
    /\ \A u \in Stored, w \in Claims : Apart(Fingerprint[u], Fingerprint[PageOf(w)])
    /\ \A v, w \in Claims : v # w => Apart(Fingerprint[PageOf(v)], Fingerprint[PageOf(w)])

\* Every page that is HTML has a fingerprint.
LEMMA FingerprintType ==
    /\ DOMAIN Fingerprint \subseteq Urls
    /\ \A u \in DOMAIN Fingerprint : Fingerprint[u] \in Fingerprints
BY DEF Fingerprint, simhash_text, Fingerprints

\* Nothing is lost when no worker begins to claim a page and no row gets a body.
LEMMA FewerBodies ==
    ASSUME ContentInv, known' = known, Stored' \subseteq Stored, Claims' \subseteq Claims,
           \A w \in Claims' : hold'[w] = hold[w]
    PROVE  ContentInv'
<1>1. \A w \in Claims' : PageOf(w)' = PageOf(w)
  BY DEF PageOf
<1>2. /\ known' \subseteq Fingerprints
      /\ \A u \in Stored' : Fingerprint[u] \in known'
      /\ \A w \in Claims' : Fingerprint[PageOf(w)'] \in known'
  BY <1>1 DEF ContentInv
<1>3. /\ \A u, v \in Stored' : u # v => Apart(Fingerprint[u], Fingerprint[v])
      /\ \A u \in Stored', w \in Claims' : Apart(Fingerprint[u], Fingerprint[PageOf(w)'])
  BY <1>1 DEF ContentInv
<1>4. \A v, w \in Claims' : v # w => Apart(Fingerprint[PageOf(v)'], Fingerprint[PageOf(w)'])
  BY <1>1 DEF ContentInv
<1> QED BY <1>2, <1>3, <1>4 DEF ContentInv, Apart, Fingerprint

\* is_duplicate registers a fingerprint only if it is apart from every registered one.
LEMMA FetchOkContent ==
    ASSUME Threshold < BandCount, IndInv, ContentInv, NEW w \in Workers, FetchOk(w)
    PROVE  ContentInv'
<1> DEFINE page == PageOf(w)
           f == Fingerprint[page]
<1>1. /\ pc[w] = "fetch" /\ pc' = [pc EXCEPT ![w] = "save"]
      /\ UNCHANGED <<hold, docs>>
      /\ dup' = [dup EXCEPT ![w] = page \in DOMAIN Fingerprint /\ is_duplicate(known, f)]
      /\ known' = IF page \in DOMAIN Fingerprint
                  THEN IF is_duplicate(known, f) THEN known ELSE known \cup {f}
                  ELSE known
  BY DEF FetchOk, KnownAfter, PageOf
<1>2. Stored' = Stored /\ \A v : PageOf(v)' = PageOf(v)
  BY <1>1 DEF Stored, PageOf, Fingerprint
<1>3. \A v \in Claims' : v = w \/ v \in Claims
  BY <1>1, <1>2 DEF Claims, IndInv, TypeOK, Fingerprint
<1>4. CASE page \notin DOMAIN Fingerprint \/ is_duplicate(known, f)
  <2>1. w \notin Claims'
    BY <1>1, <1>2, <1>4 DEF Claims, IndInv, TypeOK, Fingerprint
  <2>2. Claims' \subseteq Claims /\ known' = known
    BY <1>1, <1>3, <1>4, <2>1
  <2> QED BY <1>1, <1>2, <2>2, FewerBodies
<1>5. CASE page \in DOMAIN Fingerprint /\ ~is_duplicate(known, f)
  <2>1. f \in Fingerprints /\ known \subseteq Fingerprints
    BY <1>5, FingerprintType DEF ContentInv
  <2>2. ASSUME NEW g \in known PROVE Apart(f, g) /\ Apart(g, f)
    <3>1. ~(hamming_distance(f, g) <= Threshold)
      BY <1>5, <2>1, IndexIsComplete
    <3>2. hamming_distance(f, g) \in Nat /\ hamming_distance(f, g) = hamming_distance(g, f)
      BY <2>1, DistanceFacts
    <3> QED BY <3>1, <3>2, IndexAssumption DEF Apart
  <2>3. known' = known \cup {f}
    BY <1>1, <1>5
  <2> HIDE DEF page, f
  <2>4. \A v \in Claims' : \/ v = w /\ Fingerprint[PageOf(v)'] = f
                           \/ v # w /\ v \in Claims
    BY <1>2, <1>3 DEF f, page
  <2>5. \A v \in Claims : Fingerprint[PageOf(v)'] \in known /\ PageOf(v)' = PageOf(v)
    BY <1>2 DEF ContentInv
  <2>6. \A u \in Stored : Fingerprint[u] \in known
    BY DEF ContentInv
  <2>7. \A u \in Stored', v \in Claims' : Apart(Fingerprint[u], Fingerprint[PageOf(v)'])
    BY <1>2, <2>2, <2>4, <2>5, <2>6 DEF ContentInv
  <2>8. \A u, v \in Claims' :
            u # v => Apart(Fingerprint[PageOf(u)'], Fingerprint[PageOf(v)'])
    BY <2>2, <2>4, <2>5 DEF ContentInv
  <2>9. /\ known' \subseteq Fingerprints
        /\ \A u \in Stored' : Fingerprint[u] \in known'
        /\ \A v \in Claims' : Fingerprint[PageOf(v)'] \in known'
        /\ \A u, v \in Stored' : u # v => Apart(Fingerprint[u], Fingerprint[v])
    BY <1>2, <2>1, <2>3, <2>4, <2>5, <2>6 DEF ContentInv
  <2> QED BY <2>7, <2>8, <2>9 DEF ContentInv, Apart, Fingerprint
<1> QED BY <1>4, <1>5

\* A worker that stores a body gives its claim to the row (pipeline.py:148-160).
LEMMA SavePageContent ==
    ASSUME IndInv, ContentInv, NEW w \in Workers, SavePage(w)
    PROVE  ContentInv'
<1> DEFINE page == PageOf(w)
<1>1. /\ pc[w] = "save" /\ pc' = [pc EXCEPT ![w] = "expand"]
      /\ UNCHANGED <<hold, dup, known>>
      /\ docs' = [u \in DOMAIN docs \cup {page} |->
                     IF u = page THEN [depth |-> hold[w].depth, key |-> ~dup[w]] ELSE docs[u]]
  BY DEF SavePage, Upsert, PageOf
<1>2. Claims' = Claims \ {w} /\ \A v : PageOf(v)' = PageOf(v)
  BY <1>1 DEF Claims, PageOf, IndInv, TypeOK, Fingerprint
<1>3. docs'[page].key = ~dup[w] /\ \A u \in DOMAIN docs : u # page => docs'[u] = docs[u]
  BY <1>1
<1>4. \A u \in Stored' : u = page \/ u \in Stored
  BY <1>1, <1>3 DEF Stored, Fingerprint
<1>5. page \in Stored' => w \in Claims
  BY <1>1, <1>3 DEF Stored, Claims, Fingerprint
<1> HIDE DEF page
<1>6. ASSUME page \notin Stored' PROVE ContentInv'
  BY <1>1, <1>2, <1>4, <1>6, FewerBodies
<1>7. ASSUME page \in Stored' PROVE ContentInv'
  <2>1. w \in Claims /\ page \in DOMAIN Fingerprint
    BY <1>5, <1>7 DEF Claims, page
  <2>2. Fingerprint[page] \in known /\ known \subseteq Fingerprints
    BY <2>1 DEF ContentInv, page
  <2>3. \A u \in Stored : /\ Apart(Fingerprint[u], Fingerprint[page])
                          /\ Apart(Fingerprint[page], Fingerprint[u])
    <3> SUFFICES ASSUME NEW u \in Stored
                 PROVE  /\ Apart(Fingerprint[u], Fingerprint[page])
                        /\ Apart(Fingerprint[page], Fingerprint[u])
      OBVIOUS
    <3>1. Fingerprint[u] \in Fingerprints /\ Apart(Fingerprint[u], Fingerprint[page])
      BY <2>1, <2>2 DEF ContentInv, page
    <3> QED BY <2>2, <3>1, DistanceFacts DEF Apart
  <2>4. \A v \in Claims' : Apart(Fingerprint[page], Fingerprint[PageOf(v)'])
    BY <1>2, <2>1 DEF ContentInv, page
  <2>5. \A u, v \in Stored' : u # v => Apart(Fingerprint[u], Fingerprint[v])
    BY <1>4, <2>3 DEF ContentInv
  <2>6. \A u \in Stored', v \in Claims' : Apart(Fingerprint[u], Fingerprint[PageOf(v)'])
    BY <1>2, <1>4, <2>4 DEF ContentInv
  <2>7. /\ known' \subseteq Fingerprints
        /\ \A u \in Stored' : Fingerprint[u] \in known'
        /\ \A v \in Claims' : Fingerprint[PageOf(v)'] \in known'
        /\ \A u, v \in Claims' :
              u # v => Apart(Fingerprint[PageOf(u)'], Fingerprint[PageOf(v)'])
    BY <1>1, <1>2, <1>4, <2>2 DEF ContentInv
  <2> QED BY <2>5, <2>6, <2>7 DEF ContentInv, Apart, Fingerprint
<1> QED BY <1>6, <1>7

LEMMA NextContent ==
    ASSUME Threshold < BandCount
    PROVE  IndInv /\ ContentInv /\ [Next]_vars => ContentInv'
<1> SUFFICES ASSUME IndInv, ContentInv, [Next]_vars PROVE ContentInv'
  OBVIOUS
<1>1. ASSUME NEW w \in Workers, WorkerStep(w), ~FetchOk(w), ~SavePage(w)
      PROVE  ContentInv'
  <2>1. UNCHANGED <<docs, dup, known>>
    BY <1>1 DEF WorkerStep, Take, Drain, Refuse, StartFetch, FetchFails, NotModified,
                SaveFails, Expand, GiveUp
  <2>2. \/ UNCHANGED <<pc, hold>>
        \/ /\ \E p \in WorkerPc \ {"save"} : pc' = [pc EXCEPT ![w] = p]
           /\ \E item : hold' = [hold EXCEPT ![w] = item]
        \/ /\ \E p \in WorkerPc \ {"save"} : pc' = [pc EXCEPT ![w] = p]
           /\ hold' = hold
    BY <1>1 DEF WorkerStep, Take, Drain, Refuse, StartFetch, FetchFails, NotModified,
                SaveFails, Expand, GiveUp, TaskDone, WorkerPc
  <2>3. \A v \in Claims' : pc[v] = "save" /\ hold'[v] = hold[v]
    BY <2>2 DEF Claims, IndInv, TypeOK
  <2>4. Claims' \subseteq Claims
    BY <2>1, <2>3 DEF Claims, PageOf, Fingerprint
  <2>5. Stored' = Stored
    BY <2>1 DEF Stored, Fingerprint
  <2> QED BY <2>1, <2>3, <2>4, <2>5, FewerBodies
<1>2. CASE JoinReturns \/ StopCrawl \/ CloseFetcher \/ Terminated \/ UNCHANGED vars
  <2>1. UNCHANGED <<docs, dup, known, pc, hold>>
    BY <1>2 DEF JoinReturns, StopCrawl, CloseFetcher, Terminated, vars
  <2>2. Stored' = Stored /\ Claims' = Claims
    BY <2>1 DEF Stored, Claims, PageOf, Fingerprint
  <2> QED BY <2>1, <2>2, FewerBodies
<1> QED BY <1>1, <1>2, FetchOkContent, SavePageContent DEF Next

\* With a threshold below the number of bands, as shipped (config.py:76-77), no two pages
\* within the threshold of each other are stored with a body, whatever the site and however
\* the workers interleave (pipeline.py:141-153, dedup_service.py:30-42).
THEOREM OneBody ==
    ASSUME Threshold < BandCount
    PROVE  Spec => []OneBodyPerContent
<1>1. Init => ContentInv
  <2> SUFFICES ASSUME Init PROVE ContentInv
    OBVIOUS
  <2>1. Stored = {} /\ Claims = {} /\ known = {}
    BY DEF Init, Stored, Claims
  <2> QED BY <2>1 DEF ContentInv
<1>2. ContentInv => OneBodyPerContent
  BY DEF ContentInv, OneBodyPerContent, Stored, Apart
<1> QED BY <1>1, <1>2, NextContent, IndInvHolds, PTL DEF Spec
=============================================================================
