--------------------------- MODULE HashRingProofs ---------------------------
(***************************************************************************)
(* Proofs about how work is keyed and placed: UrlUtils, which turns a link   *)
(* into the key and the domain of a page, and HashRing, which assigns keys   *)
(* to nodes, for any hash function, any number of virtual nodes and any      *)
(* history of additions and removals.                                        *)
(***************************************************************************)
EXTENDS UrlUtils, HashRing, FiniteSetTheorems, WellFoundedInduction, TLAPS

-----------------------------------------------------------------------------
(* Normalised URLs are keys                                                 *)

\* Resolving a link gives a URL.
LEMMA JoinType ==
    ASSUME NEW base \in Href, NEW href \in Href
    PROVE  Join(base, href) \in Href
<1>1. base.path \in Paths \cup {Empty} /\ href.path \in Paths \cup {Empty}
  BY DEF Href
<1>2. href.path # Empty => Joined[base.path][href.path] \in Paths
  BY <1>1, LibrariesAssumption
<1>3. Lower[base.scheme] \in Names \cup {Empty}
  BY LibrariesAssumption DEF Href
<1>4. QED
  BY <1>1, <1>2, <1>3 DEF Join, Href

\* canonicalize_url, applied to a crawlable URL, gives a key.
LEMMA CanonicalIsKey ==
    ASSUME NEW url \in Href, Crawlable(url)
    PROVE  Canonical(url) \in Keys
<1>1. /\ Lower[url.scheme] \in Web /\ url.host \in Names
      /\ url.path \in Paths \cup {Empty} /\ url.query \in Queries \cup {Empty}
  BY DEF Href, Crawlable
<1>2. /\ Encoded[url.host] \in Names /\ Encoded[Encoded[url.host]] = Encoded[url.host]
      /\ Lower[Encoded[url.host]] = Encoded[url.host]
      /\ Quoted[url.path] \in Paths /\ Cleaned[url.query] \in Queries \cup {Empty}
  BY <1>1, LibrariesAssumption
<1>3. Canonical(url) \in Href
  BY <1>1, <1>2, PartsAssumption DEF Canonical, Href
<1>4. QED
  BY <1>1, <1>2, <1>3, PartsAssumption DEF Keys, Canonical

\* normalize_url returns None or a key.
LEMMA NormalizeGivesKey ==
    ASSUME NEW href \in Href, NEW base \in Href \cup {NoUrl},
           normalize_url(href, base) # NoUrl
    PROVE  normalize_url(href, base) \in Keys
<1> DEFINE url == IF base = NoUrl THEN href ELSE Join(base, href)
<1>1. url \in Href
  BY JoinType
<1>2. Crawlable(url) /\ normalize_url(href, base) = Canonical(url)
  BY DEF normalize_url
<1>3. QED
  BY <1>1, <1>2, CanonicalIsKey

\* A key is absolute: urljoin leaves it alone on every page.
LEMMA KeyIsAbsolute ==
    ASSUME NEW key \in Keys, NEW base \in Href
    PROVE  Join(base, key) = key
<1>1. key \in Href /\ key.scheme \in Web /\ key.host # Empty
  BY DEF Keys
<1>2. Lower[key.scheme] = key.scheme /\ key.scheme # Empty
  BY <1>1, PartsAssumption, LibrariesAssumption
<1>3. CASE Lower[base.scheme] = key.scheme
  BY <1>1, <1>2, <1>3 DEF Join, Href
<1>4. CASE Lower[base.scheme] # key.scheme
  BY <1>2, <1>4 DEF Join
<1>5. QED
  BY <1>3, <1>4

\* Normalising a normalised URL again, on whatever page it is found, does what the
\* libraries do to its path and its query and nothing else: no scheme, host, or part of
\* the page gets into it, and it is dropped only if they raise.  It is the same URL if
\* they leave its path and query alone, which they need not do, although the URL a page is
\* stored under (pipeline.py:117) is normalised again when it is recrawled and its
\* validators are looked up (pipeline.py:71, url_utils.py:38-64).
THEOREM NormalizeAgain ==
    ASSUME NEW href \in Href, NEW base \in Href \cup {NoUrl},
           NEW page \in Href \cup {NoUrl}, normalize_url(href, base) # NoUrl
    PROVE  LET key == normalize_url(href, base)
           IN  normalize_url(key, page) =
                  IF key \in Refused THEN NoUrl
                  ELSE [scheme |-> key.scheme, host |-> key.host, path |-> Quoted[key.path],
                        query |-> Cleaned[key.query], frag |-> FALSE]
<1> DEFINE key == normalize_url(href, base)
<1>1. key \in Keys
  BY NormalizeGivesKey
<1> HIDE DEF key
<1>2. /\ key \in Href /\ key.scheme \in Web /\ key.host # Empty /\ key.frag = FALSE
      /\ Encoded[key.host] = key.host
  BY <1>1 DEF Keys, Href
<1>3. Lower[key.scheme] = key.scheme /\ key.scheme # Empty /\ key.scheme \notin Skipped
  BY <1>2, PartsAssumption, LibrariesAssumption
<1>4. page # NoUrl => Join(page, key) = key
  BY <1>1, KeyIsAbsolute
<1>5. Crawlable(key) /\ ~Blank(key)
  BY <1>2, <1>3 DEF Crawlable, Blank
<1>6. normalize_url(key, page) = IF key \in Refused THEN NoUrl ELSE Canonical(key)
  BY <1>3, <1>4, <1>5 DEF normalize_url
<1>7. Canonical(key) = [scheme |-> key.scheme, host |-> key.host, path |-> Quoted[key.path],
                        query |-> Cleaned[key.query], frag |-> FALSE]
  BY <1>2, <1>3 DEF Canonical
<1>8. QED
  BY <1>6, <1>7 DEF key

\* So a URL keeps its domain however often it is normalised: the partition, the budget and
\* the scope of a page are those of the link that led to it, even where its path or query
\* changes with every pass (url_utils.py:67-82, kafka_frontier.py:105, pipeline.py:94, 122).
THEOREM DomainIsStable ==
    ASSUME NEW href \in Href, NEW base \in Href \cup {NoUrl}, NEW page \in Href \cup {NoUrl},
           normalize_url(href, base) # NoUrl,
           normalize_url(normalize_url(href, base), page) # NoUrl
    PROVE  registered_domain(normalize_url(normalize_url(href, base), page))
              = registered_domain(normalize_url(href, base))
<1> DEFINE key == normalize_url(href, base)
           again == normalize_url(key, page)
<1>1. again = [scheme |-> key.scheme, host |-> key.host, path |-> Quoted[key.path],
               query |-> Cleaned[key.query], frag |-> FALSE]
  BY NormalizeAgain
<1> HIDE DEF key, again
<1>2. again.host = key.host
  BY <1>1
<1>3. registered_domain(again) = registered_domain(key)
  BY <1>2 DEF registered_domain, host_of
<1>4. QED
  BY <1>3 DEF key, again

\* Every link parse_page returns is an absolute http(s) URL without a fragment, its scheme
\* and host in their one spelling, whatever the <base> of the page says
\* (html_parser.py:15-41): what the engine takes for granted of Links.
THEOREM LinksAreKeys ==
    ASSUME NEW url \in Href, NEW page \in Page
    PROVE  parse_page(url, page) \subseteq Keys
<1>1. page.base \in Href \cup {NoUrl} /\ page.anchors \subseteq Href
  BY DEF Page
<1>2. LinkBase(url, page) \in Href
  BY <1>1, JoinType DEF LinkBase
<1>3. SUFFICES ASSUME NEW href \in page.anchors,
                      normalize_url(href, LinkBase(url, page)) # NoUrl
               PROVE  normalize_url(href, LinkBase(url, page)) \in Keys
  BY DEF parse_page
<1>4. QED
  BY <1>1, <1>2, <1>3, NormalizeGivesKey

-----------------------------------------------------------------------------
(* The ring                                                                  *)

\* The state of the ring has its types; a count of places may be any integer.
RingTypes ==
    /\ point \in [Nodes -> [Virtual -> Hashes]]
    /\ nodes \subseteq Nodes
    /\ ring \in [Hashes -> Nodes \cup {NoNode}]
    /\ places \in [Hashes -> Int]

\* Without collisions a hash has an entry and one place exactly when a node of the ring
\* has a virtual node there, and the entry names that node.
EntriesExact ==
    NoCollision =>
        \A h \in Hashes :
            \/ ring[h] \in nodes /\ h \in PointsOf(ring[h]) /\ places[h] = 1
            \/ ring[h] = NoNode /\ places[h] = 0 /\ \A n \in nodes : h \notin PointsOf(n)

RingInv == RingTypes /\ EntriesExact

-----------------------------------------------------------------------------
(* Operators                                                                *)

\* A set of hashes that is not empty has a least element, which Least finds.
LEMMA LeastFacts ==
    ASSUME NEW S, S \subseteq Nat, S # {}
    PROVE  Least(S) \in S /\ \A y \in S : Least(S) <= y
<1> DEFINE R == {ss \in Nat \X Nat : ss[1] < ss[2]}
<1>0. IsWellFoundedOn(R, Nat)
  BY NatLessThanWellFounded DEF OpToRel
<1>1. PICK x \in S : \A y \in S : ~(<<y, x>> \in R)
  <2> HIDE DEF R
  <2> QED
    BY <1>0, WFMin
<1>2. ASSUME NEW y \in S PROVE x <= y
  <2>1. ~(<<y, x>> \in R)
    BY <1>1
  <2>2. <<y, x>> \in Nat \X Nat /\ x \in Nat /\ y \in Nat
    OBVIOUS
  <2>3. ~(y < x)
    BY <2>1, <2>2
  <2> QED
    BY <2>2, <2>3
<1> QED
  BY <1>2 DEF Least

\* The place clockwise of a key is a place, is the first one above the key when there is
\* one, and the first of all otherwise.
LEMMA ClockwiseFacts ==
    ASSUME NEW S, S \subseteq Nat, S # {}, NEW k \in Nat
    PROVE  /\ Clockwise(S, k) \in S
           /\ \A y \in S : y > k => Clockwise(S, k) > k /\ Clockwise(S, k) <= y
           /\ (\A y \in S : ~(y > k)) => \A y \in S : Clockwise(S, k) <= y
<1> DEFINE above == {x \in S : x > k}
<1>1. CASE above = {}
  BY <1>1, LeastFacts DEF Clockwise
<1>2. CASE above # {}
  BY <1>2, LeastFacts DEF Clockwise
<1> QED
  BY <1>1, <1>2

\* When places are added, a key stays where it was or goes to one of the new places.
LEMMA ClockwiseGrows ==
    ASSUME NEW S, NEW T, T \subseteq Nat, S \subseteq T, S # {}, NEW k \in Nat,
           Clockwise(T, k) \in S
    PROVE  Clockwise(T, k) = Clockwise(S, k)
<1> DEFINE c == Clockwise(S, k)
           d == Clockwise(T, k)
<1>1. /\ c \in S
      /\ \A y \in S : y > k => c > k /\ c <= y
      /\ (\A y \in S : ~(y > k)) => \A y \in S : c <= y
  BY ClockwiseFacts
<1>2. /\ d \in T
      /\ \A y \in T : y > k => d > k /\ d <= y
      /\ (\A y \in T : ~(y > k)) => \A y \in T : d <= y
  BY ClockwiseFacts
<1>3. c \in Nat /\ d \in Nat /\ c \in T /\ d \in S
  BY <1>1, <1>2
<1> HIDE DEF c, d
<1>4. c <= d /\ d <= c
  BY <1>1, <1>2, <1>3
<1> QED
  BY <1>3, <1>4 DEF c, d

\* A hash has a virtual node of n exactly when it counts at least one of them, and
\* without collisions it counts at most one.
LEMMA TimesFacts ==
    ASSUME RingTypes, NEW n \in Nodes, NEW h \in Hashes
    PROVE  /\ Times(n, h) \in Nat
           /\ h \in PointsOf(n) <=> Times(n, h) > 0
           /\ NoCollision => Times(n, h) <= 1
<1> DEFINE I == {i \in Virtual : point[n][i] = h}
<1>1. IsFiniteSet(I)
  BY FS_Subset, RingAssumption
<1>2. Cardinality(I) \in Nat /\ (Cardinality(I) = 0 <=> I = {})
  BY <1>1, FS_CardinalityType, FS_EmptySet
<1>3. ASSUME NoCollision, I # {} PROVE Cardinality(I) = 1
  <2>1. PICK i \in I : TRUE
    BY <1>3
  <2>2. I = {i}
    BY <1>3 DEF NoCollision
  <2> QED
    BY <2>2, FS_Singleton
<1>4. h \in PointsOf(n) <=> I # {}
  BY DEF PointsOf
<1>5. Times(n, h) = Cardinality(I)
  BY DEF Times
<1> HIDE DEF I
<1> QED
  BY <1>2, <1>3, <1>4, <1>5

-----------------------------------------------------------------------------
(* The invariant                                                            *)

LEMMA HashesAreNat == Hashes \subseteq Nat
BY DEF Hashes

LEMMA InitRing == Init => RingInv
BY RingAssumption DEF Init, RingInv, RingTypes, EntriesExact

LEMMA AddKeeps ==
    ASSUME RingInv, NEW n \in Nodes, AddNode(n)
    PROVE  RingInv'
<1>1. \A h \in Hashes : Times(n, h) \in Nat
  BY TimesFacts DEF RingInv
<1>2. RingTypes'
  BY <1>1 DEF RingInv, RingTypes, AddNode, EntriesAdded
<1>3. ASSUME NoCollision', NEW h \in Hashes
      PROVE  \/ ring'[h] \in nodes' /\ h \in PointsOf(ring[h])' /\ places'[h] = 1
             \/ ring'[h] = NoNode /\ places'[h] = 0 /\ \A m \in nodes' : h \notin PointsOf(m)'
  <2>1. NoCollision /\ point' = point
    BY <1>3 DEF AddNode, NoCollision
  <2>2. \A m \in Nodes : PointsOf(m)' = PointsOf(m)
    BY <2>1 DEF PointsOf
  <2>3. CASE h \in PointsOf(n)
    <3>1. \A m \in nodes : h \notin PointsOf(m)
      BY <2>1, <2>3 DEF RingInv, RingTypes, NoCollision, PointsOf, AddNode
    <3>2. places[h] = 0
      BY <2>1, <3>1 DEF RingInv, EntriesExact
    <3>3. Times(n, h) = 1
      BY <2>1, <2>3, TimesFacts DEF RingInv
    <3>4. ring'[h] = n /\ places'[h] = 1 /\ n \in nodes'
      BY <2>3, <3>2, <3>3 DEF AddNode, EntriesAdded
    <3> QED
      BY <2>2, <2>3, <3>4
  <2>4. CASE h \notin PointsOf(n)
    <3>1. Times(n, h) = 0
      BY <1>1, <2>4, TimesFacts DEF RingInv
    <3>2. ring'[h] = ring[h] /\ places'[h] = places[h] /\ nodes' = nodes \cup {n}
      BY <2>4, <3>1 DEF AddNode, EntriesAdded, RingInv, RingTypes
    <3> QED
      BY <2>1, <2>2, <2>4, <3>2 DEF RingInv, RingTypes, EntriesExact
  <2> QED
    BY <2>3, <2>4
<1> QED
  BY <1>2, <1>3 DEF RingInv, EntriesExact

LEMMA RemoveKeeps ==
    ASSUME RingInv, NEW n \in Nodes, RemoveNode(n)
    PROVE  RingInv'
<1>1. RingTypes'
  BY DEF RingInv, RingTypes, RemoveNode
<1>2. ASSUME NoCollision', NEW h \in Hashes
      PROVE  \/ ring'[h] \in nodes' /\ h \in PointsOf(ring[h])' /\ places'[h] = 1
             \/ ring'[h] = NoNode /\ places'[h] = 0 /\ \A m \in nodes' : h \notin PointsOf(m)'
  <2>1. NoCollision /\ point' = point
    BY <1>2 DEF RemoveNode, NoCollision
  <2>2. \A m \in Nodes : PointsOf(m)' = PointsOf(m)
    BY <2>1 DEF PointsOf
  <2>3. \A m \in Nodes : h \in PointsOf(n) /\ h \in PointsOf(m) => m = n
    BY <2>1 DEF NoCollision, PointsOf
  <2>4. \/ ring[h] \in nodes /\ h \in PointsOf(ring[h]) /\ places[h] = 1
        \/ ring[h] = NoNode /\ places[h] = 0 /\ \A m \in nodes : h \notin PointsOf(m)
    BY <2>1 DEF RingInv, EntriesExact
  <2>5. n \in nodes /\ nodes' = nodes \ {n} /\ nodes \subseteq Nodes /\ NoNode \notin Nodes
    BY RingAssumption DEF RemoveNode, RingInv, RingTypes
  <2>6. CASE h \in PointsOf(n)
    <3>1. ring'[h] = NoNode /\ places'[h] = 0
      BY <2>4, <2>5, <2>6 DEF RemoveNode
    <3> QED
      BY <2>2, <2>3, <2>5, <2>6, <3>1
  <2>7. CASE h \notin PointsOf(n)
    <3>1. ring'[h] = ring[h] /\ places'[h] = places[h]
      BY <2>7 DEF RemoveNode
    <3> QED
      BY <2>2, <2>4, <2>5, <2>7, <3>1
  <2> QED
    BY <2>6, <2>7
<1> QED
  BY <1>1, <1>2 DEF RingInv, EntriesExact

LEMMA StutterKeeps == RingInv /\ UNCHANGED vars => RingInv'
BY DEF RingInv, RingTypes, EntriesExact, NoCollision, PointsOf, vars

-----------------------------------------------------------------------------
(* Keys move little                                                         *)

\* The places of the sorted list.
Placed == {h \in Hashes : places[h] > 0}

LEMMA GetFacts ==
    ASSUME NEW k \in Hashes
    PROVE  /\ Placed = {} => Get(k) = NoNode
           /\ Placed # {} => Get(k) = IF ring[Clockwise(Placed, k)] = NoNode THEN KeyError
                                      ELSE ring[Clockwise(Placed, k)]
BY DEF Get, Placed

LEMMA GetFactsNext ==
    ASSUME NEW k \in Hashes
    PROVE  /\ Placed' = {} => Get(k)' = NoNode
           /\ Placed' # {} => Get(k)' = IF ring'[Clockwise(Placed', k)] = NoNode THEN KeyError
                                        ELSE ring'[Clockwise(Placed', k)]
BY DEF Get, Placed

\* add_node moves a key to the new node or leaves it where it was.
LEMMA AddMovesToNew ==
    ASSUME RingInv, NEW n \in Nodes, AddNode(n), NEW k \in Hashes, Get(k)' # Get(k)
    PROVE  Get(k)' = n
<1>1. RingInv'
  BY AddKeeps
<1>2. \A h \in Hashes : Times(n, h) \in Nat /\ (h \in PointsOf(n) <=> Times(n, h) > 0)
  BY TimesFacts DEF RingInv
<1>3. \A h \in Hashes : /\ places'[h] = places[h] + Times(n, h)
                        /\ ring'[h] = IF h \in PointsOf(n) THEN n ELSE ring[h]
  BY DEF AddNode, EntriesAdded
<1>4. Placed \subseteq Placed' /\ \A h \in Placed' \ Placed : h \in PointsOf(n)
  BY <1>2, <1>3 DEF Placed, RingInv, RingTypes
<1>5. Placed' \subseteq Hashes /\ Placed' \subseteq Nat /\ k \in Nat
  BY HashesAreNat DEF Placed
<1>6. Placed' # {}
  BY <1>4, GetFacts, GetFactsNext
<1> DEFINE d == Clockwise(Placed', k)
<1>7. d \in Placed' /\ d \in Hashes
  BY <1>5, <1>6, ClockwiseFacts
<1>8. Get(k)' = IF ring'[d] = NoNode THEN KeyError ELSE ring'[d]
  BY <1>6, GetFactsNext
<1>9. d \in PointsOf(n)
  <2> SUFFICES ASSUME d \notin PointsOf(n) PROVE FALSE
    OBVIOUS
  <2>1. d \in Placed
    BY <1>4, <1>7
  <2>2. d = Clockwise(Placed, k)
    BY <1>4, <1>5, <2>1, ClockwiseGrows
  <2>3. ring'[d] = ring[d]
    BY <1>3, <1>7
  <2> QED
    BY <1>8, <2>1, <2>2, <2>3, GetFacts
<1> QED
  BY <1>3, <1>7, <1>8, <1>9, RingAssumption

\* Without collisions the owner of a key is a node of the ring, once the ring has one.
LEMMA OwnerInRing ==
    ASSUME RingInv, NoCollision, nodes # {}, NEW k \in Hashes
    PROVE  /\ Placed # {} /\ Get(k) = ring[Clockwise(Placed, k)] /\ Get(k) \in nodes
           /\ Clockwise(Placed, k) \in PointsOf(Get(k))
<1>1. PICK n \in nodes : n \in Nodes
  BY DEF RingInv, RingTypes
<1>2. PICK i \in Virtual : TRUE
  BY RingAssumption
<1>3. point[n][i] \in Hashes /\ point[n][i] \in PointsOf(n)
  BY <1>1, <1>2 DEF RingInv, RingTypes, PointsOf
<1>4. Placed # {}
  BY <1>3 DEF Placed, RingInv, EntriesExact
<1> DEFINE d == Clockwise(Placed, k)
<1>5. d \in Placed
  BY <1>4, HashesAreNat, ClockwiseFacts DEF Placed
<1>6. ring[d] \in nodes /\ d \in PointsOf(ring[d])
  BY <1>5 DEF Placed, RingInv, EntriesExact
<1>7. ring[d] # NoNode
  BY <1>6, RingAssumption DEF RingInv, RingTypes
<1> QED
  BY <1>4, <1>6, <1>7, GetFacts

LEMMA EveryKeyOwned ==
    RingInv /\ NoCollision /\ nodes # {} => \A k \in Hashes : Get(k) \in nodes
BY OwnerInRing

\* Without collisions remove_node moves no key of another node.
LEMMA RemoveMovesOwn ==
    ASSUME RingInv, NoCollision, NEW n \in Nodes, RemoveNode(n), NEW k \in Hashes,
           Get(k)' # Get(k)
    PROVE  Get(k) = n
<1> SUFFICES ASSUME Get(k) # n PROVE FALSE
  OBVIOUS
<1>1. n \in nodes /\ nodes' = nodes \ {n} /\ point' = point
  BY DEF RemoveNode
<1>2. RingInv' /\ NoCollision'
  BY <1>1, RemoveKeeps DEF NoCollision
<1> DEFINE c == Clockwise(Placed, k)
<1>3. Placed # {} /\ Get(k) = ring[c] /\ Get(k) \in nodes /\ c \in PointsOf(Get(k))
  BY <1>1, OwnerInRing
<1>4. \A h \in Hashes : ~(h \in PointsOf(n)) => ring'[h] = ring[h] /\ places'[h] = places[h]
  BY DEF RemoveNode
<1>5. \A h \in Hashes : h \in PointsOf(n) => places'[h] <= places[h]
  BY DEF RemoveNode, RingInv, RingTypes
<1>6. Placed' \subseteq Placed /\ Placed \subseteq Nat /\ Placed \subseteq Hashes /\ k \in Nat
  <2>1. \A h \in Hashes : places[h] \in Int /\ places'[h] \in Int
    BY <1>2 DEF RingInv, RingTypes
  <2>2. \A h \in Hashes : places'[h] <= places[h]
    BY <1>4, <1>5, <2>1
  <2>3. Placed' = {h \in Hashes : places'[h] > 0}
    BY DEF Placed
  <2>4. \A h \in Placed' : h \in Placed
    BY <2>1, <2>2, <2>3 DEF Placed
  <2>5. Placed \subseteq Hashes
    BY DEF Placed
  <2> QED
    BY <2>4, <2>5, HashesAreNat
<1>7. c \in Placed /\ c \in Hashes
  BY <1>3, <1>6, ClockwiseFacts
<1>8. c \notin PointsOf(n)
  BY <1>1, <1>3 DEF NoCollision, PointsOf, RingInv, RingTypes
<1>9. c \in Placed'
  BY <1>4, <1>7, <1>8 DEF Placed
<1>10. c = Clockwise(Placed', k)
  BY <1>6, <1>9, ClockwiseGrows
<1>11. ring'[c] = ring[c] /\ ring[c] # NoNode
  BY <1>3, <1>4, <1>7, <1>8, RingAssumption DEF RingInv, RingTypes
<1>12. Get(k)' = ring[c]
  BY <1>9, <1>10, <1>11, GetFactsNext
<1> QED
  BY <1>3, <1>12

-----------------------------------------------------------------------------
(* Theorems                                                                 *)

\* Every ring that add_node and remove_node can build satisfies RingInv
\* (consistent_hash.py:36-54).
THEOREM RingIsExact == Spec => []RingInv
<1>1. RingInv /\ [Next]_vars => RingInv'
  BY AddKeeps, RemoveKeeps, StutterKeeps DEF Next
<1> QED
  BY InitRing, <1>1, PTL DEF Spec

\* Adding a node moves keys to it only, for every hash function and every history;
\* removing one moves its own keys only, and every key has an owner in the ring, for every
\* hash function without collisions (consistent_hash.py:36-64).
THEOREM RingMovesLittle == Spec => MovesLittle
<1> DEFINE Small ==
      LET before == Assignments
          after == Assignments'
          churned == Churned(before, after)
      IN  /\ nodes \subseteq nodes' => \A k \in churned : after[k] \in nodes' \ nodes
          /\ NoCollision =>
                /\ nodes' \subseteq nodes => \A k \in churned : before[k] \in nodes \ nodes'
                /\ nodes' # {} => \A k \in Hashes : after[k] \in nodes'
<1>1. RingInv /\ [Next]_vars => [Small]_vars
  <2> SUFFICES ASSUME RingInv, Next PROVE Small
    OBVIOUS
  <2>1. RingInv' /\ point' = point
    BY AddKeeps, RemoveKeeps DEF Next, AddNode, RemoveNode
  <2>2. NoCollision => NoCollision'
    BY <2>1 DEF NoCollision
  <2>3. NoCollision /\ nodes' # {} => \A k \in Hashes : Get(k)' \in nodes'
    <3>1. (RingInv /\ NoCollision /\ nodes # {} => \A k \in Hashes : Get(k) \in nodes)'
      BY EveryKeyOwned, PTL
    <3> QED
      BY <2>1, <2>2, <3>1
  <2>4. ASSUME NEW n \in Nodes, AddNode(n) PROVE Small
    <3>1. \A k \in Hashes : Get(k)' # Get(k) => Get(k)' = n
      BY <2>4, AddMovesToNew
    <3>2. n \notin nodes /\ nodes' = nodes \cup {n}
      BY <2>4 DEF AddNode
    <3> QED
      BY <2>3, <3>1, <3>2 DEF Assignments, Churned
  <2>5. ASSUME NEW n \in Nodes, RemoveNode(n) PROVE Small
    <3>1. NoCollision => \A k \in Hashes : Get(k)' # Get(k) => Get(k) = n
      BY <2>5, RemoveMovesOwn
    <3>2. n \in nodes /\ nodes' = nodes \ {n}
      BY <2>5 DEF RemoveNode
    <3> QED
      BY <2>3, <3>1, <3>2 DEF Assignments, Churned
  <2> QED
    BY <2>4, <2>5 DEF Next
<1> QED
  BY RingIsExact, <1>1, PTL DEF Spec, MovesLittle
=============================================================================
