------------------------------ MODULE HashRing ------------------------------
(***************************************************************************)
(* ConsistentHashRing (sharding/consistent_hash.py), which maps the domain  *)
(* of a URL to a Kafka partition, and the measures of sharding/rebalance.py.*)
(*                                                                          *)
(* The hash function is data: every placement of the virtual nodes is an    *)
(* initial state, the ones where two virtual nodes have one hash included.  *)
(* A key is its hash.                                                       *)
(***************************************************************************)
EXTENDS Naturals, FiniteSets

CONSTANTS
    Nodes,     \* names that may be added
    Virtual,   \* indices of the virtual nodes, virtual_nodes many
    MaxHash,   \* largest hash value
    NoNode,    \* get on an empty ring
    KeyError,  \* get on a hash that has lost its entry
    MaxPlaces  \* bound: places of one hash in the sorted list

Hashes == 0..MaxHash

ASSUME RingAssumption ==
    /\ IsFiniteSet(Virtual) /\ Virtual # {} /\ MaxHash \in Nat /\ MaxPlaces \in Nat
    /\ NoNode \notin Nodes /\ KeyError \notin Nodes

VARIABLES
    point,   \* point[n][i]: hash of virtual node i of node n
    nodes,   \* _nodes
    ring,    \* _ring: the node each hash belongs to, NoNode if it has no entry
    places   \* _sorted_hashes: how often it contains each hash

vars == <<point, nodes, ring, places>>

PointsOf(n) == {point[n][i] : i \in Virtual}
Times(n, h) == Cardinality({i \in Virtual : point[n][i] = h})

Init ==
    /\ point \in [Nodes -> [Virtual -> Hashes]]
    /\ nodes = {}
    /\ ring = [h \in Hashes |-> NoNode]
    /\ places = [h \in Hashes |-> 0]

\* The entries after the loop of add_node: a node that comes later takes over a hash.
EntriesAdded(n) == [h \in Hashes |-> IF h \in PointsOf(n) THEN n ELSE ring[h]]

\* Every virtual node gets a place of its own in the sorted list.
AddNode(n) ==
    /\ n \notin nodes
    /\ \A h \in Hashes : places[h] + Times(n, h) <= MaxPlaces
    /\ nodes' = nodes \cup {n}
    /\ ring' = EntriesAdded(n)
    /\ places' = [h \in Hashes |-> places[h] + Times(n, h)]
    /\ UNCHANGED point

\* remove_node drops the entry of each of its hashes, whoever owns it, and one of the
\* places of a hash that had an entry.
RemoveNode(n) ==
    /\ n \in nodes
    /\ nodes' = nodes \ {n}
    /\ ring' = [h \in Hashes |-> IF h \in PointsOf(n) THEN NoNode ELSE ring[h]]
    /\ places' = [h \in Hashes |->
                    IF h \in PointsOf(n) /\ ring[h] # NoNode THEN places[h] - 1
                    ELSE places[h]]
    /\ UNCHANGED point

Next == \E n \in Nodes : AddNode(n) \/ RemoveNode(n)

Spec == Init /\ [][Next]_vars

-----------------------------------------------------------------------------
Least(S) == CHOOSE x \in S : \A y \in S : x <= y

\* Mutant: the search does not wrap around.
ClockwiseUnwrapped(S, k) == Least({x \in S : x > k} \cup {MaxHash})

\* The next place clockwise: bisect finds the first hash above the key's, or wraps.
Clockwise(S, k) ==
    LET above == {x \in S : x > k} IN Least(IF above # {} THEN above ELSE S)

\* get.
Get(k) ==
    LET S == {h \in Hashes : places[h] > 0}
        owner == ring[Clockwise(S, k)]
    IN  IF S = {} THEN NoNode ELSE IF owner = NoNode THEN KeyError ELSE owner

\* assignments over all keys, and the keys whose owner differs between two of them.
Assignments == [k \in Hashes |-> Get(k)]
Churned(before, after) == {k \in Hashes : before[k] # after[k]}

-----------------------------------------------------------------------------
(* Properties                                                               *)

\* No two virtual nodes have the same hash.
NoCollision ==
    \A m, n \in Nodes : \A i, j \in Virtual :
        point[m][i] = point[n][j] => m = n /\ i = j

\* Adding a node moves keys to that node only, whatever was added and removed before and
\* however the hashes collide; removing one moves only the keys it owned, and every key is
\* owned by a node of the ring.  The last two take a hash without collisions: the entry of
\* a shared hash goes with the first of its nodes while a place of it stays
\* (consistent_hash.py:36-64, rebalance.py:1-8).
MovesLittle ==
    [][LET before == Assignments
           after == Assignments'
           churned == Churned(before, after)
       IN  /\ nodes \subseteq nodes' => \A k \in churned : after[k] \in nodes' \ nodes
           /\ NoCollision =>
                 /\ nodes' \subseteq nodes => \A k \in churned : before[k] \in nodes \ nodes'
                 /\ nodes' # {} => \A k \in Hashes : after[k] \in nodes'
      ]_vars
=============================================================================
