-------------------------- MODULE PoliteFetchProofs --------------------------
(***************************************************************************)
(* Proofs about PoliteFetch, for any number of tasks, hosts and permits and *)
(* any crawl delays.                                                        *)
(***************************************************************************)
EXTENDS PoliteFetch, FiniteSetTheorems, TLAPS

\* The steps of a task, so that a proof by cases has a name for each.
TaskStep(t) ==
    \/ \E h \in Hosts : Arrive(t, h)
    \/ EnterGate(t)
    \/ EnterSlot(t)
    \/ LockBucket(t)
    \/ Progress(t)

\* Every step is a step of a task or a tick.
LEMMA NextCases == Next => Tick \/ \E t \in Tasks : TaskStep(t)
BY DEF Next, TaskStep, Enter

-----------------------------------------------------------------------------
(* Types                                                                     *)

\* The variables keep their types in every step of the gate, the slot, the limiter
\* and the fetcher.
LEMMA NextTypeOK == TypeOK /\ [Next]_vars => TypeOK'
<1> SUFFICES ASSUME TypeOK, [Next]_vars PROVE TypeOK'
  OBVIOUS
<1> USE DelayAssumption
<1>1. CASE Tick
  BY <1>1 DEF Tick, TypeOK, AtMost
<1>2. CASE UNCHANGED vars
  BY <1>2 DEF vars, TypeOK
<1>3. ASSUME NEW t \in Tasks, NEW h \in Hosts, Arrive(t, h) PROVE TypeOK'
  BY <1>3 DEF Arrive, Goto, TypeOK, Pc
<1>4. ASSUME NEW t \in Tasks, EnterGate(t) PROVE TypeOK'
  BY <1>4 DEF EnterGate, Goto, TypeOK, Pc
<1>5. ASSUME NEW t \in Tasks, EnterSlot(t) PROVE TypeOK'
  BY <1>5 DEF EnterSlot, Goto, TypeOK, Pc
<1>6. ASSUME NEW t \in Tasks, LockBucket(t) PROVE TypeOK'
  BY <1>6 DEF LockBucket, LockFree, Goto, TypeOK, Pc
<1>7. ASSUME NEW t \in Tasks, TakeToken(t) PROVE TypeOK'
  BY <1>7 DEF TakeToken, Refilled, AtMost, Goto, TypeOK, Pc
<1>8. ASSUME NEW t \in Tasks, WaitForToken(t) PROVE TypeOK'
  BY <1>8 DEF WaitForToken, Restamp, Refilled, AtMost, Goto, TypeOK, Pc
<1>9. ASSUME NEW t \in Tasks, Wake(t) \/ Retry(t) PROVE TypeOK'
  BY <1>9 DEF Wake, Retry, Goto, TypeOK, Pc
<1>10. ASSUME NEW t \in Tasks, FetchEnds(t) PROVE TypeOK'
  BY <1>10 DEF FetchEnds, Leave, Goto, TypeOK, Pc
<1>11. ASSUME NEW t \in Tasks, FetchFails(t) PROVE TypeOK'
  BY <1>11 DEF FetchFails, RetriesLeft, Goto, TypeOK, Pc
<1> QED BY <1>1, <1>2, <1>3, <1>4, <1>5, <1>6, <1>7, <1>8, <1>9, <1>10, <1>11
        DEF Next, Enter, Progress

\* The types hold initially: every permit is free and every bucket is full.
LEMMA InitTypeOK == Init => TypeOK
BY LimitAssumption, DelayAssumption DEF Init, TypeOK, Pc

\* The variables keep their types.
THEOREM TypeCorrect == Spec => []TypeOK
BY InitTypeOK, NextTypeOK, PTL DEF Spec

-----------------------------------------------------------------------------
(* The token bucket                                                          *)

\* A bucket never holds more credit than the time since its last grant explains.
CreditInv ==
    \A h \in Hosts : tokens[h] <= Delay[h] /\ Refilled(h) <= since[h]

\* Every step preserves the credit bound: a token resets both sides, a look at the
\* bucket moves credit from the stamp to the tokens, a tick adds to both.
LEMMA NextCredit == TypeOK /\ CreditInv /\ [Next]_vars => CreditInv'
<1> SUFFICES ASSUME TypeOK, CreditInv, [Next]_vars, NEW h \in Hosts
             PROVE  tokens'[h] <= Delay[h] /\ Refilled(h)' <= since'[h]
  BY DEF CreditInv
<1>0. /\ Delay[h] \in Nat /\ tokens[h] \in Nat /\ age[h] \in Nat /\ since[h] \in Nat
      /\ tokens[h] <= Delay[h] /\ Refilled(h) <= since[h]
  BY DelayAssumption DEF TypeOK, CreditInv
<1>1. CASE Tick
  BY <1>0, <1>1 DEF Tick, Refilled, AtMost
<1>2. CASE UNCHANGED <<tokens, age, since>>
  BY <1>0, <1>2 DEF Refilled, AtMost
<1>3. ASSUME NEW t \in Tasks, TakeToken(t)
      PROVE  tokens'[h] <= Delay[h] /\ Refilled(h)' <= since'[h]
  <2>1. CASE host[t] = h
    <3>1. tokens'[h] = 0 /\ age'[h] = 0 /\ since'[h] = 0
      BY <1>0, <1>3, <2>1 DEF TakeToken, Refilled, AtMost, TypeOK
    <3> QED BY <1>0, <3>1 DEF Refilled, AtMost
  <2>2. CASE host[t] # h
    <3>1. tokens'[h] = tokens[h] /\ age'[h] = age[h] /\ since'[h] = since[h]
      BY <1>3, <2>2 DEF TakeToken, TypeOK
    <3> QED BY <1>0, <3>1 DEF Refilled, AtMost
  <2> QED BY <2>1, <2>2
<1>4. ASSUME NEW t \in Tasks, WaitForToken(t)
      PROVE  tokens'[h] <= Delay[h] /\ Refilled(h)' <= since'[h]
  <2>1. CASE host[t] = h
    <3>1. tokens'[h] = Refilled(h) /\ age'[h] = 0 /\ since'[h] = since[h]
      BY <1>4, <2>1 DEF WaitForToken, Restamp, TypeOK
    <3> QED BY <1>0, <3>1 DEF Refilled, AtMost
  <2>2. CASE host[t] # h
    <3>1. tokens'[h] = tokens[h] /\ age'[h] = age[h] /\ since'[h] = since[h]
      BY <1>4, <2>2 DEF WaitForToken, Restamp, TypeOK
    <3> QED BY <1>0, <3>1 DEF Refilled, AtMost
  <2> QED BY <2>1, <2>2
<1>5. ASSUME NEW t \in Tasks, TaskStep(t)
      PROVE  TakeToken(t) \/ WaitForToken(t) \/ UNCHANGED <<tokens, age, since>>
  BY <1>5 DEF TaskStep, Progress, Arrive, EnterGate, EnterSlot, LockBucket, Wake,
              FetchEnds, FetchFails, Retry
<1>6. CASE UNCHANGED vars
  BY <1>2, <1>6 DEF vars
<1> QED BY <1>1, <1>2, <1>3, <1>4, <1>5, <1>6, NextCases

\* Two tokens of one host are never granted closer together than its crawl delay
\* (local.py:29-38).
THEOREM TokensSpaced == Spec => GrantsSpaced
<1> DEFINE Spaced == \A t \in Tasks :
               pc[t] = "bucket" /\ pc'[t] = "fetch" => since[host[t]] >= Delay[host[t]]
<1>1. Init => CreditInv
  BY DelayAssumption DEF Init, CreditInv, Refilled, AtMost
<1>2. TypeOK /\ CreditInv /\ [Next]_vars => [Spaced]_vars
  <2> SUFFICES ASSUME TypeOK, CreditInv, Next, NEW t \in Tasks,
                      pc[t] = "bucket", pc'[t] = "fetch"
               PROVE  since[host[t]] >= Delay[host[t]]
    OBVIOUS
  <2>1. ASSUME NEW u \in Tasks, TaskStep(u) PROVE u = t /\ TakeToken(t)
    <3>1. u = t
      BY <2>1 DEF TaskStep, Progress, Arrive, EnterGate, EnterSlot, LockBucket, TakeToken,
                  WaitForToken, Wake, FetchEnds, FetchFails, Retry, Goto, TypeOK
    <3> QED
      BY <2>1, <3>1 DEF TaskStep, Progress, Arrive, EnterGate, EnterSlot, LockBucket,
                        WaitForToken, Wake, FetchEnds, FetchFails, Retry, Goto, TypeOK
  <2>2. TakeToken(t)
    BY <2>1, NextCases DEF Tick
  <2>3. host[t] \in Hosts
    BY DEF TypeOK
  <2>4. Delay[host[t]] <= Refilled(host[t]) /\ Refilled(host[t]) <= since[host[t]]
    BY <2>2, <2>3, DelayAssumption DEF TakeToken, CreditInv, TypeOK, Refilled, AtMost
  <2>5. Delay[host[t]] \in Nat /\ Refilled(host[t]) \in Nat /\ since[host[t]] \in Nat
    BY <2>3, DelayAssumption DEF TypeOK, Refilled, AtMost
  <2> QED BY <2>4, <2>5
<1>3. Spec => [](TypeOK /\ CreditInv)
  BY <1>1, InitTypeOK, NextTypeOK, NextCredit, PTL DEF Spec
<1> QED BY <1>2, <1>3, PTL DEF Spec, GrantsSpaced

\* One task at a time works on a host's bucket (local.py:27-38).
THEOREM BucketIsExclusive == Spec => []BucketExclusive
<1>1. Init => BucketExclusive
  BY DEF Init, BucketExclusive
<1>2. TypeOK /\ BucketExclusive /\ [Next]_vars => BucketExclusive'
  <2> SUFFICES ASSUME TypeOK, BucketExclusive, [Next]_vars, NEW u \in Tasks,
                      pc'[u] \in {"bucket", "sleep"}
               PROVE  lock'[host'[u]] = u
    BY DEF BucketExclusive
  <2>1. CASE Tick \/ UNCHANGED vars
    BY <2>1 DEF Tick, vars, BucketExclusive
  <2>2. ASSUME NEW t \in Tasks, LockBucket(t) PROVE lock'[host'[u]] = u
    BY <2>2, TasksAssumption DEF LockBucket, LockFree, Goto, TypeOK, BucketExclusive
  <2>3. ASSUME NEW t \in Tasks, TakeToken(t) PROVE lock'[host'[u]] = u
    BY <2>3, TasksAssumption DEF TakeToken, Goto, TypeOK, BucketExclusive
  <2>4. ASSUME NEW t \in Tasks, WaitForToken(t) \/ Wake(t) PROVE lock'[host'[u]] = u
    BY <2>4 DEF WaitForToken, Wake, Goto, TypeOK, BucketExclusive
  <2>5. ASSUME NEW t \in Tasks,
               \/ \E h \in Hosts : Arrive(t, h)
               \/ EnterGate(t) \/ EnterSlot(t) \/ FetchEnds(t) \/ FetchFails(t) \/ Retry(t)
        PROVE  lock'[host'[u]] = u
    BY <2>5 DEF Arrive, EnterGate, EnterSlot, FetchEnds, FetchFails, Retry, Goto, TypeOK,
                BucketExclusive
  <2> QED BY <2>1, <2>2, <2>3, <2>4, <2>5, NextCases DEF TaskStep, Progress
<1> QED BY <1>1, <1>2, InitTypeOK, NextTypeOK, PTL DEF Spec

-----------------------------------------------------------------------------
(* The permits                                                               *)

\* The tasks past the gate, and in a slot, can be counted.
LEMMA HoldersAreFinite ==
    /\ IsFiniteSet(InGate) /\ Cardinality(InGate) \in Nat
    /\ \A h \in Hosts : IsFiniteSet(InSlot(h)) /\ Cardinality(InSlot(h)) \in Nat
<1>1. InGate \subseteq Tasks /\ \A h \in Hosts : InSlot(h) \subseteq Tasks
  BY DEF InGate, InSlot
<1> QED BY <1>1, TasksAssumption, FS_Subset, FS_CardinalityType

\* A step that moves no task in or out keeps the permits.
LEMMA SameHolders ==
    ASSUME PermitsConserved, UNCHANGED <<gate, slots>>,
           InGate' = InGate, \A h \in Hosts : InSlot(h)' = InSlot(h)
    PROVE  PermitsConserved'
BY DEF PermitsConserved

\* Every step keeps free and held permits in balance.
LEMMA NextPermits == TypeOK /\ PermitsConserved /\ [Next]_vars => PermitsConserved'
<1> SUFFICES ASSUME TypeOK, PermitsConserved, [Next]_vars PROVE PermitsConserved'
  OBVIOUS
<1>1. CASE Tick \/ UNCHANGED vars
  BY <1>1, SameHolders DEF Tick, vars, InGate, InSlot
<1>2. ASSUME NEW t \in Tasks,
             \/ \E h \in Hosts : Arrive(t, h)
             \/ LockBucket(t) \/ TakeToken(t) \/ WaitForToken(t) \/ Wake(t)
             \/ FetchFails(t) \/ Retry(t)
      PROVE  PermitsConserved'
  <2>1. /\ UNCHANGED <<gate, slots>>
        /\ \A u \in Tasks : pc'[u] \in Slotted <=> pc[u] \in Slotted
        /\ \A u \in Tasks : pc'[u] = "slot" <=> pc[u] = "slot"
        /\ \A u \in Tasks : pc[u] \in Slotted => host'[u] = host[u]
    BY <1>2 DEF Arrive, LockBucket, TakeToken, WaitForToken, Wake, FetchFails, Retry, Goto,
                Slotted, TypeOK
  <2> QED BY <2>1, SameHolders DEF InGate, InSlot
<1>3. ASSUME NEW t \in Tasks, EnterGate(t) PROVE PermitsConserved'
  <2>1. t \notin InGate /\ InGate' = InGate \cup {t} /\ \A h \in Hosts : InSlot(h)' = InSlot(h)
    BY <1>3 DEF EnterGate, Goto, InGate, InSlot, Slotted, TypeOK
  <2>2. Cardinality(InGate') = Cardinality(InGate) + 1
    BY <2>1, HoldersAreFinite, FS_AddElement
  <2>3. gate' = gate - 1 /\ gate \in Nat \ {0} /\ slots' = slots
    BY <1>3 DEF EnterGate, TypeOK
  <2> QED BY <2>1, <2>2, <2>3, HoldersAreFinite, LimitAssumption DEF PermitsConserved
<1>4. ASSUME NEW t \in Tasks, EnterSlot(t) PROVE PermitsConserved'
  <2>1. PICK g \in Hosts : g = host[t]
    BY <1>4 DEF EnterSlot, TypeOK
  <2>2. InGate' = InGate
    BY <1>4 DEF EnterSlot, Goto, InGate, Slotted, TypeOK
  <2>3. t \notin InSlot(g) /\ InSlot(g)' = InSlot(g) \cup {t}
    BY <1>4, <2>1 DEF EnterSlot, Goto, InSlot, Slotted, TypeOK
  <2>4. \A h \in Hosts \ {g} : InSlot(h)' = InSlot(h) /\ slots'[h] = slots[h]
    BY <1>4, <2>1 DEF EnterSlot, Goto, InSlot, Slotted, TypeOK
  <2>5. Cardinality(InSlot(g)') = Cardinality(InSlot(g)) + 1
    BY <2>1, <2>3, HoldersAreFinite, FS_AddElement
  <2>6. slots'[g] = slots[g] - 1 /\ slots[g] \in Nat \ {0} /\ gate' = gate
    BY <1>4, <2>1 DEF EnterSlot, TypeOK
  <2>7. slots'[g] + Cardinality(InSlot(g)') = PerHost
    BY <2>1, <2>5, <2>6, HoldersAreFinite, LimitAssumption DEF PermitsConserved
  <2>8. ASSUME NEW h \in Hosts PROVE slots'[h] + Cardinality(InSlot(h)') = PerHost
    <3>1. CASE h = g
      BY <2>7, <3>1
    <3>2. CASE h # g
      BY <2>4, <3>2 DEF PermitsConserved
    <3> QED BY <3>1, <3>2
  <2> QED BY <2>2, <2>6, <2>8 DEF PermitsConserved
<1>5. ASSUME NEW t \in Tasks, FetchEnds(t) PROVE PermitsConserved'
  <2>1. PICK g \in Hosts : g = host[t]
    BY <1>5 DEF FetchEnds, TypeOK
  <2>2. t \in InGate /\ InGate' = InGate \ {t}
    BY <1>5 DEF FetchEnds, Goto, InGate, Slotted, TypeOK
  <2>3. t \in InSlot(g) /\ InSlot(g)' = InSlot(g) \ {t}
    BY <1>5, <2>1 DEF FetchEnds, Goto, InSlot, Slotted, TypeOK
  <2>4. \A h \in Hosts \ {g} : InSlot(h)' = InSlot(h) /\ slots'[h] = slots[h]
    BY <1>5, <2>1 DEF FetchEnds, Leave, Goto, InSlot, Slotted, TypeOK
  <2>5. /\ Cardinality(InGate') = Cardinality(InGate) - 1
        /\ Cardinality(InSlot(g)') = Cardinality(InSlot(g)) - 1
    BY <2>1, <2>2, <2>3, HoldersAreFinite, FS_RemoveElement
  <2>6. slots'[g] = slots[g] + 1 /\ slots[g] \in Nat
        /\ gate' = gate + 1 /\ gate \in Nat
    BY <1>5, <2>1 DEF FetchEnds, Leave, TypeOK
  <2>7. slots'[g] + Cardinality(InSlot(g)') = PerHost
    BY <2>1, <2>5, <2>6, HoldersAreFinite, LimitAssumption DEF PermitsConserved
  <2>8. ASSUME NEW h \in Hosts PROVE slots'[h] + Cardinality(InSlot(h)') = PerHost
    <3>1. CASE h = g
      BY <2>7, <3>1
    <3>2. CASE h # g
      BY <2>4, <3>2 DEF PermitsConserved
    <3> QED BY <3>1, <3>2
  <2>9. gate' + Cardinality(InGate') = Limit
    BY <2>5, <2>6, HoldersAreFinite, LimitAssumption DEF PermitsConserved
  <2> QED BY <2>8, <2>9 DEF PermitsConserved
<1> QED BY <1>1, <1>2, <1>3, <1>4, <1>5, NextCases DEF TaskStep, Progress

\* No permit of the gate or of a slot is ever lost or made up, so the concurrency
\* limits hold for ever (backpressure.py:27-37, politeness.py:65-72).
THEOREM PermitsHold == Spec => []PermitsConserved
<1>1. Init => PermitsConserved
  <2> SUFFICES ASSUME Init PROVE PermitsConserved
    OBVIOUS
  <2>1. InGate = {} /\ \A h \in Hosts : InSlot(h) = {}
    BY DEF Init, InGate, InSlot, Slotted
  <2> QED BY <2>1, FS_EmptySet, LimitAssumption DEF Init, PermitsConserved
<1> QED BY <1>1, InitTypeOK, NextTypeOK, NextPermits, PTL DEF Spec
=============================================================================
