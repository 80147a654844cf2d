------------------------------ MODULE WorkPool ------------------------------
(***************************************************************************)
(* What a crawl frontier promises, without queues, workers or counters:   *)
(* every URL that is discovered is pending until it is completed, it is    *)
(* completed exactly once, completing it may discover new URLs, and the    *)
(* crawl is declared finished only when nothing is pending.  A stop request *)
(* ends the crawl early and promises nothing about what is still pending.  *)
(***************************************************************************)
CONSTANT Urls

VARIABLES pending, completed, outcome
vars == <<pending, completed, outcome>>

Init ==
    /\ pending \in SUBSET Urls
    /\ completed = {}
    /\ outcome = "running"

Complete(u, found) ==
    /\ outcome # "finished"
    /\ u \in pending
    /\ found \cap (pending \cup completed) = {}
    /\ pending' = (pending \ {u}) \cup found
    /\ completed' = completed \cup {u}
    /\ UNCHANGED outcome

CompleteSome == \E u \in Urls, found \in SUBSET Urls : Complete(u, found)

Finish ==
    /\ outcome = "running"
    /\ pending = {}
    /\ outcome' = "finished"
    /\ UNCHANGED <<pending, completed>>

Stop ==
    /\ outcome = "running"
    /\ outcome' = "stopped"
    /\ UNCHANGED <<pending, completed>>

Next == CompleteSome \/ Finish \/ Stop

Safety == Init /\ [][Next]_vars

Spec == Safety /\ WF_vars(CompleteSome) /\ WF_vars(Finish)
=============================================================================
