-------------------------- MODULE MCCircuitBreaker --------------------------
(* Two hosts, so that the gauge counts more than one breaker, and two tasks, so *)
(* that a late outcome meets every state another task has brought a breaker to. *)
EXTENDS CircuitBreaker

MCHosts == {"h1", "h2"}
MCTasks == {"t1", "t2"}
=============================================================================
