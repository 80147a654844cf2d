--------------------------- MODULE MCPoliteFetch ---------------------------
(***************************************************************************)
(* A host with a crawl delay and one without.  Two tasks fill the slots of  *)
(* the slow host, a third waits for one of them inside the gate, and with   *)
(* it they hold every permit of the gate; the fourth has to wait for them.  *)
(***************************************************************************)
EXTENDS PoliteFetch

MCHosts == {"slow", "free"}
MCDelay == [h \in MCHosts |-> IF h = "slow" THEN 2 ELSE 0]
=============================================================================
