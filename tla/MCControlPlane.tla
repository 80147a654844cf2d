--------------------------- MODULE MCControlPlane ---------------------------
(***************************************************************************)
(* Two crawls and two concurrent stop requests, both about the crawl that   *)
(* the API or run.py creates; the other one is a crawl of run.py, which the *)
(* exit waits for.  The process may exit, die and start again any number of *)
(* times.                                                                   *)
(***************************************************************************)
EXTENDS ControlPlane
=============================================================================
