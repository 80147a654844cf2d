--------------------------- MODULE MCSharedLimits ---------------------------
(***************************************************************************)
(* Three pages of one host: t1 and t2 in one worker process, t3 in another. *)
(* The robots cache of a process holds one text.  The clock of the second   *)
(* process is ahead, and a call may reach Redis after the clock has moved.  *)
(***************************************************************************)
EXTENDS SharedLimits, TLC

CONSTANTS t1, t2, t3

MCTasks == {t1, t2, t3}
MCProc == [t \in MCTasks |-> IF t = t3 THEN "p2" ELSE "p1"]
MCHost == [t \in MCTasks |-> "h"]
MCSkew == [p \in {"p1", "p2"} |-> IF p = "p2" THEN 1 ELSE 0]

\* The two tasks of one process are alike.
Symmetric == Permutations({t1, t2})
=============================================================================
