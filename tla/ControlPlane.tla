---------------------------- MODULE ControlPlane ----------------------------
(***************************************************************************)
(* The life of a crawl record: api/service.py creates and stops crawls,     *)
(* local_crawl.py runs one in-process and writes its final status, run.py   *)
(* runs the server, a crawl of its own (--seeds) and the shutdown.          *)
(*                                                                          *)
(* One action is the code between two suspending awaits.  A session_scope   *)
(* reads in one step and commits in a later one, so two writers of a row    *)
(* can interleave.  A cancelled task gets CancelledError at its next step;  *)
(* a COMMIT it was waiting for may still take effect, then or much later.   *)
(***************************************************************************)
EXTENDS FiniteSets

CONSTANTS
    Crawls,     \* crawl ids
    Requests,   \* concurrent stop requests of the API
    Stoppable,  \* bound: the crawls they are about
    Posted      \* bound: the crawls created through the API

Statuses == {"running", "completed", "failed", "stopped"}
Commits == [crawl : Crawls, status : Statuses \ {"running"}]
TaskPc == {"none", "gap", "new", "engine", "degrees", "final", "commit", "done"}

VARIABLES
    backend,    \* settings.frontier.backend of this process
    server,     \* the process: serving, shutting down or down
    kind,       \* who created each crawl: the API, run.py, or nobody yet
    row,        \* committed Crawl.status, "none" if there is no row
    doubt,      \* COMMITs whose sender stopped waiting for them
    registry,   \* _RUNNING_CRAWLS
    task,       \* where the task that runs execute_crawl is
    status,     \* its local "status"
    cancel,     \* crawls whose task has a cancellation to be delivered
    req,        \* each stop request: where it is, and for which crawl
    outcome,    \* history: how engine.run ended
    asked,      \* history: crawls somebody asked to stop (a request or the exit)
    excused,    \* history: crawls a fault or the exit kept from a final status
    answered,   \* history: crawls whose status a stop request has reported
    loose       \* history: crawls whose task a stop request did not find, or whose task
                \*   stopped waiting for the COMMIT of its own status

process == <<backend, server>>
record == <<kind, row, doubt>>
running == <<registry, task, status, cancel>>
history == <<outcome, asked, excused, answered, loose>>
vars == <<process, record, running, req, history>>

NoReq == [pc |-> "idle"]
Serving == server \in {"booting", "up"}
Live(c) == task[c] \notin {"none", "done"}

Init ==
    /\ backend \in {"memory", "kafka"}
    /\ server = "booting"
    /\ kind = [c \in Crawls |-> "none"]
    /\ row = [c \in Crawls |-> "none"]
    /\ doubt = {}
    /\ registry = {}
    /\ task = [c \in Crawls |-> "none"]
    /\ status = [c \in Crawls |-> "completed"]
    /\ cancel = {}
    /\ req = [r \in Requests |-> NoReq]
    /\ outcome = [c \in Crawls |-> "none"]
    /\ asked = {}
    /\ excused = {}
    /\ answered = {}
    /\ loose = {}

-----------------------------------------------------------------------------
(* Creating a crawl                                                         *)

\* create_crawl commits the row.  A crawl without a usable seed is failed at once;
\* otherwise its task is launched, or its seeds are published, in a later step.
CreateCrawl(c, seeded) ==
    /\ Serving
    /\ c \in Posted
    /\ kind[c] = "none"
    /\ kind' = [kind EXCEPT ![c] = "api"]
    /\ row' = [row EXCEPT ![c] = IF seeded THEN "running" ELSE "failed"]
    /\ task' = [task EXCEPT ![c] = IF seeded THEN "gap" ELSE "none"]
    /\ outcome' = [outcome EXCEPT ![c] = IF seeded THEN "none" ELSE "unseeded"]
    /\ UNCHANGED <<process, doubt, registry, status, cancel, req, asked, excused,
                   answered, loose>>

\* _launch_local: the task is created and registered; it has not run yet.
LaunchLocal(c) ==
    /\ task[c] = "gap"
    /\ backend = "memory"
    /\ task' = [task EXCEPT ![c] = "new"]
    /\ registry' = registry \cup {c}
    /\ UNCHANGED <<process, record, history, status, cancel, req>>

\* _seed publishes the seeds, or fails to; from here on the crawl belongs to the
\* fleet, and nothing but a stop request writes its row again.
SeedFleet(c) ==
    /\ task[c] = "gap"
    /\ backend = "kafka"
    /\ task' = [task EXCEPT ![c] = "none"]
    /\ excused' = excused \cup {c}
    /\ UNCHANGED <<process, record, registry, status, cancel, req, outcome, asked,
                   answered, loose>>

\* run.py --seeds: _run_crawl commits its own row; the task is never registered.
RunCrawl(c) ==
    /\ server = "booting"
    /\ kind[c] = "none"
    /\ server' = "up"
    /\ kind' = [kind EXCEPT ![c] = "launcher"]
    /\ row' = [row EXCEPT ![c] = "running"]
    /\ task' = [task EXCEPT ![c] = "new"]
    /\ UNCHANGED <<history, backend, doubt, registry, status, cancel, req>>

-----------------------------------------------------------------------------
(* execute_crawl                                                            *)

\* Mutant: no done callback is installed.
StillRegistered(c) == registry

\* The registry after the task's done callback.
Deregistered(c) == registry \ {c}

\* A step of a task that has no cancellation to deliver.
Moves(c, from, to) ==
    /\ task[c] = from
    /\ c \notin cancel
    /\ task' = [task EXCEPT ![c] = to]

Start(c) ==
    /\ Moves(c, "new", "engine")
    /\ UNCHANGED <<process, record, history, registry, status, cancel, req>>

\* engine.run returns; the degrees are recomputed next.
EngineReturns(c) ==
    /\ Moves(c, "engine", "degrees")
    /\ outcome' = [outcome EXCEPT ![c] = "returned"]
    /\ UNCHANGED <<process, record, registry, status, cancel, req, asked, excused,
                   answered, loose>>

EngineRaises(c) ==
    /\ Moves(c, "engine", "final")
    /\ status' = [status EXCEPT ![c] = "failed"]
    /\ outcome' = [outcome EXCEPT ![c] = "raised"]
    /\ UNCHANGED <<process, record, registry, cancel, req, asked, excused, answered,
                   loose>>

\* recompute_degrees succeeds, or fails and is only logged.
DegreesDone(c) ==
    /\ Moves(c, "degrees", "final")
    /\ UNCHANGED <<process, record, history, registry, status, cancel, req>>

\* The finally clause reads the row ...
FinalRead(c) ==
    /\ Moves(c, "final", "commit")
    /\ UNCHANGED <<process, record, history, registry, status, cancel, req>>

\* ... and commits the status, whatever the row says by now.  The done callback
\* takes the task out of the registry.
FinalCommit(c) ==
    /\ Moves(c, "commit", "done")
    /\ row' = [row EXCEPT ![c] = status[c]]
    /\ registry' = Deregistered(c)
    /\ UNCHANGED <<process, history, kind, doubt, status, cancel, req>>

\* What the tasks of S have sent to the database when they stop waiting for it: the
\* COMMIT of the final status, if they were that far.
InFlight(S) == {[crawl |-> c, status |-> status[c]] : c \in {d \in S : task[d] = "commit"}}

\* Nobody waits any more for the COMMITs of the tasks S and of the stop requests R.
GiveUp(S, R) ==
    /\ doubt' = doubt \cup InFlight(S)
          \cup {[crawl |-> req[r].crawl, status |-> "stopped"] :
                   r \in {q \in R : req[q].pc = "write"}}
    /\ loose' = loose \cup {d.crawl : d \in {e \in InFlight(S) : e.status # "stopped"}}

\* The database refuses the read or the commit, or the connection is lost: suppressed.
FinalFails(c) ==
    /\ Moves(c, "final", "done") \/ Moves(c, "commit", "done")
    /\ registry' = Deregistered(c)
    /\ excused' = excused \cup {c}
    /\ GiveUp({c}, {})
    /\ UNCHANGED <<process, kind, row, status, cancel, req, outcome, asked, answered>>

\* A COMMIT nobody waits for takes effect, whatever has become of its sender.
LateCommit(d) ==
    /\ d \in doubt
    /\ doubt' = doubt \ {d}
    /\ row' = [row EXCEPT ![d.crawl] = d.status]
    /\ UNCHANGED <<process, running, history, kind, req>>

\* Mutant: the status is left as it was when the task is cancelled.
CancelledStatusKept(c) == status[c]

\* The "except CancelledError" clause.
CancelledStatus(c) == "stopped"

\* CancelledError in the body of execute_crawl: the finally clause still runs.
CancelledInBody(c) ==
    /\ c \in cancel
    /\ task[c] \in {"engine", "degrees"}
    /\ cancel' = cancel \ {c}
    /\ task' = [task EXCEPT ![c] = "final"]
    /\ status' = [status EXCEPT ![c] = CancelledStatus(c)]
    /\ UNCHANGED <<process, record, history, registry, req>>

\* CancelledError before the first step or inside the finally clause, where
\* suppress(Exception) does not stop it: the task ends without writing the row, but a
\* COMMIT it has sent is on the way.
CancelledOutside(c) ==
    /\ c \in cancel
    /\ task[c] \in {"new", "final", "commit"}
    /\ cancel' = cancel \ {c}
    /\ task' = [task EXCEPT ![c] = "done"]
    /\ registry' = Deregistered(c)
    /\ excused' = IF Serving THEN excused ELSE excused \cup {c}
    /\ GiveUp({c}, {})
    /\ UNCHANGED <<process, kind, row, status, req, outcome, asked, answered>>

TaskStep(c) ==
    \/ LaunchLocal(c) \/ SeedFleet(c) \/ Start(c) \/ EngineReturns(c) \/ EngineRaises(c)
    \/ DegreesDone(c) \/ FinalRead(c) \/ FinalCommit(c) \/ FinalFails(c)
    \/ CancelledInBody(c) \/ CancelledOutside(c)

-----------------------------------------------------------------------------
(* stop_crawl                                                               *)

\* Mutant: the row is marked, the task is left alone.
CancelNobody(c) == {}

\* The task a stop request cancels: one that is registered and not done.
CancelTarget(c) == registry \cap {c}

\* The stop request looks the task up and cancels it, without suspending.
StopAsked(r, c) ==
    /\ Serving
    /\ req[r] = NoReq
    /\ c \in Stoppable
    /\ kind[c] # "none"
    /\ cancel' = cancel \cup CancelTarget(c)
    /\ asked' = asked \cup {c}
    /\ req' = [req EXCEPT ![r] = [pc |-> "read", crawl |-> c]]
    /\ loose' = IF Live(c) /\ c \notin registry THEN loose \cup {c} ELSE loose
    /\ UNCHANGED <<process, record, registry, task, status, outcome, excused, answered>>

\* The request ends and reports the status of the row after this step.
Answer(r) ==
    /\ req' = [req EXCEPT ![r] = NoReq]
    /\ answered' = answered \cup {req[r].crawl}

\* The row is read.  The event loop delivered the cancellation before the database
\* could answer.  A crawl that is not running is reported as it is.
StopReads(r) ==
    /\ req[r].pc = "read"
    /\ req[r].crawl \notin cancel
    /\ IF row[req[r].crawl] = "running"
       THEN req' = [req EXCEPT ![r].pc = "write"] /\ answered' = answered
       ELSE Answer(r)
    /\ UNCHANGED <<process, record, running, outcome, asked, excused, loose>>

\* Mutant: the request relies on the task to mark the row.
MarkLeft(c) == row

\* The row after the request marked it.
MarkStopped(c) == [row EXCEPT ![c] = "stopped"]

\* The row read as running is committed as stopped, whatever it says by now.
StopWrites(r) ==
    /\ req[r].pc = "write"
    /\ row' = MarkStopped(req[r].crawl)
    /\ Answer(r)
    /\ UNCHANGED <<process, running, kind, doubt, outcome, asked, excused, loose>>

\* The database fails the request, which answers with an error.
StopFails(r) ==
    /\ req[r].pc \in {"read", "write"}
    /\ req[r].crawl \notin cancel
    /\ excused' = excused \cup {req[r].crawl}
    /\ req' = [req EXCEPT ![r] = NoReq]
    /\ GiveUp({}, {r})
    /\ UNCHANGED <<process, kind, row, running, outcome, asked, answered>>

StopStep(r) == StopReads(r) \/ StopWrites(r) \/ StopFails(r)

-----------------------------------------------------------------------------
(* The process                                                              *)

Launched(c) == kind[c] = "launcher" /\ Live(c)

\* Ctrl+C: uvicorn stops accepting requests.
ExitAsked ==
    /\ Serving
    /\ server' = "exiting"
    /\ UNCHANGED <<record, running, history, backend, req>>

\* _serve polls should_exit, cancels its own crawl, once, and awaits it.
CancelLauncher(c) ==
    /\ server = "exiting"
    /\ Launched(c)
    /\ server' = "awaiting"
    /\ cancel' = cancel \cup {c}
    /\ asked' = asked \cup {c}
    /\ UNCHANGED <<record, backend, registry, task, status, req, outcome, excused,
                   answered, loose>>

\* Requests have been answered and the launcher's crawl awaited; _serve returns and
\* asyncio.run cancels every task that is left, then waits for them.
CancelRest ==
    /\ server \in {"exiting", "awaiting"}
    /\ \A r \in Requests : req[r] = NoReq
    /\ \A c \in Crawls : ~Launched(c) /\ task[c] # "gap"
    /\ server' = "closing"
    /\ cancel' = cancel \cup registry
    /\ asked' = asked \cup registry
    /\ UNCHANGED <<record, backend, registry, task, status, req, outcome, excused,
                   answered, loose>>

ExitDone ==
    /\ server = "closing"
    /\ \A c \in Crawls : ~Live(c)
    /\ server' = "down"
    /\ UNCHANGED <<record, running, history, backend, req>>

\* The process dies: only the rows are left, and the COMMITs on their way.
Killed ==
    /\ server # "down"
    /\ server' = "down"
    /\ registry' = {}
    /\ task' = [c \in Crawls |-> IF Live(c) THEN "done" ELSE task[c]]
    /\ cancel' = {}
    /\ req' = [r \in Requests |-> NoReq]
    /\ excused' = excused \cup {c \in Crawls : row[c] = "running"}
    /\ GiveUp(Crawls, Requests)
    /\ UNCHANGED <<kind, row, backend, status, outcome, asked, answered>>

\* The program is started again; ensure_schema leaves existing rows alone.
Restart ==
    /\ server = "down"
    /\ server' = "booting"
    /\ backend' \in {"memory", "kafka"}
    /\ UNCHANGED <<record, running, history, req>>

Exiting == (\E c \in Crawls : CancelLauncher(c)) \/ CancelRest \/ ExitDone

Next ==
    \/ \E c \in Crawls :
          \/ \E seeded \in BOOLEAN : CreateCrawl(c, seeded)
          \/ RunCrawl(c)
          \/ TaskStep(c)
          \/ \E r \in Requests : StopAsked(r, c)
    \/ \E r \in Requests : StopStep(r)
    \/ \E d \in Commits : LateCommit(d)
    \/ ExitAsked \/ Exiting \/ Killed \/ Restart

\* The event loop resumes every task that can run, and engine.run ends
\* (CrawlEngine!CrawlQuiesces).  Nobody has to stop a crawl or the process, and a COMMIT
\* nobody waits for may never take effect.
Fairness ==
    /\ \A c \in Crawls : WF_vars(TaskStep(c))
    /\ \A r \in Requests : WF_vars(StopStep(r))
    /\ WF_vars(Exiting)

Spec == Init /\ [][Next]_vars /\ Fairness

-----------------------------------------------------------------------------
(* Properties                                                               *)

\* The variables have the types the code gives them; only a live task is registered
\* or has a cancellation to deliver, and a live task has a row (service.py:136-137,
\* local_crawl.py:36-37).
TypeOK ==
    /\ kind \in [Crawls -> {"none", "api", "launcher"}]
    /\ row \in [Crawls -> Statuses \cup {"none"}]
    /\ task \in [Crawls -> TaskPc]
    /\ status \in [Crawls -> Statuses \ {"running"}]
    /\ registry \subseteq {c \in Crawls : Live(c)}
    /\ cancel \subseteq {c \in Crawls : Live(c)}
    /\ \A c \in Crawls : Live(c) => row[c] # "none"
    /\ doubt \subseteq Commits

\* A final status tells what happened, whichever of the task, the stop requests and
\* the exit wrote it last: completed only if engine.run returned, failed only if it
\* raised or had no seeds, stopped only if somebody asked (local_crawl.py:34-38).
StatusEarned ==
    \A c \in Crawls :
        /\ row[c] = "completed" => outcome[c] = "returned"
        /\ row[c] = "failed" => outcome[c] \in {"raised", "unseeded"}
        /\ row[c] = "stopped" => c \in asked

\* The status a stop request reported stays the status of the crawl, even when the
\* task or another request was writing at the same time (service.py:141-159).  The two
\* exceptions: a request missed the task, as it does for a crawl of run.py and in the
\* gap before the launch; or the task was stopped, by a request, a fault or the exit,
\* while its own COMMIT was on the way (local_crawl.py:107-110).
AnswerIsFinal ==
    [][\A c \in answered \ loose' : row'[c] = row[c]]_vars

\* A crawl that runs gets a final status by itself or through a stop request, also
\* when the stop catches its task before the first step; a fault or the exit of the
\* process is the only excuse (local_crawl.py:36-38, service.py:146-157).
CrawlSettles ==
    \A c \in Crawls : row[c] = "running" ~> (row[c] # "running" \/ c \in excused)
=============================================================================
