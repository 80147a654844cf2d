------------------------- MODULE ControlPlaneProofs -------------------------
(***************************************************************************)
(* Proofs about ControlPlane, for any number of crawls and of concurrent    *)
(* stop requests, through any number of exits, kills and restarts.          *)
(***************************************************************************)
EXTENDS ControlPlane, TLAPS

\* A request is idle or about a crawl that exists; an answer is about one, too.
RequestsOK ==
    /\ req \in [Requests -> [pc : {"idle"}] \cup [pc : {"read", "write"}, crawl : Crawls]]
    /\ \A r \in Requests : req[r].pc # "idle" => kind[req[r].crawl] # "none"
    /\ answered \subseteq {c \in Crawls : kind[c] # "none"}
    /\ outcome \in [Crawls -> {"none", "returned", "raised", "unseeded"}]

\* A crawl nobody has created has neither a row nor a task; only the API has crawls
\* between the row and the launch, which nobody can cancel yet.
CreatedFirst ==
    \A c \in Crawls :
        /\ kind[c] = "none" => row[c] = "none" /\ task[c] = "none"
        /\ task[c] = "gap" => kind[c] = "api" /\ c \notin registry /\ c \notin cancel

\* What the task of a crawl is going to write is earned, and the row is not final
\* before: until then only a stop request can have written it.
TaskEarned ==
    \A c \in Crawls :
        /\ Live(c) => row[c] \in {"running", "stopped"}
        /\ task[c] \in {"none", "gap", "new", "engine", "degrees"} => status[c] = "completed"
        /\ task[c] = "degrees" => outcome[c] = "returned"
        /\ task[c] \in {"final", "commit"} =>
              /\ status[c] = "completed" => outcome[c] = "returned"
              /\ status[c] = "failed" => outcome[c] = "raised"
              /\ status[c] = "stopped" => c \in asked

\* A COMMIT on its way writes what was earned; one that is not "stopped" is that of a task
\* that has ended.
DoubtEarned ==
    \A d \in doubt :
        /\ kind[d.crawl] # "none"
        /\ d.status = "completed" => outcome[d.crawl] = "returned"
        /\ d.status = "failed" => outcome[d.crawl] \in {"raised", "unseeded"}
        /\ d.status = "stopped" => d.crawl \in asked
        /\ d.status # "stopped" => task[d.crawl] = "done"

\* Whoever is cancelled, or is the subject of a stop request, was asked to stop.
AskedFirst ==
    /\ cancel \subseteq asked
    /\ \A r \in Requests : req[r].pc # "idle" => req[r].crawl \in asked

StatusInv ==
    /\ TypeOK /\ RequestsOK /\ CreatedFirst /\ TaskEarned
    /\ DoubtEarned /\ AskedFirst /\ StatusEarned

\* The task of c has nothing to write any more, or only that it was stopped.
Settled(c) ==
    \/ task[c] \in {"none", "done"}
    \/ task[c] \in {"final", "commit"} /\ status[c] = "stopped"

\* Somebody has read "running" and is going to write "stopped", or has sent a COMMIT.
Writing(c) ==
    \/ \E r \in Requests : req[r].pc = "write" /\ req[r].crawl = c
    \/ \E d \in doubt : d.crawl = c

\* Unless the task of a crawl is loose: while a request is under way the task is settled or
\* about to be cancelled; a request that read "running" can only meet its own kind; and
\* once a request is answered nobody has another status to write.
AnswersInv ==
    /\ \A d \in doubt : d.crawl \notin loose => d.status = "stopped"
    /\ \A r \in Requests : req[r].pc # "idle" /\ req[r].crawl \notin loose =>
          Settled(req[r].crawl) \/ req[r].crawl \in cancel
    /\ \A c \in Crawls \ loose : Writing(c) =>
          Settled(c) /\ row[c] \in {"running", "stopped"}
    /\ \A c \in answered \ loose :
          /\ Settled(c)
          /\ row[c] # "running"
          /\ Live(c) \/ Writing(c) => row[c] = "stopped"

-----------------------------------------------------------------------------
(* The status of a crawl                                                    *)

LEMMA InitStatus == Init => StatusInv
<1> SUFFICES ASSUME Init PROVE StatusInv
  OBVIOUS
<1> USE DEF Init
<1>1. TypeOK
  BY DEF TypeOK, Statuses, TaskPc, Live
<1>2. RequestsOK /\ AskedFirst
  BY DEF RequestsOK, AskedFirst, NoReq
<1>3. CreatedFirst /\ TaskEarned /\ DoubtEarned /\ StatusEarned
  BY DEF CreatedFirst, TaskEarned, DoubtEarned, StatusEarned, Live
<1> QED BY <1>1, <1>2, <1>3 DEF StatusInv

\* A new crawl has a row and a task that has nothing to write yet (service.py:81-116,
\* run.py:48-81).
LEMMA CreateStatus ==
    ASSUME StatusInv, NEW c \in Crawls, NEW seeded \in BOOLEAN,
           CreateCrawl(c, seeded) \/ RunCrawl(c)
    PROVE  StatusInv'
<1> USE DEF StatusInv, TypeOK, RequestsOK, CreatedFirst, TaskEarned, DoubtEarned, AskedFirst, StatusEarned,
           Live, TaskPc, Statuses, Commits, process, record, running, history
<1>1. CASE CreateCrawl(c, seeded)
  BY <1>1 DEF CreateCrawl
<1>2. CASE RunCrawl(c)
  BY <1>2 DEF RunCrawl
<1> QED BY <1>1, <1>2

\* The task of a crawl writes what it earned (local_crawl.py:59-110).
LEMMA TaskStatus ==
    ASSUME StatusInv, NEW c \in Crawls, TaskStep(c)
    PROVE  StatusInv'
<1> USE DEF StatusInv, TypeOK, RequestsOK, CreatedFirst, TaskEarned, DoubtEarned, AskedFirst, StatusEarned,
           Live, TaskPc, Statuses, Commits, process, record, running, history
<1>1. CASE LaunchLocal(c)
  BY <1>1 DEF LaunchLocal
<1>2. CASE SeedFleet(c)
  BY <1>2 DEF SeedFleet
<1>3. CASE Start(c)
  BY <1>3 DEF Start, Moves
<1>4. CASE EngineReturns(c)
  BY <1>4 DEF EngineReturns, Moves
<1>5. CASE EngineRaises(c)
  BY <1>5 DEF EngineRaises, Moves
<1>6. CASE DegreesDone(c)
  BY <1>6 DEF DegreesDone, Moves
<1>7. CASE FinalRead(c)
  BY <1>7 DEF FinalRead, Moves
<1>8. CASE FinalCommit(c)
  BY <1>8 DEF FinalCommit, Moves, Deregistered
<1>9. CASE FinalFails(c)
  BY <1>9 DEF FinalFails, Moves, Deregistered, GiveUp, InFlight
<1>10. CASE CancelledInBody(c)
  BY <1>10 DEF CancelledInBody, CancelledStatus
<1>11. CASE CancelledOutside(c)
  BY <1>11 DEF CancelledOutside, Deregistered, GiveUp, InFlight
<1> QED
  BY <1>1, <1>2, <1>3, <1>4, <1>5, <1>6, <1>7, <1>8, <1>9, <1>10, <1>11
  DEF TaskStep

\* A stop request writes "stopped" once it was asked (service.py:146-157).
LEMMA StopStatus ==
    ASSUME StatusInv, NEW r \in Requests,
           StopStep(r) \/ \E c \in Crawls : StopAsked(r, c)
    PROVE  StatusInv'
<1> USE DEF StatusInv, TypeOK, RequestsOK, CreatedFirst, TaskEarned, DoubtEarned, AskedFirst, StatusEarned,
           Live, TaskPc, Statuses, Commits, process, record, running, history
<1>1. ASSUME NEW c \in Crawls, StopAsked(r, c) PROVE StatusInv'
  BY <1>1 DEF StopAsked, CancelTarget, NoReq
<1>2. CASE StopReads(r)
  BY <1>2 DEF StopReads, Answer, NoReq
<1>3. CASE StopWrites(r)
  BY <1>3 DEF StopWrites, Answer, NoReq, MarkStopped
<1>4. CASE StopFails(r)
  BY <1>4 DEF StopFails, NoReq, GiveUp, InFlight
<1> QED BY <1>1, <1>2, <1>3, <1>4 DEF StopStep

\* The exit of the process asks every crawl that is left to stop; a kill leaves the rows.
LEMMA ProcessStatus ==
    ASSUME StatusInv, ExitAsked \/ Exiting \/ Killed \/ Restart
    PROVE  StatusInv'
<1> USE DEF StatusInv, TypeOK, RequestsOK, CreatedFirst, TaskEarned, DoubtEarned, AskedFirst, StatusEarned,
           Live, TaskPc, Statuses, Commits, process, record, running, history
<1>1. CASE ExitAsked \/ ExitDone \/ Restart
  BY <1>1 DEF ExitAsked, ExitDone, Restart
<1>2. ASSUME NEW c \in Crawls, CancelLauncher(c) PROVE StatusInv'
  BY <1>2 DEF CancelLauncher, Launched
<1>3. CASE CancelRest
  BY <1>3 DEF CancelRest
<1>4. CASE Killed
  BY <1>4 DEF Killed, NoReq, GiveUp, InFlight
<1> QED BY <1>1, <1>2, <1>3, <1>4 DEF Exiting

\* A COMMIT nobody waits for writes what was earned (local_crawl.py:107-110).
LEMMA LateStatus ==
    ASSUME StatusInv, NEW d \in Commits, LateCommit(d)
    PROVE  StatusInv'
BY DEF LateCommit, StatusInv, TypeOK, RequestsOK, CreatedFirst, TaskEarned, DoubtEarned,
       AskedFirst, StatusEarned, Live, TaskPc, Statuses, Commits, process, record, running, history

LEMMA NextStatus == StatusInv /\ [Next]_vars => StatusInv'
<1> SUFFICES ASSUME StatusInv, [Next]_vars PROVE StatusInv'
  OBVIOUS
<1>1. CASE UNCHANGED vars
  BY <1>1 DEF vars, StatusInv, TypeOK, RequestsOK, CreatedFirst, TaskEarned, DoubtEarned, AskedFirst, StatusEarned,
              Live, TaskPc, Statuses, Commits, process, record, running, history
<1>2. CASE Next
  BY <1>2, CreateStatus, TaskStatus, StopStatus, ProcessStatus, LateStatus DEF Next
<1> QED BY <1>1, <1>2

LEMMA StatusHolds == Spec => []StatusInv
BY InitStatus, NextStatus, PTL DEF Spec

\* The variables of the control plane keep their types; only live tasks are registered or
\* cancelled, and each has a row (service.py:136-137, local_crawl.py:105-110).
THEOREM ControlTypes == Spec => []TypeOK
<1>1. StatusInv => TypeOK
  BY DEF StatusInv
<1> QED BY <1>1, StatusHolds, PTL

\* A final status tells what happened to the crawl, whoever wrote it last
\* (local_crawl.py:99-110).
THEOREM StatusIsEarned == Spec => []StatusEarned
<1>1. StatusInv => StatusEarned
  BY DEF StatusInv
<1> QED BY <1>1, StatusHolds, PTL

-----------------------------------------------------------------------------
(* The answer of a stop request                                             *)

LEMMA InitAnswers == Init => AnswersInv
BY DEF Init, AnswersInv, Writing, NoReq

\* Nobody has asked about a crawl that is created.
LEMMA CreateAnswers ==
    ASSUME StatusInv, AnswersInv, NEW c \in Crawls, NEW seeded \in BOOLEAN,
           CreateCrawl(c, seeded) \/ RunCrawl(c)
    PROVE  AnswersInv'
<1> USE DEF StatusInv, TypeOK, RequestsOK, CreatedFirst, TaskEarned, DoubtEarned, AnswersInv, Settled,
           Writing, Live, TaskPc, Statuses, Commits, process, record, running, history
<1>1. CASE CreateCrawl(c, seeded)
  BY <1>1 DEF CreateCrawl
<1>2. CASE RunCrawl(c)
  BY <1>2 DEF RunCrawl
<1> QED BY <1>1, <1>2

\* Unless it is loose, a task that a request found ends with "stopped" or with nothing.
LEMMA TaskAnswers ==
    ASSUME StatusInv, AnswersInv, NEW c \in Crawls, TaskStep(c)
    PROVE  AnswersInv'
<1> USE DEF StatusInv, TypeOK, RequestsOK, CreatedFirst, TaskEarned, DoubtEarned, AnswersInv, Settled,
           Writing, Live, TaskPc, Statuses, Commits, process, record, running, history
<1>1. CASE LaunchLocal(c)
  BY <1>1 DEF LaunchLocal
<1>2. CASE SeedFleet(c)
  BY <1>2 DEF SeedFleet
<1>3. CASE Start(c)
  BY <1>3 DEF Start, Moves
<1>4. CASE EngineReturns(c)
  BY <1>4 DEF EngineReturns, Moves
<1>5. CASE EngineRaises(c)
  BY <1>5 DEF EngineRaises, Moves
<1>6. CASE DegreesDone(c)
  BY <1>6 DEF DegreesDone, Moves
<1>7. CASE FinalRead(c)
  BY <1>7 DEF FinalRead, Moves
<1>8. CASE FinalCommit(c)
  BY <1>8 DEF FinalCommit, Moves, Deregistered
<1>9. CASE FinalFails(c)
  BY <1>9 DEF FinalFails, Moves, Deregistered, GiveUp, InFlight
<1>10. CASE CancelledInBody(c)
  BY <1>10 DEF CancelledInBody, CancelledStatus
<1>11. CASE CancelledOutside(c)
  BY <1>11 DEF CancelledOutside, Deregistered, GiveUp, InFlight
<1> QED
  BY <1>1, <1>2, <1>3, <1>4, <1>5, <1>6, <1>7, <1>8, <1>9, <1>10, <1>11
  DEF TaskStep

\* A request finds the task settled or cancels it, and waits until that is delivered.
LEMMA StopAnswers ==
    ASSUME StatusInv, AnswersInv, NEW r \in Requests,
           StopStep(r) \/ \E c \in Crawls : StopAsked(r, c)
    PROVE  AnswersInv'
<1> USE DEF StatusInv, TypeOK, RequestsOK, CreatedFirst, TaskEarned, DoubtEarned, AnswersInv, Settled,
           Writing, Live, TaskPc, Statuses, Commits, process, record, running, history
<1>1. ASSUME NEW c \in Crawls, StopAsked(r, c) PROVE AnswersInv'
  BY <1>1 DEF StopAsked, CancelTarget, NoReq
<1>2. CASE StopReads(r)
  BY <1>2 DEF StopReads, Answer, NoReq
<1>3. CASE StopWrites(r)
  BY <1>3 DEF StopWrites, Answer, NoReq, MarkStopped
<1>4. CASE StopFails(r)
  BY <1>4 DEF StopFails, NoReq, GiveUp, InFlight
<1> QED BY <1>1, <1>2, <1>3, <1>4 DEF StopStep

\* The exit and a kill settle tasks, and end the requests.
LEMMA ProcessAnswers ==
    ASSUME StatusInv, AnswersInv, ExitAsked \/ Exiting \/ Killed \/ Restart
    PROVE  AnswersInv'
<1> USE DEF StatusInv, TypeOK, RequestsOK, CreatedFirst, TaskEarned, DoubtEarned, AnswersInv, Settled,
           Writing, Live, TaskPc, Statuses, Commits, process, record, running, history
<1>1. CASE ExitAsked \/ ExitDone \/ Restart
  BY <1>1 DEF ExitAsked, ExitDone, Restart
<1>2. ASSUME NEW c \in Crawls, CancelLauncher(c) PROVE AnswersInv'
  BY <1>2 DEF CancelLauncher, Launched
<1>3. CASE CancelRest
  BY <1>3 DEF CancelRest
<1>4. CASE Killed
  BY <1>4 DEF Killed, NoReq, GiveUp, InFlight
<1> QED BY <1>1, <1>2, <1>3, <1>4 DEF Exiting

\* A COMMIT nobody waits for writes "stopped", unless it made its crawl loose.
LEMMA LateAnswers ==
    ASSUME StatusInv, AnswersInv, NEW d \in Commits, LateCommit(d)
    PROVE  AnswersInv'
BY DEF LateCommit, StatusInv, TypeOK, RequestsOK, CreatedFirst, TaskEarned, DoubtEarned, AnswersInv,
       Settled, Writing, Live, TaskPc, Statuses, Commits, process, record, running, history

LEMMA NextAnswers == StatusInv /\ AnswersInv /\ [Next]_vars => AnswersInv'
<1> SUFFICES ASSUME StatusInv, AnswersInv, [Next]_vars PROVE AnswersInv'
  OBVIOUS
<1>1. CASE UNCHANGED vars
  BY <1>1 DEF vars, StatusInv, TypeOK, RequestsOK, CreatedFirst, TaskEarned, DoubtEarned, AnswersInv, Settled,
              Writing, Live, TaskPc, Statuses, Commits, process, record, running, history
<1>2. CASE Next
  BY <1>2, CreateAnswers, TaskAnswers, StopAnswers, ProcessAnswers, LateAnswers DEF Next
<1> QED BY <1>1, <1>2

LEMMA AnswersHold == Spec => []AnswersInv
BY StatusHolds, InitAnswers, NextAnswers, PTL DEF Spec

\* Of the steps that write a row, none changes that of a crawl a request has reported.
LEMMA RowStays ==
    ASSUME StatusInv, AnswersInv, [Next]_vars, NEW c \in answered \ loose'
    PROVE  row'[c] = row[c]
<1>1. c \in Crawls /\ kind[c] # "none" /\ loose \subseteq loose' /\ c \notin loose
  <2>1. loose \subseteq loose'
    <3> USE DEF history, GiveUp
    <3>1. ASSUME NEW d \in Crawls, TaskStep(d) PROVE loose \subseteq loose'
      BY <3>1 DEF TaskStep, LaunchLocal, SeedFleet, Start, EngineReturns, EngineRaises, DegreesDone,
         FinalRead, FinalCommit, FinalFails, CancelledInBody, CancelledOutside
    <3>2. ASSUME NEW r \in Requests, StopStep(r) \/ \E d \in Crawls : StopAsked(r, d)
          PROVE  loose \subseteq loose'
      BY <3>2 DEF StopStep, StopAsked, StopReads, StopWrites, StopFails
    <3>3. CASE \/ \E d \in Crawls : (\E seeded \in BOOLEAN : CreateCrawl(d, seeded)) \/ RunCrawl(d)
               \/ \E d \in Commits : LateCommit(d)
               \/ ExitAsked \/ Exiting \/ Killed \/ Restart \/ UNCHANGED vars
      BY <3>3 DEF CreateCrawl, RunCrawl, LateCommit, ExitAsked, Exiting, CancelLauncher, CancelRest,
         ExitDone, Killed, Restart, vars
    <3> QED BY <3>1, <3>2, <3>3 DEF Next
  <2> QED BY <2>1 DEF StatusInv, RequestsOK
<1>2. Settled(c) /\ (Live(c) \/ Writing(c) => row[c] = "stopped")
  BY <1>1 DEF AnswersInv
<1>3. row \in [Crawls -> Statuses \cup {"none"}]
  BY DEF StatusInv, TypeOK
<1>4. ASSUME NEW d \in Crawls, NEW seeded \in BOOLEAN, CreateCrawl(d, seeded) \/ RunCrawl(d)
      PROVE  row'[c] = row[c]
  BY <1>1, <1>3, <1>4 DEF CreateCrawl, RunCrawl
<1>5. ASSUME NEW d \in Crawls, TaskStep(d) PROVE row'[c] = row[c]
  <2>1. CASE FinalCommit(d)
    BY <1>1, <1>2, <1>3, <2>1 DEF FinalCommit, Moves, Settled, Live
  <2>2. CASE CancelledOutside(d)
    BY <2>2 DEF CancelledOutside
  <2>3. CASE ~FinalCommit(d) /\ ~CancelledOutside(d)
    BY <1>5, <2>3 DEF TaskStep, LaunchLocal, SeedFleet, Start, EngineReturns, EngineRaises,
        DegreesDone, FinalRead, FinalFails, CancelledInBody, record
  <2> QED BY <2>1, <2>2, <2>3
<1>6. ASSUME NEW r \in Requests, StopStep(r) PROVE row'[c] = row[c]
  <2>1. CASE StopWrites(r)
    BY <1>1, <1>2, <1>3, <2>1 DEF StopWrites, MarkStopped, Writing
  <2>2. CASE StopReads(r) \/ StopFails(r)
    BY <2>2 DEF StopReads, StopFails, record
  <2> QED BY <1>6, <2>1, <2>2 DEF StopStep
<1>7. CASE \/ \E r \in Requests, d \in Crawls : StopAsked(r, d)
           \/ ExitAsked \/ Exiting \/ Killed \/ Restart \/ UNCHANGED vars
  BY <1>7 DEF StopAsked, ExitAsked, Exiting, CancelLauncher, CancelRest, ExitDone, Killed,
      Restart, record, vars
<1>8. ASSUME NEW d \in Commits, LateCommit(d) PROVE row'[c] = row[c]
  BY <1>1, <1>2, <1>3, <1>8 DEF LateCommit, AnswersInv, Writing, history
<1> QED BY <1>4, <1>5, <1>6, <1>7, <1>8 DEF Next

\* The status a stop request has reported is final, for any number of crawls and requests,
\* unless a request missed the task or the task was stopped while its own COMMIT was on the
\* way (service.py:146-157, local_crawl.py:107-110).
THEOREM AnswersAreFinal == Spec => AnswerIsFinal
<1>1. StatusInv /\ AnswersInv /\ [Next]_vars
      => [\A c \in answered \ loose' : row'[c] = row[c]]_vars
  BY RowStays
<1> QED BY <1>1, StatusHolds, AnswersHold, PTL DEF Spec, AnswerIsFinal
=============================================================================
