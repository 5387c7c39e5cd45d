------------------------------- MODULE JobQueue -------------------------------
(***************************************************************************)
(* JobQueue of services/job_queue.py: two lanes of threads, submission     *)
(* with coalescing through a table of pending jobs, the graph lock, one    *)
(* mutex per repository, and shutdown by sentinels.  What a handler does   *)
(* to the graph is left to EstateServer; here a handler may report its     *)
(* job's status, drop the job rows of a repository, submit a follow-up     *)
(* job, return, or raise.                                                  *)
(***************************************************************************)
EXTENDS Naturals, Sequences, FiniteSets, SequencesExt

CONSTANTS
    Repo,            \* repository ids, the linker's pseudo repository among them
    IngestWorker,    \* threads named ingest-worker-i (settings.ingest_workers)
    LinkerWorker,    \* threads named linker-worker; start() creates one
    Client,          \* threads that run the HTTP routes
    Handled,         \* the job types register_handler was called for
    Offered,         \* the <<type, repo>> pairs the clients submit
    FollowUp,        \* the <<type, repo>> pairs the handlers submit
    MaxRequests,     \* bound: how many submissions the clients make
    RowWritesFail,   \* may create_or_update_job raise (Neo4j unreachable)?
    MayStop,         \* may stop() be called (the lifespan's shutdown)?
    MayEnd,          \* may the process end and a new one start?
    PromptEpilogue   \* timing: see AcquireShared

IngestLane == {"ingest", "refresh", "ingest_upload"}
LinkerLane == {"repo_delete", "link_full", "link_delta"}
JobType == IngestLane \cup LinkerLane
NoDedup == {"ingest_upload"}

Worker == IngestWorker \cup LinkerWorker
Caller == Client \cup Worker
\* A handler submits at most one follow-up job.
MaxId == IF FollowUp = {} THEN MaxRequests ELSE 2 * MaxRequests
JobId == 1 .. MaxId
NoId == 0

Key == JobType \X Repo
Job == [id : JobId, type : JobType, repo : Repo]
NoJob == [id |-> NoId, type |-> "none", repo |-> "none"]
Sentinel == [id |-> NoId, type |-> "sentinel", repo |-> "none"]
NoWorker == "nobody"

Row(job, status) == [status |-> status, repo |-> job.repo]
NoRow == [status |-> "absent", repo |-> "none"]

ASSUME QueueAssumption ==
    /\ IngestWorker \cap LinkerWorker = {}
    /\ Worker \cap Client = {}
    /\ NoWorker \notin Worker
    /\ IsFiniteSet(Worker)
    /\ Handled \subseteq JobType
    /\ Offered \subseteq Key
    /\ FollowUp \subseteq Key
    /\ MaxRequests \in Nat
    /\ {RowWritesFail, MayStop, MayEnd, PromptEpilogue} \subseteq BOOLEAN

VARIABLES
    issued,          \* how many job ids have been handed out
    requests,        \* how many submissions the clients have made
    pending,         \* self._pending
    submitting,      \* the job a caller has in _pending and not yet on a lane
    lane,            \* self._ingest_q and self._linker_q
    held,            \* the job a worker took
    at,              \* where in _worker's loop each thread is
    readers, writers,\* self._graph_lock
    repoOwner,       \* self._repo_locks: who is inside repo_lock(repo_id)
    rows,            \* IngestionJob rows: what GET /api/jobs/{job_id} reports
    phase            \* "up", or "stopping" once stop() has been called

locks == <<readers, writers, repoOwner>>
tables == <<issued, requests, pending, submitting>>
threads == <<held, at>>
queueVars == <<tables, lane, threads, locks, rows, phase>>

Lock == INSTANCE ReadWriteLock WITH Thread <- Worker

Places == {"get", "unhandled", "lock", "repo", "run", "except",
           "finish", "dying", "gone"}
Statuses == {"absent", "queued", "running", "completed", "failed"}
Ended == {"completed", "failed"}

Lanes == {"ingest", "linker"}
LaneOf(type) == IF type \in IngestLane THEN "ingest" ELSE "linker"
ThreadsOf(l) == IF l = "ingest" THEN IngestWorker ELSE LinkerWorker
LaneFor(w) == IF w \in IngestWorker THEN "ingest" ELSE "linker"
KeyOf(j) == <<j.type, j.repo>>

\* What __init__ of a new process starts from.
NonePending == [k \in Key |-> NoId]
NoneSubmitting == [c \in Caller |-> NoJob]
EmptyLanes == [l \in Lanes |-> <<>>]
NoneHeld == [w \in Worker |-> NoJob]
AllWaiting == [w \in Worker |-> "get"]
NoneOwned == [r \in Repo |-> NoWorker]

QueueInit ==
    /\ issued = 0
    /\ requests = 0
    /\ pending = NonePending
    /\ submitting = NoneSubmitting
    /\ lane = EmptyLanes
    /\ held = NoneHeld
    /\ at = AllWaiting
    /\ Lock!LockInit
    /\ repoOwner = NoneOwned
    /\ phase = "up"
    /\ rows = [i \in JobId |-> NoRow]

------------------------------------------------------------------------------
\* submit(): the first half runs under _pending_lock, the second outside it.

\* Mutant: only jobs of the ingest lane coalesce.
Coalesces_IngestsOnly(k) == pending[k] # NoId /\ k[1] \in IngestLane \ NoDedup

Coalesces(k) == pending[k] # NoId /\ k[1] \notin NoDedup

Register(c, k) ==
    /\ submitting[c] = NoJob
    /\ ~Coalesces(k)
    /\ issued < MaxId
    /\ issued' = issued + 1
    /\ pending' = [pending EXCEPT ![k] = issued + 1]
    /\ submitting' = [submitting EXCEPT ![c] =
                        [id |-> issued + 1, type |-> k[1], repo |-> k[2]]]

\* An identical job is pending: its id is returned and nothing is queued.
Coalesce(c, k) ==
    /\ submitting[c] = NoJob
    /\ Coalesces(k)
    /\ UNCHANGED <<issued, pending, submitting>>

ClientSubmits(c) ==
    /\ phase = "up"
    /\ requests < MaxRequests
    /\ requests' = requests + 1
    /\ \E k \in Offered : Register(c, k) \/ Coalesce(c, k)
    /\ UNCHANGED <<lane, threads, locks, rows, phase>>

\* The job's row is written, then the job is put on its lane.
Enqueue(c) ==
    LET job == submitting[c] IN
    /\ job # NoJob
    /\ rows' = [rows EXCEPT ![job.id] = Row(job, "queued")]
    /\ lane' = [lane EXCEPT ![LaneOf(job.type)] = Append(@, job)]
    /\ submitting' = [submitting EXCEPT ![c] = NoJob]
    /\ UNCHANGED <<issued, requests, pending, threads, locks, phase>>

\* Leaving the with-blocks gives back the repository's mutex and the graph lock.
LeaveLocks(w) ==
    /\ readers' = readers \ {w}
    /\ writers' = writers \ {w}
    /\ repoOwner' = [r \in Repo |-> IF repoOwner[r] = w THEN NoWorker
                                    ELSE repoOwner[r]]

\* create_or_update_job raises out of submit(): a route answers 500, a handler
\* that was submitting raises in its turn.
EnqueueFails(c) ==
    /\ RowWritesFail
    /\ submitting[c] # NoJob
    /\ submitting' = [submitting EXCEPT ![c] = NoJob]
    /\ IF c \in Client
       THEN UNCHANGED <<at, locks>>
       ELSE at' = [at EXCEPT ![c] = "except"] /\ LeaveLocks(c)
    /\ UNCHANGED <<issued, requests, pending, lane, held, rows, phase>>

------------------------------------------------------------------------------
\* _worker(): one thread's loop.

Take(w) ==
    LET queue == lane[LaneFor(w)] job == Head(queue) IN
    /\ at[w] = "get"
    /\ queue # <<>>
    /\ job # Sentinel
    /\ lane' = [lane EXCEPT ![LaneFor(w)] = Tail(queue)]
    /\ held' = [held EXCEPT ![w] = job]
    /\ at' = [at EXCEPT ![w] = IF job.type \in Handled THEN "lock" ELSE "unhandled"]
    /\ UNCHANGED <<tables, locks, rows, phase>>

TakeSentinel(w) ==
    LET queue == lane[LaneFor(w)] IN
    /\ at[w] = "get"
    /\ queue # <<>>
    /\ Head(queue) = Sentinel
    /\ lane' = [lane EXCEPT ![LaneFor(w)] = Tail(queue)]
    /\ at' = [at EXCEPT ![w] = "gone"]
    /\ UNCHANGED <<tables, held, locks, rows, phase>>

\* Mutant: a crash is logged and the row left as it is.
MarkFailed_LogsOnly(w) ==
    /\ at[w] \in {"unhandled", "except"}
    /\ at' = [at EXCEPT ![w] = "finish"]
    /\ UNCHANGED <<tables, lane, held, locks, rows, phase>>

\* The except clause and the no-handler branch both mark the job failed.  That
\* write may raise: the except clause's finally still runs before the thread
\* dies ("dying"), the no-handler branch has none.
MarkFailed(w) ==
    /\ at[w] \in {"unhandled", "except"}
    /\ \/ /\ rows' = [rows EXCEPT ![held[w].id] = Row(held[w], "failed")]
          /\ at' = [at EXCEPT ![w] = "finish"]
          /\ UNCHANGED held
       \/ /\ RowWritesFail /\ at[w] = "except"
          /\ at' = [at EXCEPT ![w] = "dying"]
          /\ UNCHANGED <<rows, held>>
       \/ /\ RowWritesFail /\ at[w] = "unhandled"
          /\ at' = [at EXCEPT ![w] = "gone"]
          /\ held' = [held EXCEPT ![w] = NoJob]
          /\ UNCHANGED rows
    /\ UNCHANGED <<tables, lane, locks, phase>>

\* Before a handler of the ingest lane: graph_lock.shared(), then repo_lock.
\* PromptEpilogue assumes that the linker thread, having left the graph lock,
\* finishes its loop's epilogue before an ingest gets through a whole handler.
AcquireShared(w) ==
    /\ at[w] = "lock" /\ held[w].type \in IngestLane
    /\ PromptEpilogue => \A v \in LinkerWorker : at[v] \notin {"except", "finish", "dying"}
    /\ Lock!AcquireShared(w)
    /\ at' = [at EXCEPT ![w] = "repo"]
    /\ UNCHANGED <<tables, lane, held, repoOwner, rows, phase>>

\* Mutant: every caller of repo_lock gets a lock of its own.
AcquireRepo_FreshLock(w) ==
    /\ at[w] = "repo"
    /\ repoOwner' = [repoOwner EXCEPT ![held[w].repo] = w]
    /\ at' = [at EXCEPT ![w] = "run"]
    /\ UNCHANGED <<tables, lane, held, readers, writers, rows, phase>>

AcquireRepo(w) ==
    /\ at[w] = "repo"
    /\ repoOwner[held[w].repo] = NoWorker
    /\ repoOwner' = [repoOwner EXCEPT ![held[w].repo] = w]
    /\ at' = [at EXCEPT ![w] = "run"]
    /\ UNCHANGED <<tables, lane, held, readers, writers, rows, phase>>

\* Mutant: the linker lane waits for other linker work only.
AcquireExclusive_IgnoresReaders(w) ==
    /\ at[w] = "lock" /\ held[w].type \in LinkerLane
    /\ writers = {}
    /\ writers' = {w}
    /\ at' = [at EXCEPT ![w] = "run"]
    /\ UNCHANGED <<tables, lane, held, readers, repoOwner, rows, phase>>

AcquireExclusive(w) ==
    /\ at[w] = "lock" /\ held[w].type \in LinkerLane
    /\ Lock!AcquireExclusive(w)
    /\ at' = [at EXCEPT ![w] = "run"]
    /\ UNCHANGED <<tables, lane, held, repoOwner, rows, phase>>

\* Mutant: the entry of a job that crashed is never dropped.
Finish_OnSuccessOnly(w) ==
    LET job == held[w] IN
    /\ at[w] \in {"finish", "dying"}
    /\ pending' = [pending EXCEPT ![KeyOf(job)] =
                     IF @ = job.id /\ rows[job.id].status = "completed" THEN NoId ELSE @]
    /\ held' = [held EXCEPT ![w] = NoJob]
    /\ at' = [at EXCEPT ![w] = IF @ = "finish" THEN "get" ELSE "gone"]
    /\ UNCHANGED <<issued, requests, submitting, lane, locks, rows, phase>>

\* _finish_pending(): the entry is dropped only if it is still this job's.
Finish(w) ==
    LET job == held[w] IN
    /\ at[w] \in {"finish", "dying"}
    /\ pending' = [pending EXCEPT ![KeyOf(job)] = IF @ = job.id THEN NoId ELSE @]
    /\ held' = [held EXCEPT ![w] = NoJob]
    /\ at' = [at EXCEPT ![w] = IF @ = "finish" THEN "get" ELSE "gone"]
    /\ UNCHANGED <<issued, requests, submitting, lane, locks, rows, phase>>

------------------------------------------------------------------------------
\* What a handler may do to the queue and the job rows while it runs.

Running(w) == at[w] = "run" /\ submitting[w] = NoJob

\* create_or_update_job from the handler or its pipeline; nothing follows an end.
HandlerReports(w, status) ==
    /\ Running(w)
    /\ rows[held[w].id].status \notin Ended
    /\ rows' = [rows EXCEPT ![held[w].id] = Row(held[w], status)]
    /\ UNCHANGED <<tables, lane, threads, locks, phase>>

\* clear_repo_graph deletes every job row of the repository, its own included.
HandlerDropsRows(w) ==
    /\ Running(w)
    /\ rows[held[w].id].status \notin Ended
    /\ rows' = [i \in JobId |-> IF rows[i].repo = held[w].repo THEN NoRow ELSE rows[i]]
    /\ UNCHANGED <<tables, lane, threads, locks, phase>>

HandlerSubmits(w) ==
    /\ Running(w)
    /\ \E k \in FollowUp : Register(w, k) \/ Coalesce(w, k)
    /\ UNCHANGED <<requests, lane, threads, locks, rows, phase>>

\* Every handler reports an end before it returns.
HandlerReturns(w) ==
    /\ Running(w)
    /\ rows[held[w].id].status \in Ended
    /\ at' = [at EXCEPT ![w] = "finish"]
    /\ LeaveLocks(w)
    /\ UNCHANGED <<tables, lane, held, rows, phase>>

HandlerRaises(w) ==
    /\ Running(w)
    /\ at' = [at EXCEPT ![w] = "except"]
    /\ LeaveLocks(w)
    /\ UNCHANGED <<tables, lane, held, rows, phase>>

------------------------------------------------------------------------------
\* stop() of the lifespan: one sentinel per thread, behind what is queued.  The
\* routes have answered by then; handlers still submit.
Sentinels(n) == [i \in 1 .. n |-> Sentinel]

\* Mutant: one sentinel per lane, whatever the number of its threads.
Stop_OnePerLane ==
    /\ MayStop
    /\ phase = "up"
    /\ \A c \in Client : submitting[c] = NoJob
    /\ phase' = "stopping"
    /\ lane' = [l \in Lanes |-> Append(lane[l], Sentinel)]
    /\ UNCHANGED <<tables, threads, locks, rows>>

Stop ==
    /\ MayStop
    /\ phase = "up"
    /\ \A c \in Client : submitting[c] = NoJob
    /\ phase' = "stopping"
    /\ lane' = [l \in Lanes |-> lane[l] \o Sentinels(Cardinality(ThreadsOf(l)))]
    /\ UNCHANGED <<tables, threads, locks, rows>>

\* The process ends (after stop(), whose join times out after 30 s, or in a
\* crash: the threads are daemons) and a new one starts.  The queue is gone;
\* reap_stale_jobs fails the rows it finds, unless Neo4j is not ready yet.
Restart ==
    /\ MayEnd
    /\ pending' = NonePending
    /\ submitting' = NoneSubmitting
    /\ lane' = EmptyLanes
    /\ held' = NoneHeld
    /\ at' = AllWaiting
    /\ readers' = {} /\ writers' = {}
    /\ repoOwner' = NoneOwned
    /\ phase' = "up"
    /\ \/ rows' = [i \in JobId |-> IF rows[i].status \in {"queued", "running"}
                                   THEN [rows[i] EXCEPT !.status = "failed"]
                                   ELSE rows[i]]
       \/ RowWritesFail /\ UNCHANGED rows
    /\ UNCHANGED <<issued, requests>>

\* Every thread is gone or blocked in get() on an empty lane.
Idle ==
    /\ \A w \in Worker : at[w] = "gone" \/ (at[w] = "get" /\ lane[LaneFor(w)] = <<>>)
    /\ UNCHANGED queueVars

Loop(w) ==
    \/ Take(w)
    \/ TakeSentinel(w)
    \/ MarkFailed(w)
    \/ AcquireShared(w)
    \/ AcquireRepo(w)
    \/ AcquireExclusive(w)
    \/ Finish(w)

HandlerStep(w) ==
    \/ \E status \in {"running", "completed", "failed"} : HandlerReports(w, status)
    \/ HandlerDropsRows(w)
    \/ HandlerSubmits(w)
    \/ HandlerReturns(w)
    \/ HandlerRaises(w)

QueueNext ==
    \/ \E c \in Client : ClientSubmits(c)
    \/ \E c \in Caller : Enqueue(c) \/ EnqueueFails(c)
    \/ \E w \in Worker : Loop(w) \/ HandlerStep(w)
    \/ Stop
    \/ Restart
    \/ Idle

QueueSpec == QueueInit /\ [][QueueNext]_queueVars

\* Threads run, queued submissions go through and handlers end (the clone, the
\* git calls and each parse have timeouts).  Clients, faults, stop() and the end
\* of the process are not owed.
HandlerEnds(w) ==
    \/ \E status \in Ended : HandlerReports(w, status)
    \/ HandlerReturns(w)

QueueFairness ==
    /\ \A c \in Caller : WF_queueVars(Enqueue(c))
    /\ \A w \in Worker : WF_queueVars(Loop(w)) /\ WF_queueVars(HandlerEnds(w))

FairQueueSpec == QueueSpec /\ QueueFairness

------------------------------------------------------------------------------
QueueTypeOK ==
    /\ issued \in 0 .. MaxId
    /\ requests \in 0 .. MaxRequests
    /\ pending \in [Key -> JobId \cup {NoId}]
    /\ submitting \in [Caller -> Job \cup {NoJob}]
    /\ lane \in [Lanes -> Seq(Job \cup {Sentinel})]
    /\ held \in [Worker -> Job \cup {NoJob}]
    /\ at \in [Worker -> Places]
    /\ readers \subseteq Worker /\ writers \subseteq Worker
    /\ repoOwner \in [Repo -> Worker \cup {NoWorker}]
    /\ rows \in [JobId -> [status : Statuses \ {"absent"}, repo : Repo] \cup {NoRow}]
    /\ phase \in {"up", "stopping"}

\* A linker run or a delete never overlaps another handler: the graph it
\* snapshots is nobody's half-written work (_GraphLock, job_queue.py:45-51).
LinkerRunsAlone ==
    \A w, v \in Worker :
        at[w] = "run" /\ held[w].type \in LinkerLane /\ at[v] = "run" => v = w

\* Two ingests of one repository never run together, whatever their type: they
\* share a clone directory and a subgraph (repo_lock, job_queue.py:183-187).
RepoRunsSerially ==
    \A w, v \in Worker :
        /\ at[w] = "run" /\ at[v] = "run"
        /\ held[w].repo = held[v].repo
        => w = v

JobsOnLanes == (UNION {ToSet(lane[l]) : l \in Lanes}) \ {Sentinel}
JobsHeld == {held[w] : w \in Worker} \ {NoJob}
JobsSubmitting == {submitting[c] : c \in Caller} \ {NoJob}
Live == JobsOnLanes \cup JobsHeld \cup JobsSubmitting

\* Coalescing keeps one live job per type and repository, uploads excepted: a
\* second bundle is never dropped and a second link run never queued.
OneLiveJobPerKey ==
    \A i, j \in Live : KeyOf(i) = KeyOf(j) /\ i.type \notin NoDedup => i = j

\* A submission is answered with the id of a job that will run or is running,
\* so what submit() coalesces onto is never a job that is over or never was.
PendingIsLive ==
    \A k \in Key : pending[k] # NoId => \E j \in Live : j.id = pending[k] /\ KeyOf(j) = k

\* docs/api.md: poll a job until its status is completed or failed.  A queued
\* job gets there as long as the process runs on.
QueuedJobsEnd ==
    \A i \in JobId :
        rows[i].status = "queued" ~> rows[i].status \in Ended \/ phase = "stopping"

\* stop() drains: each thread finishes the jobs queued before its sentinel and
\* returns, unless the process ends first.
StopDrains ==
    phase = "stopping" ~> phase = "up" \/ \A w \in Worker : at[w] = "gone"
==============================================================================
