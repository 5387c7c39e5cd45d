----------------------------- MODULE JobQueueProof -----------------------------
(***************************************************************************)
(* For any workers, clients, repositories and bounds: the queue's types, a *)
(* linker job runs alone, and one repository is ingested by one worker at  *)
(* a time.  The invariant that carries them says which locks a thread has  *)
(* at each place of its loop, and that a thread past get() has a job.      *)
(***************************************************************************)
EXTENDS JobQueue, FiniteSetTheorems, TLAPS

\* Between get() and _finish_pending a thread has a job, and only a thread inside
\* a handler has a submission under way.
WorkersHoldJobs ==
    \A w \in Worker :
        /\ at[w] \notin {"get", "gone"} => held[w] \in Job
        /\ at[w] = "repo" => held[w].type \in IngestLane
        /\ submitting[w] # NoJob => at[w] = "run"

\* Exactly the threads inside a with-block have its lock.
LocksMatchPlaces ==
    \A w \in Worker :
        /\ w \in readers <=> at[w] \in {"repo", "run"} /\ held[w].type \in IngestLane
        /\ w \in writers <=> at[w] = "run" /\ held[w].type \in LinkerLane
        /\ \A r \in Repo :
               repoOwner[r] = w <=>
                   at[w] = "run" /\ held[w].type \in IngestLane /\ held[w].repo = r

ReadersOrWriter ==
    /\ readers = {} \/ writers = {}
    /\ \A w, v \in writers : w = v

QInv == QueueTypeOK /\ WorkersHoldJobs /\ LocksMatchPlaces /\ ReadersOrWriter

------------------------------------------------------------------------------
LEMMA MaxIdNat == MaxId \in Nat /\ JobId \subseteq Nat
BY QueueAssumption DEF MaxId, JobId

LEMMA NobodyIsNoWorker == NoWorker \notin Worker
BY QueueAssumption

LEMMA InitQInv == QueueInit => QInv
<1> SUFFICES ASSUME QueueInit PROVE QInv
    OBVIOUS
<1>1. QueueTypeOK
    BY MaxIdNat, QueueAssumption
    DEF QueueInit, QueueTypeOK, NonePending, NoneSubmitting, EmptyLanes, NoneHeld, AllWaiting,
        NoneOwned, Lock!LockInit, Places, Statuses
<1>2. WorkersHoldJobs
    BY DEF QueueInit, WorkersHoldJobs, AllWaiting, NoneSubmitting, Caller
<1>3. LocksMatchPlaces
    BY NobodyIsNoWorker DEF QueueInit, LocksMatchPlaces, AllWaiting, NoneOwned, Lock!LockInit
<1>4. ReadersOrWriter
    BY DEF QueueInit, ReadersOrWriter, Lock!LockInit
<1> QED
    BY <1>1, <1>2, <1>3, <1>4 DEF QInv

\* The locks and the places they match are untouched by what leaves them alone.
LEMMA LocksKept ==
    ASSUME QInv, UNCHANGED <<locks, threads>>
    PROVE  LocksMatchPlaces' /\ ReadersOrWriter'
BY DEF QInv, locks, threads, LocksMatchPlaces, ReadersOrWriter

\* submit()'s first half gives the submitter a well-formed job.
LEMMA RegisterTypes ==
    ASSUME QInv, NEW c \in Caller, NEW k \in Key, Register(c, k) \/ Coalesce(c, k)
    PROVE  /\ issued' \in 0 .. MaxId
           /\ pending' \in [Key -> JobId \cup {NoId}]
           /\ submitting' \in [Caller -> Job \cup {NoJob}]
           /\ \A d \in Caller : d # c => submitting'[d] = submitting[d]
<1>1. CASE Register(c, k)
    <2>1. issued + 1 \in JobId
        BY <1>1, MaxIdNat DEF Register, QInv, QueueTypeOK, JobId
    <2>2. [id |-> issued + 1, type |-> k[1], repo |-> k[2]] \in Job
        BY <2>1 DEF Key, Job
    <2> QED
        BY <1>1, <2>1, <2>2, MaxIdNat DEF Register, QInv, QueueTypeOK, JobId
<1>2. CASE Coalesce(c, k)
    BY <1>2 DEF Coalesce, QInv, QueueTypeOK
<1> QED
    BY <1>1, <1>2

LEMMA ClientSubmitsKeeps ==
    ASSUME QInv, NEW c \in Client, ClientSubmits(c) PROVE QInv'
<1>1. PICK k \in Offered : Register(c, k) \/ Coalesce(c, k)
    BY DEF ClientSubmits
<1>2. k \in Key /\ c \in Caller /\ c \notin Worker
    BY <1>1, QueueAssumption DEF Caller
<1>3. QueueTypeOK'
    BY <1>1, <1>2, RegisterTypes, QueueAssumption
    DEF ClientSubmits, QInv, QueueTypeOK, threads, locks
<1>4. WorkersHoldJobs'
    BY <1>1, <1>2, RegisterTypes DEF ClientSubmits, QInv, WorkersHoldJobs, threads, Caller
<1> QED
    BY <1>3, <1>4, LocksKept DEF ClientSubmits, QInv

LEMMA EnqueueKeeps ==
    ASSUME QInv, NEW c \in Caller, Enqueue(c) PROVE QInv'
<1> DEFINE job == submitting[c]
<1>1. job \in Job
    BY DEF QInv, QueueTypeOK, Enqueue
<1>2. LaneOf(job.type) \in Lanes
    BY DEF LaneOf, Lanes
<1>3. Row(job, "queued") \in [status : Statuses \ {"absent"}, repo : Repo]
    BY <1>1 DEF Row, Job, Statuses
<1>4. rows' \in [JobId -> [status : Statuses \ {"absent"}, repo : Repo] \cup {NoRow}]
    BY <1>1, <1>3 DEF Enqueue, QInv, QueueTypeOK
<1>5. lane' \in [Lanes -> Seq(Job \cup {Sentinel})]
    BY <1>1, <1>2 DEF Enqueue, QInv, QueueTypeOK
<1>6. QueueTypeOK'
    BY <1>4, <1>5 DEF Enqueue, QInv, QueueTypeOK, threads, locks
<1>7. WorkersHoldJobs'
    BY DEF Enqueue, QInv, QueueTypeOK, WorkersHoldJobs, threads, Caller
<1> QED
    BY <1>6, <1>7, LocksKept DEF Enqueue, QInv

\* Leaving the with-blocks of a handler, to a place where none is held.
LEMMA LeavingKeeps ==
    ASSUME QInv, NEW w \in Worker, NEW p \in {"except", "finish"},
           at[w] = "run", LeaveLocks(w), at' = [at EXCEPT ![w] = p], held' = held
    PROVE  /\ LocksMatchPlaces'
           /\ ReadersOrWriter'
           /\ readers' \subseteq Worker /\ writers' \subseteq Worker
           /\ repoOwner' \in [Repo -> Worker \cup {NoWorker}]
           /\ at' \in [Worker -> Places]
<1>1. /\ readers' \subseteq Worker /\ writers' \subseteq Worker
      /\ repoOwner' \in [Repo -> Worker \cup {NoWorker}]
      /\ at' \in [Worker -> Places]
    BY DEF LeaveLocks, QInv, QueueTypeOK, Places
<1>2. LocksMatchPlaces'
    BY NobodyIsNoWorker DEF LeaveLocks, QInv, QueueTypeOK, LocksMatchPlaces
<1>3. ReadersOrWriter'
    BY DEF LeaveLocks, QInv, ReadersOrWriter
<1> QED
    BY <1>1, <1>2, <1>3

LEMMA EnqueueFailsKeeps ==
    ASSUME QInv, NEW c \in Caller, EnqueueFails(c) PROVE QInv'
<1>1. submitting' \in [Caller -> Job \cup {NoJob}]
    BY DEF EnqueueFails, QInv, QueueTypeOK
<1>2. CASE c \in Client
    <2>1. QueueTypeOK'
        BY <1>1, <1>2 DEF EnqueueFails, QInv, QueueTypeOK, locks
    <2>2. WorkersHoldJobs'
        BY <1>2 DEF EnqueueFails, QInv, QueueTypeOK, WorkersHoldJobs, Caller
    <2> QED
        BY <1>2, <2>1, <2>2, LocksKept DEF EnqueueFails, QInv, threads
<1>3. CASE c \notin Client
    <2>1. c \in Worker /\ at[c] = "run" /\ held[c] \in Job
        BY <1>3 DEF Caller, EnqueueFails, QInv, WorkersHoldJobs
    <2>2. LeaveLocks(c) /\ at' = [at EXCEPT ![c] = "except"] /\ held' = held
        BY <1>3 DEF EnqueueFails
    <2>3. /\ LocksMatchPlaces' /\ ReadersOrWriter'
          /\ readers' \subseteq Worker /\ writers' \subseteq Worker
          /\ repoOwner' \in [Repo -> Worker \cup {NoWorker}]
          /\ at' \in [Worker -> Places]
        BY <2>1, <2>2, LeavingKeeps
    <2>4. QueueTypeOK'
        BY <1>1, <2>3 DEF EnqueueFails, QInv, QueueTypeOK
    <2>5. WorkersHoldJobs'
        BY <2>1, <2>2 DEF EnqueueFails, QInv, QueueTypeOK, WorkersHoldJobs, Caller
    <2> QED
        BY <2>3, <2>4, <2>5 DEF QInv
<1> QED
    BY <1>2, <1>3

------------------------------------------------------------------------------
LEMMA TakeKeeps ==
    ASSUME QInv, NEW w \in Worker, Take(w) PROVE QInv'
<1> DEFINE queue == lane[LaneFor(w)]
           job == Head(queue)
<1>1. LaneFor(w) \in Lanes
    BY DEF LaneFor, Lanes
<1>2. queue \in Seq(Job \cup {Sentinel}) /\ queue # <<>> /\ job # Sentinel
    BY <1>1 DEF Take, QInv, QueueTypeOK
<1>3. job \in Job /\ Tail(queue) \in Seq(Job \cup {Sentinel})
    BY <1>2
<1>4. QueueTypeOK'
    BY <1>1, <1>3 DEF Take, QInv, QueueTypeOK, Places, tables, locks
<1>5. WorkersHoldJobs'
    BY <1>3 DEF Take, QInv, QueueTypeOK, WorkersHoldJobs, tables
<1>6. LocksMatchPlaces'
    BY DEF Take, QInv, QueueTypeOK, LocksMatchPlaces, locks
<1>7. ReadersOrWriter'
    BY DEF Take, QInv, ReadersOrWriter, locks
<1> QED
    BY <1>4, <1>5, <1>6, <1>7 DEF QInv

LEMMA TakeSentinelKeeps ==
    ASSUME QInv, NEW w \in Worker, TakeSentinel(w) PROVE QInv'
<1>1. LaneFor(w) \in Lanes
    BY DEF LaneFor, Lanes
<1>2. Tail(lane[LaneFor(w)]) \in Seq(Job \cup {Sentinel})
    BY <1>1 DEF TakeSentinel, QInv, QueueTypeOK
<1>3. QueueTypeOK'
    BY <1>1, <1>2 DEF TakeSentinel, QInv, QueueTypeOK, Places, tables, locks
<1>4. WorkersHoldJobs'
    BY DEF TakeSentinel, QInv, QueueTypeOK, WorkersHoldJobs, tables
<1>5. LocksMatchPlaces'
    BY DEF TakeSentinel, QInv, QueueTypeOK, LocksMatchPlaces, locks
<1>6. ReadersOrWriter'
    BY DEF TakeSentinel, QInv, ReadersOrWriter, locks
<1> QED
    BY <1>3, <1>4, <1>5, <1>6 DEF QInv

\* A thread at any place past get() may write its own job's row.
LEMMA RowTypes ==
    ASSUME QInv, NEW w \in Worker, at[w] \notin {"get", "gone"},
           NEW status \in Statuses \ {"absent"},
           rows' = [rows EXCEPT ![held[w].id] = Row(held[w], status)]
    PROVE  rows' \in [JobId -> [status : Statuses \ {"absent"}, repo : Repo] \cup {NoRow}]
<1>1. held[w] \in Job
    BY DEF QInv, WorkersHoldJobs
<1>2. Row(held[w], status) \in [status : Statuses \ {"absent"}, repo : Repo]
    BY <1>1 DEF Row, Job
<1> QED
    BY <1>1, <1>2 DEF QInv, QueueTypeOK

LEMMA MarkFailedKeeps ==
    ASSUME QInv, NEW w \in Worker, MarkFailed(w) PROVE QInv'
<1>1. rows' \in [JobId -> [status : Statuses \ {"absent"}, repo : Repo] \cup {NoRow}]
    BY RowTypes DEF MarkFailed, QInv, QueueTypeOK, Statuses
<1>2. QueueTypeOK'
    BY <1>1 DEF MarkFailed, QInv, QueueTypeOK, Places, tables, locks
<1>3. WorkersHoldJobs'
    BY DEF MarkFailed, QInv, QueueTypeOK, WorkersHoldJobs, tables
<1>4. LocksMatchPlaces'
    BY DEF MarkFailed, QInv, QueueTypeOK, LocksMatchPlaces, locks
<1>5. ReadersOrWriter'
    BY DEF MarkFailed, QInv, ReadersOrWriter, locks
<1> QED
    BY <1>2, <1>3, <1>4, <1>5 DEF QInv

LEMMA AcquireSharedKeeps ==
    ASSUME QInv, NEW w \in Worker, AcquireShared(w) PROVE QInv'
<1>1. QueueTypeOK'
    BY DEF AcquireShared, Lock!AcquireShared, QInv, QueueTypeOK, Places, tables
<1>2. WorkersHoldJobs'
    BY DEF AcquireShared, QInv, QueueTypeOK, WorkersHoldJobs, tables
<1>3. LocksMatchPlaces'
    BY DEF AcquireShared, Lock!AcquireShared, QInv, QueueTypeOK, LocksMatchPlaces
<1>4. ReadersOrWriter'
    BY DEF AcquireShared, Lock!AcquireShared, QInv, ReadersOrWriter
<1> QED
    BY <1>1, <1>2, <1>3, <1>4 DEF QInv

LEMMA AcquireRepoKeeps ==
    ASSUME QInv, NEW w \in Worker, AcquireRepo(w) PROVE QInv'
<1>1. held[w] \in Job /\ held[w].repo \in Repo /\ held[w].type \in IngestLane
    BY DEF AcquireRepo, QInv, WorkersHoldJobs, Job
<1>2. QueueTypeOK'
    BY <1>1 DEF AcquireRepo, QInv, QueueTypeOK, Places, tables
<1>3. WorkersHoldJobs'
    BY DEF AcquireRepo, QInv, QueueTypeOK, WorkersHoldJobs, tables
<1>4. LocksMatchPlaces'
    BY <1>1, NobodyIsNoWorker
    DEF AcquireRepo, QInv, QueueTypeOK, LocksMatchPlaces, IngestLane, LinkerLane
<1>5. ReadersOrWriter'
    BY DEF AcquireRepo, QInv, ReadersOrWriter
<1> QED
    BY <1>2, <1>3, <1>4, <1>5 DEF QInv

LEMMA AcquireExclusiveKeeps ==
    ASSUME QInv, NEW w \in Worker, AcquireExclusive(w) PROVE QInv'
<1>1. QueueTypeOK'
    BY DEF AcquireExclusive, Lock!AcquireExclusive, QInv, QueueTypeOK, Places, tables
<1>2. WorkersHoldJobs'
    BY DEF AcquireExclusive, QInv, QueueTypeOK, WorkersHoldJobs, tables
<1>3. LocksMatchPlaces'
    BY DEF AcquireExclusive, Lock!AcquireExclusive, QInv, QueueTypeOK, LocksMatchPlaces,
           IngestLane, LinkerLane
<1>4. ReadersOrWriter'
    BY DEF AcquireExclusive, Lock!AcquireExclusive, QInv, ReadersOrWriter
<1> QED
    BY <1>1, <1>2, <1>3, <1>4 DEF QInv

LEMMA FinishKeeps ==
    ASSUME QInv, NEW w \in Worker, Finish(w) PROVE QInv'
<1>1. held[w] \in Job
    BY DEF Finish, QInv, WorkersHoldJobs
<1>2. KeyOf(held[w]) \in Key
    BY <1>1 DEF KeyOf, Key, Job
<1>3. QueueTypeOK'
    BY <1>2 DEF Finish, QInv, QueueTypeOK, Places, locks
<1>4. WorkersHoldJobs'
    BY DEF Finish, QInv, QueueTypeOK, WorkersHoldJobs
<1>5. LocksMatchPlaces'
    BY DEF Finish, QInv, QueueTypeOK, LocksMatchPlaces, locks
<1>6. ReadersOrWriter'
    BY DEF Finish, QInv, ReadersOrWriter, locks
<1> QED
    BY <1>3, <1>4, <1>5, <1>6 DEF QInv

LEMMA LoopKeeps ==
    ASSUME QInv, NEW w \in Worker, Loop(w) PROVE QInv'
BY TakeKeeps, TakeSentinelKeeps, MarkFailedKeeps, AcquireSharedKeeps, AcquireRepoKeeps,
   AcquireExclusiveKeeps, FinishKeeps DEF Loop

------------------------------------------------------------------------------
LEMMA HandlerReportsKeeps ==
    ASSUME QInv, NEW w \in Worker, NEW status \in {"running", "completed", "failed"},
           HandlerReports(w, status)
    PROVE  QInv'
<1>1. rows' \in [JobId -> [status : Statuses \ {"absent"}, repo : Repo] \cup {NoRow}]
    BY RowTypes DEF HandlerReports, Running, Statuses
<1>2. QueueTypeOK'
    BY <1>1 DEF HandlerReports, QInv, QueueTypeOK, tables, threads, locks
<1>3. WorkersHoldJobs'
    BY DEF HandlerReports, QInv, WorkersHoldJobs, tables, threads
<1> QED
    BY <1>2, <1>3, LocksKept DEF HandlerReports, QInv

LEMMA HandlerDropsRowsKeeps ==
    ASSUME QInv, NEW w \in Worker, HandlerDropsRows(w) PROVE QInv'
<1>1. QueueTypeOK'
    BY DEF HandlerDropsRows, QInv, QueueTypeOK, tables, threads, locks
<1>2. WorkersHoldJobs'
    BY DEF HandlerDropsRows, QInv, WorkersHoldJobs, tables, threads
<1> QED
    BY <1>1, <1>2, LocksKept DEF HandlerDropsRows, QInv

LEMMA HandlerSubmitsKeeps ==
    ASSUME QInv, NEW w \in Worker, HandlerSubmits(w) PROVE QInv'
<1>1. PICK k \in FollowUp : Register(w, k) \/ Coalesce(w, k)
    BY DEF HandlerSubmits
<1>2. k \in Key /\ w \in Caller /\ at[w] = "run"
    BY <1>1, QueueAssumption DEF Caller, HandlerSubmits, Running
<1>3. QueueTypeOK'
    BY <1>1, <1>2, RegisterTypes DEF HandlerSubmits, QInv, QueueTypeOK, threads, locks
<1>4. WorkersHoldJobs'
    BY <1>1, <1>2, RegisterTypes DEF HandlerSubmits, QInv, WorkersHoldJobs, threads, Caller
<1> QED
    BY <1>3, <1>4, LocksKept DEF HandlerSubmits, QInv

LEMMA HandlerEndsKeeps ==
    ASSUME QInv, NEW w \in Worker, HandlerReturns(w) \/ HandlerRaises(w) PROVE QInv'
<1>1. PICK p \in {"except", "finish"} : at' = [at EXCEPT ![w] = p]
    BY DEF HandlerReturns, HandlerRaises
<1>2. /\ at[w] = "run" /\ submitting[w] = NoJob
      /\ LeaveLocks(w) /\ UNCHANGED <<tables, lane, held, rows, phase>>
    BY DEF HandlerReturns, HandlerRaises, Running
<1>3. /\ LocksMatchPlaces' /\ ReadersOrWriter'
      /\ readers' \subseteq Worker /\ writers' \subseteq Worker
      /\ repoOwner' \in [Repo -> Worker \cup {NoWorker}]
      /\ at' \in [Worker -> Places]
    BY <1>1, <1>2, LeavingKeeps
<1>4. QueueTypeOK'
    BY <1>2, <1>3 DEF QInv, QueueTypeOK, tables
<1>5. WorkersHoldJobs'
    BY <1>1, <1>2 DEF QInv, QueueTypeOK, WorkersHoldJobs, tables
<1> QED
    BY <1>3, <1>4, <1>5 DEF QInv

LEMMA StopKeeps ==
    ASSUME QInv, Stop PROVE QInv'
<1>1. IsFiniteSet(IngestWorker) /\ IsFiniteSet(LinkerWorker)
    BY QueueAssumption, FS_Subset DEF Worker
<1>2. Cardinality(IngestWorker) \in Nat /\ Cardinality(LinkerWorker) \in Nat
    BY <1>1, FS_CardinalityType
<1>3. \A n \in Nat : Sentinels(n) \in Seq(Job \cup {Sentinel})
    BY DEF Sentinels
<1>4. \A l \in Lanes : lane[l] \o Sentinels(Cardinality(ThreadsOf(l))) \in Seq(Job \cup {Sentinel})
    <2> TAKE l \in Lanes
    <2>1. lane[l] \in Seq(Job \cup {Sentinel})
        BY DEF QInv, QueueTypeOK
    <2>2. Cardinality(ThreadsOf(l)) \in Nat
        BY <1>2 DEF ThreadsOf
    <2> QED
        BY <1>3, <2>1, <2>2
<1>5. lane' \in [Lanes -> Seq(Job \cup {Sentinel})]
    BY <1>4 DEF Stop
<1>6. QueueTypeOK'
    BY <1>5 DEF Stop, QInv, QueueTypeOK, tables, threads, locks
<1>7. WorkersHoldJobs'
    BY DEF Stop, QInv, WorkersHoldJobs, tables, threads
<1> QED
    BY <1>6, <1>7, LocksKept DEF Stop, QInv

LEMMA RestartKeeps ==
    ASSUME QInv, Restart PROVE QInv'
<1>1. rows' \in [JobId -> [status : Statuses \ {"absent"}, repo : Repo] \cup {NoRow}]
    <2> DEFINE Stored == [status : Statuses \ {"absent"}, repo : Repo]
    <2>1. \A row \in Stored : [row EXCEPT !.status = "failed"] \in Stored
        BY DEF Statuses
    <2>2. \A i \in JobId : rows[i] \in Stored \cup {NoRow}
        BY DEF QInv, QueueTypeOK
    <2>3. \A i \in JobId : rows[i].status \in {"queued", "running"} => rows[i] \in Stored
        BY <2>2 DEF NoRow
    <2> HIDE DEF Stored
    <2>4. \A i \in JobId : (IF rows[i].status \in {"queued", "running"}
                            THEN [rows[i] EXCEPT !.status = "failed"] ELSE rows[i])
                           \in Stored \cup {NoRow}
        BY <2>1, <2>2, <2>3
    <2>5. rows' \in [JobId -> Stored \cup {NoRow}]
        BY <2>4 DEF Restart, QInv, QueueTypeOK, Stored
    <2> QED
        BY <2>5 DEF Stored
<1>2. QueueTypeOK'
    BY <1>1 DEF Restart, QInv, QueueTypeOK, NonePending, NoneSubmitting, EmptyLanes, NoneHeld,
                AllWaiting, NoneOwned, Places, Lanes
<1>3. WorkersHoldJobs'
    BY DEF Restart, WorkersHoldJobs, AllWaiting, NoneSubmitting, Caller
<1>4. LocksMatchPlaces'
    BY NobodyIsNoWorker DEF Restart, LocksMatchPlaces, AllWaiting, NoneOwned
<1>5. ReadersOrWriter'
    BY DEF Restart, ReadersOrWriter
<1> QED
    BY <1>2, <1>3, <1>4, <1>5 DEF QInv

LEMMA NextKeepsQInv == QInv /\ [QueueNext]_queueVars => QInv'
<1> SUFFICES ASSUME QInv, [QueueNext]_queueVars PROVE QInv'
    OBVIOUS
<1>1. CASE UNCHANGED queueVars
    BY <1>1 DEF queueVars, tables, threads, locks, QInv, QueueTypeOK, WorkersHoldJobs,
                LocksMatchPlaces, ReadersOrWriter
<1>2. ASSUME NEW w \in Worker, HandlerStep(w) PROVE QInv'
    BY <1>2, HandlerReportsKeeps, HandlerDropsRowsKeeps, HandlerSubmitsKeeps, HandlerEndsKeeps
    DEF HandlerStep
<1>3. CASE Idle
    BY <1>1, <1>3 DEF Idle
<1> QED
    BY <1>1, <1>2, <1>3, ClientSubmitsKeeps, EnqueueKeeps, EnqueueFailsKeeps, LoopKeeps,
       StopKeeps, RestartKeeps DEF QueueNext

\* Every reachable state of the queue satisfies the inductive invariant.
THEOREM QueueInvariant == QueueSpec => []QInv
BY InitQInv, NextKeepsQInv, PTL DEF QueueSpec

\* The queue's variables keep their types.
THEOREM QueueTypes == QueueSpec => []QueueTypeOK
<1>1. QInv => QueueTypeOK
    BY DEF QInv
<1> QED
    BY <1>1, QueueInvariant, PTL

\* A link run or a delete runs while no other handler does: the graph it
\* snapshots is nobody's half-written work.
THEOREM LinkerIsAlone == QueueSpec => []LinkerRunsAlone
<1>1. QInv => LinkerRunsAlone
    BY DEF QInv, WorkersHoldJobs, LocksMatchPlaces, ReadersOrWriter, LinkerRunsAlone, Job,
           JobType
<1> QED
    BY <1>1, QueueInvariant, PTL

\* Two ingests of one repository never overlap, whatever their job types.
THEOREM RepoIsSerial == QueueSpec => []RepoRunsSerially
<1>1. QInv => RepoRunsSerially
    BY DEF QInv, WorkersHoldJobs, LocksMatchPlaces, ReadersOrWriter, RepoRunsSerially, Job,
           JobType
<1> QED
    BY <1>1, QueueInvariant, PTL

------------------------------------------------------------------------------
(***************************************************************************)
(* What submit()'s table of pending jobs is worth: two live jobs never     *)
(* share a type and a repository, uploads excepted, and as long as job     *)
(* rows can be written every entry of the table is a live job.  Both rest  *)
(* on each live job being in exactly one place: on a lane, with a worker,  *)
(* or with the caller that is submitting it.                               *)
(***************************************************************************)

IdsIssued ==
    /\ \A l \in Lanes : \A a \in 1 .. Len(lane[l]) : lane[l][a].id <= issued
    /\ \A w \in Worker : held[w].id <= issued
    /\ \A c \in Caller : submitting[c].id <= issued

OnceOnLanes ==
    \A l, m \in Lanes : \A a \in 1 .. Len(lane[l]), b \in 1 .. Len(lane[m]) :
        lane[l][a].id # NoId /\ lane[l][a].id = lane[m][b].id => l = m /\ a = b

OnceHeld ==
    \A w, v \in Worker : held[w].id # NoId /\ held[w].id = held[v].id => w = v

OnceSubmitting ==
    \A c, d \in Caller :
        submitting[c].id # NoId /\ submitting[c].id = submitting[d].id => c = d

OffLanes ==
    \A l \in Lanes : \A a \in 1 .. Len(lane[l]) :
        lane[l][a].id # NoId =>
            /\ \A w \in Worker : held[w].id # lane[l][a].id
            /\ \A c \in Caller : submitting[c].id # lane[l][a].id

HeldNotSubmitting ==
    \A w \in Worker, c \in Caller : held[w].id # NoId => held[w].id # submitting[c].id

OnePlace == OnceOnLanes /\ OnceHeld /\ OnceSubmitting /\ OffLanes /\ HeldNotSubmitting

\* The table knows every live job that coalesces.
LiveArePending == \A j \in Live : j.type \notin NoDedup => pending[KeyOf(j)] = j.id

\* A thread in get(), or one that has ended, has no job.
EmptyHands == \A w \in Worker : at[w] \in {"get", "gone"} => held[w] = NoJob

CPart == IdsIssued /\ OnePlace /\ LiveArePending
CInv == QInv /\ EmptyHands /\ CPart

------------------------------------------------------------------------------
LEMMA IdsOfJobs ==
    /\ \A j \in Job : j.id \in Nat /\ j.id # NoId /\ j # NoJob /\ j # Sentinel
    /\ NoJob.id = NoId /\ Sentinel.id = NoId
BY MaxIdNat DEF Job, NoJob, Sentinel, NoId, JobId

\* What Append and Tail do to the elements of a lane.
LEMMA AppendElements ==
    ASSUME NEW S, NEW s \in Seq(S), NEW e \in S
    PROVE  /\ Append(s, e) \in Seq(S)
           /\ Len(Append(s, e)) = Len(s) + 1
           /\ \A i \in 1 .. Len(s) : Append(s, e)[i] = s[i]
           /\ Append(s, e)[Len(s) + 1] = e
OBVIOUS

LEMMA TailElements ==
    ASSUME NEW S, NEW s \in Seq(S), s # <<>>
    PROVE  /\ Tail(s) \in Seq(S)
           /\ Len(s) \in Nat \ {0}
           /\ Len(Tail(s)) = Len(s) - 1
           /\ \A i \in 1 .. Len(s) - 1 : Tail(s)[i] = s[i + 1]
           /\ Head(s) = s[1] /\ Head(s) \in S
OBVIOUS

LEMMA ConcatElements ==
    ASSUME NEW S, NEW s \in Seq(S), NEW t \in Seq(S)
    PROVE  /\ Len(s) \in Nat /\ Len(t) \in Nat
           /\ Len(s \o t) = Len(s) + Len(t)
           /\ \A i \in 1 .. Len(s) : i \in 1 .. Len(s \o t) /\ (s \o t)[i] = s[i]
           /\ \A i \in 1 .. Len(s \o t) :
                  i \in 1 .. Len(s) \/ (i - Len(s) \in 1 .. Len(t) /\ (s \o t)[i] = t[i - Len(s)])
OBVIOUS

\* What stands at each place.
LEMMA PlaceTypes ==
    ASSUME QueueTypeOK
    PROVE  /\ \A l \in Lanes : lane[l] \in Seq(Job \cup {Sentinel})
                               /\ DOMAIN lane[l] = 1 .. Len(lane[l])
           /\ \A l \in Lanes : \A a \in 1 .. Len(lane[l]) : lane[l][a] \in Job \cup {Sentinel}
           /\ \A w \in Worker : held[w] \in Job \cup {NoJob}
           /\ \A c \in Caller : submitting[c] \in Job \cup {NoJob}
<1>1. \A l \in Lanes : lane[l] \in Seq(Job \cup {Sentinel}) /\ DOMAIN lane[l] = 1 .. Len(lane[l])
    BY DEF QueueTypeOK
<1>2. \A l \in Lanes : \A a \in 1 .. Len(lane[l]) : lane[l][a] \in Job \cup {Sentinel}
    BY <1>1
<1> QED
    BY <1>1, <1>2 DEF QueueTypeOK

\* Live, place by place.
AtSomePlace(j) ==
    \/ \E l \in Lanes : \E a \in 1 .. Len(lane[l]) : lane[l][a] = j
    \/ \E w \in Worker : held[w] = j
    \/ \E c \in Caller : submitting[c] = j

LEMMA LivePlaces ==
    QueueTypeOK => Live \subseteq Job /\ \A j \in Job : j \in Live <=> AtSomePlace(j)
<1> SUFFICES ASSUME QueueTypeOK
             PROVE  Live \subseteq Job /\ \A j \in Job : j \in Live <=> AtSomePlace(j)
    OBVIOUS
<1>1. JobsOnLanes \subseteq Job /\ \A j \in Job :
          j \in JobsOnLanes <=> \E l \in Lanes : \E a \in 1 .. Len(lane[l]) : lane[l][a] = j
    <2>1. \A j : j \in JobsOnLanes <=>
              j # Sentinel /\ \E l \in Lanes : \E a \in 1 .. Len(lane[l]) : lane[l][a] = j
        BY PlaceTypes DEF ToSet, JobsOnLanes
    <2> QED
        BY <2>1, PlaceTypes, IdsOfJobs
<1>2. JobsHeld \subseteq Job /\ \A j \in Job : j \in JobsHeld <=> \E w \in Worker : held[w] = j
    BY IdsOfJobs DEF JobsHeld, QueueTypeOK
<1>3. JobsSubmitting \subseteq Job /\ \A j \in Job :
          j \in JobsSubmitting <=> \E c \in Caller : submitting[c] = j
    BY IdsOfJobs DEF JobsSubmitting, QueueTypeOK
<1> QED
    BY <1>1, <1>2, <1>3 DEF Live, AtSomePlace

LEMMA LivePlacesNext ==
    QueueTypeOK' => (Live \subseteq Job /\ \A j \in Job : j \in Live <=> AtSomePlace(j))'
BY LivePlaces, PTL

\* A live job is known by its id.
LEMMA OneJobPerId ==
    ASSUME CInv, NEW i \in Live, NEW j \in Live, i.id = j.id
    PROVE  i = j
<1>1. QueueTypeOK /\ i \in Job /\ j \in Job /\ i.id # NoId
    BY LivePlaces, IdsOfJobs DEF CInv, QInv
<1>2. OnceOnLanes /\ OnceHeld /\ OnceSubmitting /\ OffLanes /\ HeldNotSubmitting
    BY DEF CInv, CPart, OnePlace
<1>3. CASE \E l \in Lanes : \E a \in 1 .. Len(lane[l]) : lane[l][a] = i
    BY <1>1, <1>2, <1>3, LivePlaces DEF AtSomePlace, OnceOnLanes, OffLanes
<1>4. CASE \E w \in Worker : held[w] = i
    BY <1>1, <1>2, <1>4, LivePlaces DEF AtSomePlace, OnceHeld, OffLanes, HeldNotSubmitting
<1>5. CASE \E c \in Caller : submitting[c] = i
    BY <1>1, <1>2, <1>5, LivePlaces DEF AtSomePlace, OnceSubmitting, OffLanes, HeldNotSubmitting
<1> QED
    BY <1>1, <1>3, <1>4, <1>5, LivePlaces DEF AtSomePlace

------------------------------------------------------------------------------
\* Steps that move no job.
LEMMA NobodyMoves ==
    ASSUME CInv, UNCHANGED <<issued, pending, submitting, lane, held>>
    PROVE  CPart' /\ (PendingIsLive => PendingIsLive') /\ Live' = Live
<1>1. UNCHANGED Live
    BY DEF Live, JobsOnLanes, JobsHeld, JobsSubmitting
<1> QED
    BY <1>1 DEF CInv, CPart, IdsIssued, OnePlace, OnceOnLanes, OnceHeld, OnceSubmitting, OffLanes,
                HeldNotSubmitting, LiveArePending, PendingIsLive

\* submit() hands out an id no live job has, for a key no live job has.
LEMMA RegisterKeepsC ==
    ASSUME CInv, NEW c \in Caller, NEW k \in Key, Register(c, k), UNCHANGED <<lane, held>>, QInv'
    PROVE  CPart' /\ (PendingIsLive => PendingIsLive')
           /\ Live' = Live \cup {[id |-> issued + 1, type |-> k[1], repo |-> k[2]]}
<1> DEFINE new == [id |-> issued + 1, type |-> k[1], repo |-> k[2]]
<1>1. /\ QueueTypeOK /\ QueueTypeOK' /\ issued \in Nat /\ issued' = issued + 1
      /\ submitting[c] = NoJob /\ submitting' = [submitting EXCEPT ![c] = new]
      /\ new \in Job /\ KeyOf(new) = k
    <2>1. QueueTypeOK /\ QueueTypeOK'
        BY DEF CInv, QInv
    <2>2. issued \in Nat /\ issued + 1 \in JobId
        BY <2>1, MaxIdNat DEF Register, QueueTypeOK, JobId
    <2> QED
        BY <2>1, <2>2 DEF Register, Key, Job, KeyOf
<1>2. /\ \A l \in Lanes : \A a \in 1 .. Len(lane[l]) : lane[l][a] \in Job \cup {Sentinel}
      /\ \A w \in Worker : held[w] \in Job \cup {NoJob}
      /\ \A d \in Caller : submitting[d] \in Job \cup {NoJob}
    BY <1>1, PlaceTypes
<1>3. /\ \A l \in Lanes : \A a \in 1 .. Len(lane[l]) :
             lane[l][a].id \in Nat /\ lane[l][a].id <= issued
      /\ \A w \in Worker : held[w].id \in Nat /\ held[w].id <= issued
      /\ \A d \in Caller : submitting[d].id \in Nat /\ submitting[d].id <= issued
    BY <1>2, IdsOfJobs DEF CInv, CPart, IdsIssued, NoId
<1>4. /\ \A l \in Lanes : \A a \in 1 .. Len(lane[l]) : lane[l][a].id # new.id
      /\ \A w \in Worker : held[w].id # new.id
      /\ \A d \in Caller : submitting[d].id # new.id
    BY <1>1, <1>3
<1>5. \A d \in Caller : submitting'[d] = IF d = c THEN new ELSE submitting[d]
    BY <1>1 DEF QueueTypeOK
<1>6. IdsIssued'
    BY <1>1, <1>3, <1>5 DEF IdsIssued
<1>7. OnePlace'
    <2>1. OnceOnLanes' /\ OnceHeld'
        BY DEF CInv, CPart, OnePlace, OnceOnLanes, OnceHeld
    <2>2. OnceSubmitting'
        BY <1>4, <1>5 DEF CInv, CPart, OnePlace, OnceSubmitting
    <2>3. OffLanes'
        BY <1>4, <1>5 DEF CInv, CPart, OnePlace, OffLanes
    <2>4. HeldNotSubmitting'
        BY <1>4, <1>5 DEF CInv, CPart, OnePlace, HeldNotSubmitting
    <2> QED
        BY <2>1, <2>2, <2>3, <2>4 DEF OnePlace
<1>8. /\ Live \subseteq Job /\ new \notin Live
      /\ \A j \in Job : j \in Live' <=> j \in Live \/ j = new
      /\ Live' \subseteq Job
    BY <1>1, <1>4, <1>5, LivePlaces, LivePlacesNext, IdsOfJobs DEF AtSomePlace
<1>9. pending' = [pending EXCEPT ![k] = new.id] /\ ~Coalesces(k)
    BY DEF Register
<1>10. \A j \in Live : KeyOf(j) \in Key /\ KeyOf(j)[1] = j.type
    BY <1>8 DEF KeyOf, Key, Job
<1>11. LiveArePending'
    BY <1>1, <1>8, <1>9, <1>10, IdsOfJobs
    DEF CInv, CPart, LiveArePending, QueueTypeOK, Coalesces
<1>12. ASSUME PendingIsLive PROVE PendingIsLive'
    BY <1>1, <1>8, <1>9, <1>12 DEF PendingIsLive, QueueTypeOK
<1>13. Live' = Live \cup {new}
    BY <1>1, <1>8
<1> QED
    BY <1>13, <1>6, <1>7, <1>11, <1>12 DEF CPart

LEMMA SubmitHalfKeepsC ==
    ASSUME CInv, NEW c \in Caller, NEW k \in Key, Register(c, k) \/ Coalesce(c, k),
           UNCHANGED <<lane, held>>, QInv'
    PROVE  CPart' /\ (PendingIsLive => PendingIsLive')
<1>1. CASE Register(c, k)
    BY <1>1, RegisterKeepsC
<1>2. CASE Coalesce(c, k)
    BY <1>2, NobodyMoves DEF Coalesce
<1> QED
    BY <1>1, <1>2

------------------------------------------------------------------------------
\* A job leaves the hands of its submitter for the end of its lane.
LEMMA JoinsLane ==
    ASSUME CInv, QInv', NEW c \in Caller, NEW m \in Lanes, NEW job \in Job, submitting[c] = job,
           lane' = [lane EXCEPT ![m] = Append(@, job)],
           submitting' = [submitting EXCEPT ![c] = NoJob],
           UNCHANGED <<issued, pending, held>>
    PROVE  CPart' /\ (PendingIsLive => PendingIsLive') /\ Live' = Live
<1>1. QueueTypeOK /\ QueueTypeOK'
    BY DEF CInv, QInv
<1>2. \A d \in Caller : submitting'[d] = IF d = c THEN NoJob ELSE submitting[d]
    BY <1>1 DEF QueueTypeOK
<1>3. PICK n \in Nat :
          /\ n = Len(lane[m]) + 1 /\ Len(lane'[m]) = n /\ lane'[m][n] = job
          /\ \A a \in 1 .. Len(lane[m]) : lane'[m][a] = lane[m][a]
    <2>1. lane[m] \in Seq(Job \cup {Sentinel}) /\ job \in Job \cup {Sentinel}
        BY <1>1, PlaceTypes
    <2>2. lane'[m] = Append(lane[m], job) /\ Len(lane[m]) + 1 \in Nat
        BY <1>1, <2>1 DEF QueueTypeOK
    <2> QED
        BY <2>1, <2>2, AppendElements
<1>4. /\ \A l \in Lanes : Len(lane[l]) \in Nat
      /\ \A l \in Lanes : l # m => lane'[l] = lane[l]
    BY <1>1, PlaceTypes DEF QueueTypeOK
<1>5. \A l \in Lanes : \A a \in 1 .. Len(lane'[l]) :
          \/ a \in 1 .. Len(lane[l]) /\ lane'[l][a] = lane[l][a]
          \/ l = m /\ a = n /\ lane'[l][a] = job
    <2>1. ASSUME NEW a \in 1 .. Len(lane'[m])
          PROVE  \/ a \in 1 .. Len(lane[m]) /\ lane'[m][a] = lane[m][a]
                 \/ a = n /\ lane'[m][a] = job
        BY <1>3, <1>4
    <2> QED
        BY <2>1, <1>4
<1>6. \A l \in Lanes : \A a \in 1 .. Len(lane[l]) :
          a \in 1 .. Len(lane'[l]) /\ lane'[l][a] = lane[l][a]
    BY <1>3, <1>4
<1>7. IdsIssued'
    <2>1. NoId <= issued
        BY <1>1, MaxIdNat DEF QueueTypeOK, NoId
    <2> QED
        BY <1>2, <1>5, <2>1, IdsOfJobs DEF CInv, CPart, IdsIssued
<1>8. OnePlace'
    <2>1. OnceOnLanes /\ OnceHeld /\ OnceSubmitting /\ OffLanes /\ HeldNotSubmitting
        BY DEF CInv, CPart, OnePlace
    <2>2. OnceOnLanes'
        BY <1>5, <2>1, IdsOfJobs, SMTT(30) DEF OnceOnLanes, OffLanes
    <2>3. OnceHeld'
        BY <2>1 DEF OnceHeld
    <2>4. OnceSubmitting'
        BY <1>2, <2>1, IdsOfJobs DEF OnceSubmitting
    <2>5. OffLanes'
        BY <1>2, <1>5, <2>1, IdsOfJobs DEF OffLanes, HeldNotSubmitting, OnceSubmitting
    <2>6. HeldNotSubmitting'
        BY <1>2, <2>1, IdsOfJobs DEF HeldNotSubmitting
    <2> QED
        BY <2>2, <2>3, <2>4, <2>5, <2>6 DEF OnePlace
<1>9. \A j \in Job : AtSomePlace(j)' <=> AtSomePlace(j)
    <2>1. n \in 1 .. Len(lane'[m])
        BY <1>3, <1>4
    <2>2. \A j \in Job : (\E d \in Caller : submitting[d] = j)
                         <=> j = job \/ \E d \in Caller : submitting'[d] = j
        BY <1>2, IdsOfJobs
    <2>3. \A j \in Job : (\E l \in Lanes : \E a \in 1 .. Len(lane'[l]) : lane'[l][a] = j)
                         <=> j = job \/ \E l \in Lanes : \E a \in 1 .. Len(lane[l]) : lane[l][a] = j
        BY <1>3, <1>5, <1>6, <2>1
    <2> QED
        BY <2>2, <2>3 DEF AtSomePlace
<1>10. Live' = Live
    BY <1>1, <1>9, LivePlaces, LivePlacesNext
<1> QED
    BY <1>7, <1>8, <1>10 DEF CInv, CPart, LiveArePending, PendingIsLive

LEMMA EnqueueKeepsC ==
    ASSUME CInv, NEW c \in Caller, Enqueue(c), QInv'
    PROVE  CPart' /\ (PendingIsLive => PendingIsLive') /\ Live' = Live
<1>1. submitting[c] \in Job
    BY DEF Enqueue, CInv, QInv, QueueTypeOK
<1>2. LaneOf(submitting[c].type) \in Lanes
    BY DEF LaneOf, Lanes
<1>3. /\ lane' = [lane EXCEPT ![LaneOf(submitting[c].type)] = Append(@, submitting[c])]
      /\ submitting' = [submitting EXCEPT ![c] = NoJob]
      /\ UNCHANGED <<issued, pending, held>>
    BY DEF Enqueue, threads
<1> QED
    BY <1>1, <1>2, <1>3, JoinsLane

\* A submission whose row cannot be written leaves its caller's hands for nowhere.
LEMMA EnqueueFailsKeepsC ==
    ASSUME CInv, NEW c \in Caller, EnqueueFails(c), QInv'
    PROVE  CPart' /\ Live' \subseteq Live \ {submitting[c]} /\ Live \ {submitting[c]} \subseteq Live'
<1>1. /\ QueueTypeOK /\ QueueTypeOK'
      /\ issued' = issued /\ pending' = pending /\ held' = held /\ lane' = lane
    BY DEF CInv, QInv, EnqueueFails
<1>2. \A d \in Caller : submitting'[d] = IF d = c THEN NoJob ELSE submitting[d]
    BY DEF EnqueueFails, CInv, QInv, QueueTypeOK
<1>3. IdsIssued'
    <2>1. NoId <= issued
        BY <1>1, MaxIdNat DEF QueueTypeOK, NoId
    <2> QED
        BY <1>1, <1>2, <2>1, IdsOfJobs, SMTT(30) DEF CInv, CPart, IdsIssued
<1>4. OnePlace'
    BY <1>1, <1>2, IdsOfJobs, SMTT(30)
    DEF CInv, CPart, OnePlace, OnceOnLanes, OnceHeld, OnceSubmitting, OffLanes, HeldNotSubmitting
<1>5. Live' \subseteq Live \ {submitting[c]} /\ Live \ {submitting[c]} \subseteq Live'
    <2>1. submitting[c] \in Job /\ QueueTypeOK
        BY <1>1 DEF EnqueueFails, QueueTypeOK
    <2>2. OnceSubmitting /\ OffLanes /\ HeldNotSubmitting
        BY DEF CInv, CPart, OnePlace
    <2>3. ASSUME NEW j \in Job PROVE AtSomePlace(j)' <=> AtSomePlace(j) /\ j # submitting[c]
        <3>1. (\E d \in Caller : submitting'[d] = j)
              <=> j # submitting[c] /\ \E d \in Caller : submitting[d] = j
            BY <1>2, <2>1, <2>2, IdsOfJobs DEF OnceSubmitting
        <3>2. \A l \in Lanes : \A a \in 1 .. Len(lane[l]) : lane[l][a] # submitting[c]
            BY <2>1, <2>2, IdsOfJobs DEF OffLanes
        <3>3. \A v \in Worker : held[v] # submitting[c]
            BY <2>1, <2>2, IdsOfJobs DEF HeldNotSubmitting
        <3> QED
            BY <1>1, <3>1, <3>2, <3>3 DEF AtSomePlace
    <2> QED
        BY <1>1, <2>3, LivePlaces, LivePlacesNext
<1> QED
    BY <1>1, <1>3, <1>4, <1>5 DEF CInv, CPart, LiveArePending

------------------------------------------------------------------------------
\* Where an element of a lane was before the head of lane m was taken.
Was(m, l, a) == IF l = m THEN a + 1 ELSE a

LEMMA TailShifts ==
    ASSUME QueueTypeOK, NEW m \in Lanes, lane[m] # <<>>, lane' = [lane EXCEPT ![m] = Tail(@)]
    PROVE  /\ 1 \in 1 .. Len(lane[m]) /\ lane[m][1] = Head(lane[m])
           /\ \A l \in Lanes : \A a \in 1 .. Len(lane'[l]) :
                  /\ Was(m, l, a) \in 1 .. Len(lane[l]) /\ lane'[l][a] = lane[l][Was(m, l, a)]
                  /\ ~(l = m /\ Was(m, l, a) = 1)
           /\ \A l \in Lanes : \A a \in 1 .. Len(lane[l]) :
                  \/ l = m /\ a = 1
                  \/ \E b \in 1 .. Len(lane'[l]) : lane'[l][b] = lane[l][a]
           /\ \A l, k \in Lanes : \A a \in 1 .. Len(lane'[l]), b \in 1 .. Len(lane'[k]) :
                  l = k /\ Was(m, l, a) = Was(m, k, b) => a = b
<1> USE DEF Was
<1>1. PICK n \in Nat \ {0} :
          /\ n = Len(lane[m]) /\ Len(lane'[m]) = n - 1 /\ lane[m][1] = Head(lane[m])
          /\ \A a \in 1 .. n - 1 : lane'[m][a] = lane[m][a + 1]
    <2>1. lane[m] \in Seq(Job \cup {Sentinel})
        BY PlaceTypes
    <2>2. lane'[m] = Tail(lane[m])
        BY DEF QueueTypeOK
    <2>3. /\ Len(lane[m]) \in Nat \ {0} /\ Len(lane'[m]) = Len(lane[m]) - 1 /\ lane[m][1] = Head(lane[m])
          /\ \A a \in 1 .. Len(lane[m]) - 1 : lane'[m][a] = lane[m][a + 1]
        BY <2>1, <2>2, TailElements
    <2> QED
        BY <2>3
<1>2. /\ \A l \in Lanes : Len(lane[l]) \in Nat
      /\ \A l \in Lanes : l # m => lane'[l] = lane[l]
    BY PlaceTypes DEF QueueTypeOK
<1>3. \A l \in Lanes : \A a \in 1 .. Len(lane'[l]) :
          /\ Was(m, l, a) \in 1 .. Len(lane[l]) /\ lane'[l][a] = lane[l][Was(m, l, a)]
          /\ ~(l = m /\ Was(m, l, a) = 1)
    BY <1>1, <1>2
<1>4. \A l \in Lanes : \A a \in 1 .. Len(lane[l]) :
          \/ l = m /\ a = 1
          \/ \E b \in 1 .. Len(lane'[l]) : lane'[l][b] = lane[l][a]
    <2>1. ASSUME NEW a \in 1 .. n, a # 1
          PROVE  a - 1 \in 1 .. Len(lane'[m]) /\ lane'[m][a - 1] = lane[m][a]
        <3>1. a - 1 \in 1 .. n - 1 /\ (a - 1) + 1 = a
            BY <2>1
        <3> QED
            BY <3>1, <1>1
    <2>2. \A a \in 1 .. Len(lane[m]) :
              a = 1 \/ \E b \in 1 .. Len(lane'[m]) : lane'[m][b] = lane[m][a]
        BY <2>1, <1>1
    <2>3. \A l \in Lanes : l # m =>
              \A a \in 1 .. Len(lane[l]) : a \in 1 .. Len(lane'[l]) /\ lane'[l][a] = lane[l][a]
        BY <1>2
    <2>4. \A l \in Lanes : l # m =>
              \A a \in 1 .. Len(lane[l]) : \E b \in 1 .. Len(lane'[l]) : lane'[l][b] = lane[l][a]
        BY <2>3
    <2>5. ASSUME NEW l \in Lanes, NEW a \in 1 .. Len(lane[l])
          PROVE  \/ l = m /\ a = 1
                 \/ \E b \in 1 .. Len(lane'[l]) : lane'[l][b] = lane[l][a]
        <3>1. CASE l = m
            BY <2>2, <3>1
        <3>2. CASE l # m
            BY <2>4, <3>2
        <3> QED
            BY <3>1, <3>2
    <2> QED
        BY <2>5
<1>5. \A l, k \in Lanes : \A a \in 1 .. Len(lane'[l]), b \in 1 .. Len(lane'[k]) :
          l = k /\ Was(m, l, a) = Was(m, k, b) => a = b
    <2> TAKE l, k \in Lanes
    <2> TAKE a \in 1 .. Len(lane'[l]), b \in 1 .. Len(lane'[k])
    <2> QED
        OBVIOUS
<1>6. 1 \in 1 .. Len(lane[m])
    BY <1>1
<1> QED
    BY <1>1, <1>3, <1>4, <1>5, <1>6

\* A worker takes what its lane has had longest.
LEMMA LeavesLane ==
    ASSUME CInv, QInv', NEW w \in Worker, NEW m \in Lanes, lane[m] # <<>>, held[w] = NoJob,
           lane' = [lane EXCEPT ![m] = Tail(@)],
           NEW job \in Job, Head(lane[m]) = job,
           held' = [held EXCEPT ![w] = job],
           UNCHANGED <<issued, pending, submitting>>
    PROVE  CPart' /\ (PendingIsLive => PendingIsLive') /\ Live' = Live
<1>1. QueueTypeOK /\ QueueTypeOK'
    BY DEF CInv, QInv
<1>2. \A v \in Worker : held'[v] = IF v = w THEN job ELSE held[v]
    BY <1>1 DEF QueueTypeOK
<1>3. 1 \in 1 .. Len(lane[m]) /\ lane[m][1] = job
    BY <1>1, TailShifts
<1>4. \A l \in Lanes : \A a \in 1 .. Len(lane'[l]) :
          /\ Was(m, l, a) \in 1 .. Len(lane[l]) /\ lane'[l][a] = lane[l][Was(m, l, a)]
          /\ ~(l = m /\ Was(m, l, a) = 1)
    BY <1>1, TailShifts
<1>5. \A l \in Lanes : \A a \in 1 .. Len(lane[l]) :
          \/ l = m /\ a = 1
          \/ \E b \in 1 .. Len(lane'[l]) : lane'[l][b] = lane[l][a]
    BY <1>1, TailShifts
<1>6. \A l, k \in Lanes : \A a \in 1 .. Len(lane'[l]), b \in 1 .. Len(lane'[k]) :
          l = k /\ Was(m, l, a) = Was(m, k, b) => a = b
    BY <1>1, TailShifts
<1>7. OnceOnLanes /\ OnceHeld /\ OnceSubmitting /\ OffLanes /\ HeldNotSubmitting
    BY DEF CInv, CPart, OnePlace
<1>8. IdsIssued'
    BY <1>2, <1>3, <1>4 DEF CInv, CPart, IdsIssued
<1>9. OnePlace'
    <2>1. OnceOnLanes'
        BY <1>4, <1>6, <1>7 DEF OnceOnLanes
    <2>2. OnceHeld'
        BY <1>2, <1>3, <1>7, IdsOfJobs DEF OnceHeld, OffLanes
    <2>3. OnceSubmitting'
        BY <1>7 DEF OnceSubmitting
    <2>4. OffLanes'
        BY <1>2, <1>3, <1>4, <1>7, IdsOfJobs, SMTT(30) DEF OffLanes, OnceOnLanes
    <2>5. HeldNotSubmitting'
        BY <1>2, <1>3, <1>7, IdsOfJobs DEF HeldNotSubmitting, OffLanes
    <2> QED
        BY <2>1, <2>2, <2>3, <2>4, <2>5 DEF OnePlace
<1>10. \A j \in Job : AtSomePlace(j)' <=> AtSomePlace(j)
    <2>1. \A j \in Job : (\E v \in Worker : held'[v] = j)
                         <=> j = job \/ \E v \in Worker : held[v] = j
        BY <1>2, IdsOfJobs
    <2>2. ASSUME NEW j \in Job, NEW l \in Lanes, NEW a \in 1 .. Len(lane[l]), lane[l][a] = j
          PROVE  j = job \/ \E k \in Lanes : \E b \in 1 .. Len(lane'[k]) : lane'[k][b] = j
        BY <1>3, <1>5, <2>2
    <2>3. ASSUME NEW j \in Job, NEW l \in Lanes, NEW a \in 1 .. Len(lane'[l]), lane'[l][a] = j
          PROVE  \E k \in Lanes : \E b \in 1 .. Len(lane[k]) : lane[k][b] = j
        BY <1>4, <2>3
    <2>4. \E k \in Lanes : \E b \in 1 .. Len(lane[k]) : lane[k][b] = job
        BY <1>3
    <2>5. \A j \in Job : (\E l \in Lanes : \E a \in 1 .. Len(lane[l]) : lane[l][a] = j)
                         <=> j = job \/ \E l \in Lanes : \E a \in 1 .. Len(lane'[l]) : lane'[l][a] = j
        BY <2>2, <2>3, <2>4, SMTT(30)
    <2> QED
        BY <2>1, <2>5 DEF AtSomePlace
<1>11. Live' = Live
    BY <1>1, <1>10, LivePlaces, LivePlacesNext
<1> QED
    BY <1>8, <1>9, <1>11 DEF CInv, CPart, LiveArePending, PendingIsLive

LEMMA TakeKeepsC ==
    ASSUME CInv, NEW w \in Worker, Take(w), QInv'
    PROVE  CPart' /\ (PendingIsLive => PendingIsLive') /\ Live' = Live
<1> DEFINE job == Head(lane[LaneFor(w)])
<1>1. LaneFor(w) \in Lanes /\ QueueTypeOK
    BY DEF LaneFor, Lanes, CInv, QInv
<1>2. lane[LaneFor(w)] # <<>> /\ job \in Job /\ held[w] = NoJob
    <2>1. lane[LaneFor(w)] \in Seq(Job \cup {Sentinel}) /\ lane[LaneFor(w)] # <<>> /\ job # Sentinel
        BY <1>1, PlaceTypes DEF Take
    <2> QED
        BY <2>1, TailElements DEF Take, CInv, EmptyHands
<1>3. /\ lane' = [lane EXCEPT ![LaneFor(w)] = Tail(@)]
      /\ held' = [held EXCEPT ![w] = job]
      /\ UNCHANGED <<issued, pending, submitting>>
    BY DEF Take, tables
<1> QED
    BY <1>1, <1>2, <1>3, LeavesLane

LEMMA TakeSentinelKeepsC ==
    ASSUME CInv, NEW w \in Worker, TakeSentinel(w), QInv'
    PROVE  CPart' /\ (PendingIsLive => PendingIsLive') /\ Live' = Live
<1>1. PICK m \in Lanes : /\ lane[m] # <<>> /\ Head(lane[m]) = Sentinel
                         /\ lane' = [lane EXCEPT ![m] = Tail(@)]
    BY DEF LaneFor, Lanes, TakeSentinel
<1>2. /\ QueueTypeOK /\ QueueTypeOK'
      /\ OnceOnLanes /\ OnceHeld /\ OnceSubmitting /\ OffLanes /\ HeldNotSubmitting
      /\ issued' = issued /\ pending' = pending /\ submitting' = submitting /\ held' = held
    BY DEF CInv, QInv, CPart, OnePlace, TakeSentinel, tables
<1>3. 1 \in 1 .. Len(lane[m]) /\ lane[m][1] = Sentinel
    BY <1>1, <1>2, TailShifts
<1>4. \A l \in Lanes : \A a \in 1 .. Len(lane'[l]) :
          /\ Was(m, l, a) \in 1 .. Len(lane[l]) /\ lane'[l][a] = lane[l][Was(m, l, a)]
          /\ ~(l = m /\ Was(m, l, a) = 1)
    BY <1>1, <1>2, TailShifts
<1>5. \A l \in Lanes : \A a \in 1 .. Len(lane[l]) :
          \/ l = m /\ a = 1
          \/ \E b \in 1 .. Len(lane'[l]) : lane'[l][b] = lane[l][a]
    BY <1>1, <1>2, TailShifts
<1>6. \A l, k \in Lanes : \A a \in 1 .. Len(lane'[l]), b \in 1 .. Len(lane'[k]) :
          l = k /\ Was(m, l, a) = Was(m, k, b) => a = b
    BY <1>1, <1>2, TailShifts
<1>7. IdsIssued'
    BY <1>2, <1>4 DEF CInv, CPart, IdsIssued
<1>8. OnePlace'
    <2>1. OnceOnLanes'
        <3> SUFFICES ASSUME NEW l \in Lanes, NEW k \in Lanes,
                            NEW a \in 1 .. Len(lane'[l]), NEW b \in 1 .. Len(lane'[k]),
                            lane'[l][a].id # NoId, lane'[l][a].id = lane'[k][b].id
                     PROVE  l = k /\ a = b
            BY DEF OnceOnLanes
        <3>1. /\ Was(m, l, a) \in 1 .. Len(lane[l]) /\ lane'[l][a] = lane[l][Was(m, l, a)]
              /\ Was(m, k, b) \in 1 .. Len(lane[k]) /\ lane'[k][b] = lane[k][Was(m, k, b)]
            BY <1>4
        <3>2. l = k /\ Was(m, l, a) = Was(m, k, b)
            BY <1>2, <3>1 DEF OnceOnLanes
        <3> QED
            BY <1>6, <3>2
    <2>2. OffLanes'
        <3> SUFFICES ASSUME NEW l \in Lanes, NEW a \in 1 .. Len(lane'[l]), lane'[l][a].id # NoId
                     PROVE  /\ \A v \in Worker : held'[v].id # lane'[l][a].id
                            /\ \A c \in Caller : submitting'[c].id # lane'[l][a].id
            BY DEF OffLanes
        <3>1. Was(m, l, a) \in 1 .. Len(lane[l]) /\ lane'[l][a] = lane[l][Was(m, l, a)]
            BY <1>4
        <3> QED
            BY <1>2, <3>1 DEF OffLanes
    <2> QED
        BY <1>2, <2>1, <2>2 DEF OnePlace, OnceHeld, OnceSubmitting, HeldNotSubmitting
<1>9. \A j \in Job : (\E l \in Lanes : \E a \in 1 .. Len(lane[l]) : lane[l][a] = j)
                     <=> \E l \in Lanes : \E a \in 1 .. Len(lane'[l]) : lane'[l][a] = j
    <2>1. ASSUME NEW j \in Job, NEW l \in Lanes, NEW a \in 1 .. Len(lane[l]), lane[l][a] = j
          PROVE  \E k \in Lanes : \E b \in 1 .. Len(lane'[k]) : lane'[k][b] = j
        BY <1>3, <1>5, <2>1, IdsOfJobs
    <2>2. ASSUME NEW j \in Job, NEW l \in Lanes, NEW a \in 1 .. Len(lane'[l]), lane'[l][a] = j
          PROVE  \E k \in Lanes : \E b \in 1 .. Len(lane[k]) : lane[k][b] = j
        BY <1>4, <2>2
    <2> QED
        BY <2>1, <2>2
<1>10. Live' = Live
    BY <1>2, <1>9, LivePlaces, LivePlacesNext DEF AtSomePlace
<1> QED
    BY <1>2, <1>7, <1>8, <1>10 DEF CInv, CPart, LiveArePending, PendingIsLive

\* A worker's job is over: nothing else has it, so it is live no more.
LEMMA LeavesHands ==
    ASSUME CInv, QInv', NEW w \in Worker, held[w] \in Job,
           held' = [held EXCEPT ![w] = NoJob], UNCHANGED <<issued, lane, submitting>>
    PROVE  IdsIssued' /\ OnePlace' /\ Live' = Live \ {held[w]}
<1>1. /\ QueueTypeOK /\ QueueTypeOK'
      /\ OnceOnLanes /\ OnceHeld /\ OnceSubmitting /\ OffLanes /\ HeldNotSubmitting
    BY DEF CInv, QInv, CPart, OnePlace
<1>2. \A v \in Worker : held'[v] = IF v = w THEN NoJob ELSE held[v]
    BY <1>1 DEF QueueTypeOK
<1>3. IdsIssued'
    BY <1>1, <1>2, MaxIdNat, IdsOfJobs DEF CInv, CPart, IdsIssued, QueueTypeOK, NoId
<1>4. OnePlace'
    BY <1>1, <1>2, IdsOfJobs
    DEF OnePlace, OnceOnLanes, OnceHeld, OnceSubmitting, OffLanes, HeldNotSubmitting
<1>5. ASSUME NEW j \in Job PROVE AtSomePlace(j)' <=> AtSomePlace(j) /\ j # held[w]
    <2>1. (\E v \in Worker : held'[v] = j) <=> j # held[w] /\ \E v \in Worker : held[v] = j
        BY <1>1, <1>2, IdsOfJobs DEF OnceHeld
    <2>2. \A l \in Lanes : \A a \in 1 .. Len(lane[l]) : lane[l][a] # held[w]
        BY <1>1, IdsOfJobs DEF OffLanes
    <2>3. \A c \in Caller : submitting[c] # held[w]
        BY <1>1, IdsOfJobs DEF HeldNotSubmitting
    <2> QED
        BY <2>1, <2>2, <2>3 DEF AtSomePlace
<1>6. Live' = Live \ {held[w]}
    BY <1>1, <1>5, LivePlaces, LivePlacesNext
<1> QED
    BY <1>3, <1>4, <1>6

\* _finish_pending() frees the key only if it is still the finished job's.
LEMMA FinishKeepsC ==
    ASSUME CInv, NEW w \in Worker, Finish(w), QInv'
    PROVE  CPart' /\ (PendingIsLive => PendingIsLive') /\ Live' = Live \ {held[w]}
<1> DEFINE job == held[w]
<1>1. /\ QueueTypeOK /\ job \in Job /\ KeyOf(job) \in Key
      /\ held' = [held EXCEPT ![w] = NoJob] /\ UNCHANGED <<issued, lane, submitting>>
      /\ pending' = [pending EXCEPT ![KeyOf(job)] = IF @ = job.id THEN NoId ELSE @]
    BY DEF Finish, CInv, QInv, WorkersHoldJobs, KeyOf, Key, Job
<1>2. IdsIssued' /\ OnePlace' /\ Live' = Live \ {job}
    BY <1>1, LeavesHands
<1>3. job \in Live /\ Live \subseteq Job
    BY <1>1, LivePlaces DEF AtSomePlace
<1>4. \A k \in Key : pending'[k] = IF k = KeyOf(job) /\ pending[k] = job.id THEN NoId
                                   ELSE pending[k]
    BY <1>1 DEF QueueTypeOK
<1>5. \A j \in Live : j.id = job.id => j = job
    BY <1>3, OneJobPerId
<1>6. LiveArePending'
    <2>1. \A j \in Live : KeyOf(j) \in Key
        BY <1>3 DEF KeyOf, Key, Job
    <2> QED
        BY <1>2, <1>4, <1>5, <2>1 DEF CInv, CPart, LiveArePending
<1>7. ASSUME PendingIsLive PROVE PendingIsLive'
    <2> SUFFICES ASSUME NEW k \in Key, pending'[k] # NoId
                 PROVE  \E j \in Live' : j.id = pending'[k] /\ KeyOf(j) = k
        BY DEF PendingIsLive
    <2>1. pending'[k] = pending[k] /\ ~(k = KeyOf(job) /\ pending[k] = job.id)
        BY <1>4
    <2>2. PICK j \in Live : j.id = pending[k] /\ KeyOf(j) = k
        BY <1>7, <2>1 DEF PendingIsLive
    <2>3. j # job
        BY <2>1, <2>2
    <2> QED
        BY <1>2, <2>1, <2>2, <2>3
<1> QED
    BY <1>2, <1>6, <1>7 DEF CPart

\* Only where the no-handler branch cannot write the row does its job vanish.
LEMMA MarkFailedKeepsC ==
    ASSUME CInv, NEW w \in Worker, MarkFailed(w), QInv'
    PROVE  /\ CPart' /\ (~RowWritesFail /\ PendingIsLive => PendingIsLive')
           /\ \/ Live' = Live /\ held' = held
              \/ at[w] = "unhandled" /\ Live' = Live \ {held[w]}
<1>1. UNCHANGED <<issued, pending, submitting, lane>>
    BY DEF MarkFailed, tables
<1>2. CASE held' = held
    BY <1>1, <1>2, NobodyMoves
<1>3. CASE held' # held
    <2>1. /\ held[w] \in Job /\ held' = [held EXCEPT ![w] = NoJob]
          /\ RowWritesFail /\ at[w] = "unhandled"
        BY <1>3 DEF MarkFailed, CInv, QInv, WorkersHoldJobs
    <2>2. IdsIssued' /\ OnePlace' /\ Live' = Live \ {held[w]}
        BY <1>1, <2>1, LeavesHands
    <2> QED
        BY <1>1, <2>1, <2>2 DEF CInv, CPart, LiveArePending
<1> QED
    BY <1>2, <1>3

\* stop() puts nothing but sentinels on the lanes.
LEMMA StopKeepsC ==
    ASSUME CInv, Stop, QInv'
    PROVE  CPart' /\ (PendingIsLive => PendingIsLive') /\ Live' = Live
<1>1. /\ QueueTypeOK /\ QueueTypeOK'
      /\ OnceOnLanes /\ OnceHeld /\ OnceSubmitting /\ OffLanes /\ HeldNotSubmitting
      /\ UNCHANGED <<issued, pending, submitting, held>>
    BY DEF CInv, QInv, CPart, OnePlace, Stop, tables, threads
<1>2. \A l \in Lanes : /\ Cardinality(ThreadsOf(l)) \in Nat
                       /\ lane[l] \in Seq(Job \cup {Sentinel})
                       /\ lane'[l] = lane[l] \o Sentinels(Cardinality(ThreadsOf(l)))
    <2>1. IsFiniteSet(IngestWorker) /\ IsFiniteSet(LinkerWorker)
        BY QueueAssumption, FS_Subset DEF Worker
    <2> QED
        BY <1>1, <2>1, PlaceTypes, FS_CardinalityType DEF Stop, ThreadsOf
<1>3. \A n \in Nat : /\ Sentinels(n) \in Seq(Job \cup {Sentinel}) /\ Len(Sentinels(n)) = n
                     /\ \A a \in 1 .. n : Sentinels(n)[a] = Sentinel
    BY DEF Sentinels
<1>4. ASSUME NEW l \in Lanes
      PROVE  /\ \A a \in 1 .. Len(lane'[l]) : \/ a \in 1 .. Len(lane[l]) /\ lane'[l][a] = lane[l][a]
                                              \/ lane'[l][a] = Sentinel
             /\ \A a \in 1 .. Len(lane[l]) : a \in 1 .. Len(lane'[l]) /\ lane'[l][a] = lane[l][a]
    <2> DEFINE n == Cardinality(ThreadsOf(l))
    <2>1. n \in Nat /\ lane'[l] = lane[l] \o Sentinels(n) /\ lane[l] \in Seq(Job \cup {Sentinel})
        BY <1>2
    <2> HIDE DEF n
    <2>2. /\ Sentinels(n) \in Seq(Job \cup {Sentinel}) /\ Len(Sentinels(n)) = n
          /\ \A a \in 1 .. n : Sentinels(n)[a] = Sentinel
        BY <2>1, <1>3
    <2>3. /\ \A a \in 1 .. Len(lane[l]) : a \in 1 .. Len(lane'[l]) /\ lane'[l][a] = lane[l][a]
          /\ \A a \in 1 .. Len(lane'[l]) :
                 \/ a \in 1 .. Len(lane[l])
                 \/ a - Len(lane[l]) \in 1 .. n /\ lane'[l][a] = Sentinels(n)[a - Len(lane[l])]
        BY <2>1, <2>2, ConcatElements
    <2> QED
        BY <2>2, <2>3
<1>5. IdsIssued'
    BY <1>1, <1>4, MaxIdNat, IdsOfJobs DEF CInv, CPart, IdsIssued, QueueTypeOK, NoId
<1>6. OnePlace'
    <2>1. OnceOnLanes'
        <3> SUFFICES ASSUME NEW l \in Lanes, NEW k \in Lanes,
                            NEW a \in 1 .. Len(lane'[l]), NEW b \in 1 .. Len(lane'[k]),
                            lane'[l][a].id # NoId, lane'[l][a].id = lane'[k][b].id
                     PROVE  l = k /\ a = b
            BY DEF OnceOnLanes
        <3>1. a \in 1 .. Len(lane[l]) /\ lane'[l][a] = lane[l][a]
            BY <1>4, IdsOfJobs
        <3>2. b \in 1 .. Len(lane[k]) /\ lane'[k][b] = lane[k][b]
            BY <1>4, IdsOfJobs
        <3> QED
            BY <1>1, <3>1, <3>2 DEF OnceOnLanes
    <2>2. OffLanes'
        BY <1>1, <1>4, IdsOfJobs DEF OffLanes
    <2> QED
        BY <1>1, <2>1, <2>2 DEF OnePlace, OnceHeld, OnceSubmitting, HeldNotSubmitting
<1>7. \A j \in Job : (\E l \in Lanes : \E a \in 1 .. Len(lane[l]) : lane[l][a] = j)
                     <=> \E l \in Lanes : \E a \in 1 .. Len(lane'[l]) : lane'[l][a] = j
    BY <1>4, IdsOfJobs
<1>8. Live' = Live
    BY <1>1, <1>7, LivePlaces, LivePlacesNext DEF AtSomePlace
<1> QED
    BY <1>1, <1>5, <1>6, <1>8 DEF CInv, CPart, LiveArePending, PendingIsLive

\* A new process has no job, and its table is empty.
LEMMA NoJobsAnywhere ==
    ASSUME lane = EmptyLanes, held = NoneHeld, submitting = NoneSubmitting, issued \in Nat
    PROVE  IdsIssued /\ OnePlace /\ Live = {}
<1>1. /\ \A l \in Lanes : lane[l] = <<>>
      /\ \A w \in Worker : held[w] = NoJob
      /\ \A c \in Caller : submitting[c] = NoJob
    BY DEF EmptyLanes, NoneHeld, NoneSubmitting
<1>2. IdsIssued
    BY <1>1, IdsOfJobs DEF IdsIssued, NoId
<1>3. OnePlace
    BY <1>1, IdsOfJobs
    DEF OnePlace, OnceOnLanes, OnceHeld, OnceSubmitting, OffLanes, HeldNotSubmitting
<1>4. Live = {}
    BY <1>1 DEF Live, JobsOnLanes, JobsHeld, JobsSubmitting, ToSet
<1> QED
    BY <1>2, <1>3, <1>4

LEMMA NoJobsAnywhereNext ==
    (lane = EmptyLanes /\ held = NoneHeld /\ submitting = NoneSubmitting /\ issued \in Nat)' =>
        (IdsIssued /\ OnePlace /\ Live = {})'
<1>1. lane = EmptyLanes /\ held = NoneHeld /\ submitting = NoneSubmitting /\ issued \in Nat =>
          IdsIssued /\ OnePlace /\ Live = {}
    BY NoJobsAnywhere
<1> QED
    BY <1>1, PTL

LEMMA RestartKeepsC ==
    ASSUME CInv, Restart, QInv'
    PROVE  CPart' /\ PendingIsLive' /\ Live' = {}
<1>1. (lane = EmptyLanes /\ held = NoneHeld /\ submitting = NoneSubmitting /\ issued \in Nat)'
    BY MaxIdNat DEF Restart, EmptyLanes, NoneHeld, NoneSubmitting, Caller, Worker, CInv, QInv,
                    QueueTypeOK
<1>2. (IdsIssued /\ OnePlace /\ Live = {})'
    BY <1>1, NoJobsAnywhereNext
<1>3. pending' = NonePending
    BY DEF Restart
<1> QED
    BY <1>2, <1>3 DEF CPart, LiveArePending, PendingIsLive, NonePending

LEMMA InitCInv == QueueInit => CInv /\ PendingIsLive
<1> SUFFICES ASSUME QueueInit PROVE CInv /\ PendingIsLive
    OBVIOUS
<1>1. QInv /\ EmptyHands
    BY InitQInv DEF QueueInit, EmptyHands, NoneHeld
<1>2. IdsIssued /\ OnePlace /\ Live = {}
    BY NoJobsAnywhere DEF QueueInit
<1>3. pending = NonePending
    BY DEF QueueInit
<1> QED
    BY <1>1, <1>2, <1>3 DEF CInv, CPart, LiveArePending, PendingIsLive, NonePending

------------------------------------------------------------------------------
LEMMA EmptyHandsKept ==
    ASSUME CInv, QueueNext PROVE EmptyHands'
<1>1. EmptyHands /\ QueueTypeOK
    BY DEF CInv, QInv
<1>2. CASE Restart
    BY <1>2 DEF Restart, EmptyHands, NoneHeld
<1>3. ASSUME NEW w \in Worker, Loop(w) PROVE EmptyHands'
    BY <1>1, <1>3
    DEF Loop, Take, TakeSentinel, MarkFailed, AcquireShared, AcquireRepo, AcquireExclusive, Finish,
        EmptyHands, QueueTypeOK
<1>4. ASSUME NEW c \in Caller, EnqueueFails(c) PROVE EmptyHands'
    BY <1>1, <1>4 DEF EnqueueFails, EmptyHands, QueueTypeOK
<1>5. ASSUME NEW w \in Worker, HandlerStep(w) PROVE EmptyHands'
    BY <1>1, <1>5
    DEF HandlerStep, HandlerReports, HandlerDropsRows, HandlerSubmits, HandlerReturns, HandlerRaises,
        EmptyHands, QueueTypeOK, threads
<1>6. ASSUME NEW c \in Caller, Enqueue(c) PROVE EmptyHands'
    BY <1>1, <1>6 DEF Enqueue, EmptyHands, threads
<1>7. ASSUME NEW c \in Client, ClientSubmits(c) PROVE EmptyHands'
    BY <1>1, <1>7 DEF ClientSubmits, EmptyHands, threads
<1>8. CASE Stop \/ Idle
    BY <1>1, <1>8 DEF Stop, Idle, EmptyHands, queueVars, threads
<1> QED
    BY <1>2, <1>3, <1>4, <1>5, <1>6, <1>7, <1>8 DEF QueueNext

LEMMA LoopKeepsC ==
    ASSUME CInv, NEW w \in Worker, Loop(w), QInv'
    PROVE  /\ CPart' /\ (~RowWritesFail /\ PendingIsLive => PendingIsLive')
           /\ \/ Live' = Live /\ (held[w] # NoJob => held'[w] = held[w])
              \/ at[w] \in {"unhandled", "finish", "dying"} /\ Live' = Live \ {held[w]}
<1>1. CASE AcquireShared(w) \/ AcquireRepo(w) \/ AcquireExclusive(w)
    BY <1>1, NobodyMoves DEF AcquireShared, AcquireRepo, AcquireExclusive, tables
<1>2. CASE Take(w) \/ TakeSentinel(w)
    <2>1. held[w] = NoJob
        BY <1>2 DEF Take, TakeSentinel, CInv, EmptyHands
    <2> QED
        BY <1>2, <2>1, TakeKeepsC, TakeSentinelKeepsC
<1>3. CASE MarkFailed(w)
    BY <1>3, MarkFailedKeepsC
<1>4. CASE Finish(w)
    <2>1. at[w] \in {"finish", "dying"}
        BY <1>4 DEF Finish
    <2> QED
        BY <1>4, <2>1, FinishKeepsC
<1> QED
    BY <1>1, <1>2, <1>3, <1>4 DEF Loop

LEMMA HandlerKeepsC ==
    ASSUME CInv, NEW w \in Worker, HandlerStep(w), QInv'
    PROVE  CPart' /\ (PendingIsLive => PendingIsLive')
<1>1. CASE HandlerSubmits(w)
    <2>1. PICK k \in FollowUp : Register(w, k) \/ Coalesce(w, k)
        BY <1>1 DEF HandlerSubmits
    <2> QED
        BY <1>1, <2>1, SubmitHalfKeepsC, QueueAssumption DEF HandlerSubmits, Caller, threads
<1>2. CASE ~HandlerSubmits(w)
    <2>1. UNCHANGED <<issued, pending, submitting, lane, held>>
        BY <1>2
        DEF HandlerStep, HandlerReports, HandlerDropsRows, HandlerReturns, HandlerRaises, tables,
            threads
    <2> QED
        BY <2>1, NobodyMoves
<1> QED
    BY <1>1, <1>2

LEMMA NextKeepsC ==
    ASSUME CInv, [QueueNext]_queueVars
    PROVE  CInv' /\ (~RowWritesFail /\ PendingIsLive => PendingIsLive')
<1>1. QInv'
    BY NextKeepsQInv DEF CInv
<1>2. CASE UNCHANGED queueVars \/ Idle
    <2>1. EmptyHands' /\ UNCHANGED <<issued, pending, submitting, lane, held>>
        BY <1>2 DEF Idle, queueVars, tables, threads, CInv, EmptyHands
    <2> QED
        BY <1>1, <2>1, NobodyMoves DEF CInv
<1>3. ASSUME QueueNext, ~Idle
      PROVE  CPart' /\ (~RowWritesFail /\ PendingIsLive => PendingIsLive')
    <2>1. ASSUME NEW c \in Client, ClientSubmits(c)
          PROVE  CPart' /\ (PendingIsLive => PendingIsLive')
        <3>1. PICK k \in Offered : Register(c, k) \/ Coalesce(c, k)
            BY <2>1 DEF ClientSubmits
        <3> QED
            BY <1>1, <2>1, <3>1, SubmitHalfKeepsC, QueueAssumption DEF ClientSubmits, Caller, threads
    <2>2. ASSUME NEW c \in Caller, Enqueue(c)
          PROVE  CPart' /\ (PendingIsLive => PendingIsLive')
        BY <1>1, <2>2, EnqueueKeepsC
    <2>3. ASSUME NEW c \in Caller, EnqueueFails(c)
          PROVE  CPart' /\ RowWritesFail
        BY <1>1, <2>3, EnqueueFailsKeepsC DEF EnqueueFails
    <2>4. ASSUME NEW w \in Worker, Loop(w) \/ HandlerStep(w)
          PROVE  CPart' /\ (~RowWritesFail /\ PendingIsLive => PendingIsLive')
        BY <1>1, <2>4, LoopKeepsC, HandlerKeepsC
    <2>5. CASE Stop
        BY <1>1, <2>5, StopKeepsC
    <2>6. CASE Restart
        BY <1>1, <2>6, RestartKeepsC
    <2> QED
        BY <1>3, <2>1, <2>2, <2>3, <2>4, <2>5, <2>6 DEF QueueNext
<1> QED
    BY <1>1, <1>2, <1>3, EmptyHandsKept DEF CInv

\* Every live job is in one place, and the table of pending jobs knows it.
THEOREM CoalescingInvariant == QueueSpec => []CInv
<1>1. QueueInit => CInv
    BY InitCInv
<1>2. CInv /\ [QueueNext]_queueVars => CInv'
    BY NextKeepsC
<1> QED
    BY <1>1, <1>2, PTL DEF QueueSpec

LEMMA OneLiveJob == CInv => OneLiveJobPerKey
<1> SUFFICES ASSUME CInv, NEW i \in Live, NEW j \in Live,
                    KeyOf(i) = KeyOf(j), i.type \notin NoDedup
             PROVE  i = j
    BY DEF OneLiveJobPerKey
<1>1. j.type = i.type
    BY DEF KeyOf
<1>2. i.id = pending[KeyOf(i)] /\ j.id = pending[KeyOf(j)]
    BY <1>1 DEF CInv, CPart, LiveArePending
<1> QED
    BY <1>2, OneJobPerId

\* submit() never leaves two live jobs of one type for one repository, uploads
\* excepted: neither the routes nor the handlers' follow-ups get a second one in.
THEOREM OneJobPerKey == QueueSpec => []OneLiveJobPerKey
BY OneLiveJob, CoalescingInvariant, PTL

\* What submit() coalesces onto is a job that will run or is running, as long as
\* job rows can be written; when they cannot, run job_queue_ghost shows otherwise.
THEOREM PendingStaysLive ==
    ASSUME ~RowWritesFail
    PROVE  QueueSpec => []PendingIsLive
<1>1. QueueInit => CInv /\ PendingIsLive
    BY InitCInv
<1>2. CInv /\ PendingIsLive /\ [QueueNext]_queueVars => (CInv /\ PendingIsLive)'
    BY NextKeepsC
<1> QED
    BY <1>1, <1>2, PTL DEF QueueSpec
================================================================================
