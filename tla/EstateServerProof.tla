--------------------------- MODULE EstateServerProof ---------------------------
(***************************************************************************)
(* For any estate, workers and failing calls: the handlers use the queue   *)
(* as JobQueue describes it, so the locks keep a link run alone; because   *)
(* it is alone its snapshot stays the graph's claims until it returns, and *)
(* so a finished run leaves exactly the edges those claims support.  On    *)
(* the same ground: failed_clean is said only of an untouched repository,  *)
(* an ingested one shows one tree, and a server on which no call fails     *)
(* ends with the edges fresh.                                              *)
(***************************************************************************)
EXTENDS EstateServer, JobQueueProof

LinkSteps == {"rendezvous", "edges", "retire", "gc", "finish"}

\* A worker in a link run has the graph to itself, and its snapshot is current.
LinkRunHasTheGraph ==
    \A w \in Worker :
        step[w] \in LinkSteps =>
            /\ at[w] = "run" /\ held[w].type \in LinkerLane
            /\ snapshot = Current
            /\ step[w] = "retire" => Links(snapshot) \subseteq edges
            /\ step[w] \in {"gc", "finish"} => edges = Links(snapshot)

StepsTyped == step \in [Worker -> Steps]

EInv == QInv /\ StepsTyped /\ LinkRunHasTheGraph

------------------------------------------------------------------------------
\* Every handler action is one of the things JobQueue lets a handler do.
LEMMA HandlerUsesQueue ==
    ASSUME NEW w \in Worker, HandlerOf(w)
    PROVE  HandlerStep(w) \/ UNCHANGED queueVars
<1>1. CASE PipelineStart(w) \/ Clone(w) \/ Parse(w) \/ WriteNodes(w) \/ Seal(w)
           \/ DeleteStart(w) \/ Deleted(w) \/ DeltaSkips(w) \/ LinkStart(w) \/ LinkFinish(w)
    BY <1>1 DEF PipelineStart, Clone, Parse, WriteNodes, Seal, DeleteStart, Deleted, DeltaSkips,
                LinkStart, LinkFinish, HandlerStep
<1>2. CASE PipelineFails(w) \/ WriteFails(w)
    BY <1>2 DEF PipelineFails, WriteFails, MarkPipelineFailed, HandlerStep
<1>3. CASE ClearEdges(w) \/ ClearNodes(w) \/ WriteRendezvous(w) \/ WriteEdges(w)
           \/ RetireStale(w) \/ CollectOrphans(w)
    BY <1>3 DEF ClearEdges, ClearNodes, WriteRendezvous, WriteEdges, RetireStale, CollectOrphans
<1>4. CASE ClearRows(w) \/ Relink(w) \/ LinkFails(w) \/ Return(w) \/ Raises(w)
    BY <1>4 DEF ClearRows, Relink, LinkFails, Return, Raises, HandlerStep
<1> QED
    BY <1>1, <1>2, <1>3, <1>4 DEF HandlerOf

LEMMA EstateStepUsesQueue == [EstateNext]_estateVars => [QueueNext]_queueVars
<1> SUFFICES ASSUME [EstateNext]_estateVars PROVE [QueueNext]_queueVars
    OBVIOUS
<1>1. CASE UNCHANGED estateVars
    BY <1>1 DEF estateVars
<1>2. ASSUME NEW c \in Client, RouteSubmits(c) PROVE QueueNext
    BY <1>2 DEF RouteSubmits, ClientSubmits, QueueNext
<1>3. CASE QueueSteps
    BY <1>3 DEF QueueSteps, QueueNext
<1>4. ASSUME NEW w \in Worker, HandlerOf(w) PROVE [QueueNext]_queueVars
    BY <1>4, HandlerUsesQueue DEF QueueNext
<1>5. CASE ServerRestarts
    BY <1>5 DEF ServerRestarts, QueueNext
<1> QED
    BY <1>1, <1>2, <1>3, <1>4, <1>5 DEF EstateNext

\* The server implements the queue: every behaviour of the handlers over the
\* graph is a behaviour JobQueue allows.
THEOREM EstateRefinesQueue == EstateSpec => UsesTheQueue
<1>1. EstateInit => QueueInit
    BY DEF EstateInit
<1> QED
    BY <1>1, EstateStepUsesQueue, PTL DEF EstateSpec, QueueSpec, UsesTheQueue

------------------------------------------------------------------------------
\* While a link run is under way nobody else is inside a handler.
LEMMA LinkRunIsAlone ==
    ASSUME EInv, NEW w \in Worker, step[w] \in LinkSteps, NEW v \in Worker, at[v] = "run"
    PROVE  v = w
BY DEF EInv, QInv, WorkersHoldJobs, LocksMatchPlaces, ReadersOrWriter, LinkRunHasTheGraph,
       Job, JobType

\* The queue's own steps leave a running handler where it is.
LEMMA QueueStepsKeep ==
    ASSUME EInv, QueueSteps \/ \E c \in Client : RouteSubmits(c) PROVE LinkRunHasTheGraph'
<1>1. UNCHANGED <<graph, step, locals>>
    BY DEF QueueSteps, RouteSubmits
<1>2. \A u \in Worker : at[u] = "run" => at'[u] = "run" /\ held'[u] = held[u]
    <2>1. CASE \E c \in Client : RouteSubmits(c)
        BY <2>1 DEF RouteSubmits, threads
    <2>2. CASE \E c \in Caller : Enqueue(c)
        BY <2>2 DEF Enqueue, threads
    <2>3. CASE Stop \/ Idle
        BY <2>3 DEF Stop, Idle, threads, queueVars
    <2>4. ASSUME NEW w \in Worker, Loop(w)
          PROVE  \A u \in Worker : at[u] = "run" => at'[u] = "run" /\ held'[u] = held[u]
        <3>1. /\ at[w] # "run"
              /\ \A u \in Worker \ {w} : at'[u] = at[u] /\ held'[u] = held[u]
            BY <2>4 DEF Loop, Take, TakeSentinel, MarkFailed, AcquireShared, AcquireRepo,
                        AcquireExclusive, Finish, EInv, QInv, QueueTypeOK
        <3> QED
            BY <3>1
    <2> QED
        BY <2>1, <2>2, <2>3, <2>4 DEF QueueSteps
<1> QED
    BY <1>1, <1>2 DEF EInv, LinkRunHasTheGraph, graph, locals, Current

\* A handler step that neither starts nor continues a link run happens while no
\* link run is under way, and leaves it so.
LEMMA OtherHandlersKeep ==
    ASSUME EInv, NEW w \in Worker, at[w] = "run", step[w] \notin LinkSteps,
           NEW s \in Steps \ LinkSteps, Go(w, s)
    PROVE  StepsTyped' /\ LinkRunHasTheGraph'
<1>1. \A u \in Worker : step[u] \notin LinkSteps
    BY LinkRunIsAlone
<1>2. StepsTyped' /\ \A u \in Worker : step'[u] \notin LinkSteps
    BY <1>1 DEF Go, EInv, StepsTyped
<1> QED
    BY <1>2 DEF LinkRunHasTheGraph

\* A step of a link run, given what it did to its own part of the invariant.
LEMMA LinkRunKeeps ==
    ASSUME EInv, NEW w \in Worker, at[w] = "run", held[w].type \in LinkerLane,
           NEW s \in Steps, Go(w, s), UNCHANGED <<life, claims, threads>>,
           s \in LinkSteps =>
               /\ snapshot' = Current
               /\ s = "retire" => Links(snapshot)' \subseteq edges'
               /\ s \in {"gc", "finish"} => edges' = Links(snapshot)'
    PROVE  StepsTyped' /\ LinkRunHasTheGraph'
<1>1. \A u \in Worker \ {w} : step[u] \notin LinkSteps
    BY LinkRunIsAlone
<1>2. StepsTyped' /\ step'[w] = s /\ \A u \in Worker \ {w} : step'[u] \notin LinkSteps
    BY <1>1 DEF Go, EInv, StepsTyped
<1>3. at' = at /\ held' = held
    BY DEF threads
<1>4. Current' = Current
    BY DEF Current
<1> QED
    BY <1>2, <1>3, <1>4 DEF LinkRunHasTheGraph

LEMMA IngestAndDeleteKeep ==
    ASSUME EInv, NEW w \in Worker,
           \/ PipelineStart(w) \/ Clone(w) \/ Parse(w) \/ ClearEdges(w) \/ ClearNodes(w)
           \/ ClearRows(w) \/ WriteNodes(w) \/ Seal(w) \/ PipelineFails(w) \/ WriteFails(w)
           \/ DeleteStart(w) \/ Deleted(w) \/ Relink(w) \/ DeltaSkips(w)
    PROVE  StepsTyped' /\ LinkRunHasTheGraph'
<1>1. at[w] = "run" /\ step[w] \notin LinkSteps
    BY DEF PipelineStart, Clone, Parse, ClearEdges, ClearNodes, ClearRows, WriteNodes, Seal,
           PipelineFails, WriteFails, DeleteStart, Deleted, Relink, DeltaSkips, At, LinkSteps
<1>2. PICK s \in Steps \ LinkSteps : Go(w, s)
    BY DEF PipelineStart, Clone, Parse, ClearEdges, ClearNodes, ClearRows, WriteNodes, Seal,
           PipelineFails, WriteFails, MarkPipelineFailed, DeleteStart, Deleted, Relink,
           DeltaSkips, Steps, LinkSteps
<1> QED
    BY <1>1, <1>2, OtherHandlersKeep

LEMMA LeavingIsQuiet ==
    ASSUME EInv, NEW w \in Worker, at[w] = "run", Leave(w)
    PROVE  StepsTyped' /\ LinkRunHasTheGraph'
<1>1. \A u \in Worker \ {w} : step[u] \notin LinkSteps
    BY LinkRunIsAlone
<1>2. StepsTyped' /\ \A u \in Worker : step'[u] \notin LinkSteps
    BY <1>1 DEF Leave, Go, EInv, StepsTyped, Steps, LinkSteps
<1> QED
    BY <1>2 DEF LinkRunHasTheGraph

LEMMA LeavesKeep ==
    ASSUME EInv, NEW w \in Worker, LinkFails(w) \/ Return(w) \/ Raises(w)
    PROVE  StepsTyped' /\ LinkRunHasTheGraph'
<1>1. at[w] = "run" /\ Leave(w)
    BY DEF LinkFails, Return, Raises, HandlerRaises, HandlerReturns, Running
<1> QED
    BY <1>1, LeavingIsQuiet

LEMMA LinkRunStepsKeep ==
    ASSUME EInv, NEW w \in Worker,
           \/ LinkStart(w) \/ WriteRendezvous(w) \/ WriteEdges(w)
           \/ RetireStale(w) \/ CollectOrphans(w) \/ LinkFinish(w)
    PROVE  StepsTyped' /\ LinkRunHasTheGraph'
<1>1. at[w] = "run" /\ held[w].type \in LinkerLane
    BY DEF LinkStart, WriteRendezvous, WriteEdges, RetireStale, CollectOrphans, LinkFinish, At,
           EInv, LinkRunHasTheGraph, LinkSteps, LinkerLane
<1>2. UNCHANGED <<life, claims, threads>>
    BY DEF LinkStart, WriteRendezvous, WriteEdges, RetireStale, CollectOrphans, LinkFinish,
           HandlerReports, queueVars
<1>3. CASE LinkStart(w)
    <2>1. Go(w, "rendezvous") /\ snapshot' = Current
        BY <1>3 DEF LinkStart
    <2> QED
        BY <1>1, <1>2, <2>1, LinkRunKeeps DEF Steps
<1>4. CASE WriteRendezvous(w)
    <2>1. Go(w, "edges") /\ snapshot' = Current
        BY <1>4 DEF WriteRendezvous, At, EInv, LinkRunHasTheGraph, LinkSteps, locals
    <2> QED
        BY <1>1, <1>2, <2>1, LinkRunKeeps DEF Steps
<1>5. CASE WriteEdges(w)
    <2>1. Go(w, "retire") /\ snapshot' = Current /\ snapshot' = snapshot
        BY <1>5 DEF WriteEdges, At, EInv, LinkRunHasTheGraph, LinkSteps, locals
    <2>2. Links(snapshot)' \subseteq edges'
        BY <1>5, <2>1 DEF WriteEdges, Links
    <2> QED
        BY <1>1, <1>2, <2>1, <2>2, LinkRunKeeps DEF Steps
<1>6. CASE RetireStale(w)
    <2>1. Go(w, "gc") /\ snapshot' = Current /\ snapshot' = snapshot
        BY <1>6 DEF RetireStale, At, EInv, LinkRunHasTheGraph, LinkSteps, locals
    <2>2. Links(snapshot) \subseteq edges
        BY <1>6 DEF RetireStale, At, EInv, LinkRunHasTheGraph, LinkSteps
    <2>3. edges' = Links(snapshot)'
        BY <1>6, <2>1, <2>2 DEF RetireStale, Links
    <2> QED
        BY <1>1, <1>2, <2>1, <2>3, LinkRunKeeps DEF Steps
<1>7. CASE CollectOrphans(w)
    <2>1. Go(w, "finish") /\ snapshot' = Current /\ snapshot' = snapshot
        BY <1>7 DEF CollectOrphans, At, EInv, LinkRunHasTheGraph, LinkSteps, locals
    <2>2. edges' = Links(snapshot)'
        BY <1>7, <2>1 DEF CollectOrphans, At, EInv, LinkRunHasTheGraph, LinkSteps, Links
    <2> QED
        BY <1>1, <1>2, <2>1, <2>2, LinkRunKeeps DEF Steps
<1>8. CASE LinkFinish(w)
    <2>1. Go(w, "return")
        BY <1>8 DEF LinkFinish
    <2> QED
        BY <1>1, <1>2, <2>1, LinkRunKeeps DEF Steps, LinkSteps
<1> QED
    BY <1>3, <1>4, <1>5, <1>6, <1>7, <1>8

LEMMA EstateNextKeepsEInv == EInv /\ [EstateNext]_estateVars => EInv'
<1> SUFFICES ASSUME EInv, [EstateNext]_estateVars PROVE EInv'
    OBVIOUS
<1>1. QInv'
    BY EstateStepUsesQueue, NextKeepsQInv DEF EInv
<1>2. CASE UNCHANGED estateVars
    BY <1>2 DEF EInv, StepsTyped, LinkRunHasTheGraph, Current, estateVars, queueVars, threads,
                graph, locals, QInv, QueueTypeOK, WorkersHoldJobs, LocksMatchPlaces,
                ReadersOrWriter, tables, locks
<1>3. CASE QueueSteps \/ \E c \in Client : RouteSubmits(c)
    <2>1. step' = step
        BY <1>3 DEF QueueSteps, RouteSubmits
    <2> QED
        BY <1>1, <1>3, <2>1, QueueStepsKeep DEF EInv, StepsTyped
<1>4. ASSUME NEW w \in Worker, HandlerOf(w) PROVE EInv'
    BY <1>1, <1>4, IngestAndDeleteKeep, LeavesKeep, LinkRunStepsKeep DEF HandlerOf, EInv
<1>5. CASE ServerRestarts
    BY <1>1, <1>5 DEF ServerRestarts, EInv, StepsTyped, LinkRunHasTheGraph, Steps, LinkSteps
<1> QED
    BY <1>2, <1>3, <1>4, <1>5 DEF EstateNext

LEMMA InitEInv == EstateInit => EInv
<1> SUFFICES ASSUME EstateInit PROVE EInv
    OBVIOUS
<1>1. QInv
    BY InitQInv DEF EstateInit
<1>2. StepsTyped /\ LinkRunHasTheGraph
    BY DEF EstateInit, StepsTyped, LinkRunHasTheGraph, Steps, LinkSteps
<1> QED
    BY <1>1, <1>2 DEF EInv

\* Every reachable state of the server satisfies the inductive invariant.
THEOREM EstateInvariant == EstateSpec => []EInv
BY InitEInv, EstateNextKeepsEInv, PTL DEF EstateSpec

\* When a link run collects orphans and closes its ledger, the edges in the
\* graph are exactly those the linkable claims support at that moment, whatever
\* failed, crashed or was submitted before it.
THEOREM LinkRunsAreExact == EstateSpec => []LinkRunExact
<1>1. EInv => LinkRunExact
    BY DEF EInv, LinkRunHasTheGraph, LinkRunExact, LinkSteps
<1> QED
    BY <1>1, EstateInvariant, PTL

------------------------------------------------------------------------------
\* An edge the claims support on both sides of a step is there after it.
LEMMA EdgeSurvivesHandler ==
    ASSUME EInv, NEW w \in Worker, HandlerOf(w),
           NEW e \in Links(Current), e \in edges, e.ends \cap ClearedNow = {}
    PROVE  e \in edges'
<1>1. CASE ClearEdges(w) \/ WriteFails(w)
    <2>1. CASE step[w] = "clearEdges"
        <3>1. Of(w) \in ClearedNow
            BY <2>1 DEF ClearedNow
        <3>2. e.ends # {Of(w)}
            BY <3>1
        <3> QED
            BY <1>1, <2>1, <3>2 DEF ClearEdges, WriteFails, At
    <2>2. CASE step[w] # "clearEdges"
        BY <1>1, <2>2 DEF ClearEdges, WriteFails, At
    <2> QED
        BY <2>1, <2>2
<1>2. CASE RetireStale(w)
    <2>1. snapshot = Current
        BY <1>2 DEF RetireStale, At, EInv, LinkRunHasTheGraph, LinkSteps
    <2> QED
        BY <1>2, <2>1 DEF RetireStale
<1>3. CASE WriteEdges(w)
    BY <1>3 DEF WriteEdges
<1>4. CASE LinkFails(w)
    BY <1>4 DEF LinkFails
<1>5. CASE \/ PipelineStart(w) \/ Clone(w) \/ Parse(w) \/ ClearNodes(w) \/ ClearRows(w)
           \/ WriteNodes(w) \/ Seal(w) \/ PipelineFails(w)
           \/ DeleteStart(w) \/ Deleted(w) \/ Relink(w) \/ DeltaSkips(w) \/ LinkStart(w)
           \/ WriteRendezvous(w) \/ CollectOrphans(w) \/ LinkFinish(w) \/ Return(w) \/ Raises(w)
    BY <1>5 DEF PipelineStart, Clone, Parse, ClearNodes, ClearRows, WriteNodes, Seal,
                PipelineFails, DeleteStart, Deleted, Relink, DeltaSkips, LinkStart,
                WriteRendezvous, CollectOrphans, LinkFinish, Return, Raises, graph
<1> QED
    BY <1>1, <1>2, <1>3, <1>4, <1>5 DEF HandlerOf

\* New writes first: a link run never opens a gap in the edges being served, and
\* only the clearing of one of its ends takes away an edge that stays supported.
THEOREM EdgesSurvive == EstateSpec => ServedEdgesSurvive
<1> DEFINE Survives == \A e \in Links(Current) \cap Links(Current)' :
                           e \in edges /\ e.ends \cap ClearedNow = {} => e \in edges'
<1>1. EInv /\ [EstateNext]_estateVars => [Survives]_estateVars
    <2> SUFFICES ASSUME EInv, EstateNext, NEW e \in Links(Current), e \in edges,
                        e.ends \cap ClearedNow = {}
                 PROVE  e \in edges'
        OBVIOUS
    <2>1. CASE QueueSteps \/ \E c \in Client : RouteSubmits(c)
        BY <2>1 DEF QueueSteps, RouteSubmits, graph
    <2>2. ASSUME NEW w \in Worker, HandlerOf(w) PROVE e \in edges'
        BY <2>2, EdgeSurvivesHandler
    <2>3. CASE ServerRestarts
        BY <2>3 DEF ServerRestarts, graph
    <2> QED
        BY <2>1, <2>2, <2>3 DEF EstateNext
<1> QED
    BY <1>1, EstateInvariant, PTL DEF EstateSpec, ServedEdgesSurvive

------------------------------------------------------------------------------
\* What every handler can rely on: the graph's types, link jobs filed apart from
\* the repositories, and each worker at a step of its own job.
LinkTypes == {"link_full", "link_delta"}
Lifecycles == {"none", "unset", "cloning", "parsing", "writing", "ingested"} \cup FailureStates
PipelineSteps == {"clone", "parse", "clearEdges", "clearNodes", "clearRows", "write", "seal"}
DeleteSteps == {"clearEdges", "clearNodes", "clearRows", "workspace"}

GraphTyped ==
    /\ claims \in [Source -> SUBSET ClaimKey]
    /\ life \in [Source -> Lifecycles]
    /\ evidence \in [Worker -> SUBSET ClaimKey]
    /\ cleared \in [Worker -> BOOLEAN]
    /\ before \in [Worker -> SUBSET ClaimKey]

LinkJobsApart == \A j \in Live : j.repo = LinkerRepo <=> j.type \in LinkTypes

StepsFitJobs ==
    \A w \in Worker :
        /\ at[w] # "run" => step[w] = "start"
        /\ step[w] = "start" => ~cleared[w]
        /\ held[w].type \in IngestLane => step[w] \in PipelineSteps \cup {"start", "relink", "return"}
        /\ held[w].type = "repo_delete" => step[w] \in DeleteSteps \cup {"start", "relink", "return"}
        /\ held[w].type \in LinkTypes => step[w] \in LinkSteps \cup {"start", "return"}

BaseInv == EInv /\ CInv /\ GraphTyped /\ LinkJobsApart /\ StepsFitJobs

\* A job appears by a route's submission or by a handler's follow-up.
LEMMA LiveFrom ==
    ASSUME CInv, [EstateNext]_estateVars, NEW j \in Live'
    PROVE  \/ j \in Live
           \/ \E c \in Client, k \in Offered : RouteSubmits(c) /\ Permitted(k) /\ KeyOf(j) = k
           \/ KeyOf(j) \in FollowUp
<1>1. QInv'
    BY EstateStepUsesQueue, NextKeepsC DEF CInv
<1>2. CASE UNCHANGED estateVars \/ Idle
    <2>1. UNCHANGED <<issued, pending, submitting, lane, held>>
        BY <1>2 DEF estateVars, queueVars, tables, threads, Idle
    <2> QED
        BY <2>1, NobodyMoves
<1>3. ASSUME NEW c \in Client, RouteSubmits(c)
      PROVE  \/ j \in Live
             \/ \E d \in Client, k \in Offered : RouteSubmits(d) /\ Permitted(k) /\ KeyOf(j) = k
    <2>1. PICK k \in Offered : Permitted(k) /\ (Register(c, k) \/ Coalesce(c, k))
        BY <1>3 DEF RouteSubmits
    <2>2. UNCHANGED <<lane, held>> /\ c \in Caller /\ k \in Key
        BY <1>3, QueueAssumption DEF RouteSubmits, threads, Caller
    <2>3. CASE Register(c, k)
        <3>1. Live' = Live \cup {[id |-> issued + 1, type |-> k[1], repo |-> k[2]]}
            BY <1>1, <2>2, <2>3, RegisterKeepsC
        <3>2. KeyOf([id |-> issued + 1, type |-> k[1], repo |-> k[2]]) = k
            BY <2>2 DEF KeyOf, Key
        <3> QED
            BY <1>3, <2>1, <3>1, <3>2
    <2>4. CASE Coalesce(c, k)
        BY <2>2, <2>4, NobodyMoves DEF Coalesce
    <2> QED
        BY <2>1, <2>3, <2>4
<1>4. CASE QueueSteps /\ ~Idle
    <2>1. ASSUME NEW c \in Caller, Enqueue(c) PROVE j \in Live
        BY <1>1, <2>1, EnqueueKeepsC
    <2>2. ASSUME NEW w \in Worker, Loop(w) PROVE j \in Live
        BY <1>1, <2>2, LoopKeepsC
    <2>3. CASE Stop
        BY <1>1, <2>3, StopKeepsC
    <2> QED
        BY <1>4, <2>1, <2>2, <2>3 DEF QueueSteps
<1>5. ASSUME NEW w \in Worker, HandlerOf(w) PROVE j \in Live \/ KeyOf(j) \in FollowUp
    <2>1. CASE HandlerSubmits(w)
        <3>1. PICK k \in FollowUp : Register(w, k) \/ Coalesce(w, k)
            BY <2>1 DEF HandlerSubmits
        <3>2. UNCHANGED <<lane, held>> /\ w \in Caller /\ k \in Key
            BY <2>1, QueueAssumption DEF HandlerSubmits, threads, Caller
        <3>3. CASE Register(w, k)
            <4>1. Live' = Live \cup {[id |-> issued + 1, type |-> k[1], repo |-> k[2]]}
                BY <1>1, <3>2, <3>3, RegisterKeepsC
            <4>2. KeyOf([id |-> issued + 1, type |-> k[1], repo |-> k[2]]) = k
                BY <3>2 DEF KeyOf, Key
            <4> QED
                BY <4>1, <4>2
        <3>4. CASE Coalesce(w, k)
            BY <3>2, <3>4, NobodyMoves DEF Coalesce
        <3> QED
            BY <3>1, <3>3, <3>4
    <2>2. CASE ~HandlerSubmits(w)
        <3>1. HandlerStep(w) \/ UNCHANGED queueVars
            BY <1>5, HandlerUsesQueue
        <3>2. UNCHANGED <<issued, pending, submitting, lane, held>>
            BY <2>2, <3>1
            DEF HandlerStep, HandlerReports, HandlerDropsRows, HandlerReturns, HandlerRaises, tables,
                threads, queueVars
        <3> QED
            BY <3>2, NobodyMoves
    <2> QED
        BY <2>1, <2>2
<1>6. CASE ServerRestarts
    BY <1>1, <1>6, RestartKeepsC DEF ServerRestarts
<1> QED
    BY <1>2, <1>3, <1>4, <1>5, <1>6 DEF EstateNext, QueueSteps

LEMMA LinkJobsStayApart ==
    ASSUME CInv, LinkJobsApart, [EstateNext]_estateVars PROVE LinkJobsApart'
<1> SUFFICES ASSUME NEW j \in Live' PROVE j.repo = LinkerRepo <=> j.type \in LinkTypes
    BY DEF LinkJobsApart
<1>1. CASE j \in Live
    BY <1>1 DEF LinkJobsApart
<1>2. CASE KeyOf(j) \in Offered \cup FollowUp
    BY <1>2, EstateAssumption DEF KeyOf, LinkTypes
<1> QED
    BY <1>1, <1>2, LiveFrom

\* A worker's job is live, and unless it is a link job it names a repository.
LEMMA HeldIsLive ==
    ASSUME CInv, LinkJobsApart, NEW w \in Worker, held[w] \in Job
    PROVE  held[w] \in Live /\ (held[w].type \notin LinkTypes => Of(w) \in Source)
<1>1. held[w] \in Live
    BY IdsOfJobs DEF Live, JobsHeld
<1>2. held[w].repo \in Repo
    BY DEF Job
<1> QED
    BY <1>1, <1>2 DEF LinkJobsApart, Of, Source

LEMMA RunningJobs ==
    ASSUME BaseInv, NEW w \in Worker, at[w] = "run"
    PROVE  /\ held[w] \in Job /\ held[w] \in Live
           /\ held[w].type \notin LinkTypes => Of(w) \in Source
           /\ held[w].type \in IngestLane \/ held[w].type = "repo_delete" \/ held[w].type \in LinkTypes
<1>1. held[w] \in Job
    BY DEF BaseInv, EInv, QInv, WorkersHoldJobs
<1>2. held[w].type \in JobType
    BY <1>1 DEF Job
<1> QED
    BY <1>1, <1>2, HeldIsLive DEF BaseInv, JobType, LinkerLane, LinkTypes

\* Two handlers at a time are two ingests of different repositories.
LEMMA OthersElsewhere ==
    ASSUME BaseInv, NEW w \in Worker, NEW v \in Worker, at[w] = "run", at[v] = "run", v # w
    PROVE  held[w].type \in IngestLane /\ held[v].type \in IngestLane /\ Of(w) # Of(v)
<1>1. /\ held[w] \in Job /\ held[v] \in Job /\ LocksMatchPlaces /\ ReadersOrWriter
    BY RunningJobs DEF BaseInv, EInv, QInv
<1>2. held[w].type \in IngestLane \cup LinkerLane /\ held[v].type \in IngestLane \cup LinkerLane
      /\ held[w].repo \in Repo /\ held[v].repo \in Repo
    BY <1>1 DEF Job, JobType
<1>3. held[w].type \in IngestLane /\ held[v].type \in IngestLane
    BY <1>1, <1>2 DEF LocksMatchPlaces, ReadersOrWriter
<1>4. repoOwner[held[w].repo] = w /\ repoOwner[held[v].repo] = v
    BY <1>1, <1>2, <1>3 DEF LocksMatchPlaces
<1> QED
    BY <1>3, <1>4 DEF Of

------------------------------------------------------------------------------
\* What a handler's step leaves to the others: their places, their steps and
\* locals, and every repository but its own.
LEMMA HandlerKeepsOthers ==
    ASSUME BaseInv, NEW w \in Worker, HandlerOf(w)
    PROVE  /\ at[w] = "run" /\ held' = held
           /\ \A v \in Worker \ {w} : at'[v] = at[v] /\ step'[v] = step[v]
                  /\ evidence'[v] = evidence[v] /\ cleared'[v] = cleared[v] /\ before'[v] = before[v]
           /\ \A r \in Source \ {Of(w)} : claims'[r] = claims[r] /\ life'[r] = life[r]
<1> USE DEF At, Go
<1>1. GraphTyped /\ step \in [Worker -> Steps] /\ at \in [Worker -> Places]
    BY DEF BaseInv, EInv, StepsTyped, QInv, QueueTypeOK
<1>2. CASE \/ PipelineStart(w) \/ Clone(w) \/ Parse(w) \/ DeleteStart(w) \/ Deleted(w)
           \/ DeltaSkips(w) \/ LinkStart(w) \/ LinkFinish(w)
    BY <1>1, <1>2
    DEF PipelineStart, Clone, Parse, DeleteStart, Deleted, DeltaSkips, LinkStart, LinkFinish,
        HandlerReports, Running, threads, graph, locals, GraphTyped, Stamped
<1>3. CASE \/ ClearEdges(w) \/ ClearNodes(w) \/ WriteRendezvous(w) \/ WriteEdges(w)
           \/ RetireStale(w) \/ CollectOrphans(w)
    BY <1>1, <1>3
    DEF ClearEdges, ClearNodes, WriteRendezvous, WriteEdges, RetireStale, CollectOrphans,
        queueVars, threads, locals, GraphTyped
<1>4. CASE WriteNodes(w) \/ Seal(w)
    BY <1>1, <1>4
    DEF WriteNodes, Seal, HandlerReports, Running, threads, locals, GraphTyped
<1>5. CASE PipelineFails(w) \/ WriteFails(w)
    <2>1. /\ at[w] = "run" /\ UNCHANGED <<locals, threads>> /\ Go(w, "return")
          /\ \A r \in Source \ {Of(w)} : claims'[r] = claims[r]
        BY <1>1, <1>5
        DEF PipelineFails, WriteFails, MarkPipelineFailed, HandlerReports, Running, GraphTyped
    <2>2. \A r \in Source \ {Of(w)} : life'[r] = life[r]
        BY <1>1, <1>5 DEF PipelineFails, WriteFails, MarkPipelineFailed, GraphTyped
    <2> QED
        BY <1>1, <2>1, <2>2 DEF locals, threads
<1>6. CASE ClearRows(w) \/ Relink(w)
    BY <1>1, <1>6
    DEF ClearRows, Relink, HandlerDropsRows, HandlerSubmits, Running, threads, graph, locals
<1>7. CASE LinkFails(w) \/ Return(w) \/ Raises(w)
    BY <1>1, <1>7
    DEF LinkFails, Return, Raises, HandlerReturns, HandlerRaises, Running, Leave, graph, GraphTyped
<1> QED
    BY <1>2, <1>3, <1>4, <1>5, <1>6, <1>7 DEF HandlerOf

LEMMA HandlersKeepTypes ==
    ASSUME BaseInv, NEW w \in Worker, HandlerOf(w) PROVE GraphTyped'
<1> USE DEF At, Go
<1>1. GraphTyped /\ (held[w].type \notin LinkTypes => Of(w) \in Source)
    BY HandlerKeepsOthers, RunningJobs DEF BaseInv
<1>2. held[w].type \in IngestLane \/ held[w].type = "repo_delete" => held[w].type \notin LinkTypes
    BY DEF IngestLane, LinkTypes
<1>3. CASE \/ PipelineStart(w) \/ Clone(w) \/ Parse(w)
    <2>1. Of(w) \in Source
        BY <1>1, <1>2, <1>3
        DEF PipelineStart, Clone, Parse, BaseInv, StepsFitJobs, LinkSteps
    <2>2. life' \in [Source -> Lifecycles]
        <3>1. \A s \in Lifecycles : Stamped(Of(w), s) \in [Source -> Lifecycles]
            BY <1>1, <2>1 DEF Stamped, GraphTyped
        <3>2. {"cloning", "parsing"} \subseteq Lifecycles
            BY DEF Lifecycles
        <3> QED
            BY <1>1, <1>3, <3>1, <3>2 DEF PipelineStart, Clone, Parse, GraphTyped, graph
    <2>3. claims' = claims /\ before' \in [Worker -> SUBSET ClaimKey]
        BY <1>1, <1>3, <2>1 DEF PipelineStart, Clone, Parse, GraphTyped, graph
    <2>4. evidence' \in [Worker -> SUBSET ClaimKey] /\ cleared' \in [Worker -> BOOLEAN]
        <3>1. CASE PipelineStart(w)
            BY <1>1, <3>1 DEF PipelineStart, GraphTyped
        <3>2. CASE Clone(w)
            BY <1>1, <3>2, EstateAssumption DEF Clone, GraphTyped
        <3>3. CASE Parse(w)
            <4>1. Replaces(held[w]) \in BOOLEAN
                BY DEF Replaces
            <4>2. cleared' = [cleared EXCEPT ![w] = Replaces(held[w])] /\ evidence' = evidence
                BY <3>3 DEF Parse
            <4> QED
                BY <1>1, <4>1, <4>2 DEF GraphTyped
        <3> QED
            BY <1>3, <3>1, <3>2, <3>3
    <2> QED
        BY <1>1, <2>2, <2>3, <2>4 DEF GraphTyped
<1>4. CASE ClearEdges(w) \/ ClearNodes(w) \/ ClearRows(w) \/ WriteNodes(w) \/ Seal(w)
    <2>1. Of(w) \in Source
        BY <1>1, <1>2, <1>4, RunningJobs, HandlerKeepsOthers
        DEF ClearEdges, ClearNodes, ClearRows, WriteNodes, Seal, BaseInv, StepsFitJobs, LinkSteps
    <2>2. CASE ClearEdges(w) \/ ClearNodes(w)
        BY <1>1, <2>1, <2>2 DEF ClearEdges, ClearNodes, GraphTyped, Lifecycles, locals
    <2>3. CASE ClearRows(w)
        BY <1>1, <2>1, <2>3 DEF ClearRows, GraphTyped, Lifecycles, locals
    <2>4. CASE WriteNodes(w)
        BY <1>1, <2>1, <2>4 DEF WriteNodes, GraphTyped, Lifecycles, locals
    <2>5. CASE Seal(w)
        BY <1>1, <2>1, <2>5 DEF Seal, GraphTyped, Lifecycles, locals
    <2> QED
        BY <1>4, <2>2, <2>3, <2>4, <2>5
<1>5. CASE PipelineFails(w) \/ WriteFails(w)
    <2>1. UNCHANGED locals /\ life' \in [Source -> Lifecycles]
        BY <1>1, <1>5
        DEF PipelineFails, WriteFails, MarkPipelineFailed, GraphTyped, Lifecycles, FailureStates
    <2>2. claims' \in [Source -> SUBSET ClaimKey]
        BY <1>1, <1>5 DEF PipelineFails, WriteFails, GraphTyped
    <2> QED
        BY <1>1, <2>1, <2>2 DEF GraphTyped, locals
<1>6. CASE DeleteStart(w)
    <2>1. Of(w) \in Source
        BY <1>1, <1>2, <1>6 DEF DeleteStart
    <2> QED
        BY <1>1, <1>6, <2>1 DEF DeleteStart, GraphTyped, graph
<1>7. CASE \/ Deleted(w) \/ Relink(w) \/ DeltaSkips(w) \/ LinkStart(w) \/ WriteRendezvous(w)
           \/ WriteEdges(w) \/ RetireStale(w) \/ CollectOrphans(w) \/ LinkFinish(w)
    BY <1>1, <1>7
    DEF Deleted, Relink, DeltaSkips, LinkStart, WriteRendezvous, WriteEdges, RetireStale,
        CollectOrphans, LinkFinish, GraphTyped, graph, locals
<1>8. CASE LinkFails(w) \/ Return(w) \/ Raises(w)
    BY <1>1, <1>8 DEF LinkFails, Return, Raises, Leave, GraphTyped, graph
<1> QED
    BY <1>3, <1>4, <1>5, <1>6, <1>7, <1>8 DEF HandlerOf

\* Where each handler's step may lead.
LEMMA HandlersKeepSteps ==
    ASSUME BaseInv, NEW w \in Worker, HandlerOf(w) PROVE StepsFitJobs'
<1> USE DEF At, Go
<1>1. /\ StepsFitJobs /\ step \in [Worker -> Steps] /\ at \in [Worker -> Places]
      /\ cleared \in [Worker -> BOOLEAN] /\ at[w] = "run" /\ held' = held
    BY HandlerKeepsOthers DEF BaseInv, EInv, StepsTyped, QInv, QueueTypeOK, GraphTyped
<1>2. \A v \in Worker \ {w} : at'[v] = at[v] /\ step'[v] = step[v] /\ cleared'[v] = cleared[v]
    BY HandlerKeepsOthers
<1>3. held[w].type \in IngestLane \/ held[w].type = "repo_delete" \/ held[w].type \in LinkTypes
    BY <1>1, RunningJobs
<1> USE DEF IngestLane, LinkTypes, PipelineSteps, DeleteSteps, LinkSteps
<1>4. ASSUME at'[w] = "run", step'[w] # "start",
             held[w].type \in IngestLane => step'[w] \in PipelineSteps \cup {"relink", "return"},
             held[w].type = "repo_delete" => step'[w] \in DeleteSteps \cup {"relink", "return"},
             held[w].type \in LinkTypes => step'[w] \in LinkSteps \cup {"return"}
      PROVE  StepsFitJobs'
    BY <1>1, <1>2, <1>4 DEF StepsFitJobs
<1>5. ASSUME step'[w] = "start", ~cleared'[w] PROVE StepsFitJobs'
    BY <1>1, <1>2, <1>5 DEF StepsFitJobs
<1>6. CASE PipelineStart(w) \/ Clone(w) \/ Parse(w)
    <2>1. held[w].type \in IngestLane
        BY <1>1, <1>3, <1>6 DEF PipelineStart, Clone, Parse, StepsFitJobs
    <2>2. at'[w] = "run" /\ step'[w] \in PipelineSteps
        BY <1>1, <1>6 DEF PipelineStart, Clone, Parse, HandlerReports, threads
    <2> QED
        BY <1>4, <2>1, <2>2
<1>7. CASE WriteNodes(w) \/ Seal(w) \/ PipelineFails(w) \/ WriteFails(w)
    <2>1. held[w].type \in IngestLane
        BY <1>1, <1>3, <1>7 DEF WriteNodes, Seal, PipelineFails, WriteFails, StepsFitJobs
    <2>2. at'[w] = "run" /\ step'[w] \in {"seal", "relink", "return"}
        BY <1>1, <1>7
        DEF WriteNodes, Seal, PipelineFails, WriteFails, MarkPipelineFailed, HandlerReports, threads
    <2> QED
        BY <1>4, <2>1, <2>2
<1>8. CASE ClearEdges(w) \/ ClearNodes(w) \/ ClearRows(w)
    <2>1. held[w].type \in IngestLane \/ held[w].type = "repo_delete"
        BY <1>1, <1>3, <1>8 DEF ClearEdges, ClearNodes, ClearRows, StepsFitJobs
    <2>2. /\ at'[w] = "run"
          /\ \/ step'[w] \in {"clearNodes", "clearRows"}
             \/ step'[w] = (IF held[w].type = "repo_delete" THEN "workspace" ELSE "write")
        BY <1>1, <1>8
        DEF ClearEdges, ClearNodes, ClearRows, HandlerDropsRows, queueVars, threads
    <2> QED
        BY <1>4, <2>1, <2>2
<1>9. CASE DeleteStart(w) \/ Deleted(w)
    <2>1. held[w].type = "repo_delete"
        BY <1>1, <1>3, <1>9 DEF DeleteStart, Deleted, StepsFitJobs
    <2>2. at'[w] = "run" /\ step'[w] \in {"clearEdges", "relink", "return"}
        BY <1>1, <1>9 DEF DeleteStart, Deleted, HandlerReports, threads
    <2> QED
        BY <1>4, <2>1, <2>2
<1>10. CASE Relink(w) \/ DeltaSkips(w)
    <2>1. at'[w] = "run" /\ step'[w] = "return"
        BY <1>1, <1>10 DEF Relink, DeltaSkips, HandlerReports, HandlerSubmits, threads
    <2> QED
        BY <1>4, <2>1
<1>11. CASE \/ LinkStart(w) \/ WriteRendezvous(w) \/ WriteEdges(w) \/ RetireStale(w)
            \/ CollectOrphans(w) \/ LinkFinish(w)
    <2>1. held[w].type \in LinkTypes
        BY <1>1, <1>3, <1>11
        DEF LinkStart, WriteRendezvous, WriteEdges, RetireStale, CollectOrphans, LinkFinish,
            StepsFitJobs
    <2>2. at'[w] = "run" /\ step'[w] \in LinkSteps \cup {"return"}
        BY <1>1, <1>11
        DEF LinkStart, WriteRendezvous, WriteEdges, RetireStale, CollectOrphans, LinkFinish,
            HandlerReports, queueVars, threads
    <2> QED
        BY <1>4, <2>1, <2>2
<1>12. CASE LinkFails(w) \/ Return(w) \/ Raises(w)
    BY <1>1, <1>5, <1>12 DEF LinkFails, Return, Raises, Leave
<1> QED
    BY <1>6, <1>7, <1>8, <1>9, <1>10, <1>11, <1>12 DEF HandlerOf

\* The places a job passes through once its handler is over, or if it has none.
Aftermath == {"unhandled", "except", "finish", "dying"}

\* The queue's own steps change no step, no local and nothing in the graph, and
\* leave a running handler and its job alone.
LEMMA QueueStepsLeaveHandlers ==
    ASSUME BaseInv, QueueSteps \/ (\E c \in Client : RouteSubmits(c)) \/ UNCHANGED estateVars
    PROVE  /\ UNCHANGED <<life, claims, print, edges, rendezvous, step, evidence, cleared, snapshot, before>>
           /\ \A u \in Worker :
                  /\ at[u] = "run" => at'[u] = "run" /\ held'[u] = held[u]
                  /\ at'[u] = "run" /\ at[u] # "run" => at[u] \in {"lock", "repo"}
                  /\ at[u] \in Aftermath /\ held'[u] # NoJob => at'[u] \in Aftermath
<1> USE DEF threads
<1>1. at \in [Worker -> Places] /\ held \in [Worker -> Job \cup {NoJob}]
    BY DEF BaseInv, EInv, QInv, QueueTypeOK
<1>2. UNCHANGED <<graph, step, locals>>
    BY DEF QueueSteps, RouteSubmits, estateVars
<1>3. CASE (\E c \in Client : RouteSubmits(c)) \/ (\E c \in Caller : Enqueue(c)) \/ Stop \/ Idle
           \/ UNCHANGED estateVars
    <2>1. UNCHANGED threads
        BY <1>3 DEF RouteSubmits, Enqueue, Stop, Idle, queueVars, estateVars
    <2> QED
        BY <1>2, <2>1 DEF graph, locals
<1>4. ASSUME NEW w \in Worker, Loop(w)
      PROVE  \A u \in Worker :
                  /\ at[u] = "run" => at'[u] = "run" /\ held'[u] = held[u]
                  /\ at'[u] = "run" /\ at[u] # "run" => at[u] \in {"lock", "repo"}
                  /\ at[u] \in Aftermath /\ held'[u] # NoJob => at'[u] \in Aftermath
    BY <1>1, <1>4 DEF Loop, Take, TakeSentinel, MarkFailed, AcquireShared, AcquireRepo,
                      AcquireExclusive, Finish, Aftermath
<1>5. CASE \E w \in Worker : Loop(w)
    BY <1>2, <1>4, <1>5 DEF graph, locals
<1> QED
    BY <1>3, <1>5 DEF QueueSteps

LEMMA EstateNextKeepsBase == BaseInv /\ [EstateNext]_estateVars => BaseInv'
<1> SUFFICES ASSUME BaseInv, [EstateNext]_estateVars PROVE BaseInv'
    OBVIOUS
<1>1. EInv'
    BY EstateNextKeepsEInv DEF BaseInv
<1>2. CInv'
    BY EstateStepUsesQueue, NextKeepsC DEF BaseInv
<1>3. LinkJobsApart'
    BY LinkJobsStayApart DEF BaseInv
<1>4. CASE QueueSteps \/ (\E c \in Client : RouteSubmits(c)) \/ UNCHANGED estateVars
    <2>1. GraphTyped'
        BY <1>4, QueueStepsLeaveHandlers DEF BaseInv, GraphTyped
    <2>2. StepsFitJobs'
        <3> SUFFICES ASSUME NEW u \in Worker
                     PROVE  /\ at'[u] # "run" => step'[u] = "start"
                            /\ step'[u] = "start" => ~cleared'[u]
                            /\ step'[u] # "start" => held'[u] = held[u]
            BY <1>4, QueueStepsLeaveHandlers DEF BaseInv, StepsFitJobs
        <3> QED
            BY <1>4, QueueStepsLeaveHandlers DEF BaseInv, StepsFitJobs
    <2> QED
        BY <1>1, <1>2, <1>3, <2>1, <2>2 DEF BaseInv
<1>5. ASSUME NEW w \in Worker, HandlerOf(w) PROVE BaseInv'
    BY <1>1, <1>2, <1>3, <1>5, HandlersKeepTypes, HandlersKeepSteps DEF BaseInv
<1>6. CASE ServerRestarts
    <2>1. GraphTyped'
        BY <1>6 DEF ServerRestarts, BaseInv, GraphTyped, graph, NoEvidence
    <2>2. StepsFitJobs'
        BY <1>6 DEF ServerRestarts, StepsFitJobs
    <2> QED
        BY <1>1, <1>2, <1>3, <2>1, <2>2 DEF BaseInv
<1> QED
    BY <1>4, <1>5, <1>6 DEF EstateNext

LEMMA InitBase == EstateInit => BaseInv
<1> SUFFICES ASSUME EstateInit PROVE BaseInv
    OBVIOUS
<1>1. EInv /\ CInv
    BY InitEInv, InitCInv DEF EstateInit
<1>2. GraphTyped
    <2>1. claims \in [Source -> SUBSET ClaimKey]
        BY EstateAssumption DEF EstateInit
    <2> QED
        BY <2>1 DEF EstateInit, GraphTyped, Lifecycles, NoEvidence
<1>3. LinkJobsApart
    <2>1. Live = {}
        BY NoJobsAnywhere DEF EstateInit, QueueInit
    <2> QED
        BY <2>1 DEF LinkJobsApart
<1>4. StepsFitJobs
    BY DEF EstateInit, StepsFitJobs
<1> QED
    BY <1>1, <1>2, <1>3, <1>4 DEF BaseInv

------------------------------------------------------------------------------
\* While a repository is refreshed or uploaded over, cleared is set exactly from
\* the moment its claims may be gone.
ClearedTellsTheTruth ==
    \A w \in Worker :
        at[w] = "run" /\ Replaces(held[w]) =>
            /\ step[w] \in {"clone", "parse"} => ~cleared[w] /\ claims[Of(w)] = before[w]
            /\ step[w] \in PipelineSteps \ {"clone", "parse"} => cleared[w]
            /\ step[w] = "relink" => life[Of(w)] = "ingested"
            /\ step[w] = "return" /\ life[Of(w)] = "failed_clean" => claims[Of(w)] = before[w]

LEMMA ReplacersIngest ==
    ASSUME BaseInv, NEW w \in Worker, at[w] = "run", Replaces(held[w])
    PROVE  /\ held[w].type \in IngestLane /\ Of(w) \in Source /\ held[w].type # "repo_delete"
           /\ held[w].type \notin LinkTypes
BY RunningJobs DEF Replaces, IngestLane, LinkTypes

\* The worker that steps keeps it.
LEMMA OwnStepTellsTheTruth ==
    ASSUME BaseInv, ClearedTellsTheTruth, NEW w \in Worker, HandlerOf(w), Replaces(held[w]),
           at'[w] = "run"
    PROVE  /\ step'[w] \in {"clone", "parse"} => ~cleared'[w] /\ claims'[Of(w)] = before'[w]
           /\ step'[w] \in PipelineSteps \ {"clone", "parse"} => cleared'[w]
           /\ step'[w] = "relink" => life'[Of(w)] = "ingested"
           /\ step'[w] = "return" /\ life'[Of(w)] = "failed_clean" => claims'[Of(w)] = before'[w]
<1> USE DEF At, Go, PipelineSteps
<1>1. /\ GraphTyped /\ StepsFitJobs /\ step \in [Worker -> Steps] /\ at[w] = "run"
      /\ at \in [Worker -> Places] /\ Of(w) \in Source /\ held[w].type \in IngestLane
      /\ held[w].type # "repo_delete" /\ held[w].type \notin LinkTypes
    BY HandlerKeepsOthers, ReplacersIngest DEF BaseInv, EInv, StepsTyped, QInv, QueueTypeOK
<1>2. step[w] \in PipelineSteps \cup {"start", "relink", "return"} /\ (step[w] = "start" => ~cleared[w])
    BY <1>1 DEF StepsFitJobs
<1>3. /\ step[w] \in {"clone", "parse"} => ~cleared[w] /\ claims[Of(w)] = before[w]
      /\ step[w] \in PipelineSteps \ {"clone", "parse"} => cleared[w]
      /\ step[w] = "relink" => life[Of(w)] = "ingested"
      /\ step[w] = "return" /\ life[Of(w)] = "failed_clean" => claims[Of(w)] = before[w]
    BY <1>1 DEF ClearedTellsTheTruth
<1>4. CASE PipelineStart(w)
    BY <1>1, <1>2, <1>4 DEF PipelineStart, GraphTyped
<1>5. CASE Clone(w)
    BY <1>1, <1>3, <1>5 DEF Clone, GraphTyped
<1>6. CASE Parse(w)
    BY <1>1, <1>6 DEF Parse, GraphTyped
<1>7. CASE ClearEdges(w) \/ ClearNodes(w) \/ ClearRows(w)
    BY <1>1, <1>3, <1>7 DEF ClearEdges, ClearNodes, ClearRows, locals
<1>8. CASE WriteNodes(w)
    BY <1>1, <1>8 DEF WriteNodes, GraphTyped
<1>9. CASE Seal(w)
    BY <1>1, <1>9 DEF Seal, GraphTyped
<1>10. CASE PipelineFails(w)
    BY <1>1, <1>3, <1>10 DEF PipelineFails, MarkPipelineFailed, GraphTyped, locals
<1>11. CASE WriteFails(w)
    <2>1. cleared[w]
        BY <1>3, <1>11 DEF WriteFails
    <2>2. life'[Of(w)] = "failed_partial" /\ step'[w] = "return"
        BY <1>1, <1>11, <2>1 DEF WriteFails, MarkPipelineFailed, GraphTyped
    <2> QED
        BY <2>2
<1>12. CASE Relink(w)
    BY <1>1, <1>3, <1>12 DEF Relink, graph, locals
<1>13. CASE Return(w) \/ Raises(w) \/ LinkFails(w)
    BY <1>1, <1>13 DEF Return, Raises, LinkFails, HandlerReturns, HandlerRaises
<1>14. CASE \/ DeleteStart(w) \/ Deleted(w) \/ DeltaSkips(w) \/ LinkStart(w)
            \/ WriteRendezvous(w) \/ WriteEdges(w) \/ RetireStale(w) \/ CollectOrphans(w)
            \/ LinkFinish(w)
    BY <1>1, <1>2, <1>14
    DEF DeleteStart, Deleted, DeltaSkips, LinkStart, WriteRendezvous, WriteEdges, RetireStale,
        CollectOrphans, LinkFinish, LinkTypes
<1> QED
    BY <1>4, <1>5, <1>6, <1>7, <1>8, <1>9, <1>10, <1>11, <1>12, <1>13, <1>14 DEF HandlerOf

LEMMA NextTellsTheTruth ==
    BaseInv /\ ClearedTellsTheTruth /\ [EstateNext]_estateVars => ClearedTellsTheTruth'
<1> SUFFICES ASSUME BaseInv, ClearedTellsTheTruth, [EstateNext]_estateVars
             PROVE  ClearedTellsTheTruth'
    OBVIOUS
<1>1. CASE QueueSteps \/ (\E c \in Client : RouteSubmits(c)) \/ UNCHANGED estateVars
    <2> SUFFICES ASSUME NEW u \in Worker
                 PROVE  /\ step'[u] = step[u] /\ cleared' = cleared /\ claims' = claims
                        /\ life' = life /\ before' = before
                        /\ at[u] = "run" => held'[u] = held[u]
                        /\ at[u] # "run" => step[u] = "start"
        BY <1>1, QueueStepsLeaveHandlers
        DEF ClearedTellsTheTruth, BaseInv, StepsFitJobs, Of, PipelineSteps
    <2> QED
        BY <1>1, QueueStepsLeaveHandlers DEF BaseInv, StepsFitJobs
<1>2. ASSUME NEW w \in Worker, HandlerOf(w) PROVE ClearedTellsTheTruth'
    <2>1. at[w] = "run" /\ held' = held
        BY <1>2, HandlerKeepsOthers
    <2>2. ASSUME NEW u \in Worker, u # w, at'[u] = "run", Replaces(held[u])
          PROVE  /\ at[u] = "run" /\ step'[u] = step[u] /\ cleared'[u] = cleared[u]
                 /\ before'[u] = before[u]
                 /\ claims'[Of(u)] = claims[Of(u)] /\ life'[Of(u)] = life[Of(u)]
        <3>1. at[u] = "run"
            BY <1>2, <2>2, HandlerKeepsOthers
        <3>2. Of(u) \in Source /\ Of(u) # Of(w)
            BY <2>1, <2>2, <3>1, ReplacersIngest, OthersElsewhere
        <3> QED
            BY <1>2, <2>2, <3>1, <3>2, HandlerKeepsOthers
    <2> SUFFICES ASSUME NEW u \in Worker, at'[u] = "run", Replaces(held[u])
                 PROVE  /\ step'[u] \in {"clone", "parse"} => ~cleared'[u] /\ claims'[Of(u)] = before'[u]
                        /\ step'[u] \in PipelineSteps \ {"clone", "parse"} => cleared'[u]
                        /\ step'[u] = "relink" => life'[Of(u)] = "ingested"
                        /\ step'[u] = "return" /\ life'[Of(u)] = "failed_clean"
                               => claims'[Of(u)] = before'[u]
        BY <2>1 DEF ClearedTellsTheTruth, Of
    <2>3. CASE u = w
        BY <1>2, <2>3, OwnStepTellsTheTruth
    <2>4. CASE u # w
        BY <2>2, <2>4 DEF ClearedTellsTheTruth
    <2> QED
        BY <2>3, <2>4
<1>3. CASE ServerRestarts
    BY <1>3 DEF ServerRestarts, Restart, AllWaiting, ClearedTellsTheTruth
<1> QED
    BY <1>1, <1>2, <1>3 DEF EstateNext

\* A refresh or an upload that ends as failed_clean left its repository with the
\* claims it found: cleared, on which _mark_failed decides, never lags behind
\* clear_repo_graph, and nobody else writes to the repository meanwhile.
THEOREM FailedCleanIsIntact == EstateSpec => []FailedCleanMeansIntact
<1>1. EstateInit => BaseInv /\ ClearedTellsTheTruth
    <2>1. EstateInit => ClearedTellsTheTruth
        BY DEF EstateInit, QueueInit, AllWaiting, ClearedTellsTheTruth
    <2> QED
        BY <2>1, InitBase
<1>2. BaseInv /\ ClearedTellsTheTruth => FailedCleanMeansIntact
    <2> SUFFICES ASSUME BaseInv, ClearedTellsTheTruth, NEW w \in IngestWorker, step[w] = "return",
                        life[Of(w)] = "failed_clean", Replaces(held[w])
                 PROVE  claims[Of(w)] = before[w]
        BY DEF FailedCleanMeansIntact
    <2>1. w \in Worker /\ at[w] = "run"
        BY DEF Worker, BaseInv, StepsFitJobs
    <2> QED
        BY <2>1 DEF ClearedTellsTheTruth
<1> QED
    BY <1>1, <1>2, EstateNextKeepsBase, NextTellsTheTruth, PTL DEF EstateSpec

------------------------------------------------------------------------------
\* A job whose handler has not taken its first step yet.
NotBegun(j) ==
    \A w \in Worker :
        held[w] = j => at[w] \in {"lock", "repo"} \/ (at[w] = "run" /\ step[w] = "start")

LEMMA HandlersLeaveStart ==
    ASSUME BaseInv, NEW w \in Worker, HandlerOf(w)
    PROVE  \/ at'[w] = "run" /\ step'[w] # "start"
           \/ at'[w] \in {"except", "finish"}
<1> USE DEF At, Go
<1>1. at[w] = "run" /\ step \in [Worker -> Steps] /\ at \in [Worker -> Places]
    BY HandlerKeepsOthers DEF BaseInv, EInv, StepsTyped, QInv, QueueTypeOK
<1>2. CASE \/ PipelineStart(w) \/ Clone(w) \/ Parse(w) \/ WriteNodes(w) \/ Seal(w) \/ DeleteStart(w)
           \/ Deleted(w) \/ DeltaSkips(w) \/ LinkStart(w) \/ LinkFinish(w)
    BY <1>1, <1>2
    DEF PipelineStart, Clone, Parse, WriteNodes, Seal, DeleteStart, Deleted, DeltaSkips, LinkStart,
        LinkFinish, HandlerReports, threads
<1>3. CASE \/ ClearEdges(w) \/ ClearNodes(w) \/ ClearRows(w) \/ WriteRendezvous(w) \/ WriteEdges(w)
           \/ RetireStale(w) \/ CollectOrphans(w) \/ Relink(w)
    BY <1>1, <1>3
    DEF ClearEdges, ClearNodes, ClearRows, WriteRendezvous, WriteEdges, RetireStale, CollectOrphans,
        Relink, HandlerDropsRows, HandlerSubmits, queueVars, threads
<1>4. CASE PipelineFails(w) \/ WriteFails(w)
    BY <1>1, <1>4 DEF PipelineFails, WriteFails, MarkPipelineFailed, HandlerReports, threads
<1>5. CASE LinkFails(w) \/ Return(w) \/ Raises(w)
    BY <1>1, <1>5 DEF LinkFails, Return, Raises, HandlerReturns, HandlerRaises
<1> QED
    BY <1>2, <1>3, <1>4, <1>5 DEF HandlerOf

\* A job that is still there is still with the worker that had it.
LEMMA HeldOn ==
    ASSUME BaseInv, [EstateNext]_estateVars, NEW w \in Worker, held[w] \in Job, held[w] \in Live'
    PROVE  held'[w] = held[w]
<1>1. CInv /\ QInv'
    BY EstateNextKeepsBase DEF BaseInv, EInv
<1>2. held[w] # NoJob
    BY IdsOfJobs
<1>3. CASE (\E c \in Client : RouteSubmits(c)) \/ (\E c \in Caller : Enqueue(c)) \/ Stop \/ Idle
           \/ UNCHANGED estateVars
    BY <1>3 DEF RouteSubmits, Enqueue, Stop, Idle, queueVars, estateVars, threads
<1>4. ASSUME NEW v \in Worker, Loop(v) PROVE held'[w] = held[w]
    <2>1. CASE v = w
        BY <1>1, <1>2, <1>4, <2>1, LoopKeepsC
    <2>2. CASE v # w
        BY <1>1, <1>4, <2>2
        DEF Loop, Take, TakeSentinel, MarkFailed, AcquireShared, AcquireRepo, AcquireExclusive,
            Finish, QInv, CInv, QueueTypeOK
    <2> QED
        BY <2>1, <2>2
<1>5. ASSUME NEW v \in Worker, HandlerOf(v) PROVE held'[w] = held[w]
    BY <1>5, HandlerKeepsOthers
<1>6. CASE ServerRestarts
    BY <1>1, <1>6, RestartKeepsC DEF ServerRestarts
<1> QED
    BY <1>3, <1>4, <1>5, <1>6 DEF EstateNext, QueueSteps

\* What has begun stays begun, for as long as the job is there.
LEMMA BegunStays ==
    ASSUME BaseInv, [EstateNext]_estateVars, NEW j \in Live, j \in Live', NotBegun(j)'
    PROVE  NotBegun(j)
<1> SUFFICES ASSUME NEW w \in Worker, held[w] = j
             PROVE  at[w] \in {"lock", "repo"} \/ (at[w] = "run" /\ step[w] = "start")
    BY DEF NotBegun
<1>1. /\ CInv /\ QInv' /\ at \in [Worker -> Places] /\ j \in Job /\ j # NoJob
      /\ EmptyHands /\ step \in [Worker -> Steps]
    BY EstateNextKeepsBase, LivePlaces, IdsOfJobs
    DEF BaseInv, CInv, QInv, QueueTypeOK, EInv, StepsTyped
<1>2. held'[w] = j
    BY <1>1, HeldOn
<1>3. at'[w] \in {"lock", "repo"} \/ (at'[w] = "run" /\ step'[w] = "start")
    BY <1>2 DEF NotBegun
<1>4. at[w] \in {"lock", "repo", "run"} \cup Aftermath
    BY <1>1 DEF EmptyHands, Places, Aftermath
<1>5. CASE QueueSteps \/ (\E c \in Client : RouteSubmits(c)) \/ UNCHANGED estateVars
    BY <1>1, <1>2, <1>3, <1>4, <1>5, QueueStepsLeaveHandlers DEF Aftermath
<1>6. ASSUME NEW v \in Worker, HandlerOf(v)
      PROVE  at[w] \in {"lock", "repo"} \/ (at[w] = "run" /\ step[w] = "start")
    <2>1. CASE v = w
        BY <1>3, <1>6, <2>1, HandlersLeaveStart
    <2>2. CASE v # w
        BY <1>3, <1>6, <2>2, HandlerKeepsOthers
    <2> QED
        BY <2>1, <2>2
<1>7. CASE ServerRestarts
    BY <1>1, <1>7, RestartKeepsC DEF ServerRestarts
<1> QED
    BY <1>5, <1>6, <1>7 DEF EstateNext

------------------------------------------------------------------------------
\* No repository is offered both a first ingest and jobs that replace what is
\* there; run estate_return shows what happens to one that is.
IngestedOrReplaced ==
    \A r \in Repo : <<"ingest", r>> \in Offered =>
        <<"refresh", r>> \notin Offered /\ <<"ingest_upload", r>> \notin Offered

JobsWereOffered == \A j \in Live : KeyOf(j) \in Offered \cup FollowUp

\* Without a Repo node there are no claims.
AbsentHoldNothing == \A r \in Source : life[r] = "none" => claims[r] = {}

\* A first ingest that waits still finds what its route saw.
FirstIngestsFindNothing ==
    \A j \in Live : j.type = "ingest" /\ NotBegun(j) => life[j.repo] = "none"

\* A pipeline writes its one tree where nothing is left of another, and says
\* nothing of it until it is all there.
PipelineHoldsOneTree ==
    \A w \in Worker :
        at[w] = "run" /\ held[w].type \in IngestLane =>
            /\ step[w] \in PipelineSteps => life[Of(w)] # "ingested"
            /\ step[w] \in PipelineSteps \ {"clone"} => evidence[w] \in Tree
            /\ step[w] \in {"clearRows", "write"} => claims[Of(w)] = {}
            /\ step[w] \in {"clone", "parse"} /\ ~Replaces(held[w]) => claims[Of(w)] = {}
            /\ step[w] = "seal" => claims[Of(w)] = evidence[w]

TreeInv ==
    /\ BaseInv /\ JobsWereOffered
    /\ AbsentHoldNothing /\ FirstIngestsFindNothing /\ PipelineHoldsOneTree /\ IngestedHoldsOneTree

LEMMA JobsStayOffered ==
    ASSUME BaseInv, JobsWereOffered, [EstateNext]_estateVars PROVE JobsWereOffered'
<1> SUFFICES ASSUME NEW j \in Live' PROVE KeyOf(j) \in Offered \cup FollowUp
    BY DEF JobsWereOffered, KeyOf
<1> QED
    BY LiveFrom DEF BaseInv, JobsWereOffered

\* A repository appears in the graph by the ingest lane's doing alone.
LEMMA WhoCreates ==
    ASSUME BaseInv, NEW w \in Worker, HandlerOf(w), NEW r \in Source, life[r] = "none", life'[r] # "none"
    PROVE  r = Of(w) /\ held[w].type \in IngestLane /\ step[w] \in PipelineSteps
<1> USE DEF At, Go
<1>1. /\ r = Of(w) /\ GraphTyped /\ StepsFitJobs /\ at[w] = "run"
      /\ held[w].type \in IngestLane \/ held[w].type = "repo_delete" \/ held[w].type \in LinkTypes
    BY HandlerKeepsOthers, RunningJobs DEF BaseInv
<1>2. WriteNodes(w) \/ Seal(w) \/ PipelineFails(w) \/ WriteFails(w)
    BY <1>1
    DEF HandlerOf, PipelineStart, Clone, Parse, ClearEdges, ClearNodes, ClearRows, DeleteStart, Deleted,
        Relink, DeltaSkips, LinkStart, WriteRendezvous, WriteEdges, RetireStale, CollectOrphans,
        LinkFinish, LinkFails, Return, Raises, Stamped, GraphTyped, graph
<1>3. step[w] \in PipelineSteps
    BY <1>2 DEF WriteNodes, Seal, PipelineFails, WriteFails, PipelineSteps
<1>4. held[w].type \in IngestLane
    BY <1>1, <1>2
    DEF WriteNodes, Seal, PipelineFails, WriteFails, StepsFitJobs, DeleteSteps, LinkSteps
<1> QED
    BY <1>1, <1>3, <1>4

\* Of a repository with a first ingest on its way, no other pipeline runs.
LEMMA FirstIngestIsTheOne ==
    ASSUME TreeInv, IngestedOrReplaced, NEW j \in Live, j.type = "ingest",
           NEW w \in Worker, at[w] = "run", held[w].type \in IngestLane, Of(w) = j.repo
    PROVE  held[w] = j
<1>1. j \in Job /\ held[w] \in Job /\ held[w] \in Live
    BY RunningJobs, LivePlaces DEF TreeInv, BaseInv, CInv, QInv
<1>2. KeyOf(j) \in Offered /\ KeyOf(held[w]) \in Offered
    BY <1>1, EstateAssumption DEF TreeInv, JobsWereOffered, KeyOf, IngestLane
<1>3. held[w].type = "ingest"
    BY <1>1, <1>2 DEF IngestedOrReplaced, KeyOf, Job, Of, IngestLane
<1>4. KeyOf(j) = KeyOf(held[w])
    BY <1>3 DEF KeyOf, Of
<1>5. OneLiveJobPerKey
    BY OneLiveJob DEF TreeInv, BaseInv
<1> QED
    BY <1>1, <1>4, <1>5 DEF OneLiveJobPerKey, NoDedup

LEMMA NextFindsNothing ==
    ASSUME TreeInv, IngestedOrReplaced, [EstateNext]_estateVars PROVE FirstIngestsFindNothing'
<1> SUFFICES ASSUME NEW j \in Live', j.type = "ingest", NotBegun(j)' PROVE life'[j.repo] = "none"
    BY DEF FirstIngestsFindNothing
<1>1. CASE j \in Live
    <2>1. NotBegun(j) /\ life[j.repo] = "none"
        BY <1>1, BegunStays DEF TreeInv, FirstIngestsFindNothing
    <2>2. j \in Job /\ j.repo \in Source
        BY <1>1, LivePlaces
        DEF TreeInv, BaseInv, CInv, QInv, LinkJobsApart, LinkTypes, Job, Source
    <2>3. ASSUME NEW w \in Worker, HandlerOf(w) PROVE life'[j.repo] = "none"
        <3> SUFFICES ASSUME life'[j.repo] # "none" PROVE FALSE
            OBVIOUS
        <3>1. at[w] = "run" /\ Of(w) = j.repo /\ held[w].type \in IngestLane /\ step[w] \in PipelineSteps
            BY <2>1, <2>2, <2>3, WhoCreates, HandlerKeepsOthers DEF TreeInv
        <3>2. held[w] = j
            BY <1>1, <3>1, FirstIngestIsTheOne
        <3> QED
            BY <2>1, <3>1, <3>2 DEF NotBegun, PipelineSteps
    <2>4. CASE QueueSteps \/ (\E c \in Client : RouteSubmits(c)) \/ UNCHANGED estateVars
        BY <2>1, <2>4, QueueStepsLeaveHandlers DEF TreeInv
    <2>5. CASE ServerRestarts
        BY <2>1, <2>5 DEF ServerRestarts, graph
    <2> QED
        BY <2>3, <2>4, <2>5 DEF EstateNext
<1>2. CASE j \notin Live
    <2>1. KeyOf(j) \notin FollowUp
        BY EstateAssumption DEF KeyOf
    <2>2. PICK c \in Client, k \in Offered : RouteSubmits(c) /\ Permitted(k) /\ KeyOf(j) = k
        BY <1>2, <2>1, LiveFrom DEF TreeInv, BaseInv
    <2>3. life[j.repo] = "none"
        BY <2>2 DEF Permitted, KeyOf
    <2> QED
        BY <2>2, <2>3 DEF RouteSubmits, graph
<1> QED
    BY <1>1, <1>2

\* What a handler's own repository looks like after its step.
LEMMA OwnStepHoldsOneTree ==
    ASSUME TreeInv, NEW w \in Worker, HandlerOf(w), held[w].type \in IngestLane, at'[w] = "run"
    PROVE  /\ step'[w] \in PipelineSteps => life'[Of(w)] # "ingested"
           /\ step'[w] \in PipelineSteps \ {"clone"} => evidence'[w] \in Tree
           /\ step'[w] \in {"clearRows", "write"} => claims'[Of(w)] = {}
           /\ step'[w] \in {"clone", "parse"} /\ ~Replaces(held[w]) => claims'[Of(w)] = {}
           /\ step'[w] = "seal" => claims'[Of(w)] = evidence'[w]
           /\ life'[Of(w)] = "none" => claims'[Of(w)] = {}
           /\ life'[Of(w)] = "ingested" => claims'[Of(w)] \in Tree
<1> USE DEF At, Go, PipelineSteps
<1>1. /\ GraphTyped /\ StepsFitJobs /\ step \in [Worker -> Steps] /\ at[w] = "run" /\ held[w] \in Live
      /\ Of(w) \in Source /\ held[w].type # "repo_delete" /\ held[w].type \notin LinkTypes
    BY HandlerKeepsOthers, RunningJobs
    DEF TreeInv, BaseInv, EInv, StepsTyped, IngestLane, LinkTypes
<1>2. /\ step[w] \in PipelineSteps \cup {"start", "relink", "return"}
      /\ life[Of(w)] = "none" => claims[Of(w)] = {}
      /\ life[Of(w)] = "ingested" => claims[Of(w)] \in Tree
    BY <1>1 DEF TreeInv, StepsFitJobs, AbsentHoldNothing, IngestedHoldsOneTree
<1>3. /\ step[w] \in PipelineSteps => life[Of(w)] # "ingested"
      /\ step[w] \in PipelineSteps \ {"clone"} => evidence[w] \in Tree
      /\ step[w] \in {"clearRows", "write"} => claims[Of(w)] = {}
      /\ step[w] \in {"clone", "parse"} /\ ~Replaces(held[w]) => claims[Of(w)] = {}
      /\ step[w] = "seal" => claims[Of(w)] = evidence[w]
    BY <1>1 DEF TreeInv, PipelineHoldsOneTree
<1>4. CASE PipelineStart(w)
    <2>1. ~Replaces(held[w]) => claims[Of(w)] = {}
        <3> SUFFICES ASSUME ~Replaces(held[w]) PROVE claims[Of(w)] = {}
            OBVIOUS
        <3>1. held[w].type = "ingest"
            BY DEF Replaces, IngestLane
        <3>2. NotBegun(held[w])
            BY <1>1, <1>4, IdsOfJobs, LivePlaces
            DEF NotBegun, PipelineStart, TreeInv, BaseInv, CInv, CPart, OnePlace, OnceHeld, QInv
        <3> QED
            BY <1>1, <1>2, <3>1, <3>2 DEF TreeInv, FirstIngestsFindNothing, Of
    <2>2. claims' = claims /\ step'[w] = "clone"
        BY <1>1, <1>4 DEF PipelineStart
    <2>3. life'[Of(w)] # "ingested" /\ (life'[Of(w)] = "none" => life[Of(w)] = "none")
        BY <1>1, <1>4 DEF PipelineStart, Stamped, GraphTyped
    <2> QED
        BY <1>2, <2>1, <2>2, <2>3
<1>5. CASE Clone(w)
    <2>1. claims' = claims /\ step'[w] = "parse" /\ evidence'[w] \in Tree
        BY <1>1, <1>5 DEF Clone, GraphTyped
    <2>2. life'[Of(w)] # "ingested" /\ (life'[Of(w)] = "none" => life[Of(w)] = "none")
        BY <1>1, <1>3, <1>5 DEF Clone, Stamped, GraphTyped
    <2>3. ~Replaces(held[w]) => claims[Of(w)] = {}
        BY <1>3, <1>5 DEF Clone
    <2> QED
        BY <1>2, <2>1, <2>2, <2>3
<1>6. CASE Parse(w)
    <2>1. /\ UNCHANGED <<claims, life, evidence>>
          /\ step'[w] = IF Replaces(held[w]) THEN "clearEdges" ELSE "write"
        BY <1>1, <1>6 DEF Parse, graph
    <2> QED
        BY <1>2, <1>3, <1>6, <2>1 DEF Parse
<1>7. CASE ClearEdges(w)
    BY <1>1, <1>2, <1>3, <1>7 DEF ClearEdges, locals
<1>8. CASE ClearNodes(w)
    <2>1. step'[w] = "clearRows" /\ claims'[Of(w)] = {} /\ life'[Of(w)] = "none" /\ evidence' = evidence
        BY <1>1, <1>8 DEF ClearNodes, locals, GraphTyped
    <2> QED
        BY <1>3, <1>8, <2>1 DEF ClearNodes
<1>9. CASE ClearRows(w)
    BY <1>1, <1>2, <1>3, <1>9 DEF ClearRows, locals
<1>10. CASE WriteNodes(w)
    <2>1. /\ step'[w] = "seal" /\ evidence' = evidence /\ life'[Of(w)] \in {"unset", "writing"}
          /\ claims'[Of(w)] = claims[Of(w)] \cup evidence[w]
        BY <1>1, <1>10 DEF WriteNodes, GraphTyped
    <2> QED
        BY <1>3, <1>10, <2>1 DEF WriteNodes
<1>11. CASE Seal(w)
    <2>1. /\ step'[w] = "relink" /\ claims' = claims /\ life'[Of(w)] = "ingested"
        BY <1>1, <1>11 DEF Seal, GraphTyped
    <2>2. claims[Of(w)] \in Tree
        BY <1>3, <1>11 DEF Seal
    <2> QED
        BY <2>1, <2>2
<1>12. CASE PipelineFails(w) \/ WriteFails(w)
    <2>1. step'[w] = "return" /\ life'[Of(w)] \in FailureStates
        BY <1>1, <1>12 DEF PipelineFails, WriteFails, MarkPipelineFailed, FailureStates, GraphTyped
    <2> QED
        BY <2>1 DEF FailureStates
<1>13. CASE Relink(w)
    BY <1>1, <1>2, <1>13 DEF Relink, graph
<1>14. CASE Return(w) \/ Raises(w) \/ LinkFails(w)
    BY <1>1, <1>14 DEF Return, Raises, LinkFails, HandlerReturns, HandlerRaises, TreeInv, BaseInv,
                       EInv, QInv, QueueTypeOK
<1>15. CASE \/ DeleteStart(w) \/ Deleted(w) \/ DeltaSkips(w) \/ LinkStart(w)
            \/ WriteRendezvous(w) \/ WriteEdges(w) \/ RetireStale(w) \/ CollectOrphans(w)
            \/ LinkFinish(w)
    BY <1>1, <1>2, <1>15
    DEF DeleteStart, Deleted, DeltaSkips, LinkStart, WriteRendezvous, WriteEdges, RetireStale,
        CollectOrphans, LinkFinish, LinkTypes
<1> QED
    BY <1>4, <1>5, <1>6, <1>7, <1>8, <1>9, <1>10, <1>11, <1>12, <1>13, <1>14, <1>15 DEF HandlerOf

\* Deletes and link runs make no repository appear ingested, and empty what they
\* take away; leaving a handler changes no repository.
LEMMA OtherStepsHoldOneTree ==
    ASSUME TreeInv, NEW w \in Worker, HandlerOf(w),
           held[w].type \notin IngestLane \/ at'[w] # "run", NEW r \in Source
    PROVE  /\ life'[r] = "none" => claims'[r] = {}
           /\ life'[r] = "ingested" => claims'[r] \in Tree
<1> USE DEF At, Go
<1>1. /\ GraphTyped /\ StepsFitJobs /\ at \in [Worker -> Places]
      /\ life[r] = "none" => claims[r] = {}
      /\ life[r] = "ingested" => claims[r] \in Tree
    BY DEF TreeInv, BaseInv, EInv, QInv, QueueTypeOK, AbsentHoldNothing, IngestedHoldsOneTree
<1>2. CASE at'[w] # "run"
    <2>1. Return(w) \/ Raises(w) \/ LinkFails(w)
        <3>1. at[w] = "run"
            BY HandlerKeepsOthers DEF TreeInv
        <3> QED
            BY <1>2, <3>1
            DEF HandlerOf, PipelineStart, Clone, Parse, ClearEdges, ClearNodes, ClearRows, WriteNodes,
                Seal, PipelineFails, WriteFails, MarkPipelineFailed, DeleteStart, Deleted, Relink,
                DeltaSkips, LinkStart, WriteRendezvous, WriteEdges, RetireStale, CollectOrphans,
                LinkFinish, HandlerReports, HandlerDropsRows, HandlerSubmits, queueVars, threads
    <2> QED
        BY <1>1, <2>1 DEF Return, Raises, LinkFails, graph
<1>3. CASE held[w].type \notin IngestLane
    <2>1. ~(PipelineStart(w) \/ Clone(w) \/ Parse(w) \/ WriteNodes(w) \/ Seal(w)
            \/ PipelineFails(w) \/ WriteFails(w))
        <3>1. held[w].type = "repo_delete" \/ held[w].type \in LinkTypes
            BY <1>3, RunningJobs, HandlerKeepsOthers DEF TreeInv
        <3> QED
            BY <1>1, <1>3, <3>1
            DEF PipelineStart, Clone, Parse, WriteNodes, Seal, PipelineFails, WriteFails, StepsFitJobs,
                DeleteSteps, LinkSteps
    <2>2. CASE ClearNodes(w)
        BY <1>1, <2>2 DEF ClearNodes, GraphTyped
    <2>3. CASE ~ClearNodes(w)
        BY <1>1, <2>1, <2>3
        DEF HandlerOf, ClearEdges, ClearRows, DeleteStart, Deleted, Relink, DeltaSkips, LinkStart,
            WriteRendezvous, WriteEdges, RetireStale, CollectOrphans, LinkFinish, LinkFails, Return,
            Raises, graph
    <2> QED
        BY <2>2, <2>3
<1> QED
    BY <1>2, <1>3

LEMMA NextKeepsTree ==
    ASSUME IngestedOrReplaced PROVE TreeInv /\ [EstateNext]_estateVars => TreeInv'
<1> SUFFICES ASSUME TreeInv, [EstateNext]_estateVars PROVE TreeInv'
    OBVIOUS
<1>1. BaseInv' /\ JobsWereOffered' /\ FirstIngestsFindNothing'
    BY EstateNextKeepsBase, JobsStayOffered, NextFindsNothing DEF TreeInv
<1>2. CASE QueueSteps \/ (\E c \in Client : RouteSubmits(c)) \/ UNCHANGED estateVars
    <2>1. AbsentHoldNothing' /\ IngestedHoldsOneTree'
        BY <1>2, QueueStepsLeaveHandlers DEF TreeInv, AbsentHoldNothing, IngestedHoldsOneTree
    <2>2. PipelineHoldsOneTree'
        <3> SUFFICES ASSUME NEW u \in Worker
                     PROVE  /\ UNCHANGED <<life, claims, evidence, step>>
                            /\ at[u] = "run" => held'[u] = held[u]
                            /\ at[u] # "run" => step[u] = "start"
            BY <1>2, QueueStepsLeaveHandlers
            DEF PipelineHoldsOneTree, TreeInv, BaseInv, StepsFitJobs, Of, PipelineSteps
        <3> QED
            BY <1>2, QueueStepsLeaveHandlers DEF TreeInv, BaseInv, StepsFitJobs
    <2> QED
        BY <1>1, <2>1, <2>2 DEF TreeInv
<1>3. ASSUME NEW w \in Worker, HandlerOf(w) PROVE TreeInv'
    <2>1. /\ at[w] = "run" /\ held' = held
          /\ \A r \in Source \ {Of(w)} : claims'[r] = claims[r] /\ life'[r] = life[r]
        BY <1>3, HandlerKeepsOthers DEF TreeInv
    <2>2. ASSUME NEW r \in Source
          PROVE  /\ life'[r] = "none" => claims'[r] = {}
                 /\ life'[r] = "ingested" => claims'[r] \in Tree
        <3>1. CASE r = Of(w) /\ held[w].type \in IngestLane /\ at'[w] = "run"
            BY <1>3, <3>1, OwnStepHoldsOneTree
        <3>2. CASE held[w].type \notin IngestLane \/ at'[w] # "run"
            BY <1>3, <3>2, OtherStepsHoldOneTree
        <3>3. CASE r # Of(w)
            BY <2>1, <3>3 DEF TreeInv, AbsentHoldNothing, IngestedHoldsOneTree
        <3> QED
            BY <3>1, <3>2, <3>3
    <2>3. ASSUME NEW u \in Worker, u # w, at'[u] = "run", held[u].type \in IngestLane
          PROVE  /\ at[u] = "run" /\ step'[u] = step[u] /\ evidence'[u] = evidence[u]
                 /\ claims'[Of(u)] = claims[Of(u)] /\ life'[Of(u)] = life[Of(u)]
        <3>1. at[u] = "run"
            BY <1>3, <2>3, HandlerKeepsOthers DEF TreeInv
        <3>2. Of(u) \in Source /\ Of(u) # Of(w)
            BY <2>1, <2>3, <3>1, RunningJobs, OthersElsewhere DEF TreeInv, IngestLane, LinkTypes
        <3> QED
            BY <1>3, <2>1, <2>3, <3>1, <3>2, HandlerKeepsOthers DEF TreeInv
    <2>4. ASSUME NEW u \in Worker, at'[u] = "run", held[u].type \in IngestLane
          PROVE  /\ step'[u] \in PipelineSteps => life'[Of(u)] # "ingested"
                 /\ step'[u] \in PipelineSteps \ {"clone"} => evidence'[u] \in Tree
                 /\ step'[u] \in {"clearRows", "write"} => claims'[Of(u)] = {}
                 /\ step'[u] \in {"clone", "parse"} /\ ~Replaces(held[u]) => claims'[Of(u)] = {}
                 /\ step'[u] = "seal" => claims'[Of(u)] = evidence'[u]
        <3>1. CASE u = w
            BY <1>3, <2>4, <3>1, OwnStepHoldsOneTree
        <3>2. CASE u # w
            BY <2>3, <2>4, <3>2 DEF TreeInv, PipelineHoldsOneTree
        <3> QED
            BY <3>1, <3>2
    <2>5. PipelineHoldsOneTree'
        BY <2>1, <2>4 DEF PipelineHoldsOneTree, Of
    <2>6. AbsentHoldNothing' /\ IngestedHoldsOneTree'
        BY <2>2 DEF AbsentHoldNothing, IngestedHoldsOneTree
    <2> QED
        BY <1>1, <2>5, <2>6 DEF TreeInv
<1>4. CASE ServerRestarts
    <2>1. AbsentHoldNothing' /\ IngestedHoldsOneTree'
        BY <1>4 DEF ServerRestarts, graph, TreeInv, AbsentHoldNothing, IngestedHoldsOneTree
    <2>2. PipelineHoldsOneTree'
        BY <1>4 DEF ServerRestarts, Restart, AllWaiting, PipelineHoldsOneTree
    <2> QED
        BY <1>1, <2>1, <2>2 DEF TreeInv
<1> QED
    BY <1>2, <1>3, <1>4 DEF EstateNext

\* An ingested repository shows one source tree, whatever fails, crashes or is
\* submitted, provided that no repository is offered both first ingests and
\* replacements: the route's check then still holds when the ingest runs.
THEOREM IngestedIsOneTree ==
    ASSUME IngestedOrReplaced PROVE EstateSpec => []IngestedHoldsOneTree
<1>1. EstateInit => TreeInv
    <2> SUFFICES ASSUME EstateInit PROVE TreeInv
        OBVIOUS
    <2>1. Live = {}
        BY NoJobsAnywhere DEF EstateInit, QueueInit
    <2>2. AbsentHoldNothing /\ IngestedHoldsOneTree /\ PipelineHoldsOneTree
        BY DEF EstateInit, QueueInit, AllWaiting, AbsentHoldNothing, IngestedHoldsOneTree,
               PipelineHoldsOneTree
    <2> QED
        BY <2>1, <2>2, InitBase DEF TreeInv, JobsWereOffered, FirstIngestsFindNothing
<1>2. TreeInv => IngestedHoldsOneTree
    BY DEF TreeInv
<1> QED
    BY <1>1, <1>2, NextKeepsTree, PTL DEF EstateSpec

------------------------------------------------------------------------------
\* Nothing fails, rows can be written, the process lives on and has its one
\* linker thread, every type has its handler, and that thread is through with a
\* job before an ingest gets in after it.
PromptServer ==
    /\ Faults = {} /\ ~RowWritesFail /\ ~MayEnd
    /\ Handled = JobType /\ PromptEpilogue
    /\ \A v, w \in LinkerWorker : v = w

\* Each lane and its threads have jobs of that lane only.
LanesSorted ==
    /\ \A l \in Lanes : \A i \in 1 .. Len(lane[l]) :
           lane[l][i] # Sentinel => LaneOf(lane[l][i].type) = l
    /\ \A w \in Worker : held[w] # NoJob => LaneOf(held[w].type) = LaneFor(w)
    /\ \A w \in Worker : at[w] # "unhandled"

LEMMA NextSortsLanes ==
    ASSUME PromptServer, QInv, LanesSorted, [QueueNext]_queueVars PROVE LanesSorted'
<1>1. QueueTypeOK /\ QInv' /\ Handled = JobType /\ Sentinel \notin Job /\ NoJob \notin Job
    BY NextKeepsQInv, IdsOfJobs DEF QInv, PromptServer
<1>2. \A l \in Lanes : lane[l] \in Seq(Job \cup {Sentinel})
    BY <1>1, PlaceTypes
<1>3. CASE UNCHANGED queueVars \/ Idle
    BY <1>3 DEF LanesSorted, queueVars, threads, Idle
<1>4. ASSUME NEW c \in Caller, Enqueue(c) PROVE LanesSorted'
    <2> DEFINE job == submitting[c] m == LaneOf(job.type)
    <2>1. job \in Job /\ m \in Lanes /\ UNCHANGED threads
          /\ lane' = [lane EXCEPT ![m] = Append(lane[m], job)]
        BY <1>1, <1>4 DEF Enqueue, QueueTypeOK, LaneOf, Lanes
    <2>2. lane[m] \in Seq(Job \cup {Sentinel}) /\ job \in Job \cup {Sentinel}
        BY <1>2, <2>1
    <2>3. \A i \in 1 .. Len(lane'[m]) :
              (i \in 1 .. Len(lane[m]) /\ lane'[m][i] = lane[m][i]) \/ lane'[m][i] = job
        <3>1. lane'[m] = Append(lane[m], job)
            BY <1>1, <2>1 DEF QueueTypeOK
        <3>2. Len(lane[m]) \in Nat
            BY <2>2
        <3> HIDE DEF m, job
        <3> QED
            BY <2>2, <3>1, <3>2, AppendElements
    <2>4. \A l \in Lanes : l # m => lane'[l] = lane[l]
        BY <1>1, <2>1 DEF QueueTypeOK
    <2> QED
        BY <2>1, <2>3, <2>4 DEF LanesSorted, threads
<1>5. ASSUME NEW w \in Worker, Take(w) \/ TakeSentinel(w) PROVE LanesSorted'
    <2>0. PICK m \in Lanes : m = LaneFor(w)
        BY DEF LaneFor, Lanes
    <2>1. m \in Lanes /\ lane[m] # <<>> /\ lane' = [lane EXCEPT ![m] = Tail(lane[m])]
        BY <1>5, <2>0 DEF Take, TakeSentinel
    <2>2. lane[m] \in Seq(Job \cup {Sentinel})
        BY <1>2, <2>1
    <2>3. lane'[m] = Tail(lane[m]) /\ \A l \in Lanes : l # m => lane'[l] = lane[l]
        BY <1>1, <2>1 DEF QueueTypeOK
    <2>4. /\ \A i \in 1 .. Len(lane'[m]) : i + 1 \in 1 .. Len(lane[m]) /\ lane'[m][i] = lane[m][i + 1]
          /\ Head(lane[m]) = lane[m][1] /\ 1 \in 1 .. Len(lane[m])
        <3>1. /\ Len(lane[m]) \in Nat \ {0} /\ Len(Tail(lane[m])) = Len(lane[m]) - 1
              /\ \A i \in 1 .. Len(lane[m]) - 1 : Tail(lane[m])[i] = lane[m][i + 1]
              /\ Head(lane[m]) = lane[m][1]
            BY <2>1, <2>2, TailElements
        <3> QED
            BY <2>3, <3>1
    <2>5. \A l \in Lanes : \A i \in 1 .. Len(lane'[l]) :
              lane'[l][i] # Sentinel => LaneOf(lane'[l][i].type) = l
        <3>1. \A i \in 1 .. Len(lane'[m]) : lane'[m][i] # Sentinel => LaneOf(lane'[m][i].type) = m
            BY <2>1, <2>4 DEF LanesSorted
        <3> QED
            BY <2>3, <3>1 DEF LanesSorted
    <2>6. CASE TakeSentinel(w)
        BY <1>1, <2>5, <2>6 DEF TakeSentinel, LanesSorted, QueueTypeOK
    <2>7. CASE Take(w)
        <3>1. LaneOf(Head(lane[m]).type) = m /\ Head(lane[m]) \in Job
            BY <1>2, <2>0, <2>1, <2>4, <2>7 DEF Take, LanesSorted
        <3>2. Head(lane[m]).type \in JobType
            BY <3>1 DEF Job
        <3> QED
            BY <1>1, <2>0, <2>5, <2>7, <3>1, <3>2 DEF Take, LanesSorted, QueueTypeOK
    <2> QED
        BY <1>5, <2>6, <2>7
<1>6. ASSUME NEW w \in Worker,
             \/ MarkFailed(w) \/ AcquireShared(w) \/ AcquireRepo(w) \/ AcquireExclusive(w) \/ Finish(w)
      PROVE  LanesSorted'
    BY <1>1, <1>6
    DEF MarkFailed, AcquireShared, AcquireRepo, AcquireExclusive, Finish, LanesSorted, QueueTypeOK
<1>7. ASSUME NEW w \in Worker, HandlerStep(w) PROVE LanesSorted'
    BY <1>1, <1>7
    DEF HandlerStep, HandlerReports, HandlerDropsRows, HandlerSubmits, HandlerReturns, HandlerRaises,
        LanesSorted, QueueTypeOK, threads
<1>8. ASSUME NEW c \in Caller, EnqueueFails(c) PROVE LanesSorted'
    BY <1>8 DEF EnqueueFails, PromptServer
<1>9. ASSUME NEW c \in Client, ClientSubmits(c) PROVE LanesSorted'
    BY <1>9 DEF ClientSubmits, LanesSorted, threads
<1>10. CASE Stop
    <2>1. \A l \in Lanes : \A i \in 1 .. Len(lane'[l]) :
              (i \in 1 .. Len(lane[l]) /\ lane'[l][i] = lane[l][i]) \/ lane'[l][i] = Sentinel
        <3> TAKE l \in Lanes
        <3>1. /\ Cardinality(ThreadsOf(l)) \in Nat
              /\ lane'[l] = lane[l] \o Sentinels(Cardinality(ThreadsOf(l)))
            <4>1. IsFiniteSet(IngestWorker) /\ IsFiniteSet(LinkerWorker)
                BY QueueAssumption, FS_Subset DEF Worker
            <4> QED
                BY <1>10, <4>1, FS_CardinalityType DEF Stop, ThreadsOf
        <3>2. PICK n \in Nat : lane'[l] = lane[l] \o Sentinels(n)
            BY <3>1
        <3>3. /\ Sentinels(n) \in Seq(Job \cup {Sentinel}) /\ Len(Sentinels(n)) = n
              /\ \A i \in 1 .. n : Sentinels(n)[i] = Sentinel
            BY DEF Sentinels
        <3> QED
            BY <1>2, <3>2, <3>3, ConcatElements
    <2>2. UNCHANGED threads
        BY <1>10 DEF Stop
    <2> QED
        BY <2>1, <2>2 DEF LanesSorted, threads
<1>11. CASE Restart
    BY <1>11 DEF Restart, PromptServer
<1> QED
    BY <1>3, <1>4, <1>5, <1>6, <1>7, <1>8, <1>9, <1>10, <1>11 DEF QueueNext, Loop

LEMMA InitSortsLanes == QueueInit => LanesSorted
BY DEF QueueInit, LanesSorted, EmptyLanes, NoneHeld, AllWaiting

LEMMA WhoRunsWhere ==
    ASSUME BaseInv, LanesSorted, NEW w \in Worker, held[w] \in Job
    PROVE  /\ held[w].type \in LinkerLane => w \in LinkerWorker
           /\ w \in LinkerWorker => held[w].type \in LinkerLane
<1>1. held[w] # NoJob /\ held[w].type \in JobType
    BY IdsOfJobs DEF Job
<1>2. LaneOf(held[w].type) = LaneFor(w)
    BY <1>1 DEF LanesSorted
<1> QED
    BY <1>1, <1>2, QueueAssumption DEF LaneOf, LaneFor, JobType, IngestLane, LinkerLane, Worker

\* While an ingest is in, no linker thread is on its way out of a job.
EpilogueBeforeIngest ==
    \A w, v \in Worker :
        at[w] \in {"repo", "run"} /\ held[w].type \in IngestLane /\ v \in LinkerWorker =>
            at[v] \notin Aftermath

LEMMA NextFinishesFirst ==
    ASSUME PromptServer, BaseInv, LanesSorted, EpilogueBeforeIngest, [EstateNext]_estateVars
    PROVE  EpilogueBeforeIngest'
<1> SUFFICES ASSUME NEW w \in Worker, NEW v \in Worker, v \in LinkerWorker,
                    at'[w] \in {"repo", "run"}, held'[w].type \in IngestLane, at'[v] \in Aftermath
             PROVE  FALSE
    BY DEF EpilogueBeforeIngest
<1>1. /\ QInv /\ at \in [Worker -> Places] /\ held \in [Worker -> Job \cup {NoJob}]
      /\ EmptyHands /\ LanesSorted
    BY DEF BaseInv, EInv, CInv, QInv, QueueTypeOK
<1>2. ~(at[w] \in {"repo", "run"} /\ held[w].type \in IngestLane /\ at[v] \in Aftermath)
    BY DEF EpilogueBeforeIngest
<1>3. CASE (\E c \in Client : RouteSubmits(c)) \/ (\E c \in Caller : Enqueue(c)) \/ Stop \/ Idle
           \/ UNCHANGED estateVars
    BY <1>2, <1>3 DEF RouteSubmits, Enqueue, Stop, Idle, queueVars, estateVars, threads
<1>4. ASSUME NEW u \in Worker, Loop(u) PROVE FALSE
    <2>1. CASE AcquireShared(u)
        <3>1. \A x \in LinkerWorker : at[x] \notin {"except", "finish", "dying"}
            BY <2>1 DEF AcquireShared, PromptServer
        <3>2. at'[v] \notin Aftermath
            BY <1>1, <2>1, <3>1 DEF AcquireShared, Aftermath, LanesSorted
        <3> QED
            BY <3>2
    <2>2. CASE AcquireRepo(u)
        BY <1>1, <1>2, <2>2 DEF AcquireRepo, Aftermath
    <2>3. CASE AcquireExclusive(u)
        <3>1. held[u].type \notin IngestLane
            BY <2>3 DEF AcquireExclusive, LinkerLane, IngestLane
        <3> QED
            BY <1>1, <1>2, <2>3, <3>1 DEF AcquireExclusive, Aftermath
    <2>4. CASE Take(u) \/ TakeSentinel(u) \/ MarkFailed(u) \/ Finish(u)
        <3>1. at'[u] \notin {"repo", "run"} /\ at[u] \notin {"repo", "run"} /\ at[u] # "unhandled"
            BY <1>1, <2>4 DEF Take, TakeSentinel, MarkFailed, Finish, LanesSorted
        <3>2. u # w /\ at'[w] = at[w] /\ held'[w] = held[w]
            BY <1>1, <2>4, <3>1 DEF Take, TakeSentinel, MarkFailed, Finish
        <3>3. at[v] \in Aftermath
            <4>1. \A job \in Job : job.type \in JobType
                BY DEF Job
            <4>2. CASE v = u /\ Take(u)
                <5>1. at'[u] = "lock"
                    <6>1. Head(lane[LaneFor(u)]) \in Job
                        <7>1. LaneFor(u) \in Lanes /\ lane[LaneFor(u)] # <<>>
                            BY <4>2 DEF Take, LaneFor, Lanes
                        <7>2. lane[LaneFor(u)] \in Seq(Job \cup {Sentinel})
                            BY <1>1, <7>1 DEF QInv, QueueTypeOK
                        <7>3. Head(lane[LaneFor(u)]) \in Job \cup {Sentinel}
                            BY <7>1, <7>2, TailElements
                        <7> QED
                            BY <4>2, <7>3 DEF Take
                    <6> QED
                        BY <1>1, <4>1, <4>2, <6>1 DEF Take, PromptServer
                <5> QED
                    BY <4>2, <5>1 DEF Aftermath
            <4>3. CASE v = u /\ ~Take(u)
                BY <1>1, <2>4, <4>3 DEF TakeSentinel, MarkFailed, Finish, Aftermath
            <4>4. CASE v # u
                BY <1>1, <2>4, <4>4 DEF Take, TakeSentinel, MarkFailed, Finish
            <4> QED
                BY <4>2, <4>3, <4>4
        <3> QED
            BY <1>2, <3>2, <3>3
    <2> QED
        BY <1>4, <2>1, <2>2, <2>3, <2>4 DEF Loop
<1>5. ASSUME NEW u \in Worker, HandlerOf(u) PROVE FALSE
    <2>1. at[u] = "run" /\ held' = held /\ \A x \in Worker \ {u} : at'[x] = at[x]
        BY <1>5, HandlerKeepsOthers
    <2>2. at[w] \in {"repo", "run"} /\ held[w].type \in IngestLane /\ held[w] \in Job
        <3>1. at[w] \in {"repo", "run"}
            BY <2>1
        <3> QED
            BY <1>1, <2>1, <3>1 DEF QInv, WorkersHoldJobs
    <2>3. v = u
        BY <1>2, <2>1, <2>2
    <2>4. held[u] \in Job /\ held[u].type \in LinkerLane
        BY <1>1, <2>1, <2>3, WhoRunsWhere DEF QInv, WorkersHoldJobs
    <2>5. w \in readers /\ u \in writers
        BY <1>1, <2>1, <2>2, <2>4 DEF QInv, LocksMatchPlaces
    <2> QED
        BY <1>1, <2>5 DEF QInv, ReadersOrWriter
<1>6. CASE ServerRestarts
    BY <1>6 DEF ServerRestarts, Restart, PromptServer
<1> QED
    BY <1>3, <1>4, <1>5, <1>6 DEF EstateNext, QueueSteps

\* A delete holds the keys of what it clears; a link run writes edges between
\* rendezvous nodes it has written.
DeleteSawAll ==
    \A w \in Worker :
        held[w].type = "repo_delete" /\ step[w] \in {"clearEdges", "clearNodes"} =>
            claims[Of(w)] = evidence[w]

RendezvousWritten ==
    \A w \in Worker : step[w] = "edges" => \A r \in Source : snapshot[r] \subseteq rendezvous

LEMMA NextKeepsHandlersTrue ==
    ASSUME PromptServer, BaseInv, DeleteSawAll, RendezvousWritten, [EstateNext]_estateVars
    PROVE  DeleteSawAll' /\ RendezvousWritten'
<1>1. CASE QueueSteps \/ (\E c \in Client : RouteSubmits(c)) \/ UNCHANGED estateVars
    <2> SUFFICES ASSUME NEW u \in Worker
                 PROVE  /\ UNCHANGED <<claims, evidence, step, snapshot, rendezvous>>
                        /\ step[u] # "start" => held'[u] = held[u]
        BY <1>1, QueueStepsLeaveHandlers DEF DeleteSawAll, RendezvousWritten, Of
    <2> QED
        BY <1>1, QueueStepsLeaveHandlers DEF BaseInv, StepsFitJobs
<1>2. ASSUME NEW w \in Worker, HandlerOf(w) PROVE DeleteSawAll' /\ RendezvousWritten'
    <2> USE DEF At, Go
    <2>1. /\ at[w] = "run" /\ held' = held /\ GraphTyped /\ StepsFitJobs /\ step \in [Worker -> Steps]
          /\ \A u \in Worker \ {w} : step'[u] = step[u]
        BY <1>2, HandlerKeepsOthers DEF BaseInv, EInv, StepsTyped
    <2>2. \A u \in Worker \ {w} : step[u] # "start" =>
              held[u].type \in IngestLane /\ step[u] \notin LinkSteps
        <3> SUFFICES ASSUME NEW u \in Worker \ {w}, step[u] # "start"
                     PROVE  held[u].type \in IngestLane /\ step[u] \notin LinkSteps
            OBVIOUS
        <3>1. at[u] = "run"
            BY <2>1 DEF StepsFitJobs
        <3>2. held[u].type \in IngestLane
            BY <2>1, <3>1, OthersElsewhere
        <3> QED
            BY <2>1, <3>2 DEF StepsFitJobs, PipelineSteps, LinkSteps
    <2>3. DeleteSawAll'
        <3> SUFFICES ASSUME held[w].type = "repo_delete", step'[w] \in {"clearEdges", "clearNodes"}
                     PROVE  claims'[Of(w)] = evidence'[w]
            BY <2>1, <2>2 DEF DeleteSawAll, Of, IngestLane
        <3>1. step[w] \in DeleteSteps \cup {"start", "relink", "return"}
            BY <2>1 DEF StepsFitJobs
        <3>2. DeleteStart(w) \/ ClearEdges(w)
            BY <1>2, <2>1, <3>1
            DEF HandlerOf, PipelineStart, Clone, Parse, ClearNodes, ClearRows, WriteNodes, Seal,
                PipelineFails, WriteFails, MarkPipelineFailed, Deleted, Relink, DeltaSkips, LinkStart,
                WriteRendezvous, WriteEdges, RetireStale, CollectOrphans, LinkFinish, LinkFails,
                Return, Raises, Leave, DeleteSteps, IngestLane
        <3> QED
            BY <2>1, <3>2 DEF DeleteStart, ClearEdges, DeleteSawAll, GraphTyped, graph, locals
    <2>4. RendezvousWritten'
        <3> SUFFICES ASSUME step'[w] = "edges"
                     PROVE  \A r \in Source : snapshot'[r] \subseteq rendezvous'
            BY <2>1, <2>2 DEF RendezvousWritten, LinkSteps
        <3>1. WriteRendezvous(w)
            BY <1>2, <2>1
            DEF HandlerOf, PipelineStart, Clone, Parse, ClearEdges, ClearNodes, ClearRows, WriteNodes,
                Seal, PipelineFails, WriteFails, MarkPipelineFailed, DeleteStart, Deleted, Relink,
                DeltaSkips, LinkStart, WriteEdges, RetireStale, CollectOrphans, LinkFinish, LinkFails,
                Return, Raises, Leave
        <3> QED
            BY <3>1 DEF WriteRendezvous, locals
    <2> QED
        BY <2>3, <2>4
<1>3. CASE ServerRestarts
    BY <1>3 DEF ServerRestarts, Restart, PromptServer
<1> QED
    BY <1>1, <1>2, <1>3 DEF EstateNext

------------------------------------------------------------------------------
\* Either the edges are those the claims support, or somebody has yet to see to
\* it: a link job that has not begun, a handler that changes the claims and will
\* relink, or a link run that has not retired what is stale.
Owed == \E j \in Live : j.type = "link_full" /\ NotBegun(j)

Changing(w) ==
    \/ held[w].type \in IngestLane /\ step[w] \in PipelineSteps \cup {"relink"}
    \/ held[w].type = "repo_delete" /\ evidence[w] # {} /\ step[w] \in DeleteSteps \cup {"relink"}

Catching(w) == step[w] \in {"rendezvous", "edges", "retire"}

FreshOrDue == edges = Links(Current) \/ Owed \/ \E w \in Worker : Changing(w) \/ Catching(w)

FreshInv ==
    /\ BaseInv /\ PendingIsLive /\ LanesSorted /\ EpilogueBeforeIngest
    /\ DeleteSawAll /\ RendezvousWritten /\ FreshOrDue

\* A handler ends no job, and a thread's loop only one that is over.
LEMMA LiveStays ==
    ASSUME PromptServer, BaseInv, [EstateNext]_estateVars, NEW j \in Live
    PROVE  j \in Live' \/ \E w \in Worker : held[w] = j /\ at[w] \in Aftermath
<1>1. CInv /\ QInv'
    BY EstateNextKeepsBase DEF BaseInv, EInv
<1>2. CASE UNCHANGED estateVars \/ Idle
    <2>1. UNCHANGED <<issued, pending, submitting, lane, held>>
        BY <1>2 DEF estateVars, queueVars, tables, threads, Idle
    <2> QED
        BY <1>1, <2>1, NobodyMoves
<1>3. ASSUME NEW c \in Client, RouteSubmits(c) PROVE j \in Live'
    <2>1. PICK k \in Offered : Register(c, k) \/ Coalesce(c, k)
        BY <1>3 DEF RouteSubmits
    <2>2. UNCHANGED <<lane, held>> /\ c \in Caller /\ k \in Key
        BY <1>3, QueueAssumption DEF RouteSubmits, threads, Caller
    <2>3. CASE Register(c, k)
        BY <1>1, <2>2, <2>3, RegisterKeepsC
    <2>4. CASE Coalesce(c, k)
        BY <1>1, <2>2, <2>4, NobodyMoves DEF Coalesce
    <2> QED
        BY <2>1, <2>3, <2>4
<1>4. CASE (\E c \in Caller : Enqueue(c)) \/ Stop
    BY <1>1, <1>4, EnqueueKeepsC, StopKeepsC
<1>5. ASSUME NEW w \in Worker, Loop(w)
      PROVE  j \in Live' \/ \E v \in Worker : held[v] = j /\ at[v] \in Aftermath
    BY <1>1, <1>5, LoopKeepsC DEF Aftermath
<1>6. ASSUME NEW w \in Worker, HandlerOf(w) PROVE j \in Live'
    <2>1. CASE HandlerSubmits(w)
        <3>1. PICK k \in FollowUp : Register(w, k) \/ Coalesce(w, k)
            BY <2>1 DEF HandlerSubmits
        <3>2. UNCHANGED <<lane, held>> /\ w \in Caller /\ k \in Key
            BY <2>1, QueueAssumption DEF HandlerSubmits, threads, Caller
        <3>3. CASE Register(w, k)
            BY <1>1, <3>2, <3>3, RegisterKeepsC
        <3>4. CASE Coalesce(w, k)
            BY <1>1, <3>2, <3>4, NobodyMoves DEF Coalesce
        <3> QED
            BY <3>1, <3>3, <3>4
    <2>2. CASE ~HandlerSubmits(w)
        <3>1. HandlerStep(w) \/ UNCHANGED queueVars
            BY <1>6, HandlerUsesQueue
        <3>2. UNCHANGED <<issued, pending, submitting, lane, held>>
            BY <2>2, <3>1
            DEF HandlerStep, HandlerReports, HandlerDropsRows, HandlerReturns, HandlerRaises, tables,
                threads, queueVars
        <3> QED
            BY <1>1, <3>2, NobodyMoves
    <2> QED
        BY <2>1, <2>2
<1>7. CASE ServerRestarts
    BY <1>7 DEF ServerRestarts, Restart, PromptServer
<1> QED
    BY <1>2, <1>3, <1>4, <1>5, <1>6, <1>7 DEF EstateNext, QueueSteps

\* A link job that waits goes on waiting until its run starts.
LEMMA OwedStays ==
    ASSUME PromptServer, FreshInv, [EstateNext]_estateVars, Owed
    PROVE  Owed' \/ \E w \in Worker : LinkStart(w)
<1> SUFFICES ASSUME ~\E w \in Worker : LinkStart(w) PROVE Owed'
    OBVIOUS
<1>1. PICK j \in Live : j.type = "link_full" /\ NotBegun(j)
    BY DEF Owed
<1>2. /\ BaseInv /\ QInv /\ j \in Job /\ EmptyHands /\ at \in [Worker -> Places] /\ StepsFitJobs
      /\ held \in [Worker -> Job \cup {NoJob}] /\ j # NoJob /\ LanesSorted /\ LanesSorted'
    BY LivePlaces, IdsOfJobs, NextSortsLanes, EstateStepUsesQueue
    DEF FreshInv, BaseInv, EInv, CInv, QInv, QueueTypeOK
<1>3. j \in Live'
    <2>1. \A w \in Worker : held[w] = j => at[w] \notin Aftermath
        BY <1>1 DEF NotBegun, Aftermath
    <2> QED
        BY <1>2, <2>1, LiveStays
<1>4. ASSUME NEW u \in Worker, held'[u] = j
      PROVE  at'[u] \in {"lock", "repo"} \/ (at'[u] = "run" /\ step'[u] = "start")
    <2>1. CASE \/ \E c \in Client : RouteSubmits(c)
               \/ QueueSteps /\ ((\E c \in Caller : Enqueue(c)) \/ Stop \/ Idle)
               \/ UNCHANGED estateVars
        <3>1. step' = step
            BY <1>2, <2>1, QueueStepsLeaveHandlers
        <3>2. UNCHANGED threads
            BY <2>1 DEF RouteSubmits, Enqueue, Stop, Idle, queueVars, estateVars
        <3> QED
            BY <1>1, <1>4, <3>1, <3>2 DEF NotBegun, threads
    <2>2. ASSUME NEW v \in Worker, Loop(v), QueueSteps
          PROVE  at'[u] \in {"lock", "repo"} \/ (at'[u] = "run" /\ step'[u] = "start")
        <3>1. step' = step
            BY <1>2, <2>2, QueueStepsLeaveHandlers
        <3>2. CASE held[u] = j
            <4>1. at[u] \in {"lock", "repo"} \/ (at[u] = "run" /\ step[u] = "start")
                BY <1>1, <3>2 DEF NotBegun
            <4>2. at'[u] \in {"lock", "repo", "run"}
                BY <1>2, <2>2, <4>1
                DEF Loop, Take, TakeSentinel, MarkFailed, AcquireShared, AcquireRepo,
                    AcquireExclusive, Finish
            <4>3. step[u] = "start"
                BY <1>2, <4>1 DEF StepsFitJobs
            <4> QED
                BY <3>1, <4>2, <4>3
        <3>3. CASE held[u] # j
            <4>1. u = v /\ Take(v)
                BY <1>2, <1>4, <2>2, <3>3
                DEF Loop, Take, TakeSentinel, MarkFailed, AcquireShared, AcquireRepo,
                    AcquireExclusive, Finish
            <4>2. at'[u] \in {"lock", "unhandled"}
                BY <1>2, <4>1 DEF Take
            <4> QED
                BY <1>2, <4>2 DEF LanesSorted
        <3> QED
            BY <3>2, <3>3
    <2>3. ASSUME NEW v \in Worker, HandlerOf(v)
          PROVE  at'[u] \in {"lock", "repo"} \/ (at'[u] = "run" /\ step'[u] = "start")
        <3>1. held' = held
            BY <1>2, <2>3, HandlerKeepsOthers
        <3>2. at[u] \in {"lock", "repo"} \/ (at[u] = "run" /\ step[u] = "start")
            BY <1>1, <1>4, <3>1 DEF NotBegun
        <3>3. CASE u # v
            BY <1>2, <2>3, <3>2, <3>3, HandlerKeepsOthers
        <3>4. CASE u = v
            <4>1. at[v] = "run" /\ step[v] = "start" /\ held[v].type = "link_full"
                BY <1>1, <1>2, <1>4, <2>3, <3>1, <3>2, <3>4, HandlerKeepsOthers
            <4>2. LinkStart(v)
                BY <2>3, <4>1
                DEF HandlerOf, At, PipelineStart, Clone, Parse, ClearEdges, ClearNodes, ClearRows,
                    WriteNodes, Seal, PipelineFails, WriteFails, DeleteStart, Deleted, Relink,
                    DeltaSkips, WriteRendezvous, WriteEdges, RetireStale, CollectOrphans, LinkFinish,
                    LinkFails, Return, Raises, IngestLane
            <4> QED
                BY <4>2
        <3> QED
            BY <3>3, <3>4
    <2>4. CASE ServerRestarts
        BY <2>4 DEF ServerRestarts, Restart, PromptServer
    <2> QED
        BY <2>1, <2>2, <2>3, <2>4 DEF EstateNext, QueueSteps
<1> QED
    BY <1>1, <1>3, <1>4 DEF Owed, NotBegun

\* The follow-up of an ingest or a delete leaves a link job that has not begun:
\* its own, or the one it coalesces onto.
LEMMA RelinkOwes ==
    ASSUME PromptServer, FreshInv, NEW w \in Worker, Relink(w), EstateNext PROVE Owed'
<1> USE DEF At, Go
<1>1. /\ BaseInv /\ CInv /\ QInv /\ QInv' /\ EmptyHands /\ StepsFitJobs /\ LanesSorted
      /\ at[w] = "run" /\ step[w] = "relink" /\ held' = held /\ at' = at
      /\ \A u \in Worker \ {w} : step'[u] = step[u]
    BY EstateNextKeepsBase, HandlerKeepsOthers
    DEF FreshInv, BaseInv, EInv, CInv, Relink, HandlerOf, HandlerSubmits, threads
<1>2. PICK k \in FollowUp : Register(w, k) \/ Coalesce(w, k)
    BY DEF Relink, HandlerSubmits
<1>3. /\ UNCHANGED <<lane, held>> /\ w \in Caller /\ k \in Key
      /\ k = <<"link_full", LinkerRepo>> /\ k[1] = "link_full"
    BY QueueAssumption, EstateAssumption DEF Relink, HandlerSubmits, threads, Caller
<1>4. held[w] \in Job /\ held[w].type \notin LinkTypes
      /\ (held[w].type \in IngestLane \/ held[w].type = "repo_delete")
    BY <1>1, RunningJobs DEF StepsFitJobs, LinkSteps
<1>5. CASE Register(w, k)
    <2> DEFINE new == [id |-> issued + 1, type |-> k[1], repo |-> k[2]]
    <2>1. Live' = Live \cup {new}
        BY <1>1, <1>3, <1>5, RegisterKeepsC
    <2>2. \A u \in Worker : held[u] # new
        <3>1. \A u \in Worker : held[u] \in Job \cup {NoJob} /\ held[u].id <= issued
            BY <1>1 DEF CInv, CPart, IdsIssued, QInv, QueueTypeOK
        <3>2. \A u \in Worker : held[u].id \in Nat
            BY <3>1, IdsOfJobs DEF NoId
        <3>3. issued \in Nat
            BY <1>1, MaxIdNat DEF QInv, QueueTypeOK
        <3>4. new.id = issued + 1
            OBVIOUS
        <3> QED
            BY <3>1, <3>2, <3>3, <3>4
    <2> QED
        BY <1>1, <1>3, <2>1, <2>2 DEF Owed, NotBegun
<1>6. CASE Coalesce(w, k)
    <2>1. Live' = Live /\ pending[k] # NoId
        BY <1>1, <1>3, <1>6, NobodyMoves DEF Coalesce, Coalesces
    <2>2. PICK j \in Live : KeyOf(j) = k
        BY <1>3, <2>1 DEF FreshInv, PendingIsLive
    <2>3. j.type = "link_full" /\ j \in Job /\ j # NoJob
        BY <1>1, <1>3, <2>2, LivePlaces, IdsOfJobs DEF KeyOf, CInv, QInv
    <2>4. ASSUME NEW u \in Worker, held[u] = j PROVE u # w /\ at[u] \in {"lock", "repo"}
        <3>1. u # w
            BY <1>4, <2>3, <2>4 DEF LinkTypes
        <3>2. at[u] # "run"
            BY <1>1, <1>4, <2>3, <2>4, <3>1, OthersElsewhere DEF IngestLane
        <3>3. at[u] \notin {"get", "gone"}
            BY <1>1, <2>3, <2>4 DEF EmptyHands
        <3>4. u \in LinkerWorker
            BY <1>1, <2>3, <2>4, WhoRunsWhere DEF LinkerLane
        <3>5. at[u] \notin Aftermath
            <4>1. CASE held[w].type \in IngestLane
                BY <1>1, <3>4, <4>1 DEF FreshInv, EpilogueBeforeIngest
            <4>2. CASE held[w].type = "repo_delete"
                <5>1. w \in LinkerWorker
                    BY <1>1, <1>4, <4>2, WhoRunsWhere DEF LinkerLane
                <5> QED
                    BY <3>1, <3>4, <5>1 DEF PromptServer
            <4> QED
                BY <1>4, <4>1, <4>2
        <3> QED
            BY <1>1, <3>1, <3>2, <3>3, <3>5 DEF QInv, QueueTypeOK, Places, Aftermath
    <2> QED
        BY <1>1, <2>1, <2>2, <2>3, <2>4 DEF Owed, NotBegun
<1> QED
    BY <1>2, <1>5, <1>6

\* The run that writes its edges finds their endpoints: its snapshot is current
\* and its rendezvous nodes are there.
LEMMA NothingFails ==
    ASSUME PromptServer, FreshInv, NEW w \in Worker
    PROVE  ~PipelineFails(w) /\ ~WriteFails(w) /\ ~LinkFails(w) /\ ~Raises(w)
<1>1. ~PipelineFails(w) /\ ~WriteFails(w) /\ ~Raises(w)
    BY DEF PromptServer, PipelineFails, WriteFails, Raises
<1>2. At(w, "edges") => EndpointsExist
    <2> SUFFICES ASSUME step[w] = "edges" PROVE EndpointsExist
        BY DEF At
    <2>1. \A r \in Source : snapshot[r] \subseteq rendezvous
        BY DEF FreshInv, RendezvousWritten
    <2>2. snapshot = Current
        BY DEF FreshInv, BaseInv, EInv, LinkRunHasTheGraph, LinkSteps
    <2>3. \A r \in Source : snapshot[r] \subseteq claims[r]
        BY <2>2 DEF Current
    <2> QED
        BY <2>1, <2>3 DEF EndpointsExist
<1> QED
    BY <1>1, <1>2 DEF PromptServer, LinkFails

\* What the worker that steps leaves behind, when nobody else sees to the edges.
LEMMA OwnStepFreshOrDue ==
    ASSUME PromptServer, FreshInv, NEW w \in Worker, HandlerOf(w), EstateNext,
           edges = Links(Current) \/ Changing(w) \/ Catching(w)
    PROVE  edges' = Links(Current)' \/ Owed' \/ Changing(w)' \/ Catching(w)'
<1> USE DEF At, Go
<1>1. /\ at[w] = "run" /\ held' = held /\ GraphTyped /\ StepsFitJobs /\ step \in [Worker -> Steps]
      /\ held[w].type \notin LinkTypes => Of(w) \in Source
      /\ held[w].type \in IngestLane \/ held[w].type = "repo_delete" \/ held[w].type \in LinkTypes
    BY HandlerKeepsOthers, RunningJobs DEF FreshInv, BaseInv, EInv, StepsTyped
<1>2. CASE held[w].type \in IngestLane /\ step'[w] \in PipelineSteps \cup {"relink"}
    BY <1>1, <1>2 DEF Changing
<1>3. CASE step'[w] \in {"rendezvous", "edges", "retire"}
    BY <1>3 DEF Catching
<1>4. ASSUME UNCHANGED <<life, claims, edges>>, ~Changing(w), ~Catching(w)
      PROVE  edges' = Links(Current)'
    BY <1>4 DEF Links, Current
<1>5. CASE PipelineStart(w) \/ Clone(w) \/ Parse(w) \/ WriteNodes(w) \/ Seal(w)
    <2>1. held[w].type \in IngestLane
        BY <1>1, <1>5
        DEF PipelineStart, Clone, Parse, WriteNodes, Seal, StepsFitJobs, DeleteSteps, LinkSteps
    <2>2. step'[w] \in PipelineSteps \cup {"relink"}
        BY <1>1, <1>5 DEF PipelineStart, Clone, Parse, WriteNodes, Seal, PipelineSteps
    <2> QED
        BY <1>2, <2>1, <2>2
<1>6. CASE LinkStart(w) \/ WriteRendezvous(w) \/ WriteEdges(w)
    BY <1>1, <1>3, <1>6 DEF LinkStart, WriteRendezvous, WriteEdges
<1>7. CASE Relink(w)
    BY <1>7, RelinkOwes
<1>8. CASE DeltaSkips(w) \/ CollectOrphans(w) \/ LinkFinish(w) \/ Return(w)
    <2>1. UNCHANGED <<life, claims, edges>>
        BY <1>8 DEF DeltaSkips, CollectOrphans, LinkFinish, Return, graph
    <2>2. step[w] \in {"start", "gc", "finish", "return"}
        BY <1>8 DEF DeltaSkips, CollectOrphans, LinkFinish, Return
    <2> QED
        BY <1>4, <2>1, <2>2 DEF Changing, Catching, PipelineSteps, DeleteSteps
<1>9. CASE RetireStale(w)
    <2>1. snapshot = Current /\ Links(snapshot) \subseteq edges
        BY <1>9 DEF RetireStale, FreshInv, BaseInv, EInv, LinkRunHasTheGraph, LinkSteps
    <2>2. edges' = Links(snapshot) /\ UNCHANGED <<life, claims>>
        BY <1>9, <2>1 DEF RetireStale
    <2> QED
        BY <2>1, <2>2 DEF Links, Current
<1>10. CASE DeleteStart(w)
    <2>1. /\ UNCHANGED graph /\ step'[w] = "clearEdges" /\ evidence'[w] = claims[Of(w)]
          /\ held[w].type = "repo_delete" /\ ~Changing(w) /\ ~Catching(w)
        BY <1>1, <1>10
        DEF DeleteStart, GraphTyped, Changing, Catching, PipelineSteps, DeleteSteps
    <2> QED
        BY <1>1, <1>4, <2>1 DEF Changing, DeleteSteps, graph
<1>11. CASE (ClearEdges(w) \/ ClearNodes(w) \/ ClearRows(w)) /\ held[w].type \in IngestLane
    <2>1. step'[w] \in PipelineSteps
        BY <1>1, <1>11 DEF ClearEdges, ClearNodes, ClearRows, PipelineSteps, IngestLane
    <2> QED
        BY <1>2, <1>11, <2>1
<1>12. CASE ClearEdges(w) \/ ClearNodes(w) \/ ClearRows(w) \/ Deleted(w)
    <2> SUFFICES ASSUME held[w].type \notin IngestLane
                 PROVE  edges' = Links(Current)' \/ Changing(w)'
        BY <1>11, <1>12, <1>1
        DEF Deleted, StepsFitJobs, PipelineSteps
    <2>1. held[w].type = "repo_delete" /\ Of(w) \in Source /\ evidence' = evidence
        BY <1>1, <1>12
        DEF ClearEdges, ClearNodes, ClearRows, Deleted, StepsFitJobs, LinkSteps, LinkTypes, locals
    <2>2. CASE evidence[w] # {}
        <3>1. step'[w] \in DeleteSteps \cup {"relink"}
            BY <1>1, <1>12, <2>1, <2>2
            DEF ClearEdges, ClearNodes, ClearRows, Deleted, DeleteSteps
        <3> QED
            BY <1>1, <2>1, <2>2, <3>1 DEF Changing
    <2>3. CASE evidence[w] = {}
        <3>1. ~Changing(w) /\ ~Catching(w) /\ edges = Links(Current)
            BY <1>12, <2>1, <2>3
            DEF ClearEdges, ClearNodes, ClearRows, Deleted, Changing, Catching, IngestLane
        <3>2. CASE ClearRows(w) \/ Deleted(w)
            BY <1>4, <3>1, <3>2 DEF ClearRows, Deleted, graph
        <3>3. CASE ClearEdges(w)
            <4>1. claims[Of(w)] = {}
                BY <2>1, <2>3, <3>3 DEF ClearEdges, FreshInv, DeleteSawAll
            <4>2. \A e \in Links(Current) : e.ends # {Of(w)}
                <5> SUFFICES ASSUME NEW e \in Links(Current), e.ends = {Of(w)} PROVE FALSE
                    OBVIOUS
                <5>1. e.key \in Current[Of(w)]
                    BY <2>1 DEF Links
                <5> QED
                    BY <2>1, <4>1, <5>1 DEF Current
            <4>3. edges' = edges
                BY <3>1, <3>3, <4>2 DEF ClearEdges
            <4> QED
                BY <1>4, <3>1, <3>3, <4>3 DEF ClearEdges
        <3>4. CASE ClearNodes(w)
            <4>1. claims[Of(w)] = {}
                BY <2>1, <2>3, <3>4 DEF ClearNodes, FreshInv, DeleteSawAll
            <4>2. /\ claims' = [claims EXCEPT ![Of(w)] = {}] /\ edges' = edges
                  /\ life' = [life EXCEPT ![Of(w)] = "none"]
                BY <3>4 DEF ClearNodes
            <4>3. \A r \in Source : (IF life'[r] \in LinkableStates THEN claims'[r] ELSE {})
                                    = (IF life[r] \in LinkableStates THEN claims[r] ELSE {})
                BY <1>1, <2>1, <4>1, <4>2 DEF GraphTyped, LinkableStates
            <4>4. Current' = Current
                BY <4>3 DEF Current
            <4> QED
                BY <3>1, <4>2, <4>4 DEF Links
        <3> QED
            BY <1>12, <3>2, <3>3, <3>4
    <2> QED
        BY <2>2, <2>3
<1> QED
    BY <1>5, <1>6, <1>7, <1>8, <1>9, <1>10, <1>12, NothingFails DEF HandlerOf

LEMMA NextFreshOrDue ==
    ASSUME PromptServer, FreshInv, [EstateNext]_estateVars PROVE FreshOrDue'
<1>1. CASE QueueSteps \/ (\E c \in Client : RouteSubmits(c)) \/ UNCHANGED estateVars
    <2>1. /\ UNCHANGED <<life, claims, edges, step, evidence>>
          /\ \A u \in Worker : step[u] # "start" => held'[u] = held[u]
        BY <1>1, QueueStepsLeaveHandlers DEF FreshInv, BaseInv, StepsFitJobs
    <2>2. \A u \in Worker : (Changing(u) => Changing(u)') /\ (Catching(u) => Catching(u)')
        BY <2>1 DEF Changing, Catching, PipelineSteps, DeleteSteps
    <2>3. edges = Links(Current) => edges' = Links(Current)'
        BY <2>1 DEF Links, Current
    <2>4. ASSUME NEW u \in Worker, LinkStart(u) PROVE Catching(u)'
        BY <2>4 DEF LinkStart, Go, Catching, FreshInv, BaseInv, EInv, StepsTyped
    <2> QED
        BY <2>2, <2>3, <2>4, OwedStays DEF FreshInv, FreshOrDue
<1>2. ASSUME NEW w \in Worker, HandlerOf(w), EstateNext PROVE FreshOrDue'
    <2>1. held' = held /\ \A u \in Worker \ {w} : step'[u] = step[u] /\ evidence'[u] = evidence[u]
        BY <1>2, HandlerKeepsOthers DEF FreshInv
    <2>2. \A u \in Worker \ {w} : (Changing(u) => Changing(u)') /\ (Catching(u) => Catching(u)')
        BY <2>1 DEF Changing, Catching
    <2>3. ASSUME NEW u \in Worker, LinkStart(u) PROVE Catching(u)'
        BY <2>3 DEF LinkStart, Go, Catching, FreshInv, BaseInv, EInv, StepsTyped
    <2>4. CASE Owed
        BY <2>3, <2>4, OwedStays DEF FreshOrDue
    <2>5. CASE \E u \in Worker \ {w} : Changing(u) \/ Catching(u)
        BY <2>2, <2>5 DEF FreshOrDue
    <2>6. CASE edges = Links(Current) \/ Changing(w) \/ Catching(w)
        BY <1>2, <2>6, OwnStepFreshOrDue DEF FreshOrDue
    <2> QED
        BY <2>4, <2>5, <2>6 DEF FreshInv, FreshOrDue
<1>3. CASE ServerRestarts
    BY <1>3 DEF ServerRestarts, Restart, PromptServer
<1> QED
    BY <1>1, <1>2, <1>3 DEF EstateNext

LEMMA NextKeepsFresh ==
    ASSUME PromptServer PROVE FreshInv /\ [EstateNext]_estateVars => FreshInv'
<1> SUFFICES ASSUME FreshInv, [EstateNext]_estateVars PROVE FreshInv'
    OBVIOUS
<1>1. BaseInv' /\ PendingIsLive'
    BY EstateNextKeepsBase, EstateStepUsesQueue, NextKeepsC DEF FreshInv, BaseInv, PromptServer
<1>2. LanesSorted' /\ EpilogueBeforeIngest'
    BY EstateStepUsesQueue, NextSortsLanes, NextFinishesFirst DEF FreshInv, BaseInv, EInv
<1>3. DeleteSawAll' /\ RendezvousWritten'
    BY NextKeepsHandlersTrue DEF FreshInv
<1> QED
    BY <1>1, <1>2, <1>3, NextFreshOrDue DEF FreshInv

\* Once no job is left, the edges served are those the linkable claims support,
\* in whatever order the ingests, deletes and link runs went: every handler that
\* changes claims ends in a link job that has not begun, even where submit()
\* coalesces it.  Runs estate_stale and estate_epilogue show that each half of
\* the assumption is needed: no failing call, and the prompt epilogue.
THEOREM ServedLinksStayFresh ==
    ASSUME PromptServer PROVE EstateSpec => []ServedLinksFresh
<1>1. EstateInit => FreshInv
    <2> SUFFICES ASSUME EstateInit PROVE FreshInv
        OBVIOUS
    <2>1. BaseInv /\ PendingIsLive /\ LanesSorted
        BY InitBase, InitCInv, InitSortsLanes DEF EstateInit
    <2>2. /\ \A w \in Worker : at[w] = "get" /\ step[w] = "start"
          /\ edges = Links(claims) /\ \A r \in Source : life[r] \in {"none", "ingested"}
          /\ claims \in [Source -> Tree \cup {{}}]
          /\ \A r \in Source : life[r] = "none" => claims[r] = {}
        BY DEF EstateInit, QueueInit, AllWaiting
    <2>3. EpilogueBeforeIngest /\ DeleteSawAll /\ RendezvousWritten
        BY <2>2 DEF EpilogueBeforeIngest, DeleteSawAll, RendezvousWritten
    <2>4. Current = claims
        BY <2>2 DEF Current, LinkableStates
    <2> QED
        BY <2>1, <2>2, <2>3, <2>4 DEF FreshInv, FreshOrDue
<1>2. FreshInv => ServedLinksFresh
    <2> SUFFICES ASSUME FreshInv, Live = {} PROVE edges = Links(Current)
        BY DEF ServedLinksFresh
    <2>1. \A w \in Worker : step[w] = "start"
        BY RunningJobs DEF FreshInv, BaseInv, StepsFitJobs
    <2> QED
        BY <2>1 DEF FreshInv, FreshOrDue, Owed, Changing, Catching, PipelineSteps, DeleteSteps
<1> QED
    BY <1>1, <1>2, NextKeepsFresh, PTL DEF EstateSpec
===============================================================================
