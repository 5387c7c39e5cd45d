---------------------------- MODULE WorkspaceProof -----------------------------
(***************************************************************************)
(* For any repositories, workers, bundles and failing disk calls: the disk *)
(* of Workspace.tla uses the queue as JobQueue describes it, so whoever is *)
(* inside a handler has its repository's directories to itself; a pipeline *)
(* therefore scans the tree it cloned, a failure keeps the tree it found,  *)
(* and the tree that was there goes only once another one is whole.        *)
(***************************************************************************)
EXTENDS Workspace, JobQueueProof

Stages == {"start", "unstage", "clone", "cloning", "abandon", "unprevious", "aside", "land",
           "putback", "retire", "failed", "scan", "clear", "seal", "remove", "return"}

UploadTypes ==
    [repo : {r \in Repo : <<"ingest_upload", r>> \in Offered}, bundle : Bundle] \cup {NoUpload}

RoutesTyped ==
    /\ spool \in [Bundle -> {Absent, Partial, Intact}]
    /\ upload \in [Client -> UploadTypes]
    /\ payload \in [JobId -> Bundle \cup {NoBundle}]

DisksTyped ==
    /\ tree \in [Repo -> [Names -> Contents]]
    /\ stage \in [Worker -> Stages]
    /\ found \in [Worker -> Contents]

OnlyInHandlers ==
    \A w \in Worker : (stage[w] # "start" => at[w] = "run") /\ submitting[w] = NoJob

\* From unstage to aside the old tree is where the pipeline found it, then aside or
\* back; the new one is in staging from its clone to its landing, then in use.
SwapAt(w) ==
    /\ stage[w] \in {"unstage", "clone", "cloning", "abandon", "unprevious", "aside"} =>
           Mine(w)["dest"] = found[w]
    /\ stage[w] \in {"unprevious", "aside", "land"} => Mine(w)["incoming"] = held[w].id
    /\ stage[w] \in {"land", "putback"} /\ found[w] # Absent =>
           Mine(w)["dest"] = Absent /\ Mine(w)["previous"] = found[w]
    /\ stage[w] \in {"retire", "scan"} => Mine(w)["dest"] = held[w].id
    /\ stage[w] = "failed" /\ found[w] # Absent =>
           \/ Mine(w)["dest"] = found[w]
           \/ Mine(w)["dest"] = Absent /\ Mine(w)["previous"] = found[w]

DiskPart == DisksTyped /\ OnlyInHandlers /\ \A w \in Worker : SwapAt(w)
WInv == CInv /\ RoutesTyped /\ DiskPart

------------------------------------------------------------------------------
\* What may stand under a name on disk.
LEMMA ContentsApart ==
    /\ Absent # Partial /\ Absent # Intact /\ Partial # Intact /\ Earlier # Absent
    /\ Earlier # Partial
    /\ \A i \in JobId : i # Absent /\ i # Partial /\ i # Intact
    /\ NoBundle \notin Bundle
BY WorkspaceAssumption

\* What putting something under one name of a repository does to the disk.
LEMMA PutGives ==
    ASSUME DisksTyped, NEW r \in Repo, NEW n \in Names, NEW content \in Contents,
           tree' = [tree EXCEPT ![r][n] = content]
    PROVE  /\ tree'[r][n] = content
           /\ \A m \in Names : m # n => tree'[r][m] = tree[r][m]
           /\ \A q \in Repo : q # r => tree'[q] = tree[q]
           /\ tree' \in [Repo -> [Names -> Contents]]
BY DEF DisksTyped

------------------------------------------------------------------------------
\* Every handler action is one of the things JobQueue lets a handler do.
LEMMA DiskHandlerUsesQueue ==
    ASSUME NEW w \in Worker, HandlerOf(w)
    PROVE  HandlerStep(w) \/ UNCHANGED queueVars
<1>1. CASE PipelineStart(w) \/ Scan(w) \/ Clear(w) \/ PipelineFails(w) \/ Seal(w) \/ Failed(w)
           \/ DeleteStart(w)
    BY <1>1 DEF PipelineStart, Scan, Clear, PipelineFails, Seal, Failed, DeleteStart, HandlerStep
<1>2. CASE Removing(w) \/ Unstage(w) \/ CloneBegins(w) \/ CloneEnds(w) \/ CloneFails(w)
           \/ Abandon(w) \/ DropPrevious(w) \/ MoveAside(w) \/ Land(w) \/ DiskCallFails(w)
           \/ PutBack(w) \/ Retire(w) \/ DeleteRepository(w)
    BY <1>2 DEF Removing, Unstage, CloneBegins, CloneEnds, CloneFails, Abandon, DropPrevious,
                MoveAside, Land, DiskCallFails, PutBack, Retire, DeleteRepository, Keeps
<1>3. CASE Return(w) \/ Raises(w)
    BY <1>3 DEF Return, Raises, HandlerStep
<1> QED
    BY <1>1, <1>2, <1>3 DEF HandlerOf

\* A route submits what the queue's clients may submit.
LEMMA RouteUsesQueue ==
    ASSUME QInv, RoutesTyped, NEW c \in Client, OtherSubmits(c) \/ RouteSteps(c)
    PROVE  \/ ClientSubmits(c) \/ Enqueue(c) \/ EnqueueFails(c)
           \/ UNCHANGED queueVars
<1>1. CASE UploadSubmits(c)
    <2>1. <<"ingest_upload", upload[c].repo>> \in Offered
        BY <1>1 DEF UploadSubmits, Storing, RoutesTyped, UploadTypes
    <2> QED
        BY <1>1, <2>1 DEF UploadSubmits, ClientSubmits
<1>2. CASE OtherSubmits(c)
    <2>1. requests < MaxRequests
        <3>1. Cardinality(Storing) \in Nat
            BY WorkspaceAssumption, FS_Subset, FS_CardinalityType DEF Storing
        <3>2. requests \in Nat /\ MaxRequests \in Nat
            BY QueueAssumption DEF QInv, QueueTypeOK
        <3> QED
            BY <1>2, <3>1, <3>2 DEF OtherSubmits, MayRequest
    <2>2. PICK k \in Offered : Register(c, k) \/ Coalesce(c, k)
        BY <1>2 DEF OtherSubmits
    <2> QED
        BY <1>2, <2>1, <2>2 DEF OtherSubmits, MayRequest, ClientSubmits
<1>3. CASE StoreEnds(c) \/ StoreFails(c) \/ SubmitEnds(c) \/ SubmitFails(c)
    BY <1>3 DEF StoreEnds, StoreFails, SubmitEnds, SubmitFails
<1> QED
    BY <1>1, <1>2, <1>3 DEF RouteSteps

LEMMA DiskStepUsesQueue ==
    ASSUME QInv, RoutesTyped, [WorkspaceNext]_workspaceVars PROVE [QueueNext]_queueVars
<1>1. CASE UNCHANGED workspaceVars
    BY <1>1 DEF workspaceVars
<1>2. ASSUME NEW c \in Client, NEW r \in Repo, StoreBegins(c, r) PROVE UNCHANGED queueVars
    BY <1>2 DEF StoreBegins
<1>3. ASSUME NEW c \in Client, OtherSubmits(c) \/ RouteSteps(c) PROVE [QueueNext]_queueVars
    BY <1>3, RouteUsesQueue DEF QueueNext, Caller
<1>4. CASE QueueSteps
    BY <1>4 DEF QueueSteps, QueueNext
<1>5. ASSUME NEW w \in Worker, HandlerOf(w) PROVE [QueueNext]_queueVars
    BY <1>5, DiskHandlerUsesQueue DEF QueueNext
<1>6. CASE WorkspaceRestarts
    BY <1>6 DEF WorkspaceRestarts, QueueNext
<1> QED
    BY <1>1, <1>2, <1>3, <1>4, <1>5, <1>6 DEF WorkspaceNext

------------------------------------------------------------------------------
\* The types of what the routes keep.
LEMMA RouteTypesKept ==
    ASSUME QInv, RoutesTyped, [WorkspaceNext]_workspaceVars PROVE RoutesTyped'
<1>1. CASE UNCHANGED workspaceVars
    BY <1>1 DEF workspaceVars, disk, routes, RoutesTyped
<1>2. ASSUME NEW c \in Client, NEW r \in Repo, StoreBegins(c, r) PROVE RoutesTyped'
    <2>1. PICK b \in Bundle :
              /\ upload' = [upload EXCEPT ![c] = [repo |-> r, bundle |-> b]]
              /\ spool' = [spool EXCEPT ![b] = Partial] /\ payload' = payload
        BY <1>2 DEF StoreBegins, FreshNames
    <2>2. [repo |-> r, bundle |-> b] \in UploadTypes
        BY <1>2 DEF StoreBegins, UploadTypes
    <2> QED
        BY <2>1, <2>2 DEF RoutesTyped
<1>3. ASSUME NEW c \in Client, StoreEnds(c) \/ StoreFails(c) PROVE RoutesTyped'
    BY <1>3 DEF StoreEnds, StoreFails, RoutesTyped, routes, UploadTypes
<1>4. ASSUME NEW c \in Client, UploadSubmits(c) PROVE RoutesTyped'
    <2>1. upload[c].bundle \in Bundle
        BY <1>4 DEF UploadSubmits, Storing, RoutesTyped, UploadTypes
    <2> QED
        BY <1>4, <2>1 DEF UploadSubmits, PathOf, RoutesTyped, disk
<1>5. ASSUME NEW c \in Client, OtherSubmits(c) \/ SubmitEnds(c) \/ SubmitFails(c)
      PROVE  RoutesTyped'
    BY <1>5 DEF OtherSubmits, SubmitEnds, SubmitFails, RoutesTyped, UploadTypes, disk, routes
<1>6. CASE QueueSteps
    BY <1>6 DEF QueueSteps, disk, routes, RoutesTyped
<1>7. ASSUME NEW w \in Worker, HandlerOf(w) PROVE RoutesTyped'
    <2>1. CASE Return(w) \/ Raises(w)
        BY <2>1 DEF Return, Raises, Leave, RoutesTyped, routes
    <2>2. CASE ~(Return(w) \/ Raises(w))
        <3>1. UNCHANGED <<spool, routes>>
            BY <1>7, <2>2
            DEF HandlerOf, PipelineStart, Removing, Unstage, CloneBegins, CloneEnds, CloneFails,
                Abandon, DropPrevious, MoveAside, Land, DiskCallFails, PutBack, Retire, Scan,
                Clear, PipelineFails, Seal, Failed, DeleteStart, DeleteRepository, Keeps, disk
        <3> QED
            BY <3>1 DEF RoutesTyped, routes
    <2> QED
        BY <2>1, <2>2
<1>8. CASE WorkspaceRestarts
    BY <1>8 DEF WorkspaceRestarts, Swept, RoutesTyped, UploadTypes
<1> QED
    BY <1>1, <1>2, <1>3, <1>4, <1>5, <1>6, <1>7, <1>8 DEF WorkspaceNext, RouteSteps

LEMMA DiskInit ==
    WorkspaceInit => QueueInit /\ RoutesTyped /\ DiskPart
<1> SUFFICES ASSUME WorkspaceInit
             PROVE  QueueInit /\ RoutesTyped /\ DiskPart
    OBVIOUS
<1>1. QueueInit /\ OnlyInHandlers
    BY DEF WorkspaceInit, QueueInit, OnlyInHandlers, NoneSubmitting, Caller
<1>2. RoutesTyped
    BY DEF WorkspaceInit, RoutesTyped, UploadTypes
<1>3. DisksTyped
    BY DEF WorkspaceInit, DisksTyped, Contents, Whole, Stages
<1>4. \A w \in Worker : SwapAt(w)
    BY DEF WorkspaceInit, SwapAt
<1> QED
    BY <1>1, <1>2, <1>3, <1>4 DEF DiskPart

\* The disk under the handlers implements the queue: every behaviour of the
\* ingests, uploads and deletes over it is one JobQueue allows.
THEOREM WorkspaceRefinesQueue == WorkspaceSpec => RunsOnQueue
<1> DEFINE Inv == QInv /\ RoutesTyped
<1>1. WorkspaceInit => Inv
    BY DiskInit, InitQInv
<1>2. Inv /\ [WorkspaceNext]_workspaceVars => Inv'
    BY DiskStepUsesQueue, NextKeepsQInv, RouteTypesKept
<1>3. Inv /\ [WorkspaceNext]_workspaceVars => [QueueNext]_queueVars
    BY DiskStepUsesQueue
<1>4. WorkspaceInit => QueueInit
    BY DiskInit
<1> HIDE DEF Inv
<1> QED
    BY <1>1, <1>2, <1>3, <1>4, PTL DEF WorkspaceSpec, RunsOnQueue, QueueSpec

------------------------------------------------------------------------------
\* Two workers inside handlers are at different repositories.
LEMMA HandlersApart ==
    ASSUME QInv, NEW w \in Worker, NEW v \in Worker, at[w] = "run", at[v] = "run", v # w
    PROVE  held[w].repo # held[v].repo
BY DEF QInv, WorkersHoldJobs, LocksMatchPlaces, ReadersOrWriter, Job, JobType

LEMMA InsideHandler ==
    ASSUME WInv, NEW w \in Worker, Running(w) \/ stage[w] # "start"
    PROVE  /\ at[w] = "run" /\ held[w] \in Job /\ Of(w) \in Repo
           /\ held[w].id \in JobId /\ held[w].id \in Whole
BY DEF WInv, DiskPart, CInv, QInv, WorkersHoldJobs, OnlyInHandlers, Running, Job, Of, Whole

\* What one worker does in its repository's directories is nothing to the others.
LEMMA OthersKept ==
    ASSUME WInv, NEW w \in Worker, at[w] = "run",
           \A q \in Repo : q # Of(w) => tree'[q] = tree[q],
           \A v \in Worker : v # w => /\ stage'[v] = stage[v] /\ found'[v] = found[v]
                                      /\ held'[v] = held[v]
    PROVE  \A v \in Worker : v # w => SwapAt(v)'
<1> SUFFICES ASSUME NEW v \in Worker, v # w PROVE SwapAt(v)'
    OBVIOUS
<1>1. SwapAt(v) /\ stage'[v] = stage[v] /\ found'[v] = found[v] /\ held'[v] = held[v]
    BY DEF WInv, DiskPart
<1>2. CASE stage[v] = "start"
    BY <1>1, <1>2 DEF SwapAt
<1>3. CASE stage[v] # "start"
    <2>1. at[v] = "run" /\ Of(v) \in Repo
        BY <1>3, InsideHandler
    <2>2. Of(v) # Of(w)
        BY <2>1, HandlersApart DEF WInv, DiskPart, CInv, Of
    <2>3. Mine(v)' = Mine(v)
        BY <1>1, <2>1, <2>2 DEF Mine, Of
    <2> QED
        BY <1>1, <2>3 DEF SwapAt
<1> QED
    BY <1>2, <1>3

\* A step of a handler that leaves the queue alone: staging, cloning, swapping, removing.
OnDisk(w) ==
    \/ Removing(w) \/ Unstage(w) \/ CloneBegins(w) \/ CloneEnds(w) \/ CloneFails(w)
    \/ Abandon(w) \/ DropPrevious(w) \/ MoveAside(w) \/ Land(w) \/ DiskCallFails(w)
    \/ PutBack(w) \/ Retire(w) \/ DeleteRepository(w)

LEMMA OnDiskLeavesQueue ==
    ASSUME NEW w \in Worker, OnDisk(w)
    PROVE  Running(w) /\ UNCHANGED <<queueVars, spool, routes, found>>
BY DEF OnDisk, Removing, Unstage, CloneBegins, CloneEnds, CloneFails, Abandon, DropPrevious,
       MoveAside, Land, DiskCallFails, PutBack, Retire, DeleteRepository, Keeps, Here

LEMMA RemainsContents ==
    ASSUME NEW content, NEW left \in Remains(content) PROVE left \in Contents /\ left \notin Whole
BY ContentsApart DEF Remains, Contents, Whole

\* The tree of one repository after each of these steps, and the worker's next stage.
LEMMA OnDiskEffect ==
    ASSUME WInv, NEW w \in Worker, OnDisk(w)
    PROVE  /\ tree' \in [Repo -> [Names -> Contents]]
           /\ \A q \in Repo : q # Of(w) => tree'[q] = tree[q]
           /\ \E s \in Stages : stage' = [stage EXCEPT ![w] = s] /\ s # "start"
<1>1. Of(w) \in Repo /\ held[w].id \in Contents /\ stage \in [Worker -> Stages]
    BY OnDiskLeavesQueue, InsideHandler DEF WInv, DiskPart, DisksTyped, Contents, Whole
<1>2. Mine(w) \in [Names -> Contents] /\ tree \in [Repo -> [Names -> Contents]]
    BY <1>1 DEF Mine, WInv, DiskPart, DisksTyped
<1>3. Absent \in Contents /\ Partial \in Contents
    BY DEF Contents
<1>4. CASE Unstage(w) \/ CloneBegins(w) \/ CloneEnds(w) \/ CloneFails(w) \/ DeleteRepository(w)
    BY <1>1, <1>2, <1>3, <1>4
    DEF Unstage, CloneBegins, CloneEnds, CloneFails, DeleteRepository, Put, Go, Target, Names,
        Stages
<1>5. CASE Removing(w)
    <2>1. stage' = [stage EXCEPT ![w] = stage[w]] /\ stage[w] # "start" /\ stage[w] \in Stages
        BY <1>1, <1>5 DEF Removing, Removals, Here
    <2>2. PICK n \in Names : Put(w, n, Partial)
        BY <1>5 DEF Removing, Removals, Names
    <2> QED
        BY <1>1, <1>2, <1>3, <2>1, <2>2 DEF Put
<1>6. CASE Abandon(w) \/ DropPrevious(w) \/ Retire(w)
    <2>1. PICK n \in Names, left \in Contents : Put(w, n, left)
        BY <1>6, RemainsContents DEF Abandon, DropPrevious, Retire, Names
    <2> QED
        BY <1>1, <1>2, <1>6, <2>1 DEF Abandon, DropPrevious, Retire, Put, Go, Stages
<1>7. CASE MoveAside(w) \/ Land(w) \/ PutBack(w) \/ DiskCallFails(w)
    BY <1>1, <1>2, <1>3, <1>7
    DEF MoveAside, Land, PutBack, DiskCallFails, Go, Stages, Mine, Names
<1> QED
    BY <1>4, <1>5, <1>6, <1>7 DEF OnDisk

LEMMA OnDiskKeepsSwap ==
    ASSUME WInv, NEW w \in Worker, OnDisk(w)
    PROVE  SwapAt(w)'
<1> DEFINE r == Of(w)
<1>1. /\ r \in Repo /\ held[w].id \in Whole /\ held' = held /\ found' = found
      /\ r' = r /\ Mine(w)' = tree'[r] /\ Mine(w) = tree[r]
    BY OnDiskLeavesQueue, InsideHandler DEF queueVars, threads, Mine, Of
<1>2. SwapAt(w) /\ DisksTyped /\ tree[r] \in [Names -> Contents] /\ stage \in [Worker -> Stages]
    BY <1>1 DEF WInv, DiskPart, DisksTyped
<1>3. Absent \notin Whole /\ Partial \notin Whole
    BY ContentsApart DEF Whole
<1> HIDE DEF r
<1>4. CASE Removing(w)
    <2>1. PICK n \in Names : /\ <<stage[w], n>> \in Removals /\ tree[r][n] \in Whole
                             /\ tree' = [tree EXCEPT ![r][n] = Partial] /\ stage' = stage
        <3>1. PICK s \in Removals : /\ Here(w, s[1]) /\ Mine(w)[s[2]] \in Whole
                                    /\ Put(w, s[2], Partial) /\ stage' = stage
            BY <1>4 DEF Removing
        <3>2. s = <<s[1], s[2]>> /\ s[2] \in Names
            BY DEF Removals, Names
        <3> QED
            BY <1>1, <3>1, <3>2 DEF Here, Put, r
    <2>2. \A m \in Names : m # n => tree'[r][m] = tree[r][m]
        BY <1>1, <1>2, <2>1, PutGives DEF Contents
    <2> QED
        BY <1>1, <1>2, <2>1, <2>2 DEF SwapAt, Removals, Names
<1>5. CASE Unstage(w) \/ CloneBegins(w) \/ CloneEnds(w) \/ Abandon(w) \/ DropPrevious(w)
           \/ Retire(w) \/ DeleteRepository(w)
    <2>1. PICK n \in Names, content \in Contents :
              /\ tree' = [tree EXCEPT ![r][n] = content]
              /\ n = IF DeleteRepository(w) THEN "dest"
                     ELSE IF DropPrevious(w) \/ Retire(w) THEN "previous" ELSE "incoming"
              /\ CloneEnds(w) => content = held[w].id
        BY <1>1, <1>5, RemainsContents
        DEF Unstage, CloneBegins, CloneEnds, Abandon, DropPrevious, Retire, DeleteRepository, Put,
            Names, Target, Contents, Whole, r, Here
    <2>2. tree'[r][n] = content /\ \A m \in Names : m # n => tree'[r][m] = tree[r][m]
        BY <1>1, <1>2, <2>1, PutGives, ZenonT(40)
    <2>3. CASE Unstage(w)
        BY <1>1, <1>2, <2>1, <2>2, <2>3
        DEF Unstage, Here, Go, SwapAt, Names, DropPrevious, Retire, DeleteRepository
    <2>4. CASE CloneBegins(w)
        BY <1>1, <1>2, <2>1, <2>2, <2>4
        DEF CloneBegins, Here, Go, SwapAt, Names, DropPrevious, Retire, DeleteRepository
    <2>5. CASE CloneEnds(w)
        BY <1>1, <1>2, <2>1, <2>2, <2>5
        DEF CloneEnds, Here, Go, SwapAt, Names, DropPrevious, Retire, DeleteRepository
    <2>6. CASE Abandon(w)
        BY <1>1, <1>2, <2>1, <2>2, <2>6
        DEF Abandon, Here, Go, SwapAt, Names, DropPrevious, Retire, DeleteRepository
    <2>7. CASE DropPrevious(w)
        BY <1>1, <1>2, <2>1, <2>2, <2>7
        DEF DropPrevious, Here, Go, SwapAt, Names, DeleteRepository
    <2>8. CASE Retire(w)
        BY <1>1, <1>2, <2>1, <2>2, <2>8
        DEF Retire, Here, Go, SwapAt, Names, DeleteRepository
    <2>9. CASE DeleteRepository(w)
        BY <1>1, <1>2, <2>9 DEF DeleteRepository, Here, Go, SwapAt
    <2> QED
        BY <1>5, <2>3, <2>4, <2>5, <2>6, <2>7, <2>8, <2>9
<1>6. CASE CloneFails(w)
    BY <1>1, <1>2, <1>6 DEF CloneFails, Here, Go, SwapAt
<1>7. CASE MoveAside(w)
    <2>1. /\ stage[w] = "aside" /\ stage'[w] = "land"
          /\ tree' = IF tree[r]["dest"] = Absent THEN tree
                     ELSE [tree EXCEPT ![r]["previous"] = tree[r]["dest"], ![r]["dest"] = Absent]
        BY <1>1, <1>2, <1>7 DEF MoveAside, Here, Go, r
    <2>2. /\ tree'[r]["incoming"] = tree[r]["incoming"]
          /\ tree[r]["dest"] # Absent =>
                 tree'[r]["dest"] = Absent /\ tree'[r]["previous"] = tree[r]["dest"]
        BY <1>1, <1>2, <2>1 DEF DisksTyped, Names
    <2> QED
        BY <1>1, <1>2, <2>1, <2>2 DEF SwapAt
<1>8. CASE Land(w)
    <2>1. /\ stage[w] = "land" /\ stage'[w] = "retire"
          /\ tree' = [tree EXCEPT ![r]["dest"] = tree[r]["incoming"], ![r]["incoming"] = Absent]
        BY <1>1, <1>2, <1>8 DEF Land, Here, Go, r
    <2>2. tree'[r]["dest"] = tree[r]["incoming"]
        BY <1>1, <1>2, <2>1 DEF DisksTyped, Names
    <2> QED
        BY <1>1, <1>2, <2>1, <2>2 DEF SwapAt
<1>9. CASE PutBack(w)
    <2>1. /\ stage[w] = "putback" /\ stage'[w] = "failed"
          /\ tree' = [tree EXCEPT ![r]["dest"] = tree[r]["previous"], ![r]["previous"] = Absent]
        BY <1>1, <1>2, <1>9 DEF PutBack, Here, Go, r
    <2>2. tree'[r]["dest"] = tree[r]["previous"]
        BY <1>1, <1>2, <2>1 DEF DisksTyped, Names
    <2> QED
        BY <1>1, <1>2, <2>1, <2>2 DEF SwapAt
<1>10. CASE DiskCallFails(w)
    <2>1. tree' = tree
        BY <1>10 DEF DiskCallFails
    <2> QED
        BY <1>1, <1>2, <1>10, <2>1 DEF DiskCallFails, Here, Go, SwapAt
<1> QED
    BY <1>4, <1>5, <1>6, <1>7, <1>8, <1>9, <1>10 DEF OnDisk

LEMMA OnDiskKeeps ==
    ASSUME WInv, NEW w \in Worker, OnDisk(w)
    PROVE  DiskPart'
<1>1. PICK s \in Stages : stage' = [stage EXCEPT ![w] = s]
    BY OnDiskEffect
<1>2. Running(w) /\ at' = at /\ held' = held /\ submitting' = submitting /\ found' = found
    BY OnDiskLeavesQueue DEF queueVars, threads, tables
<1>3. DisksTyped'
    BY <1>1, <1>2, OnDiskEffect DEF WInv, DiskPart, DisksTyped
<1>4. OnlyInHandlers'
    BY <1>1, <1>2 DEF WInv, DiskPart, DisksTyped, OnlyInHandlers, Running
<1>5. \A v \in Worker : v # w => SwapAt(v)'
    BY <1>1, <1>2, OnDiskEffect, OthersKept DEF WInv, DiskPart, DisksTyped, Running
<1> QED
    BY <1>3, <1>4, <1>5, OnDiskKeepsSwap DEF DiskPart

\* The steps of a handler that report to the queue, and those that leave it.
Reporting(w) ==
    \/ PipelineStart(w) \/ Scan(w) \/ Clear(w) \/ PipelineFails(w) \/ Seal(w) \/ Failed(w)
    \/ DeleteStart(w)

LEMMA ReportingKeeps ==
    ASSUME WInv, NEW w \in Worker, Reporting(w)
    PROVE  DiskPart'
<1>1. /\ Running(w) /\ at' = at /\ held' = held /\ submitting' = submitting /\ tree' = tree
      /\ SwapAt(w) /\ stage \in [Worker -> Stages] /\ found \in [Worker -> Contents]
    BY DEF Reporting, PipelineStart, Scan, Clear, PipelineFails, Seal, Failed, DeleteStart, Here,
           HandlerReports, HandlerDropsRows, threads, tables, disk, WInv, DiskPart, DisksTyped
<1>2. Of(w) \in Repo /\ Mine(w)' = Mine(w) /\ Mine(w)["dest"] \in Contents
    BY <1>1, InsideHandler DEF WInv, DiskPart, DisksTyped, Mine, Of, Names
<1>3. PICK s \in {"unstage", "clear", "seal", "remove", "return"} :
          /\ stage' = [stage EXCEPT ![w] = s]
          /\ IF s = "unstage" THEN found' = [found EXCEPT ![w] = Mine(w)["dest"]]
             ELSE found' = found
    BY DEF Reporting, PipelineStart, Scan, Clear, PipelineFails, Seal, Failed, DeleteStart, Go
<1>4. DisksTyped'
    BY <1>1, <1>2, <1>3 DEF WInv, DiskPart, DisksTyped, Stages
<1>5. OnlyInHandlers'
    BY <1>1, <1>3 DEF WInv, DiskPart, OnlyInHandlers, Running
<1>6. SwapAt(w)'
    BY <1>1, <1>2, <1>3 DEF SwapAt
<1>7. \A v \in Worker : v # w => SwapAt(v)'
    BY <1>1, <1>3, OthersKept DEF Running
<1> QED
    BY <1>4, <1>5, <1>6, <1>7 DEF DiskPart

LEMMA LeavingKeepsDisks ==
    ASSUME WInv, NEW w \in Worker, Return(w) \/ Raises(w)
    PROVE  DiskPart'
<1>1. /\ Running(w) /\ held' = held /\ submitting' = submitting /\ tree' = tree
      /\ stage' = [stage EXCEPT ![w] = "start"] /\ found' = [found EXCEPT ![w] = Absent]
      /\ \A v \in Worker : v # w => at'[v] = at[v]
    BY DEF Return, Raises, Leave, Go, HandlerReturns, HandlerRaises, tables, Here, WInv, DiskPart, CInv,
           QInv, QueueTypeOK
<1>2. DisksTyped'
    BY <1>1 DEF WInv, DiskPart, DisksTyped, Stages, Contents
<1>3. OnlyInHandlers'
    BY <1>1 DEF WInv, DiskPart, DisksTyped, OnlyInHandlers, Running
<1>4. SwapAt(w)'
    BY <1>1 DEF WInv, DiskPart, DisksTyped, SwapAt
<1>5. \A v \in Worker : v # w => SwapAt(v)'
    BY <1>1, OthersKept DEF Running, WInv, DiskPart, DisksTyped
<1> QED
    BY <1>2, <1>3, <1>4, <1>5 DEF DiskPart

\* The worker's loop moves only workers that are in no handler.
LEMMA LoopKeepsDisks ==
    ASSUME WInv, NEW w \in Worker, Loop(w), UNCHANGED <<disk, routes, progress>>
    PROVE  DiskPart'
<1>1. /\ at[w] # "run" /\ submitting' = submitting
      /\ UNCHANGED <<tree, stage, found>>
      /\ \A v \in Worker : v # w => at'[v] = at[v] /\ held'[v] = held[v]
    BY DEF Loop, Take, TakeSentinel, MarkFailed, AcquireShared, AcquireRepo, AcquireExclusive,
           Finish, tables, disk, progress, WInv, DiskPart, CInv, QInv, QueueTypeOK
<1>2. stage[w] = "start"
    BY <1>1 DEF WInv, DiskPart, OnlyInHandlers
<1>3. DisksTyped' /\ OnlyInHandlers'
    BY <1>1, <1>2 DEF WInv, DiskPart, DisksTyped, OnlyInHandlers
<1>4. ASSUME NEW v \in Worker PROVE SwapAt(v)'
    <2>1. CASE v = w
        BY <1>1, <1>2, <2>1 DEF SwapAt
    <2>2. CASE v # w
        <3>1. Mine(v)' = Mine(v)
            BY <1>1, <2>2 DEF Mine, Of
        <3> QED
            BY <1>1, <2>2, <3>1 DEF WInv, DiskPart, SwapAt
    <2> QED
        BY <2>1, <2>2
<1> QED
    BY <1>3, <1>4 DEF DiskPart

\* Routes, shutdown and idling touch neither the workers nor the clones.
LEMMA ElsewhereKeepsDisks ==
    ASSUME WInv, UNCHANGED <<at, held, tree, progress>>,
           \A w \in Worker : submitting'[w] = submitting[w]
    PROVE  DiskPart'
BY DEF WInv, DiskPart, DisksTyped, OnlyInHandlers, SwapAt, progress, Mine, Of

LEMMA RestartKeepsDisks ==
    ASSUME WInv, WorkspaceRestarts
    PROVE  DiskPart'
<1>1. DisksTyped'
    BY DEF WorkspaceRestarts, WInv, DiskPart, DisksTyped, Stages, Contents
<1>2. OnlyInHandlers'
    BY DEF WorkspaceRestarts, Restart, OnlyInHandlers, NoneSubmitting, Caller
<1>3. \A v \in Worker : SwapAt(v)'
    BY DEF WorkspaceRestarts, SwapAt
<1> QED
    BY <1>1, <1>2, <1>3 DEF DiskPart

LEMMA RoutesKeepDisks ==
    ASSUME WInv, NEW c \in Client, OtherSubmits(c) \/ RouteSteps(c) \/ \E r \in Repo : StoreBegins(c, r)
    PROVE  DiskPart'
<1>1. c \notin Worker /\ c \in Caller
    BY QueueAssumption DEF Caller
<1>2. UNCHANGED <<at, held, tree, progress>>
    BY <1>1 DEF OtherSubmits, RouteSteps, StoreBegins, StoreEnds, StoreFails, UploadSubmits, SubmitEnds,
           SubmitFails, Enqueue, EnqueueFails, queueVars, threads, disk
<1>3. \A w \in Worker : submitting'[w] = submitting[w]
    BY <1>1
    DEF OtherSubmits, RouteSteps, StoreBegins, StoreEnds, StoreFails, UploadSubmits, SubmitEnds,
        SubmitFails, Enqueue, EnqueueFails, Register, Coalesce, queueVars, tables, WInv, DiskPart, CInv,
        QInv, QueueTypeOK, Caller
<1> QED
    BY <1>2, <1>3, ElsewhereKeepsDisks

LEMMA NextKeepsWInv == WInv /\ [WorkspaceNext]_workspaceVars => WInv'
<1> SUFFICES ASSUME WInv, [WorkspaceNext]_workspaceVars PROVE WInv'
    OBVIOUS
<1>1. CInv'
    BY DiskStepUsesQueue, NextKeepsC DEF WInv, DiskPart, CInv
<1>2. RoutesTyped'
    BY RouteTypesKept DEF WInv, DiskPart, CInv
<1>3. CASE UNCHANGED workspaceVars
    <2>1. UNCHANGED <<at, held, tree, progress, submitting>>
        BY <1>3 DEF workspaceVars, queueVars, threads, tables, disk
    <2>2. DiskPart'
        BY <2>1, ElsewhereKeepsDisks
    <2> QED
        BY <1>1, <1>2, <2>2 DEF WInv, DiskPart
<1>4. ASSUME NEW c \in Client, OtherSubmits(c) \/ RouteSteps(c) \/ \E r \in Repo : StoreBegins(c, r)
      PROVE  DiskPart'
    BY <1>4, RoutesKeepDisks
<1>5. ASSUME QueueSteps PROVE DiskPart'
    <2>1. ASSUME NEW w \in Worker, Loop(w) PROVE DiskPart'
        BY <1>5, <2>1, LoopKeepsDisks DEF QueueSteps
    <2>2. CASE Stop \/ Idle
        <3>1. UNCHANGED <<at, held, tree, progress, submitting>>
            BY <1>5, <2>2 DEF QueueSteps, Stop, Idle, queueVars, threads, tables, disk
        <3> QED
            BY <3>1, ElsewhereKeepsDisks
    <2> QED
        BY <1>5, <2>1, <2>2 DEF QueueSteps
<1>6. ASSUME NEW w \in Worker, HandlerOf(w) PROVE DiskPart'
    BY <1>6, OnDiskKeeps, ReportingKeeps, LeavingKeepsDisks DEF HandlerOf, OnDisk, Reporting
<1>7. ASSUME WorkspaceRestarts PROVE DiskPart'
    BY <1>7, RestartKeepsDisks
<1> QED
    BY <1>1, <1>2, <1>3, <1>4, <1>5, <1>6, <1>7 DEF WInv, DiskPart, WorkspaceNext

\* Every reachable state of the disk satisfies the inductive invariant.
THEOREM WorkspaceInvariant == WorkspaceSpec => []WInv
<1>1. WorkspaceInit => WInv
    BY DiskInit, InitCInv DEF WInv, DiskPart
<1> QED
    BY <1>1, NextKeepsWInv, PTL DEF WorkspaceSpec

\* What a pipeline scans is the tree its own job cloned.
THEOREM ScansSeeTheirClone == WorkspaceSpec => []ScanSeesItsClone
<1>1. WInv => ScanSeesItsClone
    BY DEF WInv, DiskPart, SwapAt, ScanSeesItsClone
<1> QED
    BY <1>1, WorkspaceInvariant, PTL

\* A clone or a swap that fails keeps the tree its job found, in use or put aside.
THEOREM FailuresKeepTheTree == WorkspaceSpec => []FailureKeepsTree
<1>1. WInv => FailureKeepsTree
    BY DEF WInv, DiskPart, SwapAt, FailureKeepsTree
<1> QED
    BY <1>1, WorkspaceInvariant, PTL

------------------------------------------------------------------------------
\* Every step but a handler's on its directories leaves the disk as it is.
LEMMA OnlyHandlersTouchTrees ==
    ASSUME [WorkspaceNext]_workspaceVars, tree' # tree
    PROVE  \E w \in Worker : OnDisk(w)
<1>1. ~UNCHANGED workspaceVars
    BY DEF workspaceVars, disk
<1>2. \A c \in Client : ~OtherSubmits(c) /\ ~RouteSteps(c) /\ \A r \in Repo : ~StoreBegins(c, r)
    BY DEF OtherSubmits, RouteSteps, StoreBegins, StoreEnds, StoreFails, UploadSubmits, SubmitEnds,
           SubmitFails, disk
<1>3. ~QueueSteps /\ ~WorkspaceRestarts
    BY DEF QueueSteps, WorkspaceRestarts, disk
<1>4. \A w \in Worker : ~Reporting(w) /\ ~Return(w) /\ ~Raises(w)
    BY DEF Reporting, PipelineStart, Scan, Clear, PipelineFails, Seal, Failed, DeleteStart, Return,
           Raises, Leave, disk
<1>5. PICK w \in Worker : HandlerOf(w)
    BY <1>1, <1>2, <1>3 DEF WorkspaceNext
<1> QED
    BY <1>4, <1>5 DEF HandlerOf, OnDisk, Reporting

\* What was put aside is removed when the new tree is whole, or goes back in use.
LEMMA PreviousGoesLate ==
    ASSUME WInv, NEW w \in Worker, OnDisk(w),
           tree[Of(w)]["previous"] \in Whole, tree'[Of(w)]["previous"] \notin Whole
    PROVE  \E n \in {"dest", "incoming"} : tree'[Of(w)][n] \in Whole
<1> DEFINE r == Of(w)
<1>1. r \in Repo /\ held[w].id \in Whole /\ Mine(w) = tree[r]
    BY OnDiskLeavesQueue, InsideHandler DEF Mine
<1>2. SwapAt(w) /\ DisksTyped /\ tree[r] \in [Names -> Contents]
    BY <1>1 DEF WInv, DiskPart, DisksTyped
<1> HIDE DEF r
<1>3. CASE Removing(w)
    <2>1. PICK n \in Names : /\ <<stage[w], n>> \in Removals
                             /\ tree' = [tree EXCEPT ![r][n] = Partial]
        <3>1. PICK s \in Removals : Here(w, s[1]) /\ Put(w, s[2], Partial)
            BY <1>3 DEF Removing
        <3>2. s = <<s[1], s[2]>> /\ s[2] \in Names
            BY DEF Removals, Names
        <3> QED
            BY <1>1, <3>1, <3>2 DEF Here, Put, r
    <2>2. \A m \in Names : m # n => tree'[r][m] = tree[r][m]
        BY <1>1, <1>2, <2>1, PutGives DEF Contents
    <2>3. n = "previous" /\ stage[w] \in {"unprevious", "retire"}
        BY <2>1, <2>2 DEF Removals, Names, r
    <2> QED
        BY <1>1, <1>2, <2>2, <2>3 DEF SwapAt, Names, r
<1>4. CASE DropPrevious(w) \/ Retire(w)
    <2>1. PICK left \in Contents : tree' = [tree EXCEPT ![r]["previous"] = left]
        BY <1>1, <1>4, RemainsContents DEF DropPrevious, Retire, Put, r
    <2>2. \A m \in Names : m # "previous" => tree'[r][m] = tree[r][m]
        BY <1>1, <1>2, <2>1, PutGives DEF Names
    <2> QED
        BY <1>1, <1>2, <1>4, <2>2 DEF DropPrevious, Retire, Here, SwapAt, Names, r
<1>5. CASE Unstage(w) \/ CloneBegins(w) \/ CloneEnds(w) \/ Abandon(w) \/ DeleteRepository(w)
    <2>1. PICK n \in {"dest", "incoming"}, content \in Contents :
              tree' = [tree EXCEPT ![r][n] = content]
        BY <1>1, <1>5, RemainsContents
        DEF Unstage, CloneBegins, CloneEnds, Abandon, DeleteRepository, Put, Target, Contents, Whole, r
    <2>2. tree'[r]["previous"] = tree[r]["previous"]
        BY <1>1, <1>2, <2>1, PutGives DEF Names
    <2> QED
        BY <2>2 DEF r
<1>6. CASE CloneFails(w) \/ DiskCallFails(w)
    BY <1>6 DEF CloneFails, DiskCallFails
<1>7. CASE MoveAside(w)
    <2>1. tree[r]["dest"] = Absent
        BY <1>1, <1>7, ContentsApart DEF MoveAside, Whole, r
    <2> QED
        BY <1>1, <1>7, <2>1 DEF MoveAside
<1>8. CASE Land(w)
    <2>1. tree'[r]["previous"] = tree[r]["previous"]
        BY <1>1, <1>2, <1>8 DEF Land, DisksTyped, Names, r
    <2> QED
        BY <2>1 DEF r
<1>9. CASE PutBack(w)
    <2>1. tree'[r]["dest"] = tree[r]["previous"]
        BY <1>1, <1>2, <1>9 DEF PutBack, DisksTyped, Names, r
    <2> QED
        BY <2>1 DEF r
<1> QED
    BY <1>3, <1>4, <1>5, <1>6, <1>7, <1>8, <1>9 DEF OnDisk

\* At every step, crashes included: a whole tree that was put aside goes only if
\* another one is whole by then, in use or in staging.
THEOREM OldTreesOutlastTheirSwap == WorkspaceSpec => OldTreeOutlastsSwap
<1> DEFINE Outlasts ==
        \A r \in Repo :
            tree[r]["previous"] \in Whole /\ tree'[r]["previous"] \notin Whole =>
                \E n \in {"dest", "incoming"} : tree'[r][n] \in Whole
<1>1. WInv /\ [WorkspaceNext]_workspaceVars => [Outlasts]_workspaceVars
    <2> SUFFICES ASSUME WInv, [WorkspaceNext]_workspaceVars, NEW r \in Repo,
                        tree[r]["previous"] \in Whole, tree'[r]["previous"] \notin Whole
                 PROVE  \E n \in {"dest", "incoming"} : tree'[r][n] \in Whole
        OBVIOUS
    <2>1. PICK w \in Worker : OnDisk(w)
        BY OnlyHandlersTouchTrees
    <2>2. r = Of(w)
        BY <2>1, OnDiskEffect
    <2> QED
        BY <2>1, <2>2, PreviousGoesLate
<1> HIDE DEF Outlasts
<1>2. WorkspaceSpec => [][Outlasts]_workspaceVars
    BY <1>1, WorkspaceInvariant, PTL DEF WorkspaceSpec
<1> QED
    BY <1>2 DEF OldTreeOutlastsSwap, Outlasts

------------------------------------------------------------------------------
(***************************************************************************)
(* For any routes, workers, bundles and failing calls: an upload's bundle  *)
(* is whole from its submission to the end of its job, and no file of the  *)
(* spool is left without a request or a job that will discard it.  Both    *)
(* rest on every bundle having one owner: the route that stores it, then   *)
(* the one live job that was submitted with it.                            *)
(***************************************************************************)

\* Routes store under names of their own, that no job was given.
StoredApart ==
    /\ \A c, d \in Client : upload[c] # NoUpload /\ upload[c].bundle = upload[d].bundle => c = d
    /\ \A c \in Client : upload[c] # NoUpload /\ submitting[c] = NoJob =>
           \A i \in JobId : payload[i] # upload[c].bundle

\* A submission under way is that of the bundle its route has stored, if any.
Submitted ==
    \A c \in Client :
        submitting[c] # NoJob =>
            IF submitting[c].type = "ingest_upload"
            THEN upload[c] # NoUpload /\ upload[c].bundle = payload[submitting[c].id]
            ELSE upload[c] = NoUpload

PayloadsApart ==
    /\ \A i, k \in JobId : payload[i] # NoBundle /\ payload[i] = payload[k] => i = k
    /\ \A i \in JobId : i > issued => payload[i] = NoBundle
    /\ \A j \in Live : j.type = "ingest_upload" <=> payload[j.id] # NoBundle

\* A job's handler has ended, and its worker has yet to finish it.
After == {"except", "finish", "dying"}
Over(j) == \E w \in Worker : held[w] = j /\ at[w] \in After

\* The finally clause of an upload's handler is the one that discards its bundle.
BundlesKept ==
    \A j \in Live :
        j.type = "ingest_upload" =>
            spool[payload[j.id]] = IF Over(j) THEN Absent ELSE Intact

OnlyUnhandled == \A w \in Worker : at[w] = "unhandled" => held[w].type \notin Handled

SpoolPart ==
    StoredApart /\ Submitted /\ PayloadsApart /\ BundlesKept /\ OnlyUnhandled /\ SpoolIsOwned

SInv == WInv /\ SpoolPart

------------------------------------------------------------------------------
LEMMA SpoolInit == WorkspaceInit => SpoolPart
<1> SUFFICES ASSUME WorkspaceInit PROVE SpoolPart
    OBVIOUS
<1>1. Live = {} /\ issued = 0
    BY NoJobsAnywhere DEF WorkspaceInit, QueueInit
<1>2. \A c \in Client : submitting[c] = NoJob
    BY DEF WorkspaceInit, QueueInit, NoneSubmitting, Caller
<1>3. /\ \A c \in Client : upload[c] = NoUpload
      /\ \A i \in JobId : payload[i] = NoBundle
      /\ \A b \in Bundle : spool[b] = Absent
      /\ \A w \in Worker : at[w] = "get"
    BY DEF WorkspaceInit, QueueInit, AllWaiting
<1> QED
    BY <1>1, <1>2, <1>3
    DEF SpoolPart, StoredApart, Submitted, PayloadsApart, BundlesKept, OnlyUnhandled, SpoolIsOwned

\* What live jobs are, for the steps below.
LEMMA LiveTypes ==
    ASSUME SInv
    PROVE  /\ Live \subseteq Job
           /\ \A j \in Live : j.id \in JobId /\ j.id \in Nat /\ j.id <= issued
           /\ \A i, j \in Live : i.id = j.id => i = j
           /\ \A j \in Live : j.type = "ingest_upload" => payload[j.id] \in Bundle
<1>1. CInv /\ QueueTypeOK /\ RoutesTyped /\ PayloadsApart
    BY DEF SInv, WInv, CInv, QInv, SpoolPart
<1>2. Live \subseteq Job
    BY <1>1, LivePlaces
<1>3. \A j \in Live : j.id <= issued
    BY <1>1, <1>2, LivePlaces DEF AtSomePlace, CInv, CPart, IdsIssued
<1>4. \A i, j \in Live : i.id = j.id => i = j
    BY <1>1, OneJobPerId
<1>5. \A j \in Live : j.id \in JobId /\ j.id \in Nat
    BY <1>2, MaxIdNat DEF Job
<1> QED
    BY <1>1, <1>2, <1>3, <1>4, <1>5 DEF PayloadsApart, RoutesTyped

\* Steps that touch neither spool nor routes: no job comes, and one that goes was
\* over, or was no upload.
LEMMA SpoolUntouched ==
    ASSUME SInv, UNCHANGED <<spool, routes, issued>>, Live' \subseteq Live,
           \A c \in Client : submitting'[c] = submitting[c],
           \A j \in Live : j \notin Live' => j.type # "ingest_upload" \/ Over(j),
           \A j \in Live' : j.type = "ingest_upload" => (Over(j)' <=> Over(j)),
           OnlyUnhandled'
    PROVE  SpoolPart'
<1>1. /\ StoredApart /\ Submitted /\ PayloadsApart /\ BundlesKept /\ SpoolIsOwned
      /\ spool' = spool /\ upload' = upload /\ payload' = payload /\ issued' = issued
    BY DEF SInv, SpoolPart, routes
<1>2. StoredApart' /\ Submitted'
    BY <1>1 DEF StoredApart, Submitted
<1>3. PayloadsApart'
    BY <1>1 DEF PayloadsApart
<1>4. BundlesKept'
    BY <1>1 DEF BundlesKept
<1>5. SpoolIsOwned'
    <2> SUFFICES ASSUME NEW b \in Bundle, spool[b] # Absent, \A c \in Client : upload[c].bundle # b
                 PROVE  \E j \in Live' : payload[j.id] = b
        BY <1>1 DEF SpoolIsOwned
    <2>1. PICK j \in Live : payload[j.id] = b
        BY <1>1 DEF SpoolIsOwned
    <2>2. j.type = "ingest_upload"
        BY <1>1, <2>1, ContentsApart DEF PayloadsApart
    <2>3. ~Over(j)
        BY <1>1, <2>1, <2>2 DEF BundlesKept
    <2> QED
        BY <2>1, <2>2, <2>3
<1> QED
    BY <1>2, <1>3, <1>4, <1>5 DEF SpoolPart

\* A worker's loop ends no handler: only what is over goes.
LEMMA LoopKeepsSpool ==
    ASSUME SInv, WInv', NEW w \in Worker, Loop(w), UNCHANGED <<disk, routes, progress>>
    PROVE  SpoolPart'
<1>1. /\ CInv /\ QInv' /\ QueueTypeOK /\ OnlyUnhandled /\ WorkersHoldJobs
      /\ "ingest_upload" \in Handled
    BY WorkspaceAssumption DEF SInv, WInv, CInv, QInv, SpoolPart
<1>2. /\ UNCHANGED <<spool, routes, issued>> /\ submitting' = submitting
      /\ \A v \in Worker : v # w => at'[v] = at[v] /\ held'[v] = held[v]
    BY <1>1 DEF Loop, Take, TakeSentinel, MarkFailed, AcquireShared, AcquireRepo, AcquireExclusive,
                Finish, tables, disk, QueueTypeOK
<1>3. Live' = Live \/ (at[w] \in {"unhandled", "finish", "dying"} /\ Live' = Live \ {held[w]})
    BY <1>1, LoopKeepsC
<1>4. OnlyUnhandled'
    <2>1. at'[w] = "unhandled" => held'[w].type \notin Handled
        BY <1>1
        DEF Loop, Take, TakeSentinel, MarkFailed, AcquireShared, AcquireRepo, AcquireExclusive,
            Finish, QueueTypeOK
    <2> QED
        BY <1>1, <1>2, <2>1 DEF OnlyUnhandled
<1>5. ASSUME NEW j \in Live, j \notin Live' PROVE j.type # "ingest_upload" \/ Over(j)
    <2>1. j = held[w] /\ at[w] \in {"unhandled", "finish", "dying"}
        BY <1>3, <1>5
    <2> QED
        BY <1>1, <2>1 DEF OnlyUnhandled, Over, After
<1>6. ASSUME NEW j \in Live', j.type = "ingest_upload" PROVE Over(j)' <=> Over(j)
    <2>1. held'[w] = j /\ at'[w] \in After <=> held[w] = j /\ at[w] \in After
        <3>1. CASE Finish(w)
            <4>1. j # held[w] /\ at'[w] \notin After
                BY <1>1, <1>6, <3>1, FinishKeepsC DEF Finish, After, QueueTypeOK
            <4> QED
                BY <4>1
        <3>2. CASE MarkFailed(w)
            BY <1>1, <1>6, <3>2 DEF MarkFailed, OnlyUnhandled, After, QueueTypeOK
        <3>3. CASE Take(w) \/ TakeSentinel(w) \/ AcquireShared(w) \/ AcquireRepo(w)
                   \/ AcquireExclusive(w)
            <4>1. at[w] \notin After /\ at'[w] \notin After
                BY <1>1, <3>3 DEF Take, TakeSentinel, AcquireShared, AcquireRepo,
                                  AcquireExclusive, After, QueueTypeOK
            <4> QED
                BY <4>1
        <3> QED
            BY <3>1, <3>2, <3>3 DEF Loop
    <2> QED
        BY <1>2, <2>1 DEF Over
<1>7. Live' \subseteq Live
    BY <1>3
<1> QED
    BY <1>2, <1>4, <1>5, <1>6, <1>7, SpoolUntouched

\* Nothing that leaves the jobs, the workers and the spool alone matters here.
LEMMA NothingMoves ==
    ASSUME SInv, UNCHANGED <<spool, routes, issued, held, at, submitting>>, Live' = Live
    PROVE  SpoolPart'
<1>1. OnlyUnhandled'
    BY DEF SInv, SpoolPart, OnlyUnhandled
<1>2. \A j \in Live' : Over(j)' <=> Over(j)
    BY DEF Over
<1> QED
    BY <1>1, <1>2, SpoolUntouched

LEMMA HandlerKeepsSpool ==
    ASSUME SInv, NEW w \in Worker, OnDisk(w) \/ Reporting(w)
    PROVE  SpoolPart'
<1>1. UNCHANGED <<spool, routes, issued, held, at, submitting, pending, lane>>
    <2>1. CASE OnDisk(w)
        BY <2>1, OnDiskLeavesQueue DEF queueVars, threads, tables
    <2>2. CASE Reporting(w)
        BY <2>2 DEF Reporting, PipelineStart, Scan, Clear, PipelineFails, Seal, Failed, DeleteStart,
                    HandlerReports, HandlerDropsRows, threads, tables, disk
    <2> QED
        BY <2>1, <2>2
<1>2. Live' = Live
    BY <1>1, NobodyMoves DEF SInv, WInv
<1> QED
    BY <1>1, <1>2, NothingMoves

\* The end of a handler discards its own job's bundle and nobody else's.
LEMMA LeavingKeepsSpool ==
    ASSUME SInv, NEW w \in Worker, Return(w) \/ Raises(w)
    PROVE  SpoolPart'
<1> DEFINE gone == payload[held[w].id]
<1>1. /\ at[w] = "run" /\ held' = held /\ submitting' = submitting /\ issued' = issued
      /\ upload' = upload /\ payload' = payload /\ pending' = pending /\ lane' = lane
      /\ spool' = [b \in Bundle |-> IF b = gone THEN Absent ELSE spool[b]]
      /\ \E p \in {"finish", "except"} : at' = [at EXCEPT ![w] = p]
    BY DEF Return, Raises, Leave, Discarded, HandlerReturns, HandlerRaises, Running, tables, routes
<1>2. /\ QueueTypeOK /\ StoredApart /\ Submitted /\ PayloadsApart /\ BundlesKept
      /\ OnlyUnhandled /\ SpoolIsOwned /\ CInv /\ HeldNotSubmitting
    BY DEF SInv, WInv, CInv, CPart, OnePlace, QInv, SpoolPart
<1>3. Live' = Live
    BY <1>1, <1>2, NobodyMoves
<1>4. held[w] \in Live /\ held[w].id # NoId
    <2>1. held[w] \in Job
        BY <1>1 DEF SInv, WInv, CInv, QInv, WorkersHoldJobs
    <2>2. AtSomePlace(held[w])
        BY DEF AtSomePlace
    <2> QED
        BY <1>2, <2>1, <2>2, LivePlaces, IdsOfJobs
<1>5. \A v \in Worker : at'[v] = IF v = w THEN at'[w] ELSE at[v]
    BY <1>1, <1>2 DEF QueueTypeOK
<1>6. at'[w] \in {"finish", "except"}
    BY <1>1, <1>2 DEF QueueTypeOK
<1> HIDE DEF gone
<1>7. StoredApart' /\ Submitted' /\ PayloadsApart'
    BY <1>1, <1>2, <1>3 DEF StoredApart, Submitted, PayloadsApart
<1>8. OnlyUnhandled'
    BY <1>1, <1>2, <1>5, <1>6 DEF OnlyUnhandled
<1>9. BundlesKept'
    <2> SUFFICES ASSUME NEW j \in Live, j.type = "ingest_upload"
                 PROVE  spool'[payload[j.id]] = IF Over(j)' THEN Absent ELSE Intact
        BY <1>1, <1>3 DEF BundlesKept
    <2>1. payload[j.id] \in Bundle
        BY LiveTypes
    <2>2. CASE j = held[w]
        <3>1. Over(j)'
            BY <1>1, <1>6, <2>2 DEF Over, After
        <3> QED
            BY <1>1, <2>1, <2>2, <3>1 DEF gone
    <2>3. CASE j # held[w]
        <3>1. Over(j)' <=> Over(j)
            BY <1>1, <1>5, <2>3 DEF Over
        <3>2. payload[j.id] # gone
            BY <1>2, <1>4, <2>1, <2>3, LiveTypes, ContentsApart DEF PayloadsApart, gone
        <3> QED
            BY <1>1, <1>2, <2>1, <3>1, <3>2 DEF BundlesKept
    <2> QED
        BY <2>2, <2>3
<1>10. SpoolIsOwned'
    BY <1>1, <1>2, <1>3 DEF SpoolIsOwned
<1> QED
    BY <1>7, <1>8, <1>9, <1>10 DEF SpoolPart
------------------------------------------------------------------------------
\* A bundle being stored is another one than every other route's and every job's.
LEMMA StoringApart ==
    ASSUME SInv, NEW c \in Client, c \in Storing
    PROVE  /\ PathOf(c) \in Bundle
           /\ \A i \in JobId : payload[i] # PathOf(c)
           /\ \A d \in Client : d # c => upload[d].bundle # PathOf(c)
<1>1. upload[c] # NoUpload /\ submitting[c] = NoJob /\ StoredApart /\ RoutesTyped
    BY DEF Storing, SInv, SpoolPart, WInv
<1>2. PathOf(c) \in Bundle
    BY <1>1 DEF PathOf, RoutesTyped, UploadTypes
<1>3. ASSUME NEW d \in Client, upload[d].bundle = PathOf(c) PROVE d = c
    <2>1. upload[d] # NoUpload
        BY <1>2, <1>3, ContentsApart DEF NoUpload
    <2> QED
        BY <1>1, <1>3, <2>1 DEF StoredApart, PathOf
<1> QED
    BY <1>1, <1>2, <1>3 DEF StoredApart, PathOf

\* Storing writes a file that is its route's alone.
LEMMA StoringKeepsSpool ==
    ASSUME SInv, NEW c \in Client, StoreEnds(c) \/ StoreFails(c)
    PROVE  SpoolPart'
<1>1. /\ c \in Storing /\ upload[c] # NoUpload /\ submitting[c] = NoJob
      /\ UNCHANGED <<queueVars, payload>>
      /\ \E new \in {Absent, Intact} : spool' = [spool EXCEPT ![PathOf(c)] = new]
      /\ upload' = upload \/ upload' = [upload EXCEPT ![c] = NoUpload]
      /\ upload' = upload \/ spool' = [spool EXCEPT ![PathOf(c)] = Absent]
    BY DEF StoreEnds, StoreFails, Storing, PathOf, routes
<1>2. /\ StoredApart /\ Submitted /\ PayloadsApart /\ BundlesKept /\ OnlyUnhandled /\ SpoolIsOwned
      /\ RoutesTyped /\ CInv
    BY DEF SInv, SpoolPart, WInv
<1>3. /\ submitting' = submitting /\ held' = held /\ at' = at /\ issued' = issued
      /\ lane' = lane /\ pending' = pending /\ payload' = payload
    BY <1>1 DEF queueVars, tables, threads
<1>4. Live' = Live
    BY <1>2, <1>3, NobodyMoves
<1>5. \A d \in Client : upload'[d] = upload[d] \/ (d = c /\ upload'[d] = NoUpload)
    BY <1>1, <1>2 DEF RoutesTyped
<1>6. StoredApart' /\ Submitted' /\ PayloadsApart' /\ OnlyUnhandled'
    <2>1. StoredApart'
        <3>1. \A d \in Client : upload[d] # NoUpload => upload[d].bundle # NoUpload.bundle
            BY <1>2, ContentsApart DEF RoutesTyped, UploadTypes, NoUpload
        <3> QED
            BY <1>2, <1>3, <1>5, <3>1 DEF StoredApart
    <2>2. Submitted'
        BY <1>1, <1>2, <1>3, <1>5 DEF Submitted
    <2>3. PayloadsApart' /\ OnlyUnhandled'
        BY <1>2, <1>3, <1>4 DEF PayloadsApart, OnlyUnhandled
    <2> QED
        BY <2>1, <2>2, <2>3
<1>7. \A b \in Bundle : b # PathOf(c) => spool'[b] = spool[b]
    BY <1>1, <1>2 DEF RoutesTyped
<1>8. BundlesKept'
    <2>1. \A j \in Live : Over(j)' <=> Over(j)
        BY <1>3 DEF Over
    <2>2. \A j \in Live : j.type = "ingest_upload" => spool'[payload[j.id]] = spool[payload[j.id]]
        BY <1>1, <1>7, LiveTypes, StoringApart
    <2> QED
        BY <1>2, <1>3, <1>4, <2>1, <2>2 DEF BundlesKept
<1>9. SpoolIsOwned'
    <2> SUFFICES ASSUME NEW b \in Bundle, spool'[b] # Absent
                 PROVE  \/ \E d \in Client : upload'[d].bundle = b
                        \/ \E j \in Live : payload[j.id] = b
        BY <1>3, <1>4 DEF SpoolIsOwned
    <2>1. CASE b = PathOf(c)
        <3>1. upload' = upload
            BY <1>1, <1>2, <2>1 DEF RoutesTyped
        <3> QED
            BY <2>1, <3>1 DEF PathOf
    <2>2. CASE b # PathOf(c)
        BY <1>2, <1>5, <1>7, <2>2 DEF SpoolIsOwned, PathOf
    <2> QED
        BY <2>1, <2>2
<1> QED
    BY <1>6, <1>8, <1>9 DEF SpoolPart

\* A route begins with a name nothing else uses.
LEMMA StoreBeginsKeepsSpool ==
    ASSUME SInv, NEW c \in Client, NEW r \in Repo, StoreBegins(c, r)
    PROVE  SpoolPart'
<1>1. PICK b \in FreshNames(r) :
          /\ upload' = [upload EXCEPT ![c] = [repo |-> r, bundle |-> b]]
          /\ spool' = [spool EXCEPT ![b] = Partial]
    BY DEF StoreBegins
<1>2. /\ b \in Bundle /\ b # NoBundle /\ spool[b] = Absent
      /\ \A d \in Client : upload[d].bundle # b
      /\ \A i \in JobId : payload[i] # b
    BY <1>1, ContentsApart DEF FreshNames
<1>3. /\ submitting' = submitting /\ held' = held /\ at' = at /\ issued' = issued
      /\ lane' = lane /\ pending' = pending /\ payload' = payload
      /\ submitting[c] = NoJob /\ upload[c] = NoUpload
    BY DEF StoreBegins, queueVars, tables, threads
<1>4. /\ StoredApart /\ Submitted /\ PayloadsApart /\ BundlesKept /\ OnlyUnhandled /\ SpoolIsOwned
      /\ RoutesTyped /\ CInv
    BY DEF SInv, SpoolPart, WInv
<1>5. Live' = Live
    BY <1>3, <1>4, NobodyMoves
<1>6. /\ \A d \in Client : d # c => upload'[d] = upload[d]
      /\ upload'[c].bundle = b /\ upload'[c] # NoUpload
    BY <1>1, <1>2, <1>4 DEF RoutesTyped, NoUpload
<1>7. StoredApart'
    BY <1>2, <1>3, <1>4, <1>6 DEF StoredApart
<1>8. Submitted' /\ PayloadsApart' /\ OnlyUnhandled'
    BY <1>3, <1>4, <1>5, <1>6 DEF Submitted, PayloadsApart, OnlyUnhandled
<1>9. BundlesKept'
    <2>1. \A j \in Live : Over(j)' <=> Over(j)
        BY <1>3 DEF Over
    <2>2. \A j \in Live : j.type = "ingest_upload" => spool'[payload[j.id]] = spool[payload[j.id]]
        BY <1>1, <1>2, <1>4, LiveTypes DEF RoutesTyped
    <2> QED
        BY <1>3, <1>4, <1>5, <2>1, <2>2 DEF BundlesKept
<1>10. SpoolIsOwned'
    <2> SUFFICES ASSUME NEW a \in Bundle, spool'[a] # Absent
                 PROVE  \/ \E d \in Client : upload'[d].bundle = a
                        \/ \E j \in Live : payload[j.id] = a
        BY <1>3, <1>5 DEF SpoolIsOwned
    <2>1. CASE a = b
        BY <1>6, <2>1
    <2>2. CASE a # b
        <3>1. upload[c].bundle # a
            BY <1>3, ContentsApart DEF NoUpload
        <3>2. spool[a] # Absent
            BY <1>1, <1>2, <1>4, <2>2 DEF RoutesTyped
        <3> QED
            BY <1>4, <1>6, <3>1, <3>2 DEF SpoolIsOwned
    <2> QED
        BY <2>1, <2>2
<1> QED
    BY <1>7, <1>8, <1>9, <1>10 DEF SpoolPart
------------------------------------------------------------------------------
\* A job has just been registered: only its submitter has it.
LEMMA RegisteredJob ==
    ASSUME SInv, CInv', NEW c \in Client, NEW k \in Offered, Register(c, k),
           UNCHANGED <<lane, threads>>
    PROVE  /\ issued + 1 \in JobId /\ issued \in Nat /\ issued' = issued + 1
           /\ submitting' = [submitting EXCEPT ![c] = [id |-> issued + 1, type |-> k[1], repo |-> k[2]]]
           /\ submitting[c] = NoJob /\ payload[issued + 1] = NoBundle
           /\ Live' = Live \cup {[id |-> issued + 1, type |-> k[1], repo |-> k[2]]}
           /\ \A j \in Live : j.id # issued + 1
           /\ \A j \in Live' : Over(j)' <=> Over(j)
           /\ \A j \in Live' : j.id = issued + 1 => ~Over(j)
<1>1. c \in Caller /\ k \in Key /\ held' = held /\ at' = at
    BY QueueAssumption DEF Caller, threads
<1>2. /\ CInv /\ QInv' /\ QueueTypeOK /\ QueueTypeOK' /\ PayloadsApart
    BY DEF SInv, WInv, CInv, QInv, SpoolPart
<1>3. Live' = Live \cup {[id |-> issued + 1, type |-> k[1], repo |-> k[2]]}
    BY <1>1, <1>2, RegisterKeepsC
<1>4. issued + 1 \in JobId /\ issued \in Nat /\ issued' = issued + 1
    BY <1>2, MaxIdNat DEF Register, QueueTypeOK, JobId
<1>5. payload[issued + 1] = NoBundle
    BY <1>2, <1>4 DEF PayloadsApart
<1>6. \A j \in Live : j.id # issued + 1
    BY <1>4, LiveTypes
<1>7. \A j : Over(j)' <=> Over(j)
    BY <1>1 DEF Over
<1>8. ASSUME NEW j \in Live', j.id = issued + 1 PROVE ~Over(j)
    <2>1. \A w \in Worker : held[w].id # issued + 1
        <3>1. \A w \in Worker : held[w].id <= issued /\ held[w].id \in Nat
            BY <1>2, IdsOfJobs DEF CInv, CPart, IdsIssued, QueueTypeOK, NoId
        <3> QED
            BY <1>4, <3>1
    <2> QED
        BY <1>8, <2>1 DEF Over
<1> QED
    BY <1>3, <1>4, <1>5, <1>6, <1>7, <1>8 DEF Register

\* The upload route hands its bundle's name to the job it submits.
LEMMA UploadSubmitsKeepsSpool ==
    ASSUME SInv, WInv', NEW c \in Client, UploadSubmits(c)
    PROVE  SpoolPart'
<1> DEFINE k == <<"ingest_upload", upload[c].repo>>
           new == [id |-> issued + 1, type |-> k[1], repo |-> k[2]]
<1>1. /\ c \in Storing /\ upload[c] # NoUpload /\ submitting[c] = NoJob
      /\ spool[PathOf(c)] = Intact /\ Register(c, k)
      /\ payload' = [payload EXCEPT ![issued'] = PathOf(c)]
      /\ lane' = lane /\ held' = held /\ at' = at /\ spool' = spool /\ upload' = upload
    BY DEF UploadSubmits, Storing, PathOf, threads, disk
<1>2. /\ StoredApart /\ Submitted /\ PayloadsApart /\ BundlesKept /\ OnlyUnhandled /\ SpoolIsOwned
      /\ RoutesTyped /\ QueueTypeOK
    BY DEF SInv, SpoolPart, WInv, CInv, QInv
<1>3. k \in Offered
    BY <1>1, <1>2 DEF RoutesTyped, UploadTypes
<1>4. /\ issued + 1 \in JobId /\ issued \in Nat /\ issued' = issued + 1
      /\ submitting' = [submitting EXCEPT ![c] = new]
      /\ payload[issued + 1] = NoBundle
      /\ Live' = Live \cup {new}
      /\ \A j \in Live : j.id # issued + 1
      /\ \A j \in Live' : Over(j)' <=> Over(j)
      /\ \A j \in Live' : j.id = issued + 1 => ~Over(j)
    <2>1. CInv' /\ UNCHANGED <<lane, threads>>
        BY <1>1 DEF WInv, threads
    <2> QED
        BY <1>1, <1>3, <2>1, RegisteredJob
<1>5. /\ new.id = issued + 1 /\ new.type = "ingest_upload" /\ new # NoJob /\ new \in Live'
    BY <1>4, MaxIdNat DEF NoJob
<1> HIDE DEF new, k
<1>6. \A d \in Client : submitting'[d] = IF d = c THEN new ELSE submitting[d]
    BY <1>2, <1>4 DEF QueueTypeOK, Caller
<1>7. /\ payload'[issued + 1] = PathOf(c)
      /\ \A i \in JobId : i # issued + 1 => payload'[i] = payload[i]
    BY <1>1, <1>2, <1>4 DEF RoutesTyped
<1>8. /\ PathOf(c) \in Bundle /\ PathOf(c) # NoBundle
      /\ \A i \in JobId : payload[i] # PathOf(c)
      /\ \A d \in Client : d # c => upload[d].bundle # PathOf(c)
    BY <1>1, StoringApart, ContentsApart
<1>9. StoredApart'
    BY <1>1, <1>2, <1>5, <1>6, <1>7, <1>8 DEF StoredApart
<1>10. Submitted'
    <2> SUFFICES ASSUME NEW d \in Client, submitting'[d] # NoJob
                 PROVE  IF submitting'[d].type = "ingest_upload"
                        THEN upload[d] # NoUpload /\ upload[d].bundle = payload'[submitting'[d].id]
                        ELSE upload[d] = NoUpload
        BY <1>1 DEF Submitted
    <2>1. CASE d = c
        BY <1>1, <1>5, <1>6, <1>7, <2>1 DEF PathOf
    <2>2. CASE d # c
        <3>1. submitting[d] \in Job /\ submitting[d].id <= issued /\ submitting'[d] = submitting[d]
            BY <1>2, <1>6, <2>2 DEF QueueTypeOK, Caller, SInv, WInv, CInv, CPart, IdsIssued
        <3>2. submitting[d].id \in JobId /\ submitting[d].id # issued + 1
            BY <1>4, <3>1, IdsOfJobs DEF Job
        <3> QED
            BY <1>2, <1>7, <3>1, <3>2 DEF Submitted
    <2> QED
        BY <2>1, <2>2
<1>11. PayloadsApart'
    <2>1. \A i, j \in JobId : payload'[i] # NoBundle /\ payload'[i] = payload'[j] => i = j
        BY <1>2, <1>7, <1>8 DEF PayloadsApart
    <2>2. \A i \in JobId : i > issued' => payload'[i] = NoBundle
        BY <1>2, <1>4, <1>7, MaxIdNat DEF PayloadsApart, JobId
    <2>3. \A j \in Live' : j.type = "ingest_upload" <=> payload'[j.id] # NoBundle
        <3>1. \A j \in Live : j.id \in JobId /\ j.id # issued + 1
            BY <1>4, LiveTypes
        <3> QED
            BY <1>2, <1>4, <1>5, <1>7, <1>8, <3>1 DEF PayloadsApart
    <2> QED
        BY <2>1, <2>2, <2>3 DEF PayloadsApart
<1>12. BundlesKept'
    <2> SUFFICES ASSUME NEW j \in Live', j.type = "ingest_upload"
                 PROVE  spool[payload'[j.id]] = IF Over(j) THEN Absent ELSE Intact
        BY <1>1, <1>4 DEF BundlesKept
    <2>1. CASE j = new
        BY <1>1, <1>4, <1>5, <1>7, <2>1
    <2>2. CASE j # new
        BY <1>2, <1>4, <1>7, <2>2, LiveTypes DEF BundlesKept
    <2> QED
        BY <2>1, <2>2
<1>13. OnlyUnhandled'
    BY <1>1, <1>2 DEF OnlyUnhandled
<1>14. SpoolIsOwned'
    <2>1. \A j \in Live : j \in Live' /\ payload'[j.id] = payload[j.id]
        BY <1>4, <1>7, LiveTypes
    <2> QED
        BY <1>1, <1>2, <2>1 DEF SpoolIsOwned
<1> QED
    BY <1>9, <1>10, <1>11, <1>12, <1>13, <1>14 DEF SpoolPart

LEMMA OtherSubmitsKeepsSpool ==
    ASSUME SInv, WInv', NEW c \in Client, OtherSubmits(c)
    PROVE  SpoolPart'
<1>1. PICK k \in Offered : k[1] # "ingest_upload" /\ (Register(c, k) \/ Coalesce(c, k))
    BY DEF OtherSubmits
<1>2. /\ lane' = lane /\ held' = held /\ at' = at /\ spool' = spool /\ upload' = upload
      /\ payload' = payload /\ upload[c] = NoUpload
    BY DEF OtherSubmits, threads, disk, routes
<1>3. /\ StoredApart /\ Submitted /\ PayloadsApart /\ BundlesKept /\ OnlyUnhandled /\ SpoolIsOwned
      /\ RoutesTyped /\ QueueTypeOK /\ CInv
    BY DEF SInv, SpoolPart, WInv, CInv, QInv
<1>4. CASE Coalesce(c, k)
    <2>1. UNCHANGED <<spool, routes, issued, held, at, submitting, pending, lane>>
        BY <1>2, <1>4 DEF Coalesce, routes
    <2>2. Live' = Live
        BY <1>3, <2>1, NobodyMoves
    <2> QED
        BY <2>1, <2>2, NothingMoves
<1>5. CASE Register(c, k)
    <2> DEFINE new == [id |-> issued + 1, type |-> k[1], repo |-> k[2]]
    <2>1. /\ issued + 1 \in JobId /\ issued \in Nat /\ issued' = issued + 1
          /\ submitting' = [submitting EXCEPT ![c] = new]
          /\ payload[issued + 1] = NoBundle
          /\ Live' = Live \cup {new}
          /\ \A j \in Live' : Over(j)' <=> Over(j)
        <3>1. CInv' /\ UNCHANGED <<lane, threads>>
            BY <1>2 DEF WInv, threads
        <3> QED
            BY <1>5, <3>1, RegisteredJob
    <2>2. new.id = issued + 1 /\ new.type # "ingest_upload"
        BY <1>1
    <2> HIDE DEF new
    <2>3. \A d \in Client : submitting'[d] = IF d = c THEN new ELSE submitting[d]
        BY <1>3, <2>1 DEF QueueTypeOK, Caller
    <2>4. StoredApart' /\ Submitted'
        BY <1>2, <1>3, <2>2, <2>3 DEF StoredApart, Submitted
    <2>5. PayloadsApart'
        <3>1. \A i \in JobId : i > issued' => payload[i] = NoBundle
            BY <1>3, <2>1, MaxIdNat DEF PayloadsApart, JobId
        <3> QED
            BY <1>2, <1>3, <2>1, <2>2, <3>1 DEF PayloadsApart
    <2>6. BundlesKept' /\ OnlyUnhandled' /\ SpoolIsOwned'
        BY <1>2, <1>3, <2>1, <2>2 DEF BundlesKept, OnlyUnhandled, SpoolIsOwned
    <2> QED
        BY <2>4, <2>5, <2>6 DEF SpoolPart
<1> QED
    BY <1>1, <1>4, <1>5
------------------------------------------------------------------------------
\* The job a client is submitting, and the bundle stored for it.
LEMMA SubmittedBundle ==
    ASSUME SInv, NEW c \in Client, submitting[c] # NoJob
    PROVE  /\ c \in Caller /\ submitting[c] \in Live /\ submitting[c].id \in JobId
           /\ upload[c].bundle = payload[submitting[c].id]
<1>1. QueueTypeOK /\ Submitted /\ PayloadsApart
    BY DEF SInv, SpoolPart, WInv, CInv, QInv
<1>2. c \in Caller /\ submitting[c] \in Job
    BY <1>1 DEF Caller, QueueTypeOK
<1>3. submitting[c] \in Live
    BY <1>1, <1>2, LivePlaces DEF AtSomePlace
<1> QED
    BY <1>1, <1>2, <1>3, LiveTypes DEF Submitted, PayloadsApart, NoUpload

\* The job is on its lane: the bundle is its own from here on.
LEMMA SubmitEndsKeepsSpool ==
    ASSUME SInv, WInv', NEW c \in Client, SubmitEnds(c)
    PROVE  SpoolPart'
<1>1. /\ submitting[c] # NoJob /\ submitting' = [submitting EXCEPT ![c] = NoJob]
      /\ upload' = [upload EXCEPT ![c] = NoUpload] /\ held' = held /\ at' = at /\ issued' = issued
      /\ spool' = spool /\ payload' = payload
    BY DEF SubmitEnds, Enqueue, threads, disk
<1>2. /\ StoredApart /\ Submitted /\ PayloadsApart /\ BundlesKept /\ OnlyUnhandled /\ SpoolIsOwned
      /\ RoutesTyped /\ QueueTypeOK /\ CInv /\ QInv'
    BY DEF SInv, SpoolPart, WInv, CInv, QInv
<1>3. Live' = Live
    BY <1>2, EnqueueKeepsC DEF SubmitEnds, Caller
<1>4. \A d \in Client : /\ submitting'[d] = IF d = c THEN NoJob ELSE submitting[d]
                        /\ upload'[d] = IF d = c THEN NoUpload ELSE upload[d]
    BY <1>1, <1>2 DEF QueueTypeOK, Caller, RoutesTyped
<1>5. StoredApart'
    <2>1. \A d \in Client : upload[d] # NoUpload => upload[d].bundle # NoUpload.bundle
        BY <1>2, ContentsApart DEF RoutesTyped, UploadTypes, NoUpload
    <2> QED
        BY <1>1, <1>2, <1>4, <2>1 DEF StoredApart
<1>6. Submitted' /\ PayloadsApart' /\ OnlyUnhandled'
    BY <1>1, <1>2, <1>3, <1>4 DEF Submitted, PayloadsApart, OnlyUnhandled
<1>7. BundlesKept'
    <2>1. \A j : Over(j)' <=> Over(j)
        BY <1>1 DEF Over
    <2> QED
        BY <1>1, <1>2, <1>3, <2>1 DEF BundlesKept
<1>8. SpoolIsOwned'
    BY <1>1, <1>2, <1>3, <1>4, SubmittedBundle DEF SpoolIsOwned
<1> QED
    BY <1>5, <1>6, <1>7, <1>8 DEF SpoolPart

\* The row cannot be written: the route unlinks the bundle no job will see.
LEMMA SubmitFailsKeepsSpool ==
    ASSUME SInv, WInv', NEW c \in Client, SubmitFails(c)
    PROVE  SpoolPart'
<1> DEFINE job == submitting[c]
<1>1. /\ job # NoJob /\ submitting' = [submitting EXCEPT ![c] = NoJob]
      /\ upload' = [upload EXCEPT ![c] = NoUpload] /\ held' = held /\ at' = at /\ issued' = issued
      /\ payload' = [payload EXCEPT ![job.id] = NoBundle]
      /\ spool' = [b \in Bundle |-> IF b = upload[c].bundle THEN Absent ELSE spool[b]]
    BY DEF SubmitFails, EnqueueFails
<1>2. /\ StoredApart /\ Submitted /\ PayloadsApart /\ BundlesKept /\ OnlyUnhandled /\ SpoolIsOwned
      /\ RoutesTyped /\ QueueTypeOK /\ CInv /\ QInv'
    BY DEF SInv, SpoolPart, WInv, CInv, QInv
<1>3. job \in Live /\ job.id \in JobId /\ upload[c].bundle = payload[job.id]
    BY <1>1, SubmittedBundle
<1>4. \A j : j \in Live' <=> j \in Live /\ j # job
    BY <1>2, EnqueueFailsKeepsC DEF SubmitFails, Caller
<1> HIDE DEF job
<1>5. \A d \in Client : /\ submitting'[d] = IF d = c THEN NoJob ELSE submitting[d]
                        /\ upload'[d] = IF d = c THEN NoUpload ELSE upload[d]
    BY <1>1, <1>2 DEF QueueTypeOK, Caller, RoutesTyped
<1>6. \A i \in JobId : payload'[i] = IF i = job.id THEN NoBundle ELSE payload[i]
    BY <1>1, <1>2 DEF RoutesTyped
<1>7. \A j \in Live' : j.id \in JobId /\ j.id # job.id /\ payload'[j.id] = payload[j.id]
    BY <1>3, <1>4, <1>6, LiveTypes
<1>8. StoredApart'
    <2>1. \A d \in Client : upload[d] # NoUpload => upload[d].bundle \in Bundle
        BY <1>2 DEF RoutesTyped, UploadTypes
    <2> QED
        BY <1>1, <1>2, <1>5, <1>6, <2>1, ContentsApart DEF StoredApart, NoUpload
<1>9. Submitted'
    <2> SUFFICES ASSUME NEW d \in Client, d # c, submitting[d] # NoJob
                 PROVE  IF submitting[d].type = "ingest_upload"
                        THEN upload[d] # NoUpload /\ upload[d].bundle = payload'[submitting[d].id]
                        ELSE upload[d] = NoUpload
        BY <1>5 DEF Submitted
    <2>1. submitting[d] \in Live /\ submitting[d].id \in JobId
        BY SubmittedBundle
    <2>2. submitting[d].id # job.id
        BY <1>1, <2>1, IdsOfJobs, LivePlaces, LiveTypes
        DEF SInv, WInv, CInv, CPart, OnePlace, OnceSubmitting, QInv, Caller, job
    <2> QED
        BY <1>2, <1>6, <2>1, <2>2 DEF Submitted
<1>10. PayloadsApart'
    BY <1>1, <1>2, <1>4, <1>6, <1>7 DEF PayloadsApart
<1>11. BundlesKept'
    <2> SUFFICES ASSUME NEW j \in Live', j.type = "ingest_upload"
                 PROVE  spool'[payload[j.id]] = IF Over(j) THEN Absent ELSE Intact
        BY <1>1, <1>7 DEF BundlesKept, Over
    <2>1. j \in Live /\ payload[j.id] \in Bundle /\ payload[j.id] # NoBundle
        BY <1>4, LiveTypes, ContentsApart
    <2>2. payload[j.id] # upload[c].bundle
        BY <1>2, <1>3, <1>7, <2>1 DEF PayloadsApart
    <2> QED
        BY <1>1, <1>2, <2>1, <2>2 DEF BundlesKept
<1>12. OnlyUnhandled'
    BY <1>1, <1>2 DEF OnlyUnhandled
<1>13. SpoolIsOwned'
    <2> SUFFICES ASSUME NEW b \in Bundle, spool'[b] # Absent
                 PROVE  \/ \E d \in Client : upload'[d].bundle = b
                        \/ \E j \in Live' : payload'[j.id] = b
        BY DEF SpoolIsOwned
    <2>1. b # upload[c].bundle /\ spool[b] # Absent
        BY <1>1
    <2> QED
        BY <1>2, <1>3, <1>4, <1>5, <1>7, <2>1 DEF SpoolIsOwned
<1> QED
    BY <1>8, <1>9, <1>10, <1>11, <1>12, <1>13 DEF SpoolPart

\* A new process sweeps the spool before anyone may use it.
LEMMA RestartKeepsSpool ==
    ASSUME SInv, WInv', WorkspaceRestarts
    PROVE  SpoolPart'
<1>1. Live' = {}
    BY RestartKeepsC DEF WorkspaceRestarts, SInv, WInv, CInv
<1>2. /\ \A c \in Client : upload'[c] = NoUpload /\ submitting'[c] = NoJob
      /\ \A i \in JobId : payload'[i] = NoBundle
      /\ \A b \in Bundle : spool'[b] = Absent
      /\ \A w \in Worker : at'[w] = "get"
    BY DEF WorkspaceRestarts, Restart, NoneSubmitting, Caller, AllWaiting, Swept
<1> QED
    BY <1>1, <1>2
    DEF SpoolPart, StoredApart, Submitted, PayloadsApart, BundlesKept, OnlyUnhandled, SpoolIsOwned

LEMMA NextKeepsSInv == SInv /\ [WorkspaceNext]_workspaceVars => SInv'
<1> SUFFICES ASSUME SInv, [WorkspaceNext]_workspaceVars PROVE SpoolPart'
    BY NextKeepsWInv DEF SInv
<1>1. WInv' /\ WInv /\ CInv /\ QInv'
    BY NextKeepsWInv DEF SInv, WInv, CInv
<1>2. CASE UNCHANGED workspaceVars
    <2>1. UNCHANGED <<spool, routes, issued, held, at, submitting, pending, lane>>
        BY <1>2 DEF workspaceVars, queueVars, tables, threads, disk
    <2> QED
        BY <1>1, <2>1, NobodyMoves, NothingMoves
<1>3. ASSUME NEW c \in Client, NEW r \in Repo, StoreBegins(c, r) PROVE SpoolPart'
    BY <1>3, StoreBeginsKeepsSpool
<1>4. ASSUME NEW c \in Client, OtherSubmits(c) \/ RouteSteps(c) PROVE SpoolPart'
    BY <1>1, <1>4, OtherSubmitsKeepsSpool, StoringKeepsSpool, UploadSubmitsKeepsSpool,
       SubmitEndsKeepsSpool, SubmitFailsKeepsSpool DEF RouteSteps
<1>5. CASE QueueSteps
    <2>1. ASSUME NEW w \in Worker, Loop(w) PROVE SpoolPart'
        BY <1>1, <1>5, <2>1, LoopKeepsSpool DEF QueueSteps
    <2>2. CASE Stop \/ Idle
        <3>1. UNCHANGED <<spool, routes, issued, held, at, submitting>>
            BY <1>5, <2>2 DEF QueueSteps, Stop, Idle, queueVars, tables, threads, disk
        <3>2. Live' = Live
            <4>1. CASE Stop
                BY <1>1, <4>1, StopKeepsC
            <4>2. CASE Idle
                BY <1>1, <4>2, NobodyMoves DEF Idle, queueVars, tables, threads
            <4> QED
                BY <2>2, <4>1, <4>2
        <3> QED
            BY <3>1, <3>2, NothingMoves
    <2> QED
        BY <1>5, <2>1, <2>2 DEF QueueSteps
<1>6. ASSUME NEW w \in Worker, HandlerOf(w) PROVE SpoolPart'
    BY <1>6, HandlerKeepsSpool, LeavingKeepsSpool DEF HandlerOf, OnDisk, Reporting
<1>7. CASE WorkspaceRestarts
    BY <1>1, <1>7, RestartKeepsSpool
<1> QED
    BY <1>2, <1>3, <1>4, <1>5, <1>6, <1>7 DEF WorkspaceNext

\* Every reachable state of the spool satisfies the inductive invariant.
THEOREM SpoolInvariant == WorkspaceSpec => []SInv
<1>1. WorkspaceInit => SInv
    BY DiskInit, InitCInv, SpoolInit DEF SInv, WInv
<1> QED
    BY <1>1, NextKeepsSInv, PTL DEF WorkspaceSpec

\* The bundle of an upload is whole from its submission to the end of its handler,
\* so its clone reads no other upload's, and none that is missing or cut short.
THEOREM BundlesWait == WorkspaceSpec => []BundleWaitsForItsJob
<1>1. SInv => BundleWaitsForItsJob
    BY DEF SInv, SpoolPart, BundlesKept, Over, After, BundleWaitsForItsJob
<1> QED
    BY <1>1, SpoolInvariant, PTL

\* No file of the spool is without a request or a live job that will discard it.
THEOREM SpoolStaysOwned == WorkspaceSpec => []SpoolIsOwned
<1>1. SInv => SpoolIsOwned
    BY DEF SInv, SpoolPart
<1> QED
    BY <1>1, SpoolInvariant, PTL
================================================================================
