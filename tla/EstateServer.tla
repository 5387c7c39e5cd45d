----------------------------- MODULE EstateServer -----------------------------
(***************************************************************************)
(* The server's handlers over the job queue: the ingestion pipeline        *)
(* (services/ingestion_service.py), repository deletion, and full and      *)
(* delta link runs (services/linker/service.py), each a sequence of writes *)
(* to one Neo4j graph that other threads and readers can see in between.   *)
(*                                                                         *)
(* A repository's Layer 0 is the set of claim keys in the graph.  Layers 1 *)
(* and 2 are the linker's edges: a claim is anchored on its rendezvous     *)
(* node (an edge whose ends are one repository), and two repositories with *)
(* the same key get a Service-to-Service rollup (ends are both).           *)
(***************************************************************************)
EXTENDS JobQueue

CONSTANTS
    LinkerRepo,      \* "__linker__", the repo_id of link jobs
    ClaimKey,        \* claim keys
    Tree,            \* the claim sets a source tree may hold
    Faults           \* which calls may fail, a subset of FaultKinds

FaultKinds == {"clone", "parse", "write", "link", "raise"}

ASSUME EstateAssumption ==
    /\ LinkerRepo \in Repo
    /\ Tree \subseteq SUBSET ClaimKey
    /\ Faults \subseteq FaultKinds
    /\ FollowUp = {<<"link_full", LinkerRepo>>}
    /\ \A k \in Offered : k[2] = LinkerRepo <=> k[1] \in {"link_full", "link_delta"}

VARIABLES
    life,            \* Repo.lifecycle_state; "none" when there is no Repo node
    claims,          \* the ContractClaim nodes of each repository
    print,           \* Repo.claims_fingerprint
    edges,           \* relationships with created_by = 'linker'
    rendezvous,      \* keys that have a rendezvous node
    ledger,          \* status of the newest LinkRun
    step,            \* where in its handler each worker is
    evidence,        \* claims a handler holds: parsed, or read before a delete
    cleared,         \* _scan_and_write's local of that name
    snapshot,        \* what load_claims returned to a link run
    before           \* history: the repository's claims when a pipeline began

graph == <<life, claims, print, edges, rendezvous, ledger>>
locals == <<evidence, cleared, snapshot, before>>
estateVars == <<queueVars, graph, step, locals>>

Source == Repo \ {LinkerRepo}
FailureStates == {"failed_clean", "failed_partial"}
LinkableStates == {"ingested"}       \* nothing sets "linking" or "linked"
Steps == {"start", "clone", "parse", "clearEdges", "clearNodes", "clearRows",
          "write", "seal", "workspace", "rendezvous", "edges", "retire", "gc",
          "finish", "relink", "return"}
NoPrint == {"no fingerprint"}
NoEvidence == [w \in Worker |-> {}]
NothingSeen == [r \in Source |-> {}]

Edge == [ends : SUBSET Source, key : ClaimKey]
Anchor(r, k) == [ends |-> {r}, key |-> k]

\* What engine.link() computes from a set of claims per repository.
Links(seen) ==
    {e \in Edge : e.ends # {} /\ Cardinality(e.ends) <= 2 /\ \A r \in e.ends : e.key \in seen[r]}

\* The claims of repositories in LINKABLE_STATES: what load_claims returns.
Current == [r \in Source |-> IF life[r] \in LinkableStates THEN claims[r] ELSE {}]

\* The server starts over an estate that earlier jobs left settled and linked.
EstateInit ==
    /\ QueueInit
    /\ claims \in [Source -> Tree \cup {{}}]
    /\ life \in [Source -> {"none", "ingested"}]
    /\ \A r \in Source : life[r] = "none" => claims[r] = {}
    /\ \A r \in Source : life[r] = "ingested" => claims[r] \in Tree
    /\ print = [r \in Source |-> NoPrint]
    /\ edges = Links(claims)
    /\ rendezvous = UNION {claims[r] : r \in Source}
    /\ ledger = "done"
    /\ step = [w \in Worker |-> "start"]
    /\ evidence = NoEvidence
    /\ cleared = [w \in Worker |-> FALSE]
    /\ snapshot = NothingSeen
    /\ before = NoEvidence

------------------------------------------------------------------------------
\* The routes check the recorded repository, then submit (routes/repos.py).
Permitted(k) ==
    CASE k[1] = "ingest" -> life[k[2]] = "none"
      [] k[1] \in {"refresh", "repo_delete"} -> life[k[2]] # "none"
      [] OTHER -> TRUE

RouteSubmits(c) ==
    /\ phase = "up"
    /\ requests < MaxRequests
    /\ requests' = requests + 1
    /\ \E k \in Offered : Permitted(k) /\ (Register(c, k) \/ Coalesce(c, k))
    /\ UNCHANGED <<lane, threads, locks, rows, phase, graph, step, locals>>

------------------------------------------------------------------------------
\* A worker inside a handler: the step it is at, and the repository of its job.
At(w, s) == at[w] = "run" /\ submitting[w] = NoJob /\ step[w] = s
Of(w) == held[w].repo
Go(w, s) == step' = [step EXCEPT ![w] = s]

\* The handler's frame is gone, and its locals with it.
Leave(w) ==
    /\ Go(w, "start")
    /\ evidence' = [evidence EXCEPT ![w] = {}]
    /\ cleared' = [cleared EXCEPT ![w] = FALSE]
    /\ before' = [before EXCEPT ![w] = {}]
    /\ snapshot' = IF w \in LinkerWorker THEN NothingSeen ELSE snapshot

\* set_repo_lifecycle: a state is MATCHed, so without a Repo node nothing is set.
Stamped(r, state) == IF life[r] = "none" THEN life ELSE [life EXCEPT ![r] = state]

\* Mutant: an upload is written over what is there.
Replaces_RefreshOnly(job) == job.type = "refresh"

Replaces(job) == job.type \in {"refresh", "ingest_upload"}

PipelineStart(w) ==
    /\ At(w, "start") /\ held[w].type \in IngestLane
    /\ HandlerReports(w, "running")
    /\ life' = Stamped(Of(w), "cloning")
    /\ before' = [before EXCEPT ![w] = claims[Of(w)]]
    /\ Go(w, "clone")
    /\ UNCHANGED <<claims, print, edges, rendezvous, ledger, evidence, cleared, snapshot>>

\* The clone lands and is scanned; what it holds is whatever the remote has now.
Clone(w) ==
    /\ At(w, "clone")
    /\ HandlerReports(w, "running")
    /\ life' = Stamped(Of(w), "parsing")
    /\ \E tree \in Tree : evidence' = [evidence EXCEPT ![w] = tree]
    /\ Go(w, "parse")
    /\ UNCHANGED <<claims, print, edges, rendezvous, ledger, cleared, snapshot, before>>

\* Mutant: cleared flips only when clear_repo_graph has returned.
Parse_ClearedLater(w) ==
    /\ At(w, "parse")
    /\ HandlerReports(w, "running")
    /\ Go(w, IF Replaces(held[w]) THEN "clearEdges" ELSE "write")
    /\ UNCHANGED <<graph, locals>>

\* cleared flips before clear_repo_graph is called.
Parse(w) ==
    /\ At(w, "parse")
    /\ HandlerReports(w, "running")
    /\ cleared' = [cleared EXCEPT ![w] = Replaces(held[w])]
    /\ Go(w, IF Replaces(held[w]) THEN "clearEdges" ELSE "write")
    /\ UNCHANGED <<graph, evidence, snapshot, before>>

\* clear_repo_graph, one transaction per step: anchored linker edges, then the
\* subgraph with its Repo node, then the job rows and orphaned rendezvous nodes.
ClearEdges(w) ==
    /\ At(w, "clearEdges")
    /\ edges' = {e \in edges : e.ends # {Of(w)}}
    /\ Go(w, "clearNodes")
    /\ UNCHANGED <<queueVars, life, claims, print, rendezvous, ledger, locals>>

ClearNodes(w) ==
    /\ At(w, "clearNodes")
    /\ claims' = [claims EXCEPT ![Of(w)] = {}]
    /\ life' = [life EXCEPT ![Of(w)] = "none"]
    /\ print' = [print EXCEPT ![Of(w)] = NoPrint]
    /\ Go(w, "clearRows")
    /\ UNCHANGED <<queueVars, edges, rendezvous, ledger, locals>>

\* gc_orphan_rendezvous keeps the nodes something is still anchored on.
Anchored == {k \in rendezvous : \E r \in Source : Anchor(r, k) \in edges}

ClearRows(w) ==
    /\ At(w, "clearRows")
    /\ HandlerDropsRows(w)
    /\ rendezvous' = Anchored
    /\ Go(w, IF held[w].type = "repo_delete" THEN "workspace" ELSE "write")
    /\ UNCHANGED <<life, claims, print, edges, ledger, locals>>

\* The "writing" stamp, then write_nodes_batch: nodes are MERGEd, so whatever the
\* repository already had stays, and a new Repo node has no lifecycle yet.
WriteNodes(w) ==
    /\ At(w, "write")
    /\ HandlerReports(w, "running")
    /\ claims' = [claims EXCEPT ![Of(w)] = @ \cup evidence[w]]
    /\ life' = [life EXCEPT ![Of(w)] = IF @ = "none" THEN "unset" ELSE "writing"]
    /\ cleared' = [cleared EXCEPT ![w] = TRUE]
    /\ Go(w, "seal")
    /\ UNCHANGED <<print, edges, rendezvous, ledger, evidence, snapshot, before>>

\* Edges, stats and coverage are written, then the two statuses.
Seal(w) ==
    /\ At(w, "seal")
    /\ HandlerReports(w, "completed")
    /\ life' = [life EXCEPT ![Of(w)] = "ingested"]
    /\ Go(w, "relink")
    /\ UNCHANGED <<claims, print, edges, rendezvous, ledger, locals>>

\* _mark_failed; a failure state is MERGEd, so the Repo node exists afterwards.
MarkPipelineFailed(w) ==
    /\ HandlerReports(w, "failed")
    /\ life' = [life EXCEPT ![Of(w)] = IF cleared[w] THEN "failed_partial" ELSE "failed_clean"]
    /\ Go(w, "return")

PipelineFails(w) ==
    /\ \/ "clone" \in Faults /\ At(w, "clone")
       \/ "parse" \in Faults /\ At(w, "parse")
    /\ MarkPipelineFailed(w)
    /\ UNCHANGED <<claims, print, edges, rendezvous, ledger, locals>>

\* Deletes and writes go in batches, so a failing call may have done part of its work.
WriteFails(w) ==
    /\ "write" \in Faults
    /\ held[w].type \in IngestLane
    /\ \/ /\ At(w, "clearEdges")
          /\ \E gone \in SUBSET {e \in edges : e.ends = {Of(w)}} : edges' = edges \ gone
          /\ UNCHANGED <<claims, print>>
       \/ /\ At(w, "clearNodes")
          /\ \E kept \in SUBSET claims[Of(w)] : claims' = [claims EXCEPT ![Of(w)] = kept]
          /\ \E p \in {print[Of(w)], NoPrint} : print' = [print EXCEPT ![Of(w)] = p]
          /\ UNCHANGED edges
       \/ /\ At(w, "write")
          /\ \E part \in SUBSET evidence[w] :
                 claims' = [claims EXCEPT ![Of(w)] = @ \cup part]
          /\ UNCHANGED <<print, edges>>
       \/ /\ At(w, "clearRows") \/ At(w, "seal")
          /\ UNCHANGED <<claims, print, edges>>
    /\ MarkPipelineFailed(w)
    /\ UNCHANGED <<rendezvous, ledger, locals>>

------------------------------------------------------------------------------
\* _handle_repo_delete: the claim keys are read, the graph is cleared by the
\* steps above, and a relink is queued only if there were any keys.
DeleteStart(w) ==
    /\ At(w, "start") /\ held[w].type = "repo_delete"
    /\ HandlerReports(w, "running")
    /\ evidence' = [evidence EXCEPT ![w] = claims[Of(w)]]
    /\ Go(w, "clearEdges")
    /\ UNCHANGED <<graph, cleared, snapshot, before>>

\* Mutant: a delete leaves the rollups to the next ingest's relink.
Deleted_NeverRelinks(w) ==
    /\ At(w, "workspace")
    /\ HandlerReports(w, "completed")
    /\ Go(w, "return")
    /\ UNCHANGED <<graph, locals>>

Deleted(w) ==
    /\ At(w, "workspace")
    /\ HandlerReports(w, "completed")
    /\ Go(w, IF evidence[w] # {} THEN "relink" ELSE "return")
    /\ UNCHANGED <<graph, locals>>

\* _enqueue_relink: the submission may coalesce onto a pending link run.
Relink(w) ==
    /\ At(w, "relink")
    /\ HandlerSubmits(w)
    /\ Go(w, "return")
    /\ UNCHANGED <<graph, locals>>

------------------------------------------------------------------------------
\* link_full and link_delta, over the snapshot taken when the run begins.
Changed == {r \in Source : life[r] \in LinkableStates /\ print[r] # claims[r]}

DeltaSkips(w) ==
    /\ At(w, "start") /\ held[w].type = "link_delta"
    /\ Changed = {}
    /\ HandlerReports(w, "completed")
    /\ Go(w, "return")
    /\ UNCHANGED <<graph, locals>>

LinkStart(w) ==
    /\ At(w, "start")
    /\ held[w].type = "link_full" \/ (held[w].type = "link_delta" /\ Changed # {})
    /\ HandlerReports(w, "running")
    /\ ledger' = "running"
    /\ snapshot' = Current
    /\ Go(w, "rendezvous")
    /\ UNCHANGED <<life, claims, print, edges, rendezvous, evidence, cleared, before>>

\* Mutant: the old edges go before the new ones are written.
WriteRendezvous_OldEdgesFirst(w) ==
    /\ At(w, "rendezvous")
    /\ rendezvous' = rendezvous \cup UNION {snapshot[r] : r \in Source}
    /\ edges' = {}
    /\ Go(w, "edges")
    /\ UNCHANGED <<queueVars, life, claims, print, ledger, locals>>

WriteRendezvous(w) ==
    /\ At(w, "rendezvous")
    /\ rendezvous' = rendezvous \cup UNION {snapshot[r] : r \in Source}
    /\ Go(w, "edges")
    /\ UNCHANGED <<queueVars, life, claims, print, edges, ledger, locals>>

\* write_linker_edges MATCHes both endpoints and raises if a row finds none.
EndpointsExist ==
    \A r \in Source : snapshot[r] \subseteq claims[r] \cap rendezvous

WriteEdges(w) ==
    /\ At(w, "edges")
    /\ EndpointsExist
    /\ edges' = edges \cup Links(snapshot)
    /\ Go(w, "retire")
    /\ UNCHANGED <<queueVars, life, claims, print, rendezvous, ledger, locals>>

\* Mutant: only edges between linkable repositories are looked at.
RetireStale_LinkableOnly(w) ==
    /\ At(w, "retire")
    /\ edges' = {e \in edges : e \in Links(snapshot)
                               \/ \E r \in e.ends : life[r] \notin LinkableStates}
    /\ Go(w, "gc")
    /\ UNCHANGED <<queueVars, life, claims, print, rendezvous, ledger, locals>>

\* delete_stale_linker_edges: what this run did not write or rewrite goes.
RetireStale(w) ==
    /\ At(w, "retire")
    /\ edges' = edges \cap Links(snapshot)
    /\ Go(w, "gc")
    /\ UNCHANGED <<queueVars, life, claims, print, rendezvous, ledger, locals>>

CollectOrphans(w) ==
    /\ At(w, "gc")
    /\ rendezvous' = Anchored
    /\ Go(w, "finish")
    /\ UNCHANGED <<queueVars, life, claims, print, edges, ledger, locals>>

\* Only a delta run stores fingerprints.
LinkFinish(w) ==
    /\ At(w, "finish")
    /\ HandlerReports(w, "completed")
    /\ ledger' = "done"
    /\ print' = IF held[w].type = "link_full" THEN print
                ELSE [r \in Source |-> IF life[r] \in LinkableStates THEN claims[r]
                                       ELSE print[r]]
    /\ Go(w, "return")
    /\ UNCHANGED <<life, claims, edges, rendezvous, locals>>

LinkFails(w) ==
    /\ \E s \in {"rendezvous", "edges", "retire", "gc"} : At(w, s)
    /\ "link" \in Faults \/ (At(w, "edges") /\ ~EndpointsExist)
    /\ \E part \in SUBSET Links(snapshot) :
           edges' = IF At(w, "edges") THEN edges \cup part ELSE edges
    /\ ledger' = "failed"
    /\ HandlerRaises(w)
    /\ Leave(w)
    /\ UNCHANGED <<life, claims, print, rendezvous>>

------------------------------------------------------------------------------
\* Mutant: the worker keeps the graph lock and the repository's mutex.
Return_KeepsLocks(w) ==
    /\ At(w, "return")
    /\ rows[held[w].id].status \in Ended
    /\ at' = [at EXCEPT ![w] = "finish"]
    /\ UNCHANGED <<tables, lane, held, locks, rows, phase>>
    /\ Leave(w)
    /\ UNCHANGED graph

\* The handler returns to _worker, or raises where nothing in it catches.
Return(w) ==
    /\ At(w, "return")
    /\ HandlerReturns(w)
    /\ Leave(w)
    /\ UNCHANGED graph

Raises(w) ==
    /\ "raise" \in Faults
    /\ step[w] # "start"
    /\ HandlerRaises(w)
    /\ Leave(w)
    /\ UNCHANGED graph

HandlerOf(w) ==
    \/ PipelineStart(w) \/ Clone(w) \/ Parse(w)
    \/ ClearEdges(w) \/ ClearNodes(w) \/ ClearRows(w)
    \/ WriteNodes(w) \/ Seal(w)
    \/ PipelineFails(w) \/ WriteFails(w)
    \/ DeleteStart(w) \/ Deleted(w) \/ Relink(w)
    \/ DeltaSkips(w) \/ LinkStart(w) \/ WriteRendezvous(w) \/ WriteEdges(w)
    \/ RetireStale(w) \/ CollectOrphans(w) \/ LinkFinish(w) \/ LinkFails(w)
    \/ Return(w) \/ Raises(w)

\* A new process keeps the graph and loses every local.
ServerRestarts ==
    /\ Restart
    /\ step' = [w \in Worker |-> "start"]
    /\ evidence' = NoEvidence
    /\ cleared' = [w \in Worker |-> FALSE]
    /\ snapshot' = NothingSeen
    /\ before' = NoEvidence
    /\ UNCHANGED graph

QueueSteps ==
    /\ \/ \E c \in Caller : Enqueue(c)
       \/ \E w \in Worker : Loop(w)
       \/ Stop
       \/ Idle
    /\ UNCHANGED <<graph, step, locals>>

EstateNext ==
    \/ \E c \in Client : RouteSubmits(c)
    \/ QueueSteps
    \/ \E w \in Worker : HandlerOf(w)
    \/ ServerRestarts

EstateSpec == EstateInit /\ [][EstateNext]_estateVars

------------------------------------------------------------------------------
\* Layers 1 and 2 are a cache of Layer 0: once no job is left, the edges served
\* are those the linkable claims support, whatever order the ingests, deletes and
\* link runs went in (_enqueue_relink, job_handlers.py:19-26).
ServedLinksFresh == Live = {} => edges = Links(Current)

\* When a link run comes to collect orphans, the edges are exactly what the claims
\* in the graph support at that moment: nothing moved under its snapshot, and
\* what failed runs and crashes left behind is gone (_write_result).
LinkRunExact ==
    \A w \in Worker : step[w] \in {"gc", "finish"} => edges = Links(Current)

\* New writes first: no step takes away an edge that the claims support before
\* and after it, except where an ingest or a delete is clearing one of its ends.
ClearedNow == {Of(w) : w \in {v \in Worker : step[v] = "clearEdges"}}
ServedEdgesSurvive ==
    [][\A e \in Links(Current) \cap Links(Current)' :
           e \in edges /\ e.ends \cap ClearedNow = {} => e \in edges']_estateVars

\* failed_clean says the served graph can still be trusted: the repository has
\* the claims it had when the pipeline began (_mark_failed).  A first ingest is
\* left out: when its node write fails part way, what it wrote stays under a
\* failed_clean, since cleared flips only after that write (lines 147-148).
FailedCleanMeansIntact ==
    \A w \in IngestWorker :
        /\ step[w] = "return" /\ life[Of(w)] = "failed_clean"
        /\ Replaces(held[w])
        => claims[Of(w)] = before[w]

\* What is served once no job is left has its evidence in the graph, whatever the
\* lifecycle of the repositories ("or the graph serves answers from deleted
\* evidence", job_handlers.py:20-22).
NoDeletedEvidence == Live = {} => edges \subseteq Links(claims)

\* An ingested repository shows one source tree, never two laid on top of each
\* other (docs/api.md: successful ingestion replaces the repository graph).
IngestedHoldsOneTree ==
    \A r \in Source : life[r] = "ingested" => claims[r] \in Tree

\* The handlers use the queue as JobQueue allows any handler to.
UsesTheQueue == QueueSpec
===============================================================================
