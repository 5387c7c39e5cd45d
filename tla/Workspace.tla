------------------------------- MODULE Workspace -------------------------------
(***************************************************************************)
(* The disk under the ingest handlers: each repository's clone, staged and *)
(* swapped in by two renames (services/repo_service.py), and the spool of  *)
(* uploaded git bundles between the upload route and the job that clones   *)
(* and discards them (services/ingest_upload.py).  The graph is left to    *)
(* EstateServer, and so are the follow-up link runs.                       *)
(***************************************************************************)
EXTENDS JobQueue

CONSTANTS
    Bundle,          \* file names store_bundle may draw
    Absent, Partial, \* what a name on disk may stand for: nothing, part of a file
    Intact,          \* or tree, all of a bundle, or a clone that was there before
    Earlier,         \* the first job; a whole clone is named by the job that made it
    DiskFails        \* may a rename or an rmtree raise or do part of its work?

NoBundle == "no bundle"

ASSUME WorkspaceAssumption ==
    /\ IsFiniteSet(Bundle) /\ IsFiniteSet(Client)
    /\ DiskFails \in BOOLEAN
    /\ Absent \notin {Partial, Intact, Earlier}
    /\ Partial \notin {Intact, Earlier} /\ Intact # Earlier
    /\ {Absent, Partial, Intact, Earlier} \cap JobId = {}
    /\ NoBundle \notin Bundle
    /\ FollowUp = {}
    /\ "ingest_upload" \in Handled     \* register_all

VARIABLES
    tree,            \* <repo_id>, <repo_id>.incoming and <repo_id>.previous
    spool,           \* the files in the upload directory
    upload,          \* a route's locals: the repository and the bundle it stores
    payload,         \* job.payload["bundle_path"]
    stage,           \* where in its handler each worker is
    found            \* history: the clone that was there when a handler began

disk == <<tree, spool>>
routes == <<upload, payload>>
progress == <<stage, found>>
workspaceVars == <<queueVars, disk, routes, progress>>

Names == {"dest", "incoming", "previous"}
Whole == JobId \cup {Earlier}
Contents == Whole \cup {Absent, Partial}

NoUpload == [repo |-> "none", bundle |-> NoBundle]

WorkspaceInit ==
    /\ QueueInit
    /\ \E kept \in [Repo -> {Absent, Earlier}] :
           tree = [r \in Repo |-> [n \in Names |-> IF n = "dest" THEN kept[r] ELSE Absent]]
    /\ spool = [b \in Bundle |-> Absent]
    /\ upload = [c \in Client |-> NoUpload]
    /\ payload = [i \in JobId |-> NoBundle]
    /\ stage = [w \in Worker |-> "start"]
    /\ found = [w \in Worker |-> Absent]

------------------------------------------------------------------------------
\* POST /api/repos/ingest-upload: store_bundle, then submit.

\* A route that is storing a bundle has a submission ahead of it.
Storing == {c \in Client : upload[c] # NoUpload /\ submitting[c] = NoJob}
MayRequest == phase = "up" /\ requests + Cardinality(Storing) < MaxRequests

\* Mutant: the file is named after the repository alone.
FreshNames_RepoOnly(r) == {CHOOSE b \in Bundle : TRUE}

\* uuid4 in the file name: one that nothing else uses.
FreshNames(r) ==
    {b \in Bundle : /\ spool[b] = Absent
                    /\ \A c \in Client : upload[c].bundle # b
                    /\ \A i \in JobId : payload[i] # b}

StoreBegins(c, r) ==
    /\ MayRequest
    /\ <<"ingest_upload", r>> \in Offered
    /\ upload[c] = NoUpload /\ submitting[c] = NoJob
    /\ \E b \in FreshNames(r) :
           /\ upload' = [upload EXCEPT ![c] = [repo |-> r, bundle |-> b]]
           /\ spool' = [spool EXCEPT ![b] = Partial]
    /\ UNCHANGED <<queueVars, tree, payload, progress>>

StoreEnds(c) ==
    /\ c \in Storing
    /\ spool[upload[c].bundle] = Partial
    /\ spool' = [spool EXCEPT ![upload[c].bundle] = Intact]
    /\ UNCHANGED <<queueVars, tree, routes, progress>>

\* Too large, or the upload breaks off: the file is discarded, the route answers.
StoreFails(c) ==
    /\ c \in Storing
    /\ spool[upload[c].bundle] = Partial
    /\ spool' = [spool EXCEPT ![upload[c].bundle] = Absent]
    /\ upload' = [upload EXCEPT ![c] = NoUpload]
    /\ UNCHANGED <<queueVars, tree, payload, progress>>

PathOf(c) == upload[c].bundle

UploadSubmits(c) ==
    /\ phase = "up"
    /\ c \in Storing
    /\ spool[upload[c].bundle] = Intact
    /\ requests < MaxRequests
    /\ requests' = requests + 1
    /\ Register(c, <<"ingest_upload", upload[c].repo>>)
    /\ payload' = [payload EXCEPT ![issued'] = PathOf(c)]
    /\ UNCHANGED <<lane, threads, locks, rows, phase, disk, upload, progress>>

\* The other routes check the graph and submit.
OtherSubmits(c) ==
    /\ MayRequest
    /\ upload[c] = NoUpload
    /\ requests' = requests + 1
    /\ \E k \in Offered : k[1] # "ingest_upload" /\ (Register(c, k) \/ Coalesce(c, k))
    /\ UNCHANGED <<lane, threads, locks, rows, phase, disk, routes, progress>>

SubmitEnds(c) ==
    /\ Enqueue(c)
    /\ upload' = [upload EXCEPT ![c] = NoUpload]
    /\ UNCHANGED <<disk, payload, progress>>

\* submit() raises: the upload route unlinks its bundle and answers 500.
SubmitFails(c) ==
    /\ EnqueueFails(c)
    /\ spool' = [b \in Bundle |-> IF b = upload[c].bundle THEN Absent ELSE spool[b]]
    /\ upload' = [upload EXCEPT ![c] = NoUpload]
    /\ payload' = [payload EXCEPT ![submitting[c].id] = NoBundle]
    /\ UNCHANGED <<tree, progress>>

------------------------------------------------------------------------------
\* Inside a handler.
Here(w, s) == Running(w) /\ stage[w] = s
Of(w) == held[w].repo
Mine(w) == tree[Of(w)]
Go(w, s) == stage' = [stage EXCEPT ![w] = s]
Put(w, n, content) == tree' = [tree EXCEPT ![Of(w)][n] = content]
Keeps == UNCHANGED <<queueVars, spool, routes, found>>

\* What an rmtree that ignores errors leaves.
Remains(content) ==
    {Absent} \cup IF content # Absent /\ DiskFails THEN {Partial} ELSE {}

PipelineStart(w) ==
    /\ Here(w, "start") /\ held[w].type \in IngestLane
    /\ HandlerReports(w, "running")
    /\ found' = [found EXCEPT ![w] = Mine(w)["dest"]]
    /\ Go(w, "unstage")
    /\ UNCHANGED <<disk, routes>>

Removals == {<<"unstage", "incoming">>, <<"abandon", "incoming">>,
             <<"unprevious", "previous">>, <<"retire", "previous">>, <<"remove", "dest">>}

\* An rmtree under way: part of the tree is gone, and a crash would leave the rest.
Removing(w) ==
    \E s \in Removals :
        /\ Here(w, s[1])
        /\ Mine(w)[s[2]] \in Whole
        /\ Put(w, s[2], Partial)
        /\ Keeps /\ UNCHANGED stage

\* Mutant: both leftovers go first.
Unstage_DropsPrevious(w) ==
    /\ Here(w, "unstage")
    /\ tree' = [tree EXCEPT ![Of(w)]["incoming"] = Absent, ![Of(w)]["previous"] = Absent]
    /\ Go(w, "clone")
    /\ Keeps

\* _staged_clone: what an earlier clone left in staging goes first.
Unstage(w) ==
    /\ Here(w, "unstage")
    /\ Put(w, "incoming", Absent)
    /\ Go(w, "clone")
    /\ Keeps

\* Mutant: git clones straight over the tree in use.
Target_Dest == "dest"

Target == "incoming"

\* git creates the target directory before it can fail.
CloneBegins(w) ==
    /\ Here(w, "clone")
    /\ Put(w, Target, Partial)
    /\ Go(w, "cloning")
    /\ Keeps

\* clone_repository or clone_bundle; the latter reads the job's bundle.
CloneEnds(w) ==
    /\ Here(w, "cloning")
    /\ held[w].type = "ingest_upload" => spool[payload[held[w].id]] = Intact
    /\ Put(w, Target, held[w].id)
    /\ Go(w, "unprevious")
    /\ Keeps

\* git fails or times out, or the credentials check raises.
CloneFails(w) ==
    /\ Here(w, "cloning")
    /\ Go(w, "abandon")
    /\ Keeps /\ UNCHANGED tree

\* The finally clause discards the staging tree, and only that.
Abandon(w) ==
    /\ Here(w, "abandon")
    /\ \E left \in Remains(Mine(w)["incoming"]) : Put(w, "incoming", left)
    /\ Go(w, "failed")
    /\ Keeps

------------------------------------------------------------------------------
\* _swap_in
DropPrevious(w) ==
    /\ Here(w, "unprevious")
    /\ \E left \in Remains(Mine(w)["previous"]) : Put(w, "previous", left)
    /\ Go(w, "aside")
    /\ Keeps

MoveAside(w) ==
    /\ Here(w, "aside")
    /\ Mine(w)["dest"] # Absent => Mine(w)["previous"] = Absent
    /\ tree' = IF Mine(w)["dest"] = Absent THEN tree
               ELSE [tree EXCEPT ![Of(w)]["previous"] = Mine(w)["dest"],
                                 ![Of(w)]["dest"] = Absent]
    /\ Go(w, "land")
    /\ Keeps

Land(w) ==
    /\ Here(w, "land")
    /\ tree' = [tree EXCEPT ![Of(w)]["dest"] = Mine(w)["incoming"],
                            ![Of(w)]["incoming"] = Absent]
    /\ Go(w, "retire")
    /\ Keeps

\* The rmtree of staging and the first rename raise where they are; the second
\* rename is answered by a third, when there is something to put back.
DiskCallFails(w) ==
    /\ DiskFails
    /\ \/ Here(w, "unstage") /\ Mine(w)["incoming"] # Absent /\ Go(w, "failed")
       \/ Here(w, "aside") /\ Mine(w)["dest"] # Absent /\ Go(w, "failed")
       \/ Here(w, "land") /\ Go(w, IF Mine(w)["previous"] # Absent THEN "putback" ELSE "failed")
       \/ Here(w, "putback") /\ Go(w, "failed")
    /\ Keeps /\ UNCHANGED tree

PutBack(w) ==
    /\ Here(w, "putback")
    /\ tree' = [tree EXCEPT ![Of(w)]["dest"] = Mine(w)["previous"],
                            ![Of(w)]["previous"] = Absent]
    /\ Go(w, "failed")
    /\ Keeps

Retire(w) ==
    /\ Here(w, "retire")
    /\ \E left \in Remains(Mine(w)["previous"]) : Put(w, "previous", left)
    /\ Go(w, "scan")
    /\ Keeps

------------------------------------------------------------------------------
\* The rest of the pipeline: scan the clone, clear the old graph, write, report.
Replaces(job) == job.type \in {"refresh", "ingest_upload"}

Scan(w) ==
    /\ Here(w, "scan")
    /\ HandlerReports(w, "running")
    /\ Go(w, IF Replaces(held[w]) THEN "clear" ELSE "seal")
    /\ UNCHANGED <<disk, routes, found>>

\* clear_repo_graph drops the job rows; a delete then removes the clone.
Clear(w) ==
    /\ Here(w, "clear")
    /\ HandlerDropsRows(w)
    /\ Go(w, IF held[w].type = "repo_delete" THEN "remove" ELSE "seal")
    /\ UNCHANGED <<disk, routes, found>>

PipelineFails(w) ==
    /\ Here(w, "scan") \/ Here(w, "clear") \/ Here(w, "seal")
    /\ held[w].type \in IngestLane
    /\ HandlerReports(w, "failed")
    /\ Go(w, "return")
    /\ UNCHANGED <<disk, routes, found>>

Seal(w) ==
    /\ Here(w, "seal")
    /\ HandlerReports(w, "completed")
    /\ Go(w, "return")
    /\ UNCHANGED <<disk, routes, found>>

\* The clone or the swap failed: _mark_failed.
Failed(w) ==
    /\ Here(w, "failed")
    /\ HandlerReports(w, "failed")
    /\ Go(w, "return")
    /\ UNCHANGED <<disk, routes, found>>

DeleteStart(w) ==
    /\ Here(w, "start") /\ held[w].type = "repo_delete"
    /\ HandlerReports(w, "running")
    /\ Go(w, "clear")
    /\ UNCHANGED <<disk, routes, found>>

\* delete_repository removes the clone; what the swaps left beside it stays.
DeleteRepository(w) ==
    /\ Here(w, "remove")
    /\ Put(w, "dest", Absent)
    /\ Go(w, "seal")
    /\ Keeps

\* _handle_ingest_upload's finally.
Discarded(w) == payload[held[w].id]

Leave(w) ==
    /\ spool' = [b \in Bundle |-> IF b = Discarded(w) THEN Absent ELSE spool[b]]
    /\ Go(w, "start")
    /\ found' = [found EXCEPT ![w] = Absent]
    /\ UNCHANGED <<tree, routes>>

\* Mutant: the worker keeps the graph lock and the repository's mutex.
Return_KeepsLocks(w) ==
    /\ Here(w, "return")
    /\ at' = [at EXCEPT ![w] = "finish"]
    /\ UNCHANGED <<tables, lane, held, locks, rows, phase>>
    /\ Leave(w)

Return(w) == Here(w, "return") /\ HandlerReturns(w) /\ Leave(w)

\* A job row that cannot be written, or an rmtree that raises in a delete.
Raises(w) ==
    /\ \/ RowWritesFail /\ stage[w] \in {"start", "scan", "clear", "seal", "failed"}
       \/ DiskFails /\ stage[w] = "remove" /\ Mine(w)["dest"] # Absent
    /\ HandlerRaises(w)
    /\ Leave(w)

HandlerOf(w) ==
    \/ PipelineStart(w) \/ Removing(w) \/ Unstage(w)
    \/ CloneBegins(w) \/ CloneEnds(w) \/ CloneFails(w) \/ Abandon(w)
    \/ DropPrevious(w) \/ MoveAside(w) \/ Land(w) \/ DiskCallFails(w) \/ PutBack(w) \/ Retire(w)
    \/ Scan(w) \/ Clear(w) \/ PipelineFails(w) \/ Seal(w) \/ Failed(w)
    \/ DeleteStart(w) \/ DeleteRepository(w)
    \/ Return(w) \/ Raises(w)

\* Mutant: the spool is left as the old process left it.
Swept_Nothing == spool

\* sweep_upload_dir, before the routes and the workers start.
Swept == [b \in Bundle |-> Absent]

\* A new process keeps the clones, and what a swap was doing with them.
WorkspaceRestarts ==
    /\ Restart
    /\ spool' = Swept
    /\ upload' = [c \in Client |-> NoUpload]
    /\ payload' = [i \in JobId |-> NoBundle]
    /\ stage' = [w \in Worker |-> "start"]
    /\ found' = [w \in Worker |-> Absent]
    /\ UNCHANGED tree

\* The lifespan's shutdown runs when the routes have answered.
QueueSteps ==
    /\ \/ \E w \in Worker : Loop(w)
       \/ Storing = {} /\ Stop
       \/ Idle
    /\ UNCHANGED <<disk, routes, progress>>

RouteSteps(c) ==
    \/ StoreEnds(c) \/ StoreFails(c) \/ UploadSubmits(c) \/ SubmitEnds(c) \/ SubmitFails(c)

WorkspaceNext ==
    \/ \E c \in Client, r \in Repo : StoreBegins(c, r)
    \/ \E c \in Client : OtherSubmits(c) \/ RouteSteps(c)
    \/ QueueSteps
    \/ \E w \in Worker : HandlerOf(w)
    \/ WorkspaceRestarts

WorkspaceSpec == WorkspaceInit /\ [][WorkspaceNext]_workspaceVars

------------------------------------------------------------------------------
\* What a pipeline scans is the tree its own job cloned: no other job, delete or
\* crash leftover puts another one, or part of one, under the name
\* (_staged_clone, run_ingestion).
ScanSeesItsClone ==
    \A w \in Worker : stage[w] = "scan" => Mine(w)["dest"] = held[w].id

\* Where a job finds a clone, a clone that fails leaves it exactly as it was, and
\* a swap that fails leaves it recoverable at <dest>.previous rather than gone
\* (repo_service.py:114-115, 173-175).
FailureKeepsTree ==
    \A w \in Worker :
        stage[w] = "failed" /\ found[w] # Absent =>
            \/ Mine(w)["dest"] = found[w]
            \/ Mine(w)["dest"] = Absent /\ Mine(w)["previous"] = found[w]

\* The old tree goes only when a new one is whole, here or in staging ("keeping
\* the old tree until it lands", _swap_in); crashes in between included.
OldTreeOutlastsSwap ==
    [][\A r \in Repo :
           tree[r]["previous"] \in Whole /\ tree'[r]["previous"] \notin Whole =>
               \E n \in {"dest", "incoming"} : tree'[r][n] \in Whole]_workspaceVars

\* The bundle of an upload is whole from its submission to the end of its job,
\* so the clone never reads one that is missing, cut short or another upload's
\* (store_bundle's random suffix, _handle_ingest_upload).
BundleWaitsForItsJob ==
    \A j \in Live :
        j.type = "ingest_upload" =>
            \/ spool[payload[j.id]] = Intact
            \/ \E w \in Worker : held[w] = j /\ at[w] \in {"except", "finish", "dying"}

\* Nothing is left in the spool that no request and no job will discard, a
\* submission that fails and a process that ends included (sweep_upload_dir).
SpoolIsOwned ==
    \A b \in Bundle :
        spool[b] # Absent =>
            \/ \E c \in Client : upload[c].bundle = b
            \/ \E j \in Live : payload[j.id] = b

\* The handlers and routes use the queue as JobQueue allows.
RunsOnQueue == QueueSpec
===============================================================================
