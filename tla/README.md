# Tracekite: a verification project

Tracekite ingests source repositories into one typed graph (Neo4j on the server,
memory or SQLite for the library and CLI) and *links* them: a resolver pass joins
the contract claims of all repositories into edges between them. This directory
holds TLA+ models of the server's moving parts, the TLC configurations that check
them, and TLAPS proofs. Paths below are relative to `src/backend/tracekite/`.

## The system

| Component | State it keeps | Operations | What is hard about it |
|---|---|---|---|
| Graph lock (`services/job_queue.py:45-95`) | reader count, writer flag, condition variable | acquire and release, shared or exclusive | lost wake-ups, exclusion, starvation |
| Job queue (`services/job_queue.py`) | two lanes, pending table, repository mutexes, threads | submit, worker loop, stop, restart | interleavings, coalescing windows, failing row writes, shutdown, restart |
| Handlers and pipeline (`services/job_handlers.py`, `services/ingestion_service.py`) | locals of a running job; lifecycle and job rows in the graph | ingest, refresh, upload, delete, relink | a failure or the end of the process between any two writes |
| Writers and clearing (`services/graph_writer.py`, `services/link_writer.py`, `db/constraints.py`) | the graph | node, edge, rendezvous and lifecycle writes, `clear_repo_graph`, stale sweep, orphan collection | separate transactions, batches, endpoint matching |
| Linker driver (`services/linker/service.py`, `services/linker_store.py`) | snapshot of claims, LinkRun ledger, fingerprints | `link_full`, `link_delta` | snapshot currency, order of writes |
| Resolvers (`services/linker/engine.py`, `r*.py`, `rollups.py`) | none: a function of the claims | `link()` | matching rules, determinism |
| Parsers, extractors and emitters (`parsers/`, `services/*_extractor.py`, `services/ingest_*.py`) | none: functions of a file's text | claims of a file | which claims share an identity, what of a value survives its redaction, what one reader of a name calls it and another does not |
| Routes (`routes/`) | none | permit and submit jobs, read rows, decide reviews | decisions made long before the job runs |
| Workspace and upload spool (`services/repo_service.py`, `services/ingest_upload.py`) | clone directories, bundles | staged clone, swap, spool, sweep | crash points between renames |
| Parse budget (`services/parse_budget.py`) | a pool of two threads | parse with timeout | timed-out parses keep their thread |
| Incremental relink, artifacts, sharded scan (`services/linker/incremental.py`, `services/reingest.py`, `services/sharded_scan.py`) | artifacts on disk | reuse, partial relink, merge of shards | equality with the full computation |
| Library, CLI and MCP server (`facade.py`, `cli.py`, `mcp_server.py`, `source_meta.py`, `completeness.py`) | what was loaded once | load directories, artifacts or an index, answer | what an answer may promise of sources that were read only in part |
| Stores and readers (`db/*_store.py`, `services/linker/traverse.py`, `neighborhood.py`, `impact*.py`, `history.py`) | nodes and edges | write, delete by run, migrate, query | three implementations of one protocol, and readers that must not contradict one another |

How they interact. A route reads the Repo node, then calls `submit`, which
registers the job in the pending table, writes its row and puts it on a lane. A
worker thread takes it, enters the graph lock (shared plus the repository's mutex
for ingests, exclusive for the linker lane) and runs the handler. An ingest that
completed, and a delete that had claims, submit `link_full` from inside their
handler. All of them, and every reader, share the one graph, so each transaction
is visible at once. After the handler the locks are released, and only then is
the pending entry dropped.

What makes the parts correct: the lock excludes and wakes; coalescing never loses
a request; jobs end; the served links are those the current claims support;
lifecycle states tell the truth about the graph; replacing really replaces.
`PROJECT.json` lists the hazards, each at its line, with the properties that
cover it.

## Modules

| Module | Models |
|---|---|
| `ReadWriteLock` | abstract specification: what the queue asks of its lock |
| `GraphLock` | `_GraphLock` with its condition variable; refines `ReadWriteLock` |
| `JobQueue` | `JobQueue`: submit, worker loop, locks (actions of `ReadWriteLock`), stop, restart; handlers are an environment that may report, drop rows, submit, return or raise. It is also the abstract specification of `EstateServer` |
| `EstateServer` | the real handlers over the queue; every transaction on the graph is a step |
| `Workspace` | the disk under the same handlers: clones, staging, swaps, the upload spool and the upload route; refines `JobQueue` |
| `ParseBudget` | the parse loop of a scan over the process's pool of parse threads |
| `ShardedScan` | three hosts of that loop: the server's ingest threads, a serial beside a sharded scan, and repeated scans with an artifact |
| `Names`, `Naming` | the half of a link run that is global: aliases, services and their directories, gateways, topics, packages, configuration values, the final key of each call, and the plan that splits the join |
| `Statements` | what a file may say and what is kept of it: the identity of a claim, the gate of `add_claim`, redaction, the class of a file, its environment |
| `Gateways`, `Contracts`, `Packages`, `Manifests`, `Datasets`, `Sources`, `Owners` | one module for each family of parsers and emitters: proxies' configurations; protocols and schemas; dependency manifests; Kubernetes, compose, Spring and infrastructure; data; source code; owners and identities |
| `Emission` | from the files of a tree to its claims: `_parse_one_file`, `parse_file`, `parse_files` |
| `Intake` | composes `Workspace`, `ShardedScan`, and `Naming` over `Emission`: what a repository goes through before its calls are joined |
| `LinkPass` | what one link run computes, full or incremental: operators over sets of claims and edges |
| `Linking` | two hosts of `LinkPass`: incremental runs while claims change, and the server while an operator reviews |
| `Stores` | the three graph stores (memory, SQLite, Neo4j) given the same writes, each with its own algorithms for neighbourhoods and paths |
| `Queries` | what readers compute of the edges: consumers, paths, neighbourhoods, transitive impact, history of commits, what a branch breaks |
| `Embedded` | the engine without a server: checkouts, artifacts and their index are loaded, linked and asked; what an answer says of its source and of what was missed |
| `Hosts` | composes `Linking`, `Stores` and `Embedded`: a tool links, or writes a store and reads it, or loads and answers |
| `GraphLockProof` | theorems and proofs about the lock |
| `JobQueueProof` | mutual exclusion, and what coalescing promises |
| `EstateServerProof` | refinement of the queue, exact link runs, surviving edges, truthful lifecycles, fresh links |
| `WorkspaceProof` | clones and swaps, then the upload spool |
| `ScanProof` | parse budget, losses, wedges, reuse, and slices against a serial scan, over `ShardedScan` |
| `LinkPassProof` | what link passes compute, for any claims: lemmas without a state |
| `NamingProof` | the plan of the join, the nodes that names resolve to, and final keys: over `Naming` |
| `HostsProof` | decisions, relinks and what a branch breaks; revisions and completeness of answers; histories, walks and patterns: over `Hosts` |
| `MCGraphLock`, `MCJobQueue`, `MCEstateServer`, `MCIntake`, `MCNaming`, `MCLinking` | instances for TLC |
| `MCDocuments` | sample documents of every format, for `MCNaming` |

**GraphLock.** `shared`, `exclusive` and `waiters` are `_shared`, `_exclusive` and
the threads asleep in `_cond.wait()`. Each `with self._cond` block is one action,
because the condition's mutex makes it so; `Wait` is the loop whose test failed.
Spurious wake-ups are absent, as `threading.Condition` has none.

**JobQueue.** `pending` is `_pending`, `lane` the two queues, `at[w]` the place of
a thread in `_worker`: `get` (in `lane.get()`), `unhandled` (no handler), `lock`
and `repo` (about to take the graph lock, the mutex), `run` (inside the handler),
`except`, `finish` (about to call `_finish_pending`), `dying` (the except clause
raised, the finally still to come), `gone`. `submit` is two actions, as in the code:
`Register` or `Coalesce` under `_pending_lock`, and `Enqueue` after it, or
`EnqueueFails` when the row cannot be written. `Restart` is the end of the process,
after `stop()` or in a crash, and the start of the next one. `rows` are the
IngestionJob rows a client polls.

**EstateServer.** `claims`, `life`, `print`, `edges`, `rendezvous` and `ledger` are
the graph: claim nodes, `lifecycle_state`, `claims_fingerprint`, relationships
with `created_by = 'linker'`, rendezvous nodes, the newest LinkRun. `step[w]` is the
program counter of a handler, `evidence`, `cleared` and `snapshot` its locals.
The pipeline goes `start, clone, parse, [clearEdges, clearNodes, clearRows,] write,
seal, relink, return`; a delete `start, clearEdges, clearNodes, clearRows, workspace,
[relink,] return`; a link run `start, rendezvous, edges, retire, gc, finish,
return`. `WriteFails` lets a batched write stop after any part of its rows.
A link run computes `Links(snapshot)`: an anchor edge per claim and a rollup
per pair of repositories with a common key. That stands for the resolvers: the
driver relies only on edges being a function of the claims, on some of them being
anchored on a repository and on rollups being anchored on none.

**Workspace.** `tree[r]` says what stands under `<repo_id>`, `<repo_id>.incoming` and
`<repo_id>.previous`: nothing, part of a tree, or the whole clone some job made. Every
rename is a step; so is the middle of an rmtree or of a clone, where a crash leaves
part of a tree. `spool` and `upload` are the bundles on disk and the locals of an
upload route, `payload` the `bundle_path` of a job. Handlers are the queue's
(`HandlerReports`, `HandlerDropsRows`, `HandlerReturns`, `HandlerRaises`), so the
module is a second refinement of `JobQueue`, beside `EstateServer`: one is about the
graph, the other about the disk. The follow-up link runs are left to the former.

**ParseBudget.** A file's `nature` is what comes of parsing it, among eight outcomes the
code tells apart. `pool[p]` is a process's executor with its threads and work
queue, `asked[s]` the future a scan waits for. `GivesUp` is `future.result(timeout)`
running out; a thread goes on with what it parses, and a cancelled future stays in
the queue until a thread drops it. A parse that does not wedge ends within its budget
unless it never gets a thread: `Overruns` says exactly when time can run out.

**ShardedScan.** `scan_sharded` is `TakesSlice`, `SliceBack`, `SliceRaises` (`pool.map`),
`Merge` and `Rerun`; slices come back in any order. `scan_if_changed` is `Fingerprint`
and `WriteArtifact` around a scan, with edits of files anywhere in between.

**Names.** Operators over the claims in the order the store returned them in. A name is the sequence
of its labels, a path that of its segments. `CanonOf` is what `register_alias` has made of the
operator's aliases once `r2_k8s` is through, `Clusters` what `_cluster_scopes` makes of the scopes that
have providers of one name, `ServiceAt` and `ServiceBy` the two tables of services, `OwnerOf` the
service that a file belongs to. `EnvHostCalls` and `PolicyCalls` are queued by name; `PendingEdges`
looks the names up once there are services (`materialize_pending`).

**Naming.** `loaded` lists the repositories in the store, each with the tree it was scanned from:
`load_claims` has no ORDER BY, so a repository that is scanned again may come anywhere. Packages,
gateways, topics and configuration values are operators of their own. `Chain` is `resolve_chain`,
`Finalists` the rules whose prefix is longest, `Calls` what `normalize_http_calls` freezes, `Plan`
what `partitions.plan` packs for a number of workers. The other half of a run is `LinkPass`, where a
repository stands for its service.

**Statements and Emission.** A file is a record with the documents that its parsers read from it, a
document the record that its format's schema has; strings are labels or members of small sets, and a
name is split where the code splits it. What regular expressions find in a source text is a
sequence of sites in the text's order, each with the form that was found. From there on the models
follow the code: which claims, in which order, with which key, hint, subject and attributes.
`ClaimId` is what a claim is known by, so that of two statements with one identity the first
stays (`AddClaim`). `FileStatements` says which parsers a file has; `ScannedTrees` gives `Naming` its
`Trees`, so what the properties of names are checked on is what files say, not claims made up for
them. These modules have no state: their definitions are reached through the three properties of
names in `intake`, and `policy`.

**Intake.** `part` says which of the three goes on.

**LinkPass.** A claim is a record of the fields that resolvers join on, an edge one of
what fusion, the floor and promotions read. `Context` is what the broadcast pass
leaves in the `LinkContext`. All ten resolvers of the join pass are operators of
their own; compose and alias stand for the broadcast ones, whose output the digest of
an incremental run compares. `Fused` computes noisy-OR over correlation groups in
whole percents. `Relink` keeps what the resolvers without changed claims made before.

**Linking.** The incremental host changes claims and decisions between runs. The server
host splits a run where `review_decide` can interleave: resolve, load the promotions,
write. `review_decide` sets the status, opens `promotions.yml` (which empties it) and
dumps it; `blind` marks a run that loaded the file in between.

**Stores.** `memory` is the list of `InMemoryGraphStore` (its order decides what a limited
answer contains), `sqlite` the table of `SQLiteGraphStore`, `neo` the relationships of
`Neo4jGraphStore`, which needs both nodes to be there and merges on the resolver too.
The three query algorithms are translated one by one: a breadth-first search that stops at the
limit and a depth-first one for paths; a recursive query over walks; patterns that use no
relationship twice.

**Queries.** Operators over a set of edges, one for each reader; confidences along a path
multiply as whole percents. `EdgeHistory` goes through a series of commits.

**Embedded.** `checkout[r]` holds the three trees git knows: working tree, index, last commit. A
file is a number; a version of it has a `fate` (what comes of it in a scan) and the claims it holds.
`archive` is the output directory of artifacts, each with the step at which it was made (the time of its
file), `index` what `compact` made of them, of which the youngest artifact with a claim's id has the claim. `load_graph` is two actions, as the revisions are collected before the files are read:
`LoadMeta` and `LoadClaims`. `Envelope` is `wrap_answer` over `AnswerTo`, which are the tools of
`GraphTools` on the operators of `Queries`. `sources` and `loads` are history variables: what the files
held, and what was loaded under which revision.

**Hosts.** `part` says what the tool does: steps of `LinkingNext`, of the stores, or of `EmbeddedNext`. The run
`linking` checks the three together; the theorems are about `LinkingSpec` and `EmbeddedSpec`.

## Runs

| Run | Expect | Question and bounds |
|---|---|---|
| `graph_lock` | pass | Four threads: two readers, a writer and a fourth that may be either is the smallest crowd in which a waiter can miss its wake-up while others come and go. |
| `job_queue` | pass | Two clients, two ingest workers, one linker, two client requests with a follow-up each, row writes failing, stop and restart anywhere. Two live jobs per key, and two threads per mutex, is what the exclusion and coalescing properties need. |
| `job_queue_live` | pass | Three jobs: two uploads of one repository contend for its mutex and a link run waits for both; `stop()` at any time. No process end, so that an end is owed. |
| `job_queue_ghost` | violation | `RowWritesFail`: a pending entry without a job. |
| `estate` | pass | Three requests over two repositories and two claim keys, no faults. Three requests let an ingest, a delete and an upload (with their relinks) overlap in every order; two keys make two trees differ. |
| `estate_faults` | pass | Two requests, each kind of call may fail, the process may end at any step. |
| `estate_stale` | violation | A refresh fails after clearing. |
| `estate_epilogue` | violation | The linker thread is slow between releasing the lock and `_finish_pending`. |
| `estate_return` | violation | Refresh, delete, ingest of one repository. |
| `intake` | pass | What happens to a repository before its calls are joined; three parts, see below. |
| `policy` | violation | A policy whose workload is called otherwise than the Service that selects it. |
| `linking` | pass | Two repositories that call each other in every way the resolvers know; see below. |

The run `intake` has three parts. *Disk*: one repository, two requests, two bundles, two ingest
workers: two jobs of one repository, or an upload beside another, are all the staging names and the
spool can confuse. Every disk call may fail (`DiskFails`), rows may (`RowWritesFail`), and the process
may end at each step (`MayEnd`). An orderly `stop()` is left to `job_queue` and to the proofs, which have
it: over the disk it only lets fewer jobs begin. *Scan*: three files in slices of two, a pool of two
threads (`MaxWorkers`), a ceiling of two claims (`MaxClaims`), one edit per file (`MaxEdits`), two scans
(`MaxScans`): two wedged files block the pool and the third is behind them; the ceiling is reached
inside a slice, between slices, or never. *Names*: three repositories with two or three trees each
(`Trees`, which `ScannedTrees` makes of `TreeFiles`), stored, replaced and removed in every order, so that the store's order varies too. The
trees (`TreeFiles`, in `MCNaming`) hold Services called otherwise than their workloads, a compose project, a Spring service, two
gateways that lead to each other, a proxy that only its file names, calls that say a host, a
variable or only a path, and one package that many files use. Beside those stand the
trees of `MCDocuments`: a document of each format, with each of the forms that its parser tells apart, so
that every branch of the emission is evaluated. `MaxHops` is 2, `Workers` 3 and
`ReplicationCap` 2, so that a chain is cut, a key is split and another is not.

The run `linking` has three parts. *Links*: two claims change (`MaxChanges`), one decision is given
to the incremental host (`MaxGiven`) and two are taken on the server (`MaxDecisions`); `FanoutCap` is 2, `Floor` 60 and `Cap` 99, so that a call exceeds the
fan-out, falls under the floor, and corroboration is capped. *Stores*: three nodes, seven edges that
may be written (`Written`: a cycle, a detour, parallel edges of two types and of two resolvers, a
candidate), three of them at a time (`MaxEdges`), and one late node, deleted run or migration
(`MaxMoves`): two edges make a path and the third closes a cycle or a detour. `Neighbourhoods`,
`BoundedPaths` and `Impacts` are the questions asked of each state. *Embedded*: two repositories, a
provider whose name is a prefix of its caller's (`Prefixed`), files that parse, fail, time out, are too
large, not fetched, swallowed or never listed (`Versions`, `Starts`), a ceiling of two files
(`MaxFiles`), an engine of wire 1.0 and one newer than this (`Wires`), two changes (`MaxSteps`) and two loads that are
compared (`MaxLoads` counts what is recorded): one edit makes a tree dirty and a second may
give it the status of another. `Questions` has one of each tool.

The violations are recorded as findings in `PROJECT.json`, with the line each
contradicts:

1. *Ghost entry* (`job_queue.py:175`): a submission whose row write fails blocks
   its key until the process restarts, and answers later callers with an id that
   never existed.
2. *Stale rollups* (`job_handlers.py:38`): a failed refresh changes Layer 0 and
   queues no relink.
3. *Epilogue window* (`job_queue.py:212`): a relink coalesces onto a run that is over.
   `PromptEpilogue = TRUE` assumes the window away; `estate` uses it so that
   `ServedLinksFresh` can be checked for everything else, and `estate_faults`, whose
   properties do not depend on it, does not.
4. *Two trees* (`routes/repos.py:55`): the choice between ingest and refresh is
   made from a Repo node that a delete may have removed by the time the job runs.
5. *Stale workload name* (`services/linker/r2_k8s.py:187`): a mesh policy queues the names under
   which workloads were indexed before the selectors made aliases of them, and
   `materialize_pending` looks them up among services that only have the other name.

Names of the bounds: `MaxRequests` (client submissions; a handler submits at most
one follow-up, so `MaxId` is at most twice it), the sets `Repo`, `ClaimKey`, `Tree`,
`IngestWorker`, `LinkerWorker`, `Client`, and `Offered` (what clients may submit).
Workers of the ingest lane are interchangeable, and so are clients and claim keys:
the safety runs use that symmetry, `job_queue_live` does not, and `intake` only among what its liveness property does not mention. Deadlock is
checked in every run: `Idle` lets the queue rest only when every thread is gone or
blocked in `get()` on an empty lane.

What the passing runs' conditions leave out is what the code does not give:

- `OneWedgeCostsOneFile` excludes a repository that is scanned again: the thread that
  its wedging file took is still taken, the second scan takes the other thread, and from
  then on every file of every repository times out in the queue.
- `LossesAreNamed` excludes a source parser that raises inside `parse_file`: the
  exception is swallowed there (`parser_registry.py:250-253`) and the file counts neither as parsed nor
  as an error.
- `OldTreeOutlastsSwap` and `FailureKeepsTree` speak of one call: two swaps that are
  interrupted one after the other can leave no tree at all, because the second drops
  `.previous` before it has moved anything. A delete leaves `.incoming` and `.previous`.
- `RelinkIsLink` needs that no decision came in since the kept edges were made and that no
  two calls of one file fuse; `RelinkFindsTheSame` needs neither. `relink` does not
  follow a changed confidence table either. Only tests call it in this commit.
- `DecisionsSurvive` excludes an edge that is reviewed while the run is under way,
  and a run that loads `promotions.yml` while it is being rewritten.
- `StoresAgree` (`SearchesAgree` of memory and SQLite, `PatternsAgree` of SQLite and Neo4j) excludes what they answer differently: a
  neighbourhood of 0 hops (SQLite answers as for 1), paths with a cycle (Neo4j gives them too), which paths a limited
  answer gives (in memory not the shortest), and how many edges there are where two resolvers draw one (Neo4j
  keeps both, SQLite counts one).
- `DriftBlocks` leaves out a call that was not served before the branch, and speaks of HTTP: a GraphQL
  field that a third repository declares as well keeps its contract, so losing one of its
  declarations only moves the edge's confidence.
- `EndpointsExist` leaves out modules and deployment units, whose nodes are made together with the one edge
  that leads to them.
- `KeysAreFinal` speaks of chains that land: one that is cut at `MaxHops`, at an ambiguous table or at a
  broken rewrite is left where it was, and a path-only call has had a hop more by then than one that names its gateway.
- `CompleteMeansAll` leaves out files that no counter names: those over 1 MB, which
  `scan_repository` never lists, and those whose source parser raises.
- `SnapshotNames` needs that git answered (a `git status` that fails or times out records a
  dirty tree as clean, `source_meta.py:51`), that nothing was edited between the digest and
  the scan, and that no file is ignored by git but read by the scan.
- `ReuseIsFresh` lets contents change only to new ones: a file edited and edited back
  between fingerprint and read is recorded wrongly. `scan_if_changed` compares neither the engine's
  version nor its configuration.

### Fairness

`GraphLock!FairSpec`: a thread inside the lock or entitled to test goes on; nobody
has to ask. `Drains` promises entry only once arrivals end, because the code gives
writers no precedence: a stream of readers may starve a link run.
`JobQueue!QueueFairness`: threads are scheduled (weak fairness of each worker's
loop), `submit` gets past its row write, and handlers end, which the timeouts on
the clone, on git and on each parse justify. Clients, faults, `stop()` and the end of
the process are not owed.
`ShardedScan!ScanFairness`: parse loops and pool threads run, budgets run out, and a parse
that does not wedge ends. A wedged parse owes nothing; edits and new scans neither.

## Proofs

Every proof is for any number of threads, clients, repositories, bundles, claim keys, trees, files and
requests, and for every combination of faults, unless a theorem names a condition. The assumptions are the
named `ASSUME`s of the modules:

- `JobQueue`: disjoint sets of threads, finitely many workers, submitted keys well formed;
- `EstateServer`: handlers submit `link_full` of the linker's repository, and clients submit link
  jobs for it alone;
- `Workspace`: finitely many bundles and clients, marks of the disk that are no job's id, a handler for
  uploads, and no follow-up jobs (`EstateServer` has those);
- `ShardedScan`: the hosts of the scans do not share a process, except the server's ingest threads;
  the ingest threads scan disjoint shares, in which each file is listed once
  (the mutex of the repository, and `scan_repository`'s walk);
- `Naming`: a tree is a sequence of claims of one direction each, no two with one id, and two trees share none;
- `Linking`: finitely many claims at first, with different ids, and every claim names its repository (`add_claim`
  is given one);
- `Embedded`: finitely many repositories, files and claims of a file, trees of known files, and
  questions within the limits the tools check (`MaxHops`, `MaxLimit`).

*GraphLock.* The inductive invariant `IInv` is the conjunction of the four invariants
of the run: the counter is the number of threads inside `shared()`, the flag says
whether one is inside `exclusive()`, the two exclude each other, and each waiter is
blocked by somebody inside. Exclusion alone is not inductive: nothing in it ties
the counter a thread tests to the threads that are inside. Refinement of
`ReadWriteLock` goes step by step (`Ask` and `Wait` stutter).

*JobQueue, the locks* (`JobQueueProof`). `QInv` is the conjunction of the types, *workers hold jobs* (a thread past
`get` holds a job, and only one inside a handler has a submission under way), *locks match places* (a thread is a
reader, a writer or a mutex owner exactly in the places between acquiring and
releasing) and *readers or writer*. `LinkerRunsAlone` and `RepoRunsSerially` follow:
both speak of handlers, and only the locks relate two handlers.

*JobQueue, coalescing* (`JobQueueProof`, its second half). `CInv` adds that every live job was issued, is in one place (a
submission under way, one position of one lane, or one thread), and is what the pending table
says for its key. `OneLiveJobPerKey` follows, as two jobs with one key have one id and an id
is in one place; what makes it inductive is that `Register` tests and sets the table in one step and
that only a job's own thread takes its entry out. `PendingIsLive` needs `~RowWritesFail`: then each
submission that registers gets to its lane. Run `job_queue_ghost` shows that the condition is needed.

*EstateServer, refinement and link runs.* `EstateRefinesQueue` shows each handler's step to be a step of
`QueueNext` or a stutter, so `QInv` and `CInv` hold here as well. `EInv` adds the types of the
program counters and *a link run has the graph*: between `rendezvous` and `finish`
the worker is inside a handler of the linker lane (so by `QInv` alone there), its
snapshot equals the linkable claims, before the sweep the edges include
`Links(snapshot)`, and after it they are equal. It is inductive only because every
other step that touches claims or lifecycles belongs to a handler that would need
the lock, or to a new process, which has no link run. `LinkRunExact` and
`ServedEdgesSurvive` follow, the latter because new edges come before old ones go.

*EstateServer, what a failure says.* `FailedCleanMeansIntact` holds without conditions: up to the parse
`cleared` is false and the claims are those the job found, after it `cleared` is true
(`ClearedTellsTheTruth`). The steps that matter are the other threads': the mutex of the repository
and the graph lock leave nobody who could write to it.

*EstateServer, one tree.* `IngestedHoldsOneTree` under `IngestedOrReplaced`: no repository is offered both a first ingest
and a refresh or an upload. The invariant carries the route's check to the moment the job runs: a first
ingest that waits still finds no Repo node, and without one there are no claims. Run
`estate_return` shows what happens otherwise, so the condition cannot be dropped; which orders
short of it are safe is left to the run `estate`.

*EstateServer, fresh links.* `ServedLinksFresh` under `PromptServer`: no failing calls, no end of the process,
an epilogue in one piece and one linker thread (the code starts one). The invariant is a disjunction: the
edges are what the linkable claims support, or a link job is owed (registered, queued or about
to begin), or a thread is in the part of a handler that changes claims and ends in a follow-up, or in
a link run that has its snapshot. A follow-up that coalesces does so onto a job that has not
begun, as the lock keeps a link run and an ingest apart and the epilogue leaves no finished run in the
table. Runs `estate_stale` and `estate_epilogue` break the disjunction where each condition fails.
The invariants of these three were checked by TLC on instances like those of the runs before they
were proved.

*Workspace* (`WorkspaceProof`). The handlers over the disk take only steps of the queue (`RunsOnQueue`), so
`CInv` holds there too. `WInv` says for each step of a swap what stands under the three names: the tree
the job found, its own one, or nothing. Who else could touch them is settled by the mutex, and a new
process has no handlers. `ScanSeesItsClone` and `FailureKeepsTree` follow; `OldTreeOutlastsSwap` is an
action property proved from `WInv` for each disk call, those that fail included.

*Spool* (`WorkspaceProof`, its second half). `SInv` gives each bundle one owner: an upload route, or one live job through its payload
(`PayloadsApart`), and says until when it is whole. `BundleWaitsForItsJob` and `SpoolIsOwned` follow. The
step that needs most is `submit`: the route's ownership ends and the job's begins in it, and it never
coalesces an upload.

*Scans* (`ScanProof`, over `ParseBudget` and `ShardedScan`). `ScanInv` counts: at each scanner the nodes, the timeouts, the
files skipped and the one it waits for are at most the files it has seen (`GivenUpStaysOut`); each
file of a scan that has lost nothing by its counters is swallowed, in the sink, asked for or still ahead
(`ScansNameTheirLosses`); and what a scan reads is no older than its fingerprint and no newer than now,
so that an artifact whose fingerprint still matches is what is there (`ReuseIsFresh`).
`OneWedgeCostsOneFile` has an invariant of its own, `WedgeInv`: with one file that wedges, a process has at
most one task of it in its pool, and once it has one no scanner there has the file ahead. So of two
or more threads one stays free, and time runs out only for that file.

*Scans, slices.* `LossesAreNamed` for merged results rests on `MergeInv`: a chunk that is back accounts for its slice, and
merging loses no node and sums every counter. `ShardedIsSerial` is stronger: `Run` is what the
files make of a sink, one after the other, without a ceiling, and `SameInv` says that every scan follows
it. A worker's sink is the stretch of `Run` between the ends of its slice; a scan with a ceiling stands
at one point of it or was cut at the first file that finds the ceiling reached, so two such scans end alike
(`OneOutcome`); and the chunks, laid end to end, are the whole of it (`MergedIs`). The prover cannot
expand a fold, so merging is written as recursive functions. With `WedgeInv` a scan counts a
timeout just where the file wedges; with two such files a pool may be full, and the theorem does not speak of that.
The end of a slice that raised is where the serial scan raised too, or where its ceiling stopped it before.
TLC checked `SameInv` on the instance of run `intake` before it was proved, and that scans there are cut and run again.

*Linking, decisions.* `DecisionsSurvive` for any set of claims, any confidence table and any number
of reviews. `LInv` says for each point of a run which decisions its edges
follow: at `floored` they are fresh (every edge a pass yields is active until the
floor), at `final` and `idle` each triple that was due and not touched since has
the status its decision asks for. That fusion, floor and promotions come in this order is
what makes it inductive; the lemmas go through the resolvers one by one, since only
`linker_edge` and the rollups make edges.

*Linking, relinks.* `RelinkFindsTheSame` and `RelinkIsLink`, for any claims that come and go. That the latest result is exact
is not inductive: a relink keeps edges of resolvers it left out, and those must be what the resolvers
would make of claims that have changed elsewhere since. `RInv` adds (`Up_to`) that for every resolver whose kinds are as they
were the result has just what it joins; `EInv` (`Exact`) the same with evidence, confidence and status. The
lemmas of `LinkPassProof` supply that a resolver sees only the claims of its kinds (`ResolverKinds`), that what a
joining resolver draws fuses with nobody else's edges, and that a rollup is told by the calls it counts.

*Linking, what a branch breaks.* `DriftBlocks` relates claims to the edges of two link runs. A served
call names a contract of one provider; without it no resolver reaches that contract; and the call has evidence,
so the loss is citable (`HInv`: every call over HTTP in a result, kept ones too, cites its claim).

*Embedded, revisions.* `SnapshotNames`: `SnapInv` says of each load some checkout its revision names and whose scan it is; between
revisions and claims, as long as it is quiet, the revisions are those of the checkouts as they are. A digest
determines the working tree from the last commit (`DigestTells`: staged, then unstaged, then untracked).

*Embedded, completeness.* `CompleteMeansAll`, for any fates of files. `WholeInv` says that what a host holds is the link of claims that,
if every input says nothing was missed, are all that can be read there; `ScanMisses` and `PathMisses` get that
from the counters, `WholeIsLoaded` the graph. That an answer which is not cut is the one with the longest limit
(`ImpactListed`, `NeighborsListed`) needs the sets it is cut from to be finite: a link of finitely many claims
is (`LinkFinite`), and so is each round of a breadth-first walk. The latter is an induction over the rounds. The library's
theorem takes a predicate as a parameter, but with a set in its place (`AllNumbers`: a set of numbers
that has zero and with each its successor has all) induction follows from `<` being well founded.

*Readers, histories.* `HistoryIsPresence` for any three links: what `EdgeHistory` holds of an edge after `i` commits are
intervals of the commits that serve it, in order, closed, with a gap between two, and they cover every such commit
(`Spans`, by induction over the commits).

*Readers, walks and patterns.* `PatternsAgree` for any edges of SQLite and Neo4j that have the same keys. A pattern matches trails, which use
no edge twice, and a query walks; but on a shortest walk each edge comes to nodes nearer than where the next one goes,
so it is a trail (`ShortestIsTrail`, by induction over its length). A path is what its edges say of one
another (`PathsLead`), which a copy in the other store says too (`CopyIs`). That SQLite counts keys needs that it has one
row for each, which is inductive (`StoresInv`).

*Names, the plan of the join.* `PairsMeetOnce` for any repositories and trees, number of workers and cap. The state
only has to list a repository once (`Listed`, inductive over `Rescan` and `Drop`), whence no two claims have
one identity (`ClaimsDistinct`). The rest is about `partitions.plan`: the parts of a key share nothing but the replicated side, so a
provider and a consumer meet in one of them (`GroupShards`), and none is longer than its size, as ranks are distinct
(`PartFits`). The packing is list scheduling: the lightest of several workers has at most its share of what is
packed (`Pigeons`), so none ends with more than its share and one shard (`Packing`, by induction over the shards).

*Names, what an edge touches.* `EndpointsExist` for any claims, aliases and variables. `Sound` says of the context of a
run that the tables of services hold services, that each place has its name and that what the Kubernetes tables hold
are claims; it holds in every state (`BroadcastIsSound`: the first of a name's scopes is one of them, as `sorted()`
orders them all). Then each resolver's edges have both ends among the nodes, one lemma for each.

*Names, final keys.* A chain that ends because no table has its path ends there at once when it is followed again
(`LandedIsFinal`, by induction over the hops), so a key is final, whoever named the callee. With one exception: the key of a
call that only gateways name goes through the aliases once more, and those need not settle (see "Observed beside
the runs"). `SettledKeysAreFinal` therefore states `KeysAreFinal` for the states whose aliases do (`Settled`); those
of run `intake` all do, so there it is the property itself that TLC checks.

`NamingAssumption` says what the store and a scan give: a tree is a sequence of claims with one direction each, an identity of its
own and none that another repository has; scopes of service names can be ordered; and there is a worker.

Only model-checked:

- the liveness properties `Drains`, `QueuedJobsEnd`, `StopDrains` and `ScansEnd`: fairness and
  ENABLED are beyond the prover;
- `SearchesAgree`, the other half of `StoresAgree`: the search in memory works on a list and a stack, whose recursion ends only because paths end,
  and recursion on such data is beyond the prover;
- `ToolsAgree`, which compares answers of up to 99 rows: with more, they are cut, and then do differ;
- `KeysAreFinal` where the aliases do not settle, and `PolicyIsSeen`, which is false.

## Not modelled

Left out of the estate: `unlinkable_repos` and all counters, `linked_at` stamps,
job progress and messages, evidence edges, statistics and coverage properties,
garbage collection of Service nodes, intermediate states inside one successful
batched write, DDL, and failing row writes inside the pipeline
(`RowWritesFail` is FALSE in the estate runs; `JobQueue` and `Workspace` cover them).
The estate runs do not call `stop()`: a stop may lose the relink of an ingest that
is still draining, and `docs/configuration.md:75-76` leaves interrupted work to the
operator.
A first ingest whose node write fails part way is reported `failed_clean` with
part of its nodes in the graph: `FailedCleanMeansIntact` speaks of ingests that
replace something.

Left out of the workspace: the graph behind the routes (a delete or refresh is submitted
whether or not the repository's state permits it, which allows more than the code),
and other users of the directory.

Left out of the scans: the call graph, counters by language, the file cap
(`Embedded` has it), SCIP import (`scan` does it, `scan_sharded` does not), `scan_many`.

Left out of the embedded host: the ceiling on claims (`ShardedScan` has it), search, subgraphs and
deprecations in answers, names that several services share, the framing of JSON-RPC.

Left out of the linker: in `LinkPass`, clustering (a repository stands for its service) and the
rendezvous nodes; in `Naming`, confidence, counters, versions of packages, the hosts, weights and kinds of
gateway routes, and all but the beginning of a rewrite's pattern. Host resolvers are in neither.

Left out of the stores and readers: payloads and labels of nodes, the type a neighbour was
reached by, the routes' own Cypher, the rollup and map views, descriptions and wording,
services that share a name.

Left out of the emission: the text itself (what regular expressions, YAML, TOML and the tree-sitter
grammars make of it is where the models begin), symbols and the call graph, the routes that web
frameworks declare (`*_route_extractor.py`: an endpoint is given), SCIP import, nodes that are not claims,
lines and evidence, parse warnings and counters, feature-flag guards and deprecation marks. `partitions.plan` is
modelled although no code of the engine calls it yet (only `hot_key_sizes` is used).

The frontend, the calibration corpus,
authentication, configuration and packaging have no protocol to check.

## Observed beside the runs

Modelling these parts showed some behaviours that no document of the repository denies, or that
need more than a run can show; they are excluded where a property would meet them.

- `load_claims` has no ORDER BY, while `_index_services`, `_env_host_services`, `record_env_value` and the
  tie of two gateway rules take the first or the last claim they meet, so an edge may depend on
  the order of the rows ("ordering ... must not change identity", `docs/design/architecture.md:188`).
- `_env_host_services` keeps the last of two hosts that one repository gives a variable, although
  "Ambiguity is declined, not broken arbitrarily" (`normalize.py:88`).
- `record_env_value` (`linker/base.py:322-328`) keeps one value per variable: of two overlays that disagree
  the first stays, and `ambiguous_across_envs` (`r9_env.py:60-65`) never sees both.
- Canonical names do not settle if a Service and a workload have each other's names: nginx is web and
  web is app, so what a name resolves to depends on how often it was looked up.
- `service_by_name` and the aliases have no namespaces: a variable in namespace b that says `api` is an edge to
  the `api` of namespace a, if that sorts first.
- A package's `repo_ids`, and a topic's, are those known when the node was first made; repositories that
  a variable's value adds later are not among them.
- `find_artifact` (`db/artifact.py:101`) matches by the prefix `<repo_id>-`: for `app` it also finds the
  artifacts of `app-web`, and if both sources are equal `scan_if_changed` returns the sibling's.
  It does not compare the engine's or the wire version either, so an artifact of an older engine
  is reused.
- `compact` into an existing index keeps the rows of code that was removed since, although it
  "supersedes its own earlier rows" (`db/artifact.py:175-178`), and names only the repositories of the last run.
- `collect_claims` never asks `can_read`: an artifact of an unknown wire version is loaded.
- `GraphTools.trace` cuts its answer at three paths and no flag says so.
- The facade's services are PRESENT even if there are none; the MCP server says KNOWN_EMPTY.
- A GraphQL edge that falls below the floor because a third repository declares the same field is
  reported by `impact` as unexplained.

Of the emission, where a comment or another part of the code has it otherwise:

- `emit_source_claims` (`ingest_claims.py:90`) gives a call's claim no subject: two calls of one file
  to different services with the same method and path have one identity, and the second is
  dropped, though "`subject` distinguishes two objects in the same file making the same statement"
  (`claims.py:92-93`). The same goes for a variable of two containers of one workload, and for a name that
  both the file and `spring.application.name` give.
- `extract_messaging_sites` drops duplicates by system, role and name, and a `${placeholder}` has no name: of
  two listeners with different placeholders the first stays.
- `emit_mcp_manifest_claims` (`ingest_claims.py:1697`) records the manifest's directory as a build context,
  which `r0_alias` resolves against that directory again.
- `rewrite_replacement` is read (`r4_gateway.py:30`) and never written: every rewrite removes its pattern. A
  pattern in Spring's syntax for named groups is an error in Python's, and `/$1` matches nothing.
- Every gateway's stripped prefix counts as one segment (`emit_gateway_claims`), however long nginx's is.
- `is_k8s_file` (`parser_registry.py:174-190`) knows nine kinds or the file's name: a NetworkPolicy, an HTTPRoute or a Job
  in a file of another name is never parsed.
- A filter of an HTTPRoute that only sets a host name counts as one that strips.
- `_split_image` of compose files neither lowers the case nor drops the tag before a digest, as `image_ref_key` does.
- Path patterns of a load balancer's rules are lists, which `_scalar` drops: their prefix is the root. A `data`
  block of Terraform declares its topic like a resource.
- `normalize_http_calls` treats an absolute URL of an external host like a path (`normalize.py:238-256`), so it may
  be joined with a service of the estate, which `backend/tests/test_vendor_catalog.py:3-6` rules out for vendors.
- A string dependency of Gradle, `com.acme:lib:1.2`, keeps its version in its key and never joins the
  library's publisher; `lib_key` says that versions do not participate (`claims.py:205-210`).
- An alias, a directive or a fragment's name at the top of a GraphQL operation is a root field's claim.
- `GetItemCommand` is a write in JavaScript (`data_extractor.py:325`), and `indices.create` two claims in Python and one in
  JavaScript. Kafka topics of Spark, and MLflow models, have the key prefix of a bucket.

## Plan

In order of what matters most to a running server; all but the last are done.

1. `ReadWriteLock`, `GraphLock` with proofs.
2. `JobQueue` with proofs of exclusion.
3. `EstateServer`: pipeline, delete, link runs; `EstateServerProof`: refinement of the
   queue, exact link runs, surviving edges.
4. `Workspace`: staging, swaps and their crash points, the upload spool, on the queue.
5. `ParseBudget` and `ShardedScan`.
6. `LinkPass` and `Linking`, `LinkPassProof`; `Names` and `Naming`, `Intake`.
7. `Stores`, `Queries`, `Embedded`, `Hosts`, `HostsProof`.
8. Proofs of `Workspace`, the spool, the scans, coalescing, and the estate's remaining invariants; then of
   relinks, of what a branch breaks, and of what an answer says of itself.
9. `Statements` to `Emission`: what files say, so that names are checked on documents.
10. `NamingProof`: the plan of the join, the ends of edges, final keys.
11. Next: `SearchesAgree`, from what the search in memory has on its stack.
