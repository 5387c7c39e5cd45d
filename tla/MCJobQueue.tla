------------------------------ MODULE MCJobQueue ------------------------------
(***************************************************************************)
(* One repository with both kinds of ingest job, so that uploads coexist   *)
(* and refreshes coalesce, and the linker lane behind them.  link_delta    *)
(* has no handler here: JobQueue accepts such a job and fails it.          *)
(***************************************************************************)
EXTENDS JobQueue, TLC

CONSTANTS r1, L      \* a repository and the linker's pseudo repository

OfferedQueue == {<<"refresh", r1>>, <<"ingest_upload", r1>>, <<"link_delta", L>>}
\* Two bundles of one repository contend for its mutex, and a link run waits for both.
OfferedLive == {<<"ingest_upload", r1>>, <<"link_full", L>>}
FollowUpQueue == {<<"link_full", L>>}
HandledQueue == JobType \ {"link_delta"}

Symmetry == Permutations(IngestWorker) \cup Permutations(Client)
===============================================================================
