---------------------------- MODULE MCEstateServer ----------------------------
(***************************************************************************)
(* Two repositories over one or two claim keys, so that a rollup between   *)
(* them comes and goes with either one's claims.                           *)
(***************************************************************************)
EXTENDS EstateServer, TLC

CONSTANTS r1, r2, L, a, b

Trees == {{a}, {b}}
Relinks == {<<"link_full", L>>}
AllTypes == JobType

\* A hosted repository that comes and goes, and uploads of the other one.
OfferedCalm == {<<"ingest", r1>>, <<"repo_delete", r1>>, <<"ingest_upload", r2>>,
                <<"link_delta", L>>}
\* Refreshes and uploads race a delete while calls fail.
OfferedFaulty == {<<"ingest", r1>>, <<"refresh", r1>>, <<"ingest_upload", r2>>,
                  <<"repo_delete", r2>>}
OfferedRefresh == {<<"refresh", r1>>}
OfferedReturn == {<<"ingest", r1>>, <<"refresh", r1>>, <<"repo_delete", r1>>}

Symmetry == Permutations(IngestWorker) \cup Permutations(ClaimKey)
===============================================================================
