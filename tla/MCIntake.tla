------------------------------- MODULE MCIntake -------------------------------
(***************************************************************************)
(* One repository id: hosted ingests, uploads and deletes of it contend    *)
(* for one clone.  Three files, which the server's two ingest workers have *)
(* between them, or which one scan parses in slices.  And the claims of    *)
(* MCNaming.                                                               *)
(***************************************************************************)
EXTENDS Intake, MCNaming, TLC

CONSTANTS r1, s1, s2, k1, k2, serial, parent, server

AllTypes == JobType
OfferedDisk == {<<"ingest", r1>>, <<"ingest_upload", r1>>, <<"repo_delete", r1>>}

\* Scans have no clients, bundles or queue, so their liveness is that of the orbits too.
Symmetry == Permutations(IngestWorker) \cup Permutations(Bundle) \cup Permutations(Client)

Files3 == 1 .. 3
Threads3 == {s1, s2, k1, k2, serial, parent}
Processes == {server, k1, k2, serial, parent}
HostOf3(s) == IF s \in {s1, s2} THEN server ELSE s
Share3(w) == IF w = s1 THEN <<1, 2>> ELSE <<3>>

\* One file may be anything, and where scans share a pool the others may wedge as
\* well; the claims reach the ceiling early, with the last file, or never.
Trees3(others) == {n \in [Files3 -> Natures] :
                      Cardinality({f \in Files3 : n[f] \notin others}) <= 1}
Yields3 == {<<1, 1, 1>>, <<1, 1, 0>>, <<0, 0, 0>>}
Cases3 ==
    [host : {"server"}, nature : Trees3({"sound", "wedges"}), yield : {<<0, 0, 0>>}]
    \cup [host : {"sharded"}, nature : Trees3({"sound"}), yield : Yields3]
    \cup [host : {"rescan"}, nature : Trees3({"sound"}), yield : {<<0, 0, 0>>}]
===============================================================================
