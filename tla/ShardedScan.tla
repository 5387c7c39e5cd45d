------------------------------ MODULE ShardedScan ------------------------------
(***************************************************************************)
(* Three hosts of the parse loop: the ingest threads of the server, which  *)
(* share a pool; a repository scanned twice, serially (services/scan.py)   *)
(* and by worker processes over slices of its files that are merged back   *)
(* (services/sharded_scan.py, services/sink_merge.py); and a repository    *)
(* scanned again and again while it is edited (services/reingest.py).      *)
(***************************************************************************)
EXTENDS ParseBudget

CONSTANTS
    Ingest,          \* ingest workers of the server
    Share(_),        \* the files of the repository each of them scans
    Serial,          \* the scanner of a serial scan
    Parent,          \* the process of a sharded scan, for the serial re-run
    Child,           \* its worker processes
    Cases,           \* the hosts, and the repositories they scan
    ChunkFiles,      \* how many files a slice has
    MaxScans         \* bound: how often a repository is scanned again

ASSUME ShardAssumption ==
    /\ Scanner = Ingest \cup {Serial, Parent} \cup Child
    /\ Serial # Parent /\ {Serial, Parent} \cap Child = {}
    /\ Ingest \cap ({Serial, Parent} \cup Child) = {}
    /\ \A s, z \in Scanner : HostOf(s) = HostOf(z) => s = z \/ {s, z} \subseteq Ingest
    /\ \A w \in Ingest : Share(w) \in Seq(File) /\ IsInjective(Share(w))
    /\ \A v, w \in Ingest : v # w => ToSet(Share(v)) \cap ToSet(Share(w)) = {}
    /\ Cases \subseteq [host : {"server", "sharded", "rescan"},
                      nature : [File -> Natures], yield : [File -> Nat]]
    /\ ChunkFiles \in Nat \ {0} /\ MaxScans \in Nat

VARIABLES
    host,            \* "server", "sharded" or "rescan"
    begun,           \* the scanners that have begun
    next,            \* the slice that pool.map hands out next
    on,              \* the slice each child parses
    chunks,          \* the sinks that came back, by slice
    step,            \* where scan_sharded is
    result,          \* the sink it returns
    scans,           \* how often scan_if_changed was called
    current,         \* its local of that name: the source fingerprint
    artifact,        \* the newest artifact's source_digest and nodes
    reused           \* did the latest call reuse it?

shardVars == <<begun, next, on, chunks, step, result>>
rescanVars == <<scans, current, artifact, reused>>
scanVars == <<parseVars, host, shardVars, rescanVars>>

Files == [i \in 1 .. Cardinality(File) |-> i]
Slices == (Len(Files) + ChunkFiles - 1) \div ChunkFiles
Slice(i) == SubSeq(Files, (i - 1) * ChunkFiles + 1,
                   IF i = Slices THEN Len(Files) ELSE i * ChunkFiles)
NotBack == EmptySink(0)
NoArtifact == [source_digest |-> <<>>, nodes |-> <<>>]

ScanInit ==
    /\ \E c \in Cases : host = c.host /\ ParseInit(c.nature, c.yield)
    /\ todo = [s \in Scanner |-> <<>>]
    /\ begun = {}
    /\ next = 1
    /\ on = [c \in Child |-> 0]
    /\ chunks = [i \in 1 .. Slices |-> NotBack]
    /\ step = "map"
    /\ result = NotBack
    /\ scans = 0
    /\ current = <<>>
    /\ artifact = NoArtifact
    /\ reused = FALSE

------------------------------------------------------------------------------
\* A sink with its ceiling, and the files to parse into it.
Begin(s, files, limit) ==
    /\ todo' = [todo EXCEPT ![s] = files]
    /\ sink' = [sink EXCEPT ![s] = EmptySink(limit)]
    /\ begun' = begun \cup {s}
    /\ raised' = raised \ {s}
    /\ UNCHANGED <<inputs, version, pool, asked>>

\* build_graph, in an ingest worker and in a serial scan.
IngestScans(w) ==
    /\ host = "server" /\ w \notin begun
    /\ Begin(w, Share(w), MaxClaims)
    /\ UNCHANGED <<host, next, on, chunks, step, result, rescanVars>>

SerialScans ==
    /\ host = "sharded" /\ Serial \notin begun
    /\ Begin(Serial, Files, MaxClaims)
    /\ UNCHANGED <<host, next, on, chunks, step, result, rescanVars>>

Compared == Serial \in begun /\ Through(Serial)

\* _parse_chunk: a child takes the next slice, into a sink without a ceiling.
TakesSlice(c) ==
    /\ host = "sharded" /\ Compared
    /\ step = "map" /\ on[c] = 0 /\ next <= Slices
    /\ Begin(c, Slice(next), 0)
    /\ on' = [on EXCEPT ![c] = next]
    /\ next' = next + 1
    /\ UNCHANGED <<host, chunks, step, result, rescanVars>>

\* Mutant: the chunks are taken in the order in which they come back.
BackAt_Arrival(c) == Cardinality({i \in 1 .. Slices : chunks[i] # NotBack}) + 1

BackAt(c) == on[c]

SliceBack(c) ==
    /\ step = "map" /\ on[c] # 0 /\ Through(c) /\ c \notin raised
    /\ chunks' = [chunks EXCEPT ![BackAt(c)] = sink[c]]
    /\ on' = [on EXCEPT ![c] = 0]
    /\ UNCHANGED <<parseVars, host, begun, next, step, result, rescanVars>>

\* pool.map hands on what a slice raised.
SliceRaises(c) ==
    /\ step = "map" /\ on[c] # 0 /\ c \in raised
    /\ step' = "raised"
    /\ UNCHANGED <<parseVars, host, begun, next, on, chunks, result, rescanVars>>

\* IngestSink.add_node: a node already there is not added again.
AddNode(nodes, node) == IF node \in ToSet(nodes) THEN nodes ELSE Append(nodes, node)
Added(nodes, others) ==
    LET grown[i \in 0 .. Len(others)] ==
            IF i = 0 THEN nodes ELSE AddNode(grown[i - 1], others[i])
    IN grown[Len(others)]

\* Mutant: only the counters listed here are summed.
MergeChunk_Listed(target, chunk) ==
    [target EXCEPT
        !.nodes = Added(@, chunk.nodes),
        !.count = [c \in Counters |->
                      @[c] + IF c \in {"files_seen", "files_parsed", "claims"}
                             THEN chunk.count[c] ELSE 0]]

\* merge_chunk: each node is added, the counters are summed.
MergeChunk(target, chunk) ==
    [target EXCEPT
        !.nodes = Added(@, chunk.nodes),
        !.count = [c \in Counters |-> @[c] + chunk.count[c]]]

\* merge_chunks, in slice order.
Merged ==
    LET merged[i \in 0 .. Slices] ==
            IF i = 0 THEN EmptySink(0) ELSE MergeChunk(merged[i - 1], chunks[i])
    IN merged[Slices]

\* A merge that reached the ceiling is thrown away and the scan run serially.
Merge ==
    /\ host = "sharded" /\ Compared /\ step = "map"
    /\ next > Slices /\ \A c \in Child : on[c] = 0
    /\ IF AtCap([Merged EXCEPT !.max_claims = MaxClaims])
       THEN /\ Begin(Parent, Files, MaxClaims)
            /\ step' = "rerun"
            /\ UNCHANGED result
       ELSE /\ result' = [Merged EXCEPT !.max_claims = MaxClaims]
            /\ step' = "done"
            /\ UNCHANGED <<parseVars, begun>>
    /\ UNCHANGED <<host, next, on, chunks, rescanVars>>

Rerun ==
    /\ step = "rerun" /\ Through(Parent)
    /\ result' = sink[Parent]
    /\ step' = IF Parent \in raised THEN "raised" ELSE "done"
    /\ UNCHANGED <<parseVars, host, begun, next, on, chunks, rescanVars>>

------------------------------------------------------------------------------
\* scan_if_changed: source_fingerprint, and the newest artifact's if it agrees.
Fingerprint ==
    /\ host = "rescan" /\ Serial \notin begun
    /\ scans < MaxScans
    /\ scans' = scans + 1
    /\ current' = version
    /\ reused' = (artifact.source_digest = version)
    /\ IF reused' THEN UNCHANGED <<parseVars, begun>> ELSE Begin(Serial, Files, MaxClaims)
    /\ UNCHANGED <<host, next, on, chunks, step, result, artifact>>

\* Mutant: the fingerprint is taken when the artifact is written.
Digest_Late == version

Digest == current

\* A scan that raised leaves the artifact as it was.
WriteArtifact ==
    /\ host = "rescan" /\ Serial \in begun /\ Through(Serial)
    /\ artifact' = IF Serial \in raised THEN artifact
                   ELSE [source_digest |-> Digest, nodes |-> sink[Serial].nodes]
    /\ begun' = {}
    /\ UNCHANGED <<parseVars, host, next, on, chunks, step, result, scans, current, reused>>

Over ==
    /\ CASE host = "server" -> \A w \in Ingest : w \in begun /\ Through(w)
         [] host = "sharded" -> step \in {"done", "raised"}
         [] host = "rescan" -> scans = MaxScans /\ begun = {}
    /\ UNCHANGED scanVars

Parsing(A) == A /\ UNCHANGED <<host, shardVars, rescanVars>>

ScanNext ==
    \/ \E s \in Scanner : Parsing(ParseLoop(s))
    \/ \E p \in Process : Parsing(Threads(p))
    \/ \E f \in File : host = "rescan" /\ Parsing(Edit(f))
    \/ \E w \in Ingest : IngestScans(w)
    \/ SerialScans
    \/ \E c \in Child : TakesSlice(c) \/ SliceBack(c) \/ SliceRaises(c)
    \/ Merge \/ Rerun
    \/ Fingerprint \/ WriteArtifact
    \/ Over

\* The scans of a process go on as long as there is something to do; a parse that
\* wedges need not end.
Goes ==
    \/ \E s \in Scanner : ParseLoop(s)
    \/ \E p \in Process, t \in 1 .. MaxWorkers :
          ThreadTakes(p, t) \/ (~Wedged(p, t) /\ ThreadEnds(p, t))
ScanFairness == WF_scanVars(Parsing(Goes))

ScanSpec == ScanInit /\ [][ScanNext]_scanVars /\ ScanFairness

------------------------------------------------------------------------------
\* A repository that never wedges two parses gives the same sink, in the same
\* order, from a serial scan and from any number of workers, at the claim ceiling
\* too (sharded_scan.py:7-10, 18-23).  It fails under both, unless the file that
\* fails it lies past the ceiling, where only the workers get.
ShardedIsSerial ==
    host = "sharded" /\ Cardinality({f \in File : nature[f] = "wedges"}) <= 1 =>
        /\ step = "done" => result = sink[Serial]
        /\ step = "raised" => Serial \in raised \/ sink[Serial].count["capped"] > 0

Covers(k, files) ==
    {f \in ToSet(files) : nature[f] # "swallowed"} \subseteq {n[1] : n \in ToSet(k.nodes)}

\* Every scan that says it is complete has the files it looked at in its sink.
ScansNameTheirLosses ==
    /\ \A w \in Ingest : w \in begun \ raised /\ Through(w) /\ Complete(sink[w]) =>
                             Covers(sink[w], Share(w))
    /\ Compared /\ Serial \notin raised /\ Complete(sink[Serial]) =>
           Covers(sink[Serial], Files)

\* When the absence report of a scan says it is complete, every file it looked at
\* is in the graph (absence.py:52-61); the report does not see a source parser that
\* raised inside parse_file (parser_registry.py:250-253).
LossesAreNamed ==
    /\ ScansNameTheirLosses
    /\ step = "done" /\ Complete(result) => Covers(result, Files)

\* One pathological file costs a process that file and no other, whoever scans
\* there and whatever its parent had parsed before the fork (parse_budget.py:1-16).
\* A repository that is scanned again meets the file again, and then it does not
\* hold: the parse given up by the scan before still has its thread.
OneWedgeCostsOneFile ==
    [][host # "rescan" /\ Cardinality({f \in File : nature[f] = "wedges"}) <= 1 =>
          \A s \in Scanner :
              sink'[s].count["parse_timeouts"] > sink[s].count["parse_timeouts"] =>
                  nature[asked[s].file] = "wedges"]_scanVars

\* An artifact is reused only if it holds what a scan would find now, whatever was
\* edited while it was made (scan_if_changed).
ReuseIsFresh ==
    [][scans' # scans /\ reused' =>
          \A n \in ToSet(artifact.nodes) : n[2] = version[n[1]]]_scanVars

\* Whatever wedges, every scan gets through its files ("the ingest moves on",
\* parse_budget.py:3-6).
ScansEnd == []<>(\A s \in Scanner : Through(s))
================================================================================
