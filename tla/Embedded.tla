--------------------------------- MODULE Embedded ---------------------------------
(***************************************************************************)
(* The engine without a server (cli.py, facade.py, mcp_server.py): a       *)
(* repository is scanned from its checkout, or published as an artifact    *)
(* and loaded from that, or from an index of several; the claims are       *)
(* linked once, and each answer says which source it is about              *)
(* (source_meta.py) and whether anything was missed (absence.py,           *)
(* scan_meta.py, completeness.py, status_classify.py, mcp_envelope.py).    *)
(* A file is a number, a version of it says what comes of parsing it and   *)
(* which claims it holds.  Left out: the ceiling on claims (ShardedScan),  *)
(* ambiguous names, search, subgraphs and deprecations, wording.           *)
(***************************************************************************)
EXTENDS LinkPass, Queries

CONSTANTS
    Versions,        \* for each repository and file, the versions it may have
    Starts,          \* for each repository, the trees it may start with
    Prefixed,        \* the repositories whose artifacts' names start like this one's
    MaxFiles,        \* max_files_per_repo
    Wires,           \* the wire versions of the engines that publish, <<major, minor>>
    Questions,       \* what is asked: [tool, node, to, hops, limit]
    MaxSteps,        \* bound: how often a checkout changes and artifacts are made
    MaxLoads         \* bound: how often a host loads

Absent == [fate |-> "absent", claims |-> {}]
Lossy == {"error", "large", "timeout", "unsupported"}
Fates == Lossy \cup {"parsed", "unfetched", "swallowed", "unseen"}

\* The longest list that may be asked for, the farthest, and how many paths a trace gives
MaxLimit == 500
MaxHops == 8
TraceLimit == 3

ASSUME EmbeddedAssumption ==
    /\ MaxFiles \in Nat \ {0}
    /\ \A r \in DOMAIN Versions :
          /\ r \in Prefixed[r]
          /\ \A f \in DOMAIN Versions[r] : f \in Nat /\ \A v \in Versions[r][f] : v.fate \in Fates
          /\ IsFiniteSet(DOMAIN Versions[r])
          /\ \A f \in DOMAIN Versions[r] : \A v \in Versions[r][f] : IsFiniteSet(v.claims)
          /\ \A tree \in Starts[r] :
                /\ DOMAIN tree = DOMAIN Versions[r]
                /\ \A f \in DOMAIN tree : tree[f] \in Versions[r][f] \cup {Absent}
    /\ IsFiniteSet(DOMAIN Versions)
    /\ Questions \subseteq
          [tool : {"consumers_of", "trace", "neighbors", "impact", "services"},
           node : {q.node : q \in Questions}, to : {q.to : q \in Questions},
           hops : 1 .. MaxHops, limit : 1 .. MaxLimit]

VARIABLES
    checkout,        \* of each repository: the working tree, git's index, the last commit
    archive,         \* the artifacts in the output directory, and when each was made
    index,           \* what compact made, at most one
    facade,          \* a TraceKite or an MCP server: what it has loaded
    loads,           \* the claims a host loaded of a directory, and the revision it named
    steps

embeddedVars == <<checkout, archive, index, facade, loads, steps>>

Repos == DOMAIN Versions
Idle == [phase |-> "new"]

\* Nothing is edited yet.
CleanCheckouts ==
    {[r \in Repos |-> [work |-> t[r], staged |-> t[r], head |-> t[r]]] :
        t \in {u \in [Repos -> UNION {Starts[r] : r \in Repos}] : \A r \in Repos : u[r] \in Starts[r]}}

EmbeddedInit ==
    /\ checkout \in CleanCheckouts
    /\ archive = {} /\ index = {} /\ facade = Idle /\ loads = {} /\ steps = 0

------------------------------------------------------------------------------
(* What a scan finds, and what it knows to have missed                     *)

Listed(tree) == {f \in DOMAIN tree : tree[f].fate \notin {"absent", "unseen", "unfetched"}}

Scan(repo, tree) ==
    LET files == {f \in Listed(tree) : Cardinality({g \in Listed(tree) : g < f}) < MaxFiles}
        With(fate) == {f \in files : tree[f].fate = fate} IN
    [claims |-> UNION {tree[f].claims : f \in With("parsed")},
     nodes |-> {<<"repo", repo>>} \cup {<<"node", repo, f>> : f \in Listed(tree)},
     lost |-> [fate \in Lossy |-> With(fate)],
     capped |-> Cardinality(Listed(tree)) - Cardinality(files),
     unfetched |-> {f \in DOMAIN tree : tree[f].fate = "unfetched"}]

\* Mutant: only what failed to parse makes an absence doubtful.
AbsenceReport_ErrorsOnly(sink) ==
    {fate \in {"error", "timeout"} : sink.lost[fate] # {}}

\* absence_report: why what was not found may still be there
AbsenceReport(sink) ==
    {fate \in Lossy : sink.lost[fate] # {}}
    \cup {reason \in {"capped", "unfetched"} :
             IF reason = "capped" THEN sink.capped > 0 ELSE sink.unfetched # {}}

\* repo_scan_meta_from_sink; a file that timed out counts as one that failed.
FromSink(sink) ==
    [metadata_complete |-> TRUE,
     parse_failures |-> Cardinality(sink.lost["error"] \cup sink.lost["timeout"]),
     reasons |-> AbsenceReport(sink), truncated |-> sink.capped > 0]

\* repo_scan_meta_from_artifact: wire 1.0 did not record what was searched.
FromArtifact(file) ==
    IF file.wire = <<1, 0>>
    THEN [FromSink(file.sink) EXCEPT
             !.metadata_complete = FALSE,
             !.reasons = {IF file.sink.unfetched # {} THEN "unfetched" ELSE "unrecorded"}]
    ELSE FromSink(file.sink)

\* The same of an index, which records nothing about the scans in it
FromIndex == [metadata_complete |-> FALSE, parse_failures |-> 0, reasons |-> {"unrecorded"},
              truncated |-> FALSE]

------------------------------------------------------------------------------
(* A checkout, and what git says of it                                     *)

Differ(before, after, files) ==
    {<<f, before[f], after[f]>> : f \in {g \in files : before[g] # after[g]}}
Tracked(place) == {f \in DOMAIN place.staged : place.staged[f] # Absent}

Staged(place) == Differ(place.head, place.staged, DOMAIN place.staged)
Unstaged(place) == Differ(place.staged, place.work, Tracked(place))

\* Mutant: an untracked file counts by its name.
Untracked_Names(place) == {f \in DOMAIN place.work \ Tracked(place) : place.work[f] # Absent}

Untracked(place) ==
    {<<f, place.work[f]>> : f \in {g \in DOMAIN place.work \ Tracked(place) :
                                     place.work[g] # Absent}}

\* _dirty_digest: what is staged, what is not, and what git does not track, apart
DirtyDigest(place) == <<Staged(place), Unstaged(place), Untracked(place)>>

\* collect_dir_meta: a git call that fails leaves a blank.
DirRevision(repo, answered) ==
    LET place == checkout[repo]
        dirty == "status" \in answered /\ DirtyDigest(place) # <<{}, {}, {}>> IN
    [repo |-> repo, head |-> IF "head" \in answered THEN {place.head} ELSE {},
     dirty |-> dirty, content |-> IF dirty THEN {DirtyDigest(place)} ELSE {}]

Step == steps < MaxSteps /\ steps' = steps + 1

\* The host has loaded nothing, or its sources change under it.
Unquiet == IF facade.phase = "meta" THEN [facade EXCEPT !.quiet = FALSE] ELSE facade

Checkout(r, place) ==
    /\ Step
    /\ place # checkout[r]
    /\ checkout' = [checkout EXCEPT ![r] = place]
    /\ facade' = Unquiet
    /\ UNCHANGED <<archive, index, loads>>

Edit == \E r \in Repos : \E f \in DOMAIN Versions[r] : \E v \in Versions[r][f] \cup {Absent} :
            Checkout(r, [checkout[r] EXCEPT !.work[f] = v])
Add == \E r \in Repos : Checkout(r, [checkout[r] EXCEPT !.staged = checkout[r].work])
Commit == \E r \in Repos : Checkout(r, [checkout[r] EXCEPT !.head = checkout[r].staged])

------------------------------------------------------------------------------
(* Artifacts                                                               *)

\* source_fingerprint: .gitmodules, which declares what is not fetched, is a file too.
SourceFingerprint(tree) ==
    {<<f, tree[f]>> : f \in {g \in DOMAIN tree : tree[g].fate \notin {"absent", "unseen"}}}

\* find_artifact: the newest whose name starts with the repository's
FindArtifact(repo) ==
    LET matches == {a \in archive : a.file.repo \in Prefixed[repo]} IN
    {a.file : a \in {b \in matches : \A c \in matches : c.at <= b.at}}

\* scan_if_changed, by an engine of some wire version; the same content has the same name.
\* The tree it was made from is no part of the file.
Publish ==
    \E r \in Repos, wire \in Wires :
        LET tree == checkout[r].work
            source == SourceFingerprint(tree)
            file == [repo |-> r, wire |-> wire, head |-> {checkout[r].head}, source |-> source,
                     sink |-> Scan(r, tree)] IN
        /\ Step
        /\ \A existing \in FindArtifact(r) : existing.source # source
        /\ archive' = {a \in archive : a.file # file}
                      \cup {[file |-> file, tree |-> tree, at |-> steps]}
        /\ UNCHANGED <<checkout, index, facade, loads>>

\* can_read: the current wire version, and an older minor one that is migrated step by step
Current == <<1, 3>>
Migrations == {<<1, 0>>, <<1, 1>>, <<1, 2>>}
CanRead(wire) ==
    /\ wire[1] = Current[1] /\ wire[2] <= Current[2]
    /\ \A minor \in wire[2] .. Current[2] - 1 : <<wire[1], minor>> \in Migrations

\* compact: rows replace those of the same id; others stay.
Compact ==
    LET readable == {a \in archive : CanRead(a.file.wire)}
        Kept(claims, later) ==
            {c \in claims : \A a \in later : \A d \in a.file.sink.claims : d.id # c.id} IN
    /\ Step
    /\ archive # {}
    /\ \E before \in IF index = {} THEN {[claims |-> {}, nodes |-> {}]} ELSE index :
          index' = {[claims |-> Kept(before.claims, readable)
                                \cup UNION {Kept(a.file.sink.claims, {b \in readable : b.at > a.at}) :
                                              a \in readable},
                     nodes |-> before.nodes \cup UNION {a.file.sink.nodes : a \in readable},
                     repos |-> {a.file.repo : a \in readable}]}
    /\ facade' = Unquiet
    /\ UNCHANGED <<checkout, archive, loads>>

------------------------------------------------------------------------------
(* A host loads its inputs: directories, artifacts, an index.              *)

Paths == {<<"dir", r>> : r \in Repos} \cup {<<"artifact", a>> : a \in archive}
         \cup {<<"index", "">> : i \in index}

ReposAt(path) ==
    CASE path[1] = "dir" -> {path[2]}
      [] path[1] = "artifact" -> {path[2].file.repo}
      [] path[1] = "index" -> UNION {i.repos : i \in index}

\* What is read at a path now
Contents(path) ==
    CASE path[1] = "dir" -> Scan(path[2], checkout[path[2]].work)
      [] path[1] = "artifact" -> path[2].file.sink
      [] path[1] = "index" -> CHOOSE i \in index : TRUE

\* collect_input_meta for one path
RevisionsAt(path, answered) ==
    CASE path[1] = "dir" -> {DirRevision(path[2], answered)}
      [] path[1] = "artifact" -> {[repo |-> path[2].file.repo, head |-> path[2].file.head,
                                   dirty |-> FALSE, content |-> {path[2].file}]}
      [] path[1] = "index" -> {[repo |-> r, head |-> {}, dirty |-> FALSE, content |-> index] :
                                  r \in ReposAt(path)}
MetaAt(path) == IF path[1] = "artifact" THEN FromArtifact(path[2].file) ELSE FromIndex

\* load_graph, _load_tools: the revisions first.  When one host has loaded, another may.
LoadMeta ==
    \E paths \in SUBSET Paths, answered \in {{}, {"head"}, {"head", "status"}} :
        /\ facade.phase # "meta" /\ Cardinality(paths) = Cardinality(Repos)
        /\ answered # {} => \E p \in paths : p[1] = "dir"
        /\ facade' = [phase |-> "meta", paths |-> paths, answered |-> answered, quiet |-> TRUE,
                    revisions |-> UNION {RevisionsAt(p, answered) : p \in paths},
                    metas |-> [p \in {q \in paths : q[1] # "dir"} |-> MetaAt(p)]]
        /\ UNCHANGED <<checkout, archive, index, loads, steps>>

\* _register_repos refuses a repository that is there twice, collect_claims an input that
\* names none.
Accepted(paths) ==
    /\ \A p \in paths : ReposAt(p) # {}
    /\ \A p, q \in paths : p # q => ReposAt(p) \cap ReposAt(q) = {}

\* What one load keeps: the edges, the nodes it knows and how far the scans got; "sources"
\* is what it should have read.
Loaded(claims, nodes, metas, revisions, sources) ==
    LET edges == Link(claims, <<>>) IN
    [phase |-> "loaded", edges |-> edges, services |-> Context(claims).services,
     known |-> nodes \cup {Service(r) : r \in Context(claims).services}
               \cup UNION {{e.source, e.target} : e \in Served(edges)},
     metas |-> metas, repos |-> {r.repo : r \in revisions}, sources |-> sources]

\* Everything that is written in the files the inputs were made of, but for what no
\* counter names: a parser's exception that is swallowed, a file that is never listed.
InFiles(path) ==
    LET tree == IF path[1] = "dir" THEN checkout[path[2]].work ELSE path[2].tree IN
    UNION {tree[f].claims : f \in {g \in DOMAIN tree : tree[g].fate \notin {"swallowed", "unseen"}}}

LoadClaims ==
    /\ facade.phase = "meta"
    /\ IF ~Accepted(facade.paths) THEN facade' = Idle /\ loads' = loads
       ELSE LET dirs == {p \in facade.paths : p[1] = "dir"}
                metas == [p \in facade.paths |-> IF p \in dirs THEN FromSink(Contents(p))
                                               ELSE facade.metas[p]] IN
            /\ facade' = Loaded(UNION {Contents(p).claims : p \in facade.paths},
                              UNION {Contents(p).nodes : p \in facade.paths},
                              {metas[p] : p \in facade.paths}, facade.revisions,
                              UNION {InFiles(p) : p \in {q \in facade.paths : q[1] # "index"}})
            /\ loads' = loads \cup
                  {[revision |-> CHOOSE r \in facade.revisions : r.repo = p[2],
                    claims |-> Contents(p).claims] :
                      p \in {d \in dirs : /\ facade.quiet /\ facade.answered = {"head", "status"}
                                         /\ Cardinality(loads) < MaxLoads}}
    /\ UNCHANGED <<checkout, archive, index, steps>>

EmbeddedNext == Edit \/ Add \/ Commit \/ Publish \/ Compact \/ LoadMeta \/ LoadClaims

EmbeddedSpec == EmbeddedInit /\ [][EmbeddedNext]_embeddedVars

------------------------------------------------------------------------------
(* GraphTools: an answer says what was found, how much there would be, and *)
(* whether it was cut.                                                     *)

\* A service may be called by its name.
Resolve(graph, node) ==
    IF node[1] = "name" /\ node[2] \in graph.services THEN Service(node[2]) ELSE node

Neighbors(graph, node, q) ==
    BoundedNeighborhood(graph.edges, [node |-> node, types |-> {}, hops |-> q.hops,
                                      direction |-> "both", limit |-> q.limit])
Impact(graph, node, q) ==
    TransitiveImpact(graph.edges, [node |-> node, types |-> {}, hops |-> q.hops,
                                   minimum |-> 0, limit |-> q.limit])

AnswerTo(graph, q) ==
    LET node == Resolve(graph, q.node)
        to == Resolve(graph, q.to)
        rows == CASE q.tool = "consumers_of" ->
                        {e.source : e \in ConsumersOf(graph.edges, node)}
                  [] q.tool = "trace" -> FindPaths(graph.edges, node, to, q.hops, TraceLimit)
                  [] q.tool = "neighbors" ->
                        DOMAIN Neighbors(graph, node, q).distances \ {node}
                  [] q.tool = "impact" -> {r.node : r \in Impact(graph, node, q).impacted}
                  [] q.tool = "services" -> {Service(r) : r \in graph.services} IN
    [rows |-> rows,
     found |-> \/ q.tool = "services" \/ rows # {}
               \/ node \in graph.known /\ (q.tool = "trace" => to \in graph.known),
     truncated |-> \/ q.tool = "neighbors" /\ Neighbors(graph, node, q).truncated
                   \/ q.tool = "impact" /\ Impact(graph, node, q).truncated]

\* classify_*: nothing found of a node that is known is another answer than nothing known.
Status(answer) ==
    CASE ~answer.found -> "unknown_target"
      [] answer.found /\ answer.rows = {} -> "known_empty"
      [] OTHER -> "present"

\* evaluate_completeness, from what the scans and artifacts say of themselves; services
\* speak for the repositories that back one.
Complete(q) ==
    /\ q.tool = "services" => facade.repos \subseteq facade.services
    /\ \A m \in facade.metas : /\ m.metadata_complete /\ m.parse_failures = 0
                             /\ ~m.truncated /\ m.reasons = {}

\* _envelope, wrap_answer; the facade says of services that they are present even if there
\* are none.
Envelope(q) ==
    LET answer == AnswerTo(facade, q) IN
    [rows |-> answer.rows, status |-> Status(answer), complete |-> Complete(q),
     truncated |-> answer.truncated \/ \E m \in facade.metas : m.truncated]

------------------------------------------------------------------------------
\* An answer that calls itself complete, and is not truncated, is what one gets of all
\* that is written in the sources: nobody may read "known_empty" or "unknown_target"
\* where a file that could not be read, a submodule, a cap, an old artifact or an index
\* hides a caller ("complete is only True when every factor is accounted for",
\* completeness.py:36-47).  Not counted are files that no counter names: those over 1 MB,
\* which are never listed, and those whose parser raises.
CompleteMeansAll ==
    facade.phase = "loaded" =>
        LET whole == Loaded(facade.sources, facade.known, facade.metas, {}, {}) IN
        \A q \in Questions :
            LET envelope == Envelope(q)
                answer == AnswerTo(whole, [q EXCEPT !.limit = MaxLimit]) IN
            envelope.complete /\ ~envelope.truncated =>
                envelope.rows = answer.rows /\ envelope.status = Status(answer)

\* The revision a host names is the source it answers from: two hosts that name the same
\* commit, and the same digest if the tree is dirty, have loaded the same claims of that
\* directory, whatever was staged, edited or never added ("so that an answer can be
\* reproduced against a named revision", source_meta.py:8-9).  Provided that git answered,
\* and that nothing was edited between the digest and the scan.
SnapshotNames ==
    \A x, y \in loads : x.revision = y.revision => x.claims = y.claims
================================================================================
