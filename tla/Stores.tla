--------------------------------- MODULE Stores ---------------------------------
(***************************************************************************)
(* The three graph stores behind one protocol (db/graph_store.py), given   *)
(* the same writes: a list in memory, a table in SQLite, relationships in  *)
(* Neo4j.  Each answers the same questions by an algorithm of its own: a   *)
(* search, a recursive query, a pattern.  Nodes and runs are numbers.      *)
(* Left out: payloads, labels, the edge type a neighbour was reached by,   *)
(* identifiers that are refused.                                           *)
(***************************************************************************)
EXTENDS Queries

CONSTANTS
    Nodes,           \* the nodes there may be
    Written,         \* the edges that may be written
    MaxEdges,        \* bound: how many edges the graph holds
    MaxMoves         \* bound: how many nodes come late, runs go, stores migrate

ASSUME StoresAssumption ==
    /\ Nodes \subseteq Nat
    /\ \A e \in Written :
          /\ {e.source, e.target} \subseteq Nodes /\ e.run \in Nat
          /\ e.confidence \in 0 .. 100 /\ e.status \in {"active", "candidate", "rejected"}

VARIABLES nodes, memory, sqlite, neo, moves
storesVars == <<nodes, memory, sqlite, neo, moves>>

Unlinked == 0        \* the run of what an ingest wrote
Null == -1           \* a property Neo4j does not store

StoresInit ==
    /\ nodes \in {Nodes \ {n} : n \in Nodes}
    /\ memory = <<>> /\ sqlite = {} /\ neo = {} /\ moves = 0

\* InMemoryGraphStore.upsert_edges: in place, or at the end
Upsert(edges, e) ==
    IF \E i \in DOMAIN edges : EdgeKey(edges[i]) = EdgeKey(e)
    THEN [i \in DOMAIN edges |-> IF EdgeKey(edges[i]) = EdgeKey(e) THEN e ELSE edges[i]]
    ELSE Append(edges, e)

\* A relationship is merged on its resolver as well, and only between nodes that are
\* there: with one missing, the write raises.
MergeNeo(edges, e) ==
    IF {e.source, e.target} \subseteq nodes
    THEN {d \in edges : EdgeKey(d) # EdgeKey(e) \/ d.by # e.by}
         \cup {[e EXCEPT !.run = IF @ = Unlinked THEN Null ELSE @]}
    ELSE edges

UpsertEdge ==
    \E e \in Written :
        /\ memory' = Upsert(memory, e)
        /\ Len(memory') <= MaxEdges
        /\ sqlite' = {d \in sqlite : EdgeKey(d) # EdgeKey(e)} \cup {e}
        /\ neo' = MergeNeo(neo, e)
        /\ UNCHANGED <<nodes, moves>>

Move == moves < MaxMoves /\ moves' = moves + 1

UpsertNode == Move /\ nodes' = Nodes /\ UNCHANGED <<memory, sqlite, neo>>

DeleteByRun ==
    \E run \in {e.run : e \in Written} \ {Unlinked} :
        /\ Move
        /\ memory' = SelectSeq(memory, LAMBDA e : e.run # run)
        /\ sqlite' = {e \in sqlite : e.run # run}
        /\ neo' = {e \in neo : e.run # run}
        /\ UNCHANGED nodes

\* migrate_to_sqlite: what Neo4j holds, in a new file; of several relationships that
\* differ in their resolver the last one stays.
MigrateToSqlite ==
    /\ Move
    /\ sqlite' \in {kept \in SUBSET neo : \A e \in neo :
                       \E d \in kept : {k \in kept : EdgeKey(k) = EdgeKey(e)} = {d}}
    /\ UNCHANGED <<nodes, memory, neo>>

StoresNext == UpsertEdge \/ UpsertNode \/ DeleteByRun \/ MigrateToSqlite

------------------------------------------------------------------------------
\* A neighbourhood has [node, types, hops, direction, limit], a bounded path [source,
\* target, types, max_hops, limit].
AtLeastOne(n) == IF n < 1 THEN 1 ELSE n

\* InMemoryGraphStore stops as soon as it has as many as were asked for.
StoppedAt(rows, limit) ==
    IF rows = <<>> \/ Len(rows) < limit THEN [rows |-> rows, truncated |-> FALSE]
    ELSE [rows |-> SubSeq(rows, 1, AtLeastOne(limit)), truncated |-> TRUE]

\* _adjacent: each edge at a node, and the node at its other end, in the list's order
Adjacent(edges, node, types, direction) ==
    FoldLeft(LAMBDA found, e :
                IF ~Typed(types, e) THEN found
                ELSE found
                     \o (IF direction # "in" /\ e.source = node
                         THEN <<[node |-> e.target, edge |-> e]>> ELSE <<>>)
                     \o (IF direction # "out" /\ e.target = node
                         THEN <<[node |-> e.source, edge |-> e]>> ELSE <<>>),
             <<>>, edges)

\* Breadth first; "found" is also the queue.
MemoryNeighbourhood(edges, q) ==
    LET Add(hops, found, next) ==
            IF \E i \in DOMAIN found : found[i].node = next.node THEN found
            ELSE Append(found, [node |-> next.node, hops |-> hops])
        Expand(found, i) ==
            IF i > Len(found) \/ found[i].hops >= q.hops THEN found
            ELSE FoldLeft(LAMBDA f, next : Add(found[i].hops + 1, f, next), found,
                          Adjacent(edges, found[i].node, q.types, q.direction)) IN
    StoppedAt(Tail(FoldLeft(Expand, <<[node |-> q.node, hops |-> 0]>>,
                            [i \in 1 .. Cardinality(Nodes) |-> i])), q.limit)

\* Mutant: a hit may be one hop past the bound.
MayHit_Expandable(q, path) == Len(path) <= q.max_hops

\* A completed path counts if it is within the bound; "path" leads to its last edge.
MayHit(q, path) == Len(path) + 1 <= q.max_hops

\* Depth first, what was found last before the rest: a limited answer may leave out the
\* shortest.
MemoryPaths(edges, q) ==
    LET Paths == Seq(ToSet(edges))
        search[stack \in Seq(Paths), hits \in Seq(Paths)] ==
            IF stack = <<>> THEN [rows |-> hits, truncated |-> FALSE]
            ELSE LET path == Last(stack)
                     onward == SelectSeq(Adjacent(edges, End(q.source, path), q.types, "out"),
                                   LAMBDA next : next.node \notin Visited(q.source, path))
                     Then(nexts) == [i \in DOMAIN nexts |-> Append(path, nexts[i].edge)]
                     arrived == Then(SelectSeq(onward, LAMBDA next : next.node = q.target))
                     further == Then(SelectSeq(onward, LAMBDA next : next.node # q.target))
                     found == StoppedAt(hits \o (IF MayHit(q, path) THEN arrived ELSE <<>>), q.limit) IN
                 IF found.truncated THEN found
                 ELSE search[Front(stack) \o (IF Len(path) + 1 <= q.max_hops THEN further ELSE <<>>),
                             found.rows] IN
    search[<< <<>> >>, <<>>]

------------------------------------------------------------------------------
(* SQLite and Neo4j sort what they find and then cut it at the limit: all  *)
(* that they find, as a set.                                               *)

\* SQLiteGraphStore: the nodes that a walk of each length reaches, by the fewest steps; the
\* first step is taken whatever the bound.
SqliteNeighbourhood(edges, q) ==
    LET steps == Steps(edges, q.types, q.direction)
        walk[depth \in Nat] ==
            IF depth = 0 THEN {q.node}
            ELSE LET reached == walk[depth - 1] IN
                 {s[2] : s \in {t \in steps : t[1] \in reached}}
        depths == 1 .. AtLeastOne(q.hops) IN
    {[node |-> n, hops |-> Min({d \in depths : n \in walk[d]})] :
        n \in (UNION {walk[d] : d \in depths}) \ {q.node}}

\* The paths to the target, of edges by which a path "May" go on
PathsBy(edges, q, hops, May(_, _)) ==
    LET paths[k \in Nat] ==
            IF k = 0 THEN {<<>>}
            ELSE {Append(x[1], x[2]) : x \in {y \in paths[k - 1] \X edges :
                     /\ Typed(q.types, y[2]) /\ y[2].source = End(q.source, y[1])
                     /\ May(y[1], y[2])}} IN
    {p \in UNION {paths[k] : k \in 1 .. hops} : End(q.source, p) = q.target}

SqlitePaths(edges, q) ==
    LET ToNew(path, e) == e.target \notin Visited(q.source, path) IN
    PathsBy(edges, q, q.max_hops, ToNew)

\* Neo4jGraphStore: a pattern uses no relationship twice, but may come back to a node, the
\* first one too, and gives a node once for each length.
NeoNeighbourhood(edges, q) ==
    LET Ends(e) == (IF q.direction = "in" THEN {} ELSE {<<e.source, e.target>>})
                   \cup (IF q.direction = "out" THEN {} ELSE {<<e.target, e.source>>})
        trails[k \in Nat] ==
            IF k = 0 THEN {<<q.node, {}>>}
            ELSE UNION {{<<s[2], x[1][2] \cup {x[2]}>> : s \in {r \in Ends(x[2]) : r[1] = x[1][1]}} :
                        x \in {y \in trails[k - 1] \X edges :
                                 Typed(q.types, y[2]) /\ y[2] \notin y[1][2]}} IN
    UNION {{[node |-> t[1], hops |-> k] : t \in trails[k]} : k \in 1 .. q.hops}

NeoPaths(edges, q) ==
    LET ByNew(path, e) == e \notin ToSet(path) IN
    PathsBy(edges, q, AtLeastOne(q.max_hops), ByNew)

\* _aggregate, of each of them: the count of each group
Counts(edges, Key(_)) ==
    {<<k, Cardinality({e \in edges : Key(e) = k})>> : k \in {Key(e) : e \in edges}}

------------------------------------------------------------------------------
Neighbourhoods ==
    [node : Nodes, types : {{}, {"INVOKES"}}, hops : 1 .. 3, direction : {"out", "in", "both"},
     limit : {1, 2, 99}]
BoundedPaths ==
    [source : Nodes, target : Nodes, types : {{}, {"INVOKES"}}, max_hops : 0 .. 3, limit : {1, 99}]

\* Where a path leads, edge by edge
Places(paths) == {[i \in DOMAIN p |-> p[i].target] : p \in paths}

\* Memory and SQLite answer alike, although one searches a list and one runs a recursive
\* query over walks: the nodes within some hops and how far they are, the nearest first if
\* not all are asked for; the paths without a cycle; how many edges there are of each type.
\* Not alike: hops of 0 (SQLite answers 1) and which paths a limited answer gives (in
\* memory not the shortest).
SearchesAgree ==
    LET held == ToSet(memory)
        Type(e) == e.type IN
    held # {} /\ EdgeKeys(held) = EdgeKeys(sqlite) =>
        /\ \A q \in Neighbourhoods :
              LET answer == MemoryNeighbourhood(memory, q)
                  rows == SqliteNeighbourhood(sqlite, q) IN
              /\ ToSet(answer.rows) \subseteq rows
              /\ ~answer.truncated => ToSet(answer.rows) = rows
              /\ \A r \in ToSet(answer.rows), s \in rows \ ToSet(answer.rows) : r.hops <= s.hops
        /\ \A q \in BoundedPaths :
              LET answer == MemoryPaths(memory, q)
                  paths == Places(SqlitePaths(sqlite, q)) IN
              /\ Places(ToSet(answer.rows)) \subseteq paths
              /\ ~answer.truncated => Places(ToSet(answer.rows)) = paths
        /\ Counts(sqlite, Type) = Counts(held, Type) /\ Len(memory) = Cardinality(held)

\* So do SQLite and Neo4j, although a pattern matches trails and knows an edge once for
\* each resolver: of the patterns that end at a node the shortest are as long as its
\* shortest walk, those that come to no node twice are the paths, and what is counted are
\* edges that differ in their ends or their type, whatever was migrated.  Not alike: hops
\* of 0, cycles and what is counted in Neo4j itself.
PatternsAgree ==
    EdgeKeys(neo) = EdgeKeys(sqlite) =>
        /\ \A q \in Neighbourhoods :
              LET patterns == NeoNeighbourhood(neo, q) IN
              SqliteNeighbourhood(sqlite, q) =
                  {r \in patterns : r.node # q.node /\
                      \A s \in patterns : s.node = r.node => s.hops >= r.hops}
        /\ \A q \in BoundedPaths :
              Places(SqlitePaths(sqlite, q)) =
                  {p \in Places(NeoPaths(neo, q)) :
                      Len(p) <= q.max_hops /\ IsInjective(<<q.source>> \o p)}
        /\ Counts(sqlite, LAMBDA e : e.type) = Counts(EdgeKeys(neo), LAMBDA k : k[2])

\* The stores answer alike what they hold alike: "a SQLite or Neo4j implementation that
\* disagrees ... is wrong" (test_memory_store.py:3-5).
StoresAgree == SearchesAgree /\ PatternsAgree

Impacts == [node : Nodes, types : {{}, {"INVOKES"}}, hops : 1 .. 3, minimum : {0, 60},
            limit : {1, 99}]

\* The tools of one reader do not contradict one another, nor the stores that hold the
\* same edges ("the same question answered over the in-memory shape", traverse.py:3-5).
\* Whoever consumes a node is impacted by it at one hop and is its neighbour; whoever is
\* impacted at some distance has a path of that length and none shorter, of dependence
\* edges that are sure enough, and its confidence is that of the strongest such path; what
\* is left out of a limited answer is no nearer than what is in it.
ToolsAgree ==
    memory # <<>> =>
    LET edges == ToSet(memory)
        Everyone(n, types, hops, direction) ==
            [node |-> n, types |-> types, hops |-> hops, direction |-> direction, limit |-> 99]
        Sources(set) == {e.source : e \in set}
        Product(path) == FoldLeft(LAMBDA c, e : c * e.confidence, 1, path) IN
    /\ \A q \in {r \in Neighbourhoods : r.limit # 2} :
          LET graph == BoundedNeighborhood(edges, q)
              rows == SqliteNeighbourhood(Served(edges), q)
              near == {n \in DOMAIN graph.distances : n # q.node} IN
          /\ {[node |-> n, hops |-> graph.distances[n]] : n \in near} \subseteq rows
          /\ graph.total_neighbors = Cardinality(rows)
          /\ Cardinality(near) = Min({q.limit, Cardinality(rows)})
          /\ \A n \in near, r \in rows : r.node \notin near => graph.distances[n] <= r.hops
          /\ graph.walked \subseteq graph.induced
    /\ \A s, t \in Nodes, hops \in 1 .. 3 :
          Places(FindPaths(edges, s, t, hops, 99)) =
              Places(SqlitePaths(Served(edges),
                         [source |-> s, target |-> t, types |-> {}, max_hops |-> hops]))
    /\ \A q \in Impacts :
          LET answer == TransitiveImpact(edges, q)
              sure == {e \in Served(edges) : /\ e.type \in DependenceTypes /\ Typed(q.types, e)
                                             /\ e.confidence >= q.minimum}
              near == BoundedNeighborhood(sure, Everyone(q.node, {}, q.hops, "in")) IN
          /\ answer.total_impacted = near.total_neighbors
          /\ \A row \in answer.impacted :
                LET paths == FindPaths(sure, row.node, q.node, row.distance, 99) IN
                /\ near.distances[row.node] = row.distance
                /\ row.product = Max({Product(p) : p \in paths})
    /\ \A n \in Nodes :
          LET consumers == Sources(ConsumersOf(edges, n))
              first == TransitiveImpact(edges, [node |-> n, types |-> {}, hops |-> 1,
                                                minimum |-> 0, limit |-> 99]) IN
          /\ {row.node : row \in first.impacted} = consumers \ {n}
          /\ consumers \ {n} =
                {m \in Nodes \ {n} :
                    m \in DOMAIN BoundedNeighborhood(edges,
                                     Everyone(n, DependenceTypes, 1, "in")).distances}
          /\ LiveConsumers(edges, n) \subseteq ConsumersOf(edges, n)

\* The history of a series says of each edge exactly at which commits it was served, with
\* the gaps ("gaps are preserved", history.py:19-23), and who consumed a node is who has
\* an interval; what a branch lost is what has an interval that ends at its base.
HistoryIsPresence ==
    LET series == <<ToSet(memory), neo, sqlite>>
        history == EdgeHistory(series)
        There(k, i) == i \in DOMAIN series /\ k \in EdgeKeys(Served(series[i])) IN
    /\ \A k \in UNION {EdgeKeys(Served(series[i])) : i \in DOMAIN series} :
          ToSet(history[k]) =
              {v \in [first : DOMAIN series, last : DOMAIN series] :
                  /\ v.first <= v.last /\ \A i \in v.first .. v.last : There(k, i)
                  /\ ~There(k, v.first - 1) /\ ~There(k, v.last + 1)}
    /\ \A n \in Nodes :
          LET report == ConsumersOverTime(series, n)
              ever == {k \in DOMAIN history : k[3] = n /\ k[2] \in DependenceTypes} IN
          /\ report.current \cup report.former = {k[1] : k \in ever}
          /\ report.current = {k[1] : k \in {j \in ever : Last(history[j]).last = Len(series)}}
    /\ EdgeKeys(Removed(series[2], series[3])) =
          {k \in DOMAIN history : \E i \in DOMAIN history[k] : history[k][i].last = 2}
================================================================================
