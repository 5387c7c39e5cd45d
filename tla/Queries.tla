--------------------------------- MODULE Queries ---------------------------------
(***************************************************************************)
(* What a reader asks of the edges of a link run (mcp_tools.py, facade.py, *)
(* cli_inspect.py; traverse.py, neighborhood.py, impact_traverse.py,       *)
(* history.py, impact.py and contract_drift.py under services/linker), and *)
(* what kind of answer it is told it got (status_classify.py).  An edge    *)
(* has a source, a type, a target, a confidence and a status; those that   *)
(* two commits are compared by also have evidence and the repositories at  *)
(* either end.  Left out: descriptions, the order of equal rows, rounding, *)
(* service names that resolve to two nodes, and refused arguments.         *)
(***************************************************************************)
EXTENDS Integers, Sequences, FiniteSets, SequencesExt

EdgeKey(e) == <<e.source, e.type, e.target>>
EdgeKeys(edges) == {EdgeKey(e) : e \in edges}

\* No types are all of them.
Typed(types, e) == types = {} \/ e.type \in types

\* A path is the sequence of its edges.
Visited(source, path) == {source} \cup {path[i].target : i \in DOMAIN path}
End(source, path) == IF path = <<>> THEN source ELSE Last(path).target

\* The ways along an edge
Steps(edges, types, direction) ==
    {<<e.source, e.target>> : e \in {d \in edges : Typed(types, d) /\ direction # "in"}}
    \cup {<<e.target, e.source>> : e \in {d \in edges : Typed(types, d) /\ direction # "out"}}

\* DEPENDENCE_TYPES
DependenceTypes ==
    {"BUILT_FROM", "CALLS_SERVICE", "CONSUMES_FROM", "DEPENDS_ON", "DEPENDS_ON_REPO",
     "EXPOSES", "INVOKES", "PUBLISHES_TO", "READS_FROM", "REGISTERS_WEBHOOK", "ROUTES_TO",
     "UI_CALLS", "WRITES_TO"}

Served(edges) == {e \in edges : e.status = "active"}
Dependence(edges) == {e \in Served(edges) : e.type \in DependenceTypes}

\* The n first of a set; of those that none is before, some.
Foremost(n, set, Before(_, _)) ==
    CHOOSE some \in SUBSET set :
        /\ Cardinality(some) = Min({n, Cardinality(set)})
        /\ \A x \in some, y \in set \ some : ~Before(y, x)

\* GraphTools.consumers_of: who depends on a node, by which edges
ConsumersOf(edges, node) == {e \in Dependence(edges) : e.target = node}

\* find_paths: breadth first over the served edges, through no node twice and not past
\* the target
FindPaths(edges, source, target, max_hops, limit) ==
    LET paths[k \in Nat] ==
            IF k = 0 THEN {<<>>}
            ELSE UNION {{Append(path, e) : e \in {d \in Served(edges) :
                                /\ d.source = End(source, path)
                                /\ d.target \notin Visited(source, path)}} :
                        path \in {p \in paths[k - 1] : p = <<>> \/ End(source, p) # target}}
        Shorter(p, r) == Len(p) < Len(r) IN
    Foremost(limit,
             {p \in UNION {paths[k] : k \in 1 .. max_hops} : End(source, p) = target}, Shorter)

\* bounded_neighborhood, of [node, types, hops, direction, limit]: how far each node is,
\* the edges walked, and all those between the nodes that are listed
BoundedNeighborhood(edges, q) ==
    LET active == {e \in Served(edges) : Typed(q.types, e)}
        steps == Steps(active, {}, q.direction)
        within[k \in Nat] ==
            IF k = 0 THEN {q.node}
            ELSE LET nearer == within[k - 1] IN
                 nearer \cup {s[2] : s \in {t \in steps : t[1] \in nearer}}
        reached == within[q.hops]
        expanded == within[q.hops - 1]
        Distance(n) == Min({k \in 0 .. q.hops : n \in within[k]})
        others == reached \ {q.node}
        Nearer(n, m) == Distance(n) < Distance(m)
        listed == {q.node} \cup Foremost(q.limit, others, Nearer)
        Among(set) == {e \in active : {e.source, e.target} \subseteq set} IN
    [distances |-> [n \in listed |-> Distance(n)],
     walked |-> {e \in Among(listed) : \/ q.direction # "in" /\ e.source \in expanded
                                       \/ q.direction # "out" /\ e.target \in expanded},
     induced |-> Among(listed),
     total_neighbors |-> Cardinality(others),
     total_induced |-> Cardinality(Among(reached)),
     truncated |-> Cardinality(others) > q.limit]

\* Mutant: the first path to a dependent stays, though another is stronger.
Strongest_First(offers) ==
    {CHOOSE o \in offers : o.node = n : n \in {o.node : o \in offers}}

\* Of several paths of one length to a dependent, the strongest
Strongest(offers) == {o \in offers : \A p \in offers : p.node = o.node => p.product <= o.product}

\* transitive_impact, of [node, types, hops, minimum, limit]: who depends on a node over
\* how many edges, and how sure that is (a product of percentages); each edge is sure
\* enough by itself.
TransitiveImpact(edges, q) ==
    LET incoming == {e \in Dependence(edges) : Typed(q.types, e) /\ e.confidence >= q.minimum}
        best[k \in Nat] ==
            IF k = 0 THEN {[node |-> q.node, distance |-> 0, product |-> 1]}
            ELSE LET nearer == best[k - 1]
                     known == {r.node : r \in nearer}
                     offers == {[node |-> x[2].source, distance |-> k,
                                 product |-> x[1].product * x[2].confidence] :
                                x \in {y \in nearer \X incoming :
                                         /\ y[1].distance = k - 1 /\ y[2].target = y[1].node
                                         /\ y[2].source \notin known}} IN
                 nearer \cup Strongest(offers)
        rows == {r \in best[q.hops] : r.distance > 0}
        Before(r, s) == \/ r.distance < s.distance
                        \/ r.distance = s.distance /\ r.product > s.product IN
    [impacted |-> Foremost(q.limit, rows, Before),
     total_impacted |-> Cardinality(rows),
     truncated |-> Cardinality(rows) > q.limit]

------------------------------------------------------------------------------
(* The same graph at several commits: a series of sets of edges.           *)

\* Mutant: an edge that comes back goes on where it stopped.
Goes_Spanning(interval, i) == TRUE

\* An interval is still open if the edge was there the last time.
Goes(interval, i) == interval.last = i - 1

\* An edge is seen at the i-th commit: it goes on, or it is back.
Seen(intervals, i) ==
    IF Goes(Last(intervals), i)
    THEN [intervals EXCEPT ![Len(intervals)].last = i]
    ELSE Append(intervals, [first |-> i, last |-> i])
See(history, keys, i) ==
    [k \in DOMAIN history \cup keys |->
        IF k \notin DOMAIN history THEN <<[first |-> i, last |-> i]>>
        ELSE IF k \in keys THEN Seen(history[k], i) ELSE history[k]]

\* edge_history: the intervals of commits at which each edge was served
EdgeHistory(series) ==
    LET upto[i \in Nat] ==
            IF i = 0 THEN [k \in {} |-> <<>>]
            ELSE See(upto[i - 1], EdgeKeys(Served(series[i])), i) IN
    upto[Len(series)]

\* consumers_over_time: who depended on a node, now and before
ConsumersOverTime(series, node) ==
    LET At(i) == {e.source : e \in ConsumersOf(series[i], node)}
        current == At(Len(series)) IN
    [found |-> \E i \in DOMAIN series : \E e \in Served(series[i]) : e.target = node,
     current |-> current,
     former |-> (UNION {At(i) : i \in DOMAIN series}) \ current]

\* changed_between: what the branch lost
Removed(base, head) == {e \in Served(base) : EdgeKey(e) \notin EdgeKeys(Served(head))}

\* Mutant: the consumer's own change is looked for at the provider.
Blocking_Provider(e, changed) == changed = {} \/ {e.from, e.to} \subseteq changed

\* Break.caused_by_this_change: without the changed repositories, every loss is
Blocking(e, changed) == changed = {} \/ (e.to \in changed /\ e.from \notin changed)

\* impact: what became of a lost edge, given the repositories that the branch changed
Loss(e, changed) ==
    CASE e.evidence = {} -> "uncitable"
      [] changed # {} /\ "" \in {e.from, e.to} -> "unattributable"
      [] changed # {} /\ {e.from, e.to} \cap changed = {} -> "unexplained"
      [] Blocking(e, changed) -> "blocking"
      [] OTHER -> "break"

\* contract_drift: the operations a provider dropped that are still called
Drifted(base, head) ==
    LET Shapes(claims, direction) ==
            {c.path : c \in {d \in claims : d.kind = "http" /\ d.direction = direction}} IN
    (Shapes(base, "provides") \ Shapes(head, "provides")) \cap Shapes(head, "consumes")

\* deprecation_report: who still calls a deprecated contract
LiveConsumers(edges, contract) ==
    {e \in Served(edges) : e.type \in {"INVOKES", "UI_CALLS"} /\ e.target = contract}
================================================================================
