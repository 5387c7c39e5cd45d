-------------------------------- MODULE Linking --------------------------------
(***************************************************************************)
(* Two hosts of the linker: one that relinks incrementally while claims    *)
(* and decisions change (services/linker/incremental.py), and the server,  *)
(* whose operator reviews edges (routes/links.py) while a link run loads   *)
(* the decisions and writes its result.  Of the first, two link runs also  *)
(* say what a branch breaks (cli_inspect.py).                              *)
(***************************************************************************)
EXTENDS LinkPass, Queries

CONSTANTS
    Estate,          \* the claims there may be
    First,           \* those of the first link
    Reviewed,        \* bound: the edges (their Triple) an operator reviews
    MaxChanges,      \* bound: how many claims change
    MaxGiven,        \* bound: how many decisions the incremental host is given
    MaxDecisions     \* bound: how many decisions an operator takes

ASSUME LinkingAssumption ==
    /\ First \subseteq Estate /\ IsFiniteSet(First)
    /\ \A c \in Estate : c.repo # ""      \* "" is no repository
    /\ \A c, d \in First : c.id = d.id => c = d
    /\ MaxChanges \in Nat /\ MaxGiven \in Nat /\ MaxDecisions \in Nat

VARIABLES
    host,            \* "incremental" or "server"
    claims,          \* the claims in the graph
    prior_claims,    \* those of the latest result
    result,          \* its edges: made by the latest run, and kept from before
    promotions,      \* promotions.yml: the latest decision on each edge
    under,           \* the promotions of every run since the last full one
    changes, decided,
    run,             \* "idle", "floored" or "final": where the server's link run is
    edges,           \* what it is about to write
    due,             \* the decisions recorded when it began
    touched,         \* the edges reviewed since, or just then
    blind,           \* did it load the decisions while they were being written?
    route            \* where review_decide is, and with which decision

hostVars == <<claims, prior_claims, under, changes>>
serverVars == <<run, edges, due, touched, blind, route>>
linkingVars == <<host, hostVars, serverVars, result, promotions, decided>>

NoDecisions == [t \in {} |-> "promote"]
NoReview == [at |-> "none", triple |-> <<>>, decision |-> "promote"]
Edges == result.made \cup result.kept
Reviewable == {e \in Edges : Triple(e) \in Reviewed}
Decide(decisions, triple, decision) ==
    [t \in DOMAIN decisions \cup {triple} |-> IF t = triple THEN decision ELSE decisions[t]]

LinkingInit ==
    /\ host \in {"incremental", "server"}
    /\ claims = First
    /\ prior_claims = First
    /\ result = [made |-> Link(First, NoDecisions), kept |-> {}]
    /\ promotions = NoDecisions
    /\ under = {NoDecisions}
    /\ changes = 0 /\ decided = 0
    /\ run = "idle" /\ edges = {} /\ due = NoDecisions /\ touched = {} /\ blind = FALSE
    /\ route = NoReview

------------------------------------------------------------------------------
\* An ingest drops a claim, adds one, or finds its evidence elsewhere.
Change ==
    /\ host = "incremental" /\ changes < MaxChanges
    /\ \E c \in Estate :
          claims' = IF c \in claims THEN claims \ {c}
                    ELSE {d \in claims : d.id # c.id} \cup {c}
    /\ changes' = changes + 1
    /\ UNCHANGED <<host, prior_claims, under, serverVars, result, promotions, decided>>

\* The next run of the host is given one more decision.
Given ==
    /\ host = "incremental" /\ decided < MaxGiven
    /\ \E e \in Reviewable, d \in {"promote", "reject"} :
          promotions' = Decide(promotions, Triple(e), d)
    /\ decided' = decided + 1
    /\ UNCHANGED <<host, hostVars, serverVars, result>>

HostRelinks ==
    /\ host = "incremental"
    /\ result' = Relink(claims, prior_claims, Edges, promotions)
    /\ under' = (IF FullNeeded(claims, prior_claims) THEN {} ELSE under) \cup {promotions}
    /\ prior_claims' = claims
    /\ UNCHANGED <<host, claims, changes, serverVars, promotions, decided>>

------------------------------------------------------------------------------
\* The server's link run, up to the floor.
RunResolves ==
    /\ host = "server" /\ run = "idle"
    /\ edges' = Resolved(claims)
    /\ due' = promotions
    /\ touched' = {route.triple}
    /\ run' = "floored"
    /\ UNCHANGED <<host, hostVars, blind, route, result, promotions, decided>>

\* load_promotions: while review_decide dumps them, the file is empty or unreadable,
\* and the run goes on without decisions.
RunLoads ==
    /\ run = "floored"
    /\ blind' = (route.at = "dump")
    /\ edges' = FinalizeEdges(edges, IF blind' THEN NoDecisions ELSE promotions)
    /\ run' = "final"
    /\ UNCHANGED <<host, hostVars, due, touched, route, result, promotions, decided>>

\* write_linker_edges, with the status each edge has in the result, and
\* delete_stale_linker_edges
RunWrites ==
    /\ run = "final"
    /\ result' = [made |-> edges, kept |-> {}]
    /\ run' = "idle"
    /\ UNCHANGED <<host, hostVars, edges, due, touched, blind, route, promotions, decided>>

\* review_decide sets the status of the edge that is served,
RouteSets ==
    /\ host = "server" /\ route.at = "none" /\ decided < MaxDecisions
    /\ \E e \in Reviewable, d \in {"promote", "reject"} :
          /\ route' = [at |-> "append", triple |-> Triple(e), decision |-> d]
          /\ touched' = touched \cup {Triple(e)}
          /\ result' = [result EXCEPT !.made =
                {IF Triple(f) # Triple(e) THEN f
                 ELSE [f EXCEPT !.status = IF d = "promote" THEN "active" ELSE "rejected"] :
                    f \in @}]
    /\ decided' = decided + 1
    /\ UNCHANGED <<host, hostVars, run, edges, due, blind, promotions>>

\* append_promotion reads the file and opens it for writing, which empties it,
RouteOpens ==
    /\ route.at = "append"
    /\ route' = [route EXCEPT !.at = "dump"]
    /\ UNCHANGED <<host, hostVars, run, edges, due, touched, blind, result, promotions, decided>>

\* and dumps what it read, with the new decision at the end.
RouteDumps ==
    /\ route.at = "dump"
    /\ promotions' = Decide(promotions, route.triple, route.decision)
    /\ route' = NoReview
    /\ UNCHANGED <<host, hostVars, run, edges, due, touched, blind, result, decided>>

LinkingNext ==
    \/ Change \/ Given \/ HostRelinks
    \/ RunResolves \/ RunLoads \/ RunWrites
    \/ RouteSets \/ RouteOpens \/ RouteDumps

LinkingSpec == LinkingInit /\ [][LinkingNext]_linkingVars

------------------------------------------------------------------------------
\* Whatever changed since, in whatever order, an incremental run finds exactly the
\* edges a full link finds: none is missing and none is left of claims that went
\* (incremental.py:31-32).
RelinkFindsTheSame ==
    host = "incremental" /\ claims = prior_claims =>
        Triples(Edges) = Triples(Link(claims, promotions))

\* Two calls of one file that fuse into one edge, which may be kept
Doubled ==
    LET calls == {e \in Resolved(claims) : e.type = "INVOKES" /\ e.detected_by # {"grpc"}} IN
    Cardinality(Triples(calls)) # Cardinality(calls)

\* And it finds them as a full link does, with the same evidence, confidence and
\* status, as long as no decision came in since the kept edges were made, which they
\* would not follow, and no rollup counts two calls of one file, of which a kept edge
\* is only one.
RelinkIsLink ==
    host = "incremental" /\ claims = prior_claims /\ ~Doubled /\ under = {promotions} =>
        Edges = Link(claims, promotions)

\* What the operator decided before a run began stands when the run is over, whatever
\* the resolvers made of the edge again ("promotions survive every relink, rejections
\* stay rejected", edge_policy.py:47-48), unless the edge is reviewed again meanwhile
\* or another review was being written just when the run loaded the decisions.
DecisionsSurvive ==
    host = "server" /\ run = "idle" /\ ~blind =>
        \A e \in Edges :
            Triple(e) \in DOMAIN due \ touched =>
                e.status = IF due[Triple(e)] = "promote" THEN "active" ELSE "rejected"

\* The two reports on a branch agree, although one compares claims and the other the edges
\* of two link runs: if it drops an operation that a repository still calls, and the call
\* was served, then the call is lost, and the loss is the branch's fault and not the
\* caller's ("a consumer that changed its own code and lost an edge did that to itself",
\* impact.py:50-52).  A call that was only a candidate, or rejected, was not depended on.
DriftBlocks ==
    host = "incremental" /\ claims = prior_claims /\ under = {promotions} =>
        \A p \in Of(claims, "http", "provides") :
            LET left == claims \ {p}
                head == Link(left, promotions)
                contract == Contract(Context(claims), p) IN
            p.path \in Drifted(claims, left) =>
                \A e \in LiveConsumers(Edges, contract) :
                    e.from # p.repo =>
                        e \in Removed(Edges, head) /\ Loss(e, {p.repo}) = "blocking"
================================================================================
