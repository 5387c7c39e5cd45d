-------------------------------- MODULE LinkPass --------------------------------
(***************************************************************************)
(* What a link run computes (services/linker): resolvers join claims into  *)
(* edges, rollups lift them to services and repositories, corroborating    *)
(* edges fuse, and the floor and the operator's decisions say which are    *)
(* served; and what an incremental run (incremental.py) computes instead.  *)
(* All ten joining resolvers are here; compose and alias stand for the     *)
(* broadcast ones.  Left out: rendezvous nodes and the RESOLVED_TO edge of *)
(* every joined claim, counters, wording, gateways and aliases.            *)
(***************************************************************************)
EXTENDS Integers, FiniteSets, FiniteSetsExt

CONSTANTS
    Conf,            \* confidence.yml: the percentage of each tier
    FanoutCap,       \* how many operations one call site may match
    Floor,           \* below it an edge is a candidate
    Cap              \* what corroboration cannot exceed

ASSUME ConfidenceAssumption ==
    /\ {"alias", "exposes", "calls_service", "event_schema", "federated", "field_name"} \subseteq
           DOMAIN Conf
    /\ \A tier \in DOMAIN Conf : Conf[tier] \in 0 .. 100
    /\ Floor \in 0 .. 100 /\ Cap \in 0 .. 100 /\ FanoutCap \in Nat

\* RESOLVER_KINDS
ResolverKinds ==
    [grpc |-> {"grpcop", "grpcstub"}, http |-> {"http"}, graphql |-> {"graphqlop"},
     env |-> {"cfgread"}, topic |-> {"topic"}, dataset |-> {"dataset", "db"},
     agent |-> {"mcpop", "a2aop"}, owner |-> {"owner"}, webhook |-> {"webhook", "http"},
     operation |-> {"grpcop", "http", "topic"}]
JoinResolvers == DOMAIN ResolverKinds

\* Mutant: what has no changed claim is kept, the fusion clique too.
AlwaysRerun_None == {}

AlwaysRerun == {"env", "grpc"}

\* CORRELATION_GROUPS
Group(resolver) ==
    CASE resolver \in {"compose", "env"} -> "topology"
      [] resolver \in {"http", "rollup"} -> "http"
      [] OTHER -> resolver

------------------------------------------------------------------------------
(* Claims say [id, version, kind, direction, repo, node, callee, path,     *)
(* tier]: what a file of a repository provides, or consumes of a callee    *)
(* (a service, a server, an address); a version is the claim's evidence.   *)
(* The node of an operation and of an event is also the message they carry. *)

Of(claims, kind, direction) == {c \in claims : c.kind = kind /\ c.direction = direction}

\* linker_edge; "to" is the target's repository, where the edge names one.
Edge(resolver, type, source, target, confidence, claim, to) ==
    [type |-> type, source |-> source, target |-> target, confidence |-> confidence,
     detected_by |-> {resolver}, evidence |-> {<<claim.id, claim.version>>},
     from |-> claim.repo, to |-> to,
     weight |-> 0, min_confidence |-> confidence, status |-> "active"]

Service(repo) == <<"service", repo>>
Node(claim) == <<"node", claim.repo, claim.node>>

\* The LinkContext the broadcast resolvers and NORMALIZE leave behind: the
\* repositories whose service has a name, what manifests set variables to, and the
\* call sites' keys.
Context(claims) ==
    [services |-> {c.repo : c \in Of(claims, "svcname", "provides")},
     env_values |-> Of(claims, "cfgdef", "provides"),
     calls |-> {<<c.id, c.callee, c.path>> : c \in Of(claims, "http", "consumes")}]

\* scope_for, and the contract a provider's claim mints under it
Scope(ctx, repo) == IF repo \in ctx.services THEN Service(repo) ELSE <<"repo", repo>>
Contract(ctx, claim) == <<"http", Scope(ctx, claim.repo), claim.path>>

Answers(ctx, provider, caller) ==
    provider.path = caller.path /\ Scope(ctx, provider.repo) = Service(caller.callee)

\* One service calls another, if both were minted: record_service_call and
\* materialize_pending, and what compose emits itself.
CallsBetween(ctx, resolver, source, target, tier, claim) ==
    IF {source, target} \subseteq ctx.services /\ source # target
    THEN {Edge(resolver, "CALLS_SERVICE", Service(source), Service(target), Conf[tier], claim, "")}
    ELSE {}

\* An edge from the claim's file, and the same from its service if that has a name
FromSite(ctx, resolver, type, target, claim) ==
    {Edge(resolver, type, source, target, Conf[claim.tier], claim, "") :
        source \in {Node(claim)} \cup {Service(r) : r \in {claim.repo} \cap ctx.services}}

\* r0_alias and r1_compose
Alias(ctx, claims) ==
    {Edge("alias", "BUILT_FROM", Service(c.repo), <<"repo", c.repo>>, Conf["alias"], c, "") :
        c \in Of(claims, "svcname", "provides")}
Compose(ctx, claims) ==
    UNION {CallsBetween(ctx, "compose", c.repo, c.callee, c.tier, c) :
              c \in Of(claims, "svcname", "consumes")}
Broadcast(ctx, claims) == Alias(ctx, claims) \cup Compose(ctx, claims)

\* r7_http, which joins the call sites that NORMALIZE keyed
Http(ctx, claims) ==
    LET providers == Of(claims, "http", "provides") IN
    {Edge("http", "EXPOSES", Node(p), Contract(ctx, p), Conf["exposes"], p, "") : p \in providers}
    \cup {Edge("http", "INVOKES", Node(m[1]), Contract(ctx, m[2]), Conf[m[1].tier], m[1],
               m[2].repo) :
            m \in {n \in Of(claims, "http", "consumes") \X providers :
                     /\ <<n[1].id, n[1].callee, n[1].path>> \in ctx.calls
                     /\ Answers(ctx, n[2], n[1])}}

\* r13_webhook: the one contract a named service registers for
Webhook(ctx, claims) ==
    {Edge("webhook", "REGISTERS_WEBHOOK", Service(m[1].repo), Contract(ctx, m[2]),
          Conf[m[1].tier], m[1], m[2].repo) :
        m \in {n \in Of(claims, "webhook", "consumes") \X Of(claims, "http", "provides") :
                 /\ Answers(ctx, n[2], n[1]) /\ n[1].repo \in ctx.services
                 /\ \A p \in Of(claims, "http", "provides") :
                        Answers(ctx, p, n[1]) => p = n[2]}}

\* r5_grpc: a stub binds to every operation of the service it names, and its service
\* calls that one.
GrpcCalls(ctx, stubs) ==
    UNION {CallsBetween(ctx, "grpc", s.repo, s.callee, "calls_service", s) : s \in stubs}
Grpc(ctx, claims) ==
    LET operations == Of(claims, "grpcop", "provides")
        Bound(stub) == {o \in operations : o.callee = stub.callee}
        stubs == {c \in claims : /\ c.kind = "grpcstub" /\ Bound(c) # {}
                                 /\ Cardinality(Bound(c)) <= FanoutCap} IN
    {Edge("grpc", "DECLARES_CONTRACT", Node(o), <<"grpc", o.id>>, Conf[o.tier], o, "") :
        o \in operations}
    \cup {Edge("grpc", IF m[1].direction = "provides" THEN "EXPOSES" ELSE "INVOKES",
               Node(m[1]), <<"grpc", m[2].id>>, Conf[m[1].tier], m[1], m[2].repo) :
            m \in {n \in stubs \X operations : n[2] \in Bound(n[1])}}
    \cup GrpcCalls(ctx, Of(stubs, "grpcstub", "consumes"))

\* r8_graphql: a field that several repositories declare, with no federation, is worth
\* less the more they are.
Graphql(ctx, claims) ==
    LET fields == Of(claims, "graphqlop", "provides")
        Found(c) == {f \in fields : f.path = c.path}
        Repos(c) == {f.repo : f \in Found(c)}
        Worth(c) == IF \E f \in Found(c) : f.tier = "federated" THEN Conf["federated"]
                    ELSE Conf["field_name"] \div Cardinality(Repos(c)) IN
    {Edge("graphql", "EXPOSES", Node(f), <<"graphql", f.path>>, Conf["exposes"], f, "") :
        f \in fields}
    \cup {Edge("graphql", "INVOKES", Node(c), <<"graphql", c.path>>, Worth(c), c,
               IF Cardinality(Repos(c)) = 1 THEN (CHOOSE r \in Repos(c) : TRUE) ELSE "") :
            c \in {d \in Of(claims, "graphqlop", "consumes") :
                     Found(d) # {} /\ Cardinality(Found(d)) <= FanoutCap}}

\* r11_agent: the tools of an MCP server that one repository registers, and the skills
\* of an agent at an address
Agent(ctx, claims) ==
    LET tools == {t \in Of(claims, "mcpop", "provides") :
                    \A u \in Of(claims, "mcpop", "provides") :
                        u.callee = t.callee => u.repo = t.repo}
        skills == Of(claims, "a2aop", "provides")
        Tools(c) == {t \in tools : t.callee = c.callee} IN
    {Edge("agent", "EXPOSES", Node(t), <<t.kind, t.id>>, Conf[t.tier], t, "") :
        t \in tools \cup skills}
    \cup {Edge("agent", "INVOKES", Node(m[1]), <<m[2].kind, m[2].id>>, Conf[m[1].tier], m[1],
               m[2].repo) :
            m \in {n \in Of(claims, "mcpop", "consumes") \X tools :
                     n[2] \in Tools(n[1]) /\ Cardinality(Tools(n[1])) <= FanoutCap}
                  \cup {n \in Of(claims, "a2aop", "consumes") \X skills :
                          n[2].path = n[1].path}}

\* r6_topic: a literal name is itself, a variable is what every manifest that sets it
\* agrees on.
Topic(ctx, claims) ==
    LET Names(c) == IF c.callee = "literal" THEN {c.path}
                    ELSE {v.callee : v \in {w \in ctx.env_values : w.path = c.path}} IN
    UNION {FromSite(ctx, "topic",
                    IF c.direction = "provides" THEN "PUBLISHES_TO" ELSE "CONSUMES_FROM",
                    <<"topic", CHOOSE n \in Names(c) : TRUE>>, c) :
              c \in {d \in claims : d.kind = "topic" /\ Cardinality(Names(d)) = 1}}

SameOperation(o, target, tier, event) ==
    [Edge("operation", "SAME_OPERATION", <<"grpc", o.id>>, target, Conf[tier], o, "")
        EXCEPT !.evidence = @ \cup event]

\* r14_operation: the one contract a gRPC operation is bound to, and the one operation
\* whose output a topic's schema names
Operation(ctx, claims) ==
    LET operations == Of(claims, "grpcop", "provides")
        Bound(o) == {Contract(ctx, p) : p \in {q \in Of(claims, "http", "provides") :
                                                 q.path = o.path}}
        Producers(c) == {o \in operations : o.node = c.node} IN
    {SameOperation(o, CHOOSE b \in Bound(o) : TRUE, "exposes", {}) :
        o \in {p \in operations : Cardinality(Bound(p)) = 1}}
    \cup {SameOperation(m[2], <<"topic", m[1].path>>, "event_schema", {<<m[1].id, m[1].version>>}) :
            m \in {n \in claims \X operations :
                     n[1].kind = "topic" /\ Producers(n[1]) = {n[2]}}}

\* r10_dataset: a table that several repositories spell alike is one only if exactly one
\* of them declares it.
Dataset(ctx, claims) ==
    LET sites == {c \in claims : c.kind \in {"dataset", "db"}}
        Alike(c) == {d \in sites : d.path = c.path}
        Repos(set) == Cardinality({d.repo : d \in set}) IN
    UNION {FromSite(ctx, "dataset",
                    IF c.direction = "provides" THEN "WRITES_TO" ELSE "READS_FROM",
                    <<"dataset", c.path>>, c) :
              c \in {d \in sites : \/ Repos(Alike(d)) = 1
                                   \/ Repos({e \in Alike(d) : e.tier = "declared"}) = 1}}

\* r12_owner: the repository's team, by the first claim that names it, and the entity's
Owner(ctx, claims) ==
    LET owners == Of(claims, "owner", "provides")
        FirstOf(c) == CHOOSE o \in owners : o.repo = c.repo /\ o.path = c.path IN
    {Edge("owner", "OWNED_BY", <<"repo", c.repo>>, <<"team", c.path>>, Conf[c.tier], c, "") :
        c \in {FirstOf(o) : o \in owners}}
    \cup {Edge("owner", "OWNED_BY", Service(c.callee), <<"team", c.path>>, Conf[c.tier], c, "") :
            c \in {o \in owners : o.callee \in ctx.services}}

\* r9_env: the service that the variable's manifests name, those of the reader's own
\* repository before others, if they agree
Env(ctx, claims) ==
    LET Set(c) == {v \in ctx.env_values : v.path = c.path}
        Own(c) == {v \in Set(c) : v.repo = c.repo}
        Hosts(c) == {v.callee : v \in IF Own(c) # {} THEN Own(c) ELSE Set(c)} IN
    UNION {CallsBetween(ctx, "env", c.repo, CHOOSE h \in Hosts(c) : TRUE, c.tier, c) :
              c \in {d \in Of(claims, "cfgread", "consumes") : Cardinality(Hosts(d)) = 1}}

\* join_pass, of the resolvers in "only"
Join(ctx, claims, only) ==
    UNION {CASE r = "http" -> Http(ctx, claims)
             [] r = "webhook" -> Webhook(ctx, claims)
             [] r = "grpc" -> Grpc(ctx, claims)
             [] r = "graphql" -> Graphql(ctx, claims)
             [] r = "agent" -> Agent(ctx, claims)
             [] r = "topic" -> Topic(ctx, claims)
             [] r = "operation" -> Operation(ctx, claims)
             [] r = "dataset" -> Dataset(ctx, claims)
             [] r = "owner" -> Owner(ctx, claims)
             [] r = "env" -> Env(ctx, claims) : r \in only}

\* What one group of edges rolls up to: an edge that weighs as many as they are.
RolledUp(type, source, target, group, from, to) ==
    [type |-> type, source |-> source, target |-> target,
     confidence |-> Max({e.confidence : e \in group}),
     detected_by |-> {"rollup"}, evidence |-> {}, from |-> from, to |-> to,
     weight |-> Cardinality(group), min_confidence |-> Min({e.confidence : e \in group}),
     status |-> "active"]

\* _calls_service: the calls between two services, as one weighted edge
CallsRollup(ctx, edges) ==
    LET Between(s, t) == {e \in edges : /\ e.type = "INVOKES" /\ e.from = s
                                        /\ e.target[1] = "http" /\ e.target[2] = Service(t)} IN
    {RolledUp("CALLS_SERVICE", Service(p[1]), Service(p[2]), Between(p[1], p[2]), p[1], p[2]) :
        p \in {q \in ctx.services \X ctx.services :
                 q[1] # q[2] /\ Between(q[1], q[2]) # {}}}

\* _depends_on_repo: every call across two repositories, of a file or of a service
DependsRollup(edges) ==
    LET Ends(e) == IF e.type = "CALLS_SERVICE" THEN <<e.source[2], e.target[2]>>
                   ELSE <<e.from, e.to>>
        calls == {e \in edges : /\ e.type \in {"INVOKES", "CALLS_SERVICE"}
                                /\ Ends(e)[2] # "" /\ Ends(e)[1] # Ends(e)[2]} IN
    {RolledUp("DEPENDS_ON_REPO", <<"repo", p[1]>>, <<"repo", p[2]>>,
              {e \in calls : Ends(e) = p}, p[1], p[2]) :
        p \in {Ends(e) : e \in calls}}

\* build_rollups
Rollups(ctx, edges) ==
    LET calls == CallsRollup(ctx, edges) IN calls \cup DependsRollup(edges \cup calls)

------------------------------------------------------------------------------
Triple(edge) == <<edge.source, edge.type, edge.target>>
Triples(edges) == {Triple(e) : e \in edges}

\* One step of the noisy-OR.
Corroborate(confidence, other) == 100 - ((100 - confidence) * (100 - other)) \div 100

\* fuse_edges: the maximum within a correlation group, noisy-OR across them.
Fused(group) ==
    LET resolvers == UNION {e.detected_by : e \in group}
        Best(g) == Max({e.confidence : e \in {d \in group : \E r \in d.detected_by : Group(r) = g}})
        any == CHOOSE e \in group : TRUE IN
    IF Cardinality(group) = 1 THEN any
    ELSE [any EXCEPT
             !.confidence = Min({Cap, FoldSet(LAMBDA g, c : Corroborate(c, Best(g)), 0,
                                              {Group(r) : r \in resolvers})}),
             !.detected_by = resolvers,
             !.evidence = UNION {e.evidence : e \in group},
             !.to = CHOOSE r \in {e.to : e \in group} : r # "" \/ \A e \in group : e.to = "",
             !.weight = MapThenSumSet(LAMBDA e : e.weight, group),
             !.min_confidence = Min({e.min_confidence : e \in group})]
FuseEdges(edges) == {Fused({e \in edges : Triple(e) = t}) : t \in Triples(edges)}

ApplyFloor(edges) ==
    {[e EXCEPT !.status = IF @ = "active" /\ e.confidence < Floor THEN "candidate" ELSE @] :
        e \in edges}

\* _apply_promotions: the latest decision on each triple
ApplyPromotions(edges, decisions) ==
    {IF Triple(e) \notin DOMAIN decisions THEN e
     ELSE [e EXCEPT !.status = IF decisions[Triple(e)] = "reject" THEN "rejected"
                               ELSE IF @ = "candidate" THEN "active" ELSE @] : e \in edges}

\* Mutant: the floor has the last word.
FinalizeEdges_FloorLast(edges, decisions) ==
    ApplyFloor(ApplyPromotions(FuseEdges(edges), decisions))

\* Fuse, then the floor, then the operator.
FinalizeEdges(edges, decisions) ==
    ApplyPromotions(ApplyFloor(FuseEdges(edges)), decisions)

\* link: every resolver over every claim
Resolved(claims) ==
    LET ctx == Context(claims)
        combined == Broadcast(ctx, claims) \cup Join(ctx, claims, JoinResolvers) IN
    combined \cup Rollups(ctx, combined)
Link(claims, decisions) == FinalizeEdges(Resolved(claims), decisions)

------------------------------------------------------------------------------
ChangedKinds(before, after) == {c.kind : c \in (before \ after) \cup (after \ before)}

\* Mutant: the side tables are not part of the digest.
BroadcastDigest_NoTables(claims) == Context(claims).calls

BroadcastDigest(claims) == <<Context(claims), Broadcast(Context(claims), claims)>>

FullNeeded(claims, prior_claims) ==
    BroadcastDigest(claims) # BroadcastDigest(prior_claims)

\* The join resolvers that run again: all of them if the broadcast state moved, else
\* those with a changed claim among their kinds.
Rerun(claims, prior_claims) ==
    IF FullNeeded(claims, prior_claims) THEN JoinResolvers
    ELSE AlwaysRerun \cup {r \in JoinResolvers :
            ResolverKinds[r] \cap ChangedKinds(prior_claims, claims) # {}}

\* join_pass(..., only=rerun)
Only(rerun) == rerun

\* relink: what was made anew, and what was kept of the result before it.
Relink(claims, prior_claims, prior, decisions) ==
    LET ctx == Context(claims)
        rerun == Rerun(claims, prior_claims)
        reduced == {c \in claims : c.kind \in UNION {ResolverKinds[r] : r \in rerun}}
        kept == {e \in prior : \E r \in JoinResolvers \ rerun : e.detected_by = {r}}
        combined == Broadcast(ctx, claims) \cup Join(ctx, reduced, Only(rerun)) IN
    [made |-> FinalizeEdges(combined \cup Rollups(ctx, combined \cup kept), decisions),
     kept |-> kept]
================================================================================
