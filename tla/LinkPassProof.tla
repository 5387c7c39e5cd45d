------------------------------ MODULE LinkPassProof ------------------------------
(***************************************************************************)
(* What a link run computes, for all claims and every confidence table.    *)
(* Every edge a pass yields is active until the floor and the decisions    *)
(* are applied, in this order.  A resolver sees only the claims of its     *)
(* kinds, so one that an incremental run leaves out would join what it     *)
(* joined before; its edges fuse with nobody else's, so they can be kept   *)
(* as they are; and rollups are told by the calls they count, which a kept *)
(* edge states as well as a new one.  The first part proves that the same  *)
(* edges are found, by what identifies them, the second that they say the  *)
(* same, the third that a call over HTTP cites what it is made of, the     *)
(* last that finitely many claims make finitely many edges.                *)
(***************************************************************************)
EXTENDS LinkPass, FiniteSetTheorems, TLAPS

\* What the proof needs of a record to be an edge
Fields == {"type", "source", "target", "confidence", "status"}

Good(e) == Fields \subseteq DOMAIN e /\ e.status = "active"
Fresh(set) == \A e \in set : Good(e)

Verdict(decision) == IF decision = "promote" THEN "active" ELSE "rejected"

\* An edge of linker_edge is active.
LEMMA EdgeFresh ==
    ASSUME NEW r, NEW ty, NEW s, NEW t, NEW c, NEW claim, NEW to
    PROVE  Good(Edge(r, ty, s, t, c, claim, to))
BY DEF Edge, Good, Fields

LEMMA UnionFresh ==
    ASSUME NEW sets, \A set \in sets : Fresh(set)
    PROVE  Fresh(UNION sets)
BY DEF Fresh

LEMMA CupFresh == ASSUME NEW a, NEW b, Fresh(a), Fresh(b) PROVE Fresh(a \cup b)
BY DEF Fresh

LEMMA CallsFresh ==
    ASSUME NEW ctx, NEW r, NEW s, NEW t, NEW tier, NEW claim
    PROVE  Fresh(CallsBetween(ctx, r, s, t, tier, claim))
BY EdgeFresh DEF CallsBetween, Fresh

LEMMA SiteFresh ==
    ASSUME NEW ctx, NEW r, NEW ty, NEW t, NEW claim
    PROVE  Fresh(FromSite(ctx, r, ty, t, claim))
BY EdgeFresh DEF FromSite, Fresh

LEMMA ComposeFresh == ASSUME NEW ctx, NEW cs PROVE Fresh(Compose(ctx, cs))
<1>1. SUFFICES ASSUME NEW e \in Compose(ctx, cs) PROVE Good(e)
      BY DEF Fresh
<1>2. PICK set, c : e \in set /\ set = CallsBetween(ctx, "compose", c.repo, c.callee, c.tier, c)
      BY <1>1 DEF Compose
<1>3. QED BY <1>2, CallsFresh DEF Fresh

LEMMA GrpcCallsFresh == ASSUME NEW ctx, NEW cs PROVE Fresh(GrpcCalls(ctx, cs))
<1>1. SUFFICES ASSUME NEW e \in GrpcCalls(ctx, cs) PROVE Good(e)
      BY DEF Fresh
<1>2. PICK set, c : e \in set /\ set = CallsBetween(ctx, "grpc", c.repo, c.callee, "calls_service", c)
      BY <1>1 DEF GrpcCalls
<1>3. QED BY <1>2, CallsFresh DEF Fresh

LEMMA BroadcastFresh == ASSUME NEW ctx, NEW cs PROVE Fresh(Broadcast(ctx, cs))
<1>1. Fresh(Alias(ctx, cs))
      BY EdgeFresh DEF Alias, Fresh
<1>2. QED BY <1>1, ComposeFresh, CupFresh DEF Broadcast

LEMMA HttpFresh == ASSUME NEW ctx, NEW cs PROVE Fresh(Http(ctx, cs))
<1>1. SUFFICES ASSUME NEW e \in Http(ctx, cs) PROVE Good(e)
      BY DEF Fresh
<1>2. QED BY <1>1, EdgeFresh DEF Http

LEMMA WebhookFresh == ASSUME NEW ctx, NEW cs PROVE Fresh(Webhook(ctx, cs))
BY EdgeFresh DEF Webhook, Fresh

LEMMA GrpcFresh == ASSUME NEW ctx, NEW cs PROVE Fresh(Grpc(ctx, cs))
<1>1. SUFFICES ASSUME NEW e \in Grpc(ctx, cs) PROVE Good(e)
      BY DEF Fresh
<1>2. ASSUME NEW stubs PROVE \A f \in GrpcCalls(ctx, stubs) : Good(f)
      BY GrpcCallsFresh DEF Fresh
<1>3. CASE \E stubs : e \in GrpcCalls(ctx, stubs)
      BY <1>2, <1>3
<1>4. CASE ~ \E stubs : e \in GrpcCalls(ctx, stubs)
  <2>1. \/ \E o : e = Edge("grpc", "DECLARES_CONTRACT", Node(o), <<"grpc", o.id>>,
                           Conf[o.tier], o, "")
        \/ \E m : e = Edge("grpc", IF m[1].direction = "provides" THEN "EXPOSES" ELSE "INVOKES",
                           Node(m[1]), <<"grpc", m[2].id>>, Conf[m[1].tier], m[1], m[2].repo)
        BY <1>1, <1>4 DEF Grpc
  <2>2. QED BY <2>1, EdgeFresh
<1>5. QED BY <1>3, <1>4

LEMMA GraphqlFresh == ASSUME NEW ctx, NEW cs PROVE Fresh(Graphql(ctx, cs))
<1>1. SUFFICES ASSUME NEW e \in Graphql(ctx, cs) PROVE Good(e)
      BY DEF Fresh
<1>2. QED BY <1>1, EdgeFresh DEF Graphql

LEMMA AgentFresh == ASSUME NEW ctx, NEW cs PROVE Fresh(Agent(ctx, cs))
<1>1. SUFFICES ASSUME NEW e \in Agent(ctx, cs) PROVE Good(e)
      BY DEF Fresh
<1>2. QED BY <1>1, EdgeFresh, ZenonT(40) DEF Agent

LEMMA OwnerFresh == ASSUME NEW ctx, NEW cs PROVE Fresh(Owner(ctx, cs))
<1>1. SUFFICES ASSUME NEW e \in Owner(ctx, cs) PROVE Good(e)
      BY DEF Fresh
<1>2. QED BY <1>1, EdgeFresh DEF Owner

LEMMA TopicFresh == ASSUME NEW ctx, NEW cs PROVE Fresh(Topic(ctx, cs))
<1>1. SUFFICES ASSUME NEW e \in Topic(ctx, cs) PROVE Good(e)
      BY DEF Fresh
<1>2. PICK set, c : e \in set /\ \E ty, t : set = FromSite(ctx, "topic", ty, t, c)
      BY <1>1 DEF Topic
<1>3. QED BY <1>2, SiteFresh DEF Fresh

LEMMA DatasetFresh == ASSUME NEW ctx, NEW cs PROVE Fresh(Dataset(ctx, cs))
<1>1. SUFFICES ASSUME NEW e \in Dataset(ctx, cs) PROVE Good(e)
      BY DEF Fresh
<1>2. PICK set, c : e \in set /\ \E ty, t : set = FromSite(ctx, "dataset", ty, t, c)
      BY <1>1 DEF Dataset
<1>3. QED BY <1>2, SiteFresh DEF Fresh

LEMMA EnvFresh == ASSUME NEW ctx, NEW cs PROVE Fresh(Env(ctx, cs))
<1>1. SUFFICES ASSUME NEW e \in Env(ctx, cs) PROVE Good(e)
      BY DEF Fresh
<1>2. PICK set, c : e \in set /\ \E h : set = CallsBetween(ctx, "env", c.repo, h, c.tier, c)
      BY <1>1 DEF Env
<1>3. QED BY <1>2, CallsFresh DEF Fresh

LEMMA OperationFresh == ASSUME NEW ctx, NEW cs PROVE Fresh(Operation(ctx, cs))
<1>1. SUFFICES ASSUME NEW e \in Operation(ctx, cs) PROVE Good(e)
      BY DEF Fresh
<1>2. ASSUME NEW o, NEW t, NEW tier, NEW ev PROVE Good(SameOperation(o, t, tier, ev))
      BY DEF SameOperation, Edge, Good, Fields
<1>3. \/ \E o, t : e = SameOperation(o, t, "exposes", {})
      \/ \E m : e = SameOperation(m[2], <<"topic", m[1].path>>, "event_schema",
                                 {<<m[1].id, m[1].version>>})
      BY <1>1 DEF Operation
<1>4. QED BY <1>2, <1>3

LEMMA RolledFresh ==
    ASSUME NEW ty, NEW s, NEW t, NEW g, NEW f, NEW to
    PROVE  Good(RolledUp(ty, s, t, g, f, to))
BY DEF RolledUp, Good, Fields

LEMMA RollupsFresh == ASSUME NEW ctx, NEW es PROVE Fresh(Rollups(ctx, es))
<1>1. ASSUME NEW set, NEW e \in CallsRollup(ctx, set) PROVE Good(e)
  <2>1. PICK p, g : e = RolledUp("CALLS_SERVICE", Service(p[1]), Service(p[2]), g, p[1], p[2])
        BY <1>1 DEF CallsRollup
  <2>2. QED BY <2>1, RolledFresh
<1>2. ASSUME NEW set, NEW e \in DependsRollup(set) PROVE Good(e)
  <2>1. PICK p, g : e = RolledUp("DEPENDS_ON_REPO", <<"repo", p[1]>>, <<"repo", p[2]>>, g,
                                 p[1], p[2])
        BY <1>2 DEF DependsRollup
  <2>2. QED BY <2>1, RolledFresh
<1>3. QED BY <1>1, <1>2 DEF Rollups, Fresh

\* The pass of every resolver, and all that a link run resolves
LEMMA JoinFresh == ASSUME NEW ctx, NEW cs PROVE Fresh(Join(ctx, cs, JoinResolvers))
<1>1. SUFFICES ASSUME NEW e \in Join(ctx, cs, JoinResolvers) PROVE Good(e)
      BY DEF Fresh
<1>2. JoinResolvers = {"grpc", "http", "graphql", "env", "topic", "dataset", "agent", "owner",
                       "webhook", "operation"}
      BY DEF JoinResolvers, ResolverKinds
<1>3. \/ e \in Http(ctx, cs) \/ e \in Webhook(ctx, cs) \/ e \in Grpc(ctx, cs)
      \/ e \in Graphql(ctx, cs) \/ e \in Agent(ctx, cs) \/ e \in Topic(ctx, cs)
      \/ e \in Operation(ctx, cs) \/ e \in Dataset(ctx, cs) \/ e \in Owner(ctx, cs)
      \/ e \in Env(ctx, cs)
      BY <1>1, <1>2 DEF Join
<1>4. QED BY <1>3, HttpFresh, WebhookFresh, GrpcFresh, GraphqlFresh, AgentFresh, TopicFresh,
                OperationFresh, DatasetFresh, OwnerFresh, EnvFresh DEF Fresh

LEMMA ResolvedFresh == ASSUME NEW cs PROVE Fresh(Resolved(cs))
BY BroadcastFresh, JoinFresh, RollupsFresh, CupFresh DEF Resolved

\* Fusion takes its status from an edge of the group.
LEMMA FuseFresh == ASSUME NEW es, Fresh(es) PROVE Fresh(FuseEdges(es))
<1>1. SUFFICES ASSUME NEW t \in Triples(es)
               PROVE  Good(Fused({e \in es : Triple(e) = t}))
      BY DEF FuseEdges, Fresh
<1> DEFINE group == {e \in es : Triple(e) = t}
           any == CHOOSE e \in group : TRUE
<1>2. group # {}
      BY DEF Triples
<1>3. any \in es
      BY <1>2
<1>4. Good(any)
      BY <1>3 DEF Fresh
<1> HIDE DEF group
<1>5. Good(Fused(group))
      BY <1>4 DEF Fused, Good, Fields
<1>6. QED BY <1>5 DEF group

\* After the decisions, every edge that has one follows it.
Follows(es, decisions) ==
    \A e \in es : /\ Fields \subseteq DOMAIN e
                  /\ Triple(e) \in DOMAIN decisions =>
                        e.status = Verdict(decisions[Triple(e)])

LEMMA FinalizeFollows ==
    ASSUME NEW es, Fresh(es), NEW decisions,
           \A t \in DOMAIN decisions : decisions[t] \in {"promote", "reject"}
    PROVE  Follows(FinalizeEdges(es, decisions), decisions)
<1> DEFINE floored == ApplyFloor(FuseEdges(es))
<1>1. \A e \in floored : Fields \subseteq DOMAIN e /\ e.status \in {"active", "candidate"}
      BY FuseFresh DEF ApplyFloor, Fresh, Good, Fields
<1> HIDE DEF floored
<1>2. SUFFICES ASSUME NEW e \in ApplyPromotions(floored, decisions)
               PROVE  /\ Fields \subseteq DOMAIN e
                      /\ Triple(e) \in DOMAIN decisions =>
                            e.status = Verdict(decisions[Triple(e)])
      BY DEF FinalizeEdges, Follows, floored
<1>3. PICK f \in floored :
         e = IF Triple(f) \notin DOMAIN decisions THEN f
             ELSE [f EXCEPT !.status = IF decisions[Triple(f)] = "reject" THEN "rejected"
                                       ELSE IF @ = "candidate" THEN "active" ELSE @]
      BY <1>2 DEF ApplyPromotions
<1>4. Triple(e) = Triple(f)
      BY <1>1, <1>3 DEF Triple, Fields
<1>5. Fields \subseteq DOMAIN e
      BY <1>1, <1>3
<1>6. ASSUME Triple(f) \in DOMAIN decisions
      PROVE  e.status = Verdict(decisions[Triple(f)])
  <2>1. /\ decisions[Triple(f)] \in {"promote", "reject"}
        /\ f.status \in {"active", "candidate"} /\ "status" \in DOMAIN f
        BY <1>1, <1>6 DEF Fields
  <2>2. QED BY <1>3, <1>6, <2>1 DEF Verdict
<1>7. QED BY <1>4, <1>5, <1>6

------------------------------------------------------------------------------
\* A join resolver sees nothing but the claims of its kinds.
Restricted(cs, kinds) == {c \in cs : c.kind \in kinds}

LEMMA OfRestricted ==
    ASSUME NEW cs, NEW kinds, NEW k \in kinds, NEW d
    PROVE  Of(Restricted(cs, kinds), k, d) = Of(cs, k, d)
BY DEF Of, Restricted

LEMMA HttpRestricted ==
    ASSUME NEW ctx, NEW cs, NEW kinds, "http" \in kinds
    PROVE  Http(ctx, Restricted(cs, kinds)) = Http(ctx, cs)
<1>1. Of(Restricted(cs, kinds), "http", "provides") = Of(cs, "http", "provides") BY OfRestricted
<1>2. Of(Restricted(cs, kinds), "http", "consumes") = Of(cs, "http", "consumes") BY OfRestricted
<1>3. QED BY <1>1, <1>2, Zenon DEF Http

LEMMA WebhookRestricted ==
    ASSUME NEW ctx, NEW cs, NEW kinds, {"http", "webhook"} \subseteq kinds
    PROVE  Webhook(ctx, Restricted(cs, kinds)) = Webhook(ctx, cs)
<1>1. Of(Restricted(cs, kinds), "http", "provides") = Of(cs, "http", "provides") BY OfRestricted
<1>2. Of(Restricted(cs, kinds), "webhook", "consumes") = Of(cs, "webhook", "consumes")
      BY OfRestricted
<1>3. QED BY <1>1, <1>2, Zenon DEF Webhook

LEMMA GrpcRestricted ==
    ASSUME NEW ctx, NEW cs, NEW kinds, {"grpcop", "grpcstub"} \subseteq kinds
    PROVE  Grpc(ctx, Restricted(cs, kinds)) = Grpc(ctx, cs)
<1>1. Of(Restricted(cs, kinds), "grpcop", "provides") = Of(cs, "grpcop", "provides")
      BY OfRestricted
<1> DEFINE bound(c) == {o \in Of(cs, "grpcop", "provides") : o.callee = c.callee}
           stubs(set) == {c \in set : /\ c.kind = "grpcstub" /\ bound(c) # {}
                                      /\ Cardinality(bound(c)) <= FanoutCap}
<1>2. stubs(Restricted(cs, kinds)) = stubs(cs)
      BY DEF Restricted
<1>3. QED BY <1>1, <1>2, Zenon DEF Grpc

LEMMA GraphqlRestricted ==
    ASSUME NEW ctx, NEW cs, NEW kinds, "graphqlop" \in kinds
    PROVE  Graphql(ctx, Restricted(cs, kinds)) = Graphql(ctx, cs)
<1>1. Of(Restricted(cs, kinds), "graphqlop", "provides") = Of(cs, "graphqlop", "provides")
      BY OfRestricted
<1>2. Of(Restricted(cs, kinds), "graphqlop", "consumes") = Of(cs, "graphqlop", "consumes")
      BY OfRestricted
<1>3. QED BY <1>1, <1>2, ZenonT(60) DEF Graphql

LEMMA AgentRestricted ==
    ASSUME NEW ctx, NEW cs, NEW kinds, {"mcpop", "a2aop"} \subseteq kinds
    PROVE  Agent(ctx, Restricted(cs, kinds)) = Agent(ctx, cs)
<1>1. /\ Of(Restricted(cs, kinds), "mcpop", "provides") = Of(cs, "mcpop", "provides")
      /\ Of(Restricted(cs, kinds), "mcpop", "consumes") = Of(cs, "mcpop", "consumes")
      /\ Of(Restricted(cs, kinds), "a2aop", "provides") = Of(cs, "a2aop", "provides")
      /\ Of(Restricted(cs, kinds), "a2aop", "consumes") = Of(cs, "a2aop", "consumes")
      BY OfRestricted
<1> DEFINE unique(tools) == {t \in tools : \A u \in tools : u.callee = t.callee => u.repo = t.repo}
           its(tools, c) == {t \in unique(tools) : t.callee = c.callee}
           exposed(tools, skills) ==
               {Edge("agent", "EXPOSES", Node(t), <<t.kind, t.id>>, Conf[t.tier], t, "") :
                   t \in unique(tools) \cup skills}
           pairs(tools, clients, skills, delegates) ==
               {n \in clients \X unique(tools) :
                   n[2] \in its(tools, n[1]) /\ Cardinality(its(tools, n[1])) <= FanoutCap}
               \cup {n \in delegates \X skills : n[2].path = n[1].path}
           invoked(set) ==
               {Edge("agent", "INVOKES", Node(m[1]), <<m[2].kind, m[2].id>>, Conf[m[1].tier], m[1],
                     m[2].repo) : m \in set}
<1>2. \A set : Agent(ctx, set) =
                 exposed(Of(set, "mcpop", "provides"), Of(set, "a2aop", "provides"))
                 \cup invoked(pairs(Of(set, "mcpop", "provides"), Of(set, "mcpop", "consumes"),
                                    Of(set, "a2aop", "provides"), Of(set, "a2aop", "consumes")))
      BY Zenon DEF Agent
<1> HIDE DEF exposed, invoked, pairs
<1>3. QED BY <1>1, <1>2

LEMMA OwnerRestricted ==
    ASSUME NEW ctx, NEW cs, NEW kinds, "owner" \in kinds
    PROVE  Owner(ctx, Restricted(cs, kinds)) = Owner(ctx, cs)
<1>1. Of(Restricted(cs, kinds), "owner", "provides") = Of(cs, "owner", "provides")
      BY OfRestricted
<1> DEFINE first(owners, c) == CHOOSE o \in owners : o.repo = c.repo /\ o.path = c.path
           teams(owners) == {Edge("owner", "OWNED_BY", <<"repo", c.repo>>, <<"team", c.path>>,
                                  Conf[c.tier], c, "") : c \in {first(owners, o) : o \in owners}}
           entities(owners) ==
               {Edge("owner", "OWNED_BY", Service(c.callee), <<"team", c.path>>,
                     Conf[c.tier], c, "") : c \in {o \in owners : o.callee \in ctx.services}}
<1>2. \A set : Owner(ctx, set) = teams(Of(set, "owner", "provides"))
                                \cup entities(Of(set, "owner", "provides"))
      BY Zenon DEF Owner
<1> HIDE DEF teams, entities
<1>3. QED BY <1>1, <1>2

LEMMA EnvRestricted ==
    ASSUME NEW ctx, NEW cs, NEW kinds, "cfgread" \in kinds
    PROVE  Env(ctx, Restricted(cs, kinds)) = Env(ctx, cs)
<1>1. Of(Restricted(cs, kinds), "cfgread", "consumes") = Of(cs, "cfgread", "consumes")
      BY OfRestricted
<1>2. QED BY <1>1, Zenon DEF Env

LEMMA TopicRestricted ==
    ASSUME NEW ctx, NEW cs, NEW kinds, "topic" \in kinds
    PROVE  Topic(ctx, Restricted(cs, kinds)) = Topic(ctx, cs)
BY DEF Topic, Restricted

LEMMA DatasetRestricted ==
    ASSUME NEW ctx, NEW cs, NEW kinds, {"dataset", "db"} \subseteq kinds
    PROVE  Dataset(ctx, Restricted(cs, kinds)) = Dataset(ctx, cs)
<1> DEFINE sites(set) == {c \in set : c.kind \in {"dataset", "db"}}
<1>1. sites(Restricted(cs, kinds)) = sites(cs)
      BY DEF Restricted
<1>2. QED BY <1>1, Zenon DEF Dataset

LEMMA OperationRestricted ==
    ASSUME NEW ctx, NEW cs, NEW kinds, {"grpcop", "http", "topic"} \subseteq kinds
    PROVE  Operation(ctx, Restricted(cs, kinds)) = Operation(ctx, cs)
<1>1. /\ Of(Restricted(cs, kinds), "grpcop", "provides") = Of(cs, "grpcop", "provides")
      /\ Of(Restricted(cs, kinds), "http", "provides") = Of(cs, "http", "provides")
      BY OfRestricted
<1> DEFINE operations == Of(cs, "grpcop", "provides")
           schemas(set) == {n \in set \X operations :
                              n[1].kind = "topic" /\ {o \in operations : o.node = n[1].node} = {n[2]}}
<1>2. schemas(Restricted(cs, kinds)) = schemas(cs)
      BY DEF Restricted
<1>3. QED BY <1>1, <1>2, Zenon DEF Operation

\* So what a resolver joins is what it joins of all claims, when all its kinds are there,
LEMMA JoinRestricted ==
    ASSUME NEW ctx, NEW cs, NEW kinds, NEW r \in JoinResolvers, ResolverKinds[r] \subseteq kinds
    PROVE  Join(ctx, Restricted(cs, kinds), {r}) = Join(ctx, cs, {r})
<1> DEFINE Rs == Restricted(cs, kinds)
<1>1. CASE r = "http"
  <2>1. Http(ctx, Rs) = Http(ctx, cs) BY <1>1, HttpRestricted DEF ResolverKinds
  <2>2. QED BY <1>1, <2>1 DEF Join
<1>2. CASE r = "webhook"
  <2>1. Webhook(ctx, Rs) = Webhook(ctx, cs) BY <1>2, WebhookRestricted DEF ResolverKinds
  <2>2. QED BY <1>2, <2>1 DEF Join
<1>3. CASE r = "grpc"
  <2>1. Grpc(ctx, Rs) = Grpc(ctx, cs) BY <1>3, GrpcRestricted DEF ResolverKinds
  <2>2. QED BY <1>3, <2>1 DEF Join
<1>4. CASE r = "graphql"
  <2>1. Graphql(ctx, Rs) = Graphql(ctx, cs) BY <1>4, GraphqlRestricted DEF ResolverKinds
  <2>2. QED BY <1>4, <2>1 DEF Join
<1>5. CASE r = "agent"
  <2>1. Agent(ctx, Rs) = Agent(ctx, cs) BY <1>5, AgentRestricted DEF ResolverKinds
  <2>2. QED BY <1>5, <2>1 DEF Join
<1>6. CASE r = "topic"
  <2>1. Topic(ctx, Rs) = Topic(ctx, cs) BY <1>6, TopicRestricted DEF ResolverKinds
  <2>2. QED BY <1>6, <2>1 DEF Join
<1>7. CASE r = "operation"
  <2>1. Operation(ctx, Rs) = Operation(ctx, cs) BY <1>7, OperationRestricted DEF ResolverKinds
  <2>2. QED BY <1>7, <2>1 DEF Join
<1>8. CASE r = "dataset"
  <2>1. Dataset(ctx, Rs) = Dataset(ctx, cs) BY <1>8, DatasetRestricted DEF ResolverKinds
  <2>2. QED BY <1>8, <2>1 DEF Join
<1>9. CASE r = "owner"
  <2>1. Owner(ctx, Rs) = Owner(ctx, cs) BY <1>9, OwnerRestricted DEF ResolverKinds
  <2>2. QED BY <1>9, <2>1 DEF Join
<1>10. CASE r = "env"
  <2>1. Env(ctx, Rs) = Env(ctx, cs) BY <1>10, EnvRestricted DEF ResolverKinds
  <2>2. QED BY <1>10, <2>1 DEF Join
<1>11. QED BY <1>1, <1>2, <1>3, <1>4, <1>5, <1>6, <1>7, <1>8, <1>9, <1>10
           DEF JoinResolvers, ResolverKinds

\* and a pass of several resolvers joins what each of them does.
LEMMA JoinOnly ==
    ASSUME NEW ctx, NEW cs, NEW only
    PROVE  \A e : e \in Join(ctx, cs, only) <=> \E r \in only : e \in Join(ctx, cs, {r})
<1> DEFINE one(r) ==
        CASE r = "http" -> Http(ctx, cs)
          [] r = "webhook" -> Webhook(ctx, cs)
          [] r = "grpc" -> Grpc(ctx, cs)
          [] r = "graphql" -> Graphql(ctx, cs)
          [] r = "agent" -> Agent(ctx, cs)
          [] r = "topic" -> Topic(ctx, cs)
          [] r = "operation" -> Operation(ctx, cs)
          [] r = "dataset" -> Dataset(ctx, cs)
          [] r = "owner" -> Owner(ctx, cs)
          [] r = "env" -> Env(ctx, cs)
<1>1. \A set : Join(ctx, cs, set) = UNION {one(r) : r \in set}
      BY Zenon DEF Join
<1> HIDE DEF one
<1>2. \A set, e : e \in Join(ctx, cs, set) <=> \E r \in set : e \in one(r)
      BY <1>1
<1>3. QED BY <1>2

------------------------------------------------------------------------------
\* What tells the edges of one resolver from those of another: their type, and for
\* those of an operation its protocol.
Types ==
    [http |-> {"EXPOSES", "INVOKES"}, webhook |-> {"REGISTERS_WEBHOOK"},
     grpc |-> {"DECLARES_CONTRACT", "EXPOSES", "INVOKES", "CALLS_SERVICE"},
     graphql |-> {"EXPOSES", "INVOKES"}, agent |-> {"EXPOSES", "INVOKES"},
     topic |-> {"PUBLISHES_TO", "CONSUMES_FROM"}, operation |-> {"SAME_OPERATION"},
     dataset |-> {"WRITES_TO", "READS_FROM"}, owner |-> {"OWNED_BY"}, env |-> {"CALLS_SERVICE"},
     alias |-> {"BUILT_FROM"}, compose |-> {"CALLS_SERVICE"},
     rollup |-> {"CALLS_SERVICE", "DEPENDS_ON_REPO"}]
Protocols(r) == IF r = "agent" THEN {"mcpop", "a2aop"} ELSE {r}

\* An edge as the resolver r makes it
Columns == Fields \cup {"detected_by", "from", "to"}
MadeBy(e, r) ==
    /\ Columns \subseteq DOMAIN e /\ e.detected_by = {r}
    /\ e.type \in Types[r]
    /\ e.type \in {"EXPOSES", "INVOKES"} => e.target[1] \in Protocols(r)

\* Every sort of edge a resolver makes is one of its sorts.
LEMMA TypesOf ==
    /\ \A r \in {"http", "grpc", "graphql", "agent"} : {"EXPOSES", "INVOKES"} \subseteq Types[r]
    /\ "REGISTERS_WEBHOOK" \in Types["webhook"]
    /\ "DECLARES_CONTRACT" \in Types["grpc"]
    /\ {"PUBLISHES_TO", "CONSUMES_FROM"} \subseteq Types["topic"]
    /\ "SAME_OPERATION" \in Types["operation"]
    /\ {"WRITES_TO", "READS_FROM"} \subseteq Types["dataset"]
    /\ "OWNED_BY" \in Types["owner"]
    /\ "BUILT_FROM" \in Types["alias"]
    /\ \A r \in {"grpc", "env", "compose", "rollup"} : "CALLS_SERVICE" \in Types[r]
    /\ "DEPENDS_ON_REPO" \in Types["rollup"]
BY DEF Types

\* An edge of linker_edge is one of its resolver, those of operations by their protocol.
LEMMA EdgePlain ==
    ASSUME NEW r, NEW ty, NEW s, NEW t, NEW c, NEW claim, NEW to,
           ty # "EXPOSES", ty # "INVOKES", ty \in Types[r]
    PROVE  MadeBy(Edge(r, ty, s, t, c, claim, to), r)
<1> DEFINE e == Edge(r, ty, s, t, c, claim, to)
<1>1. /\ Columns \subseteq DOMAIN e /\ e.detected_by = {r}
      /\ e.type = ty /\ e.source = s /\ e.target = t /\ e.from = claim.repo /\ e.to = to
      BY DEF Edge, Columns, Fields
<1> HIDE DEF e
<1>2. MadeBy(e, r)
      BY <1>1 DEF MadeBy
<1>3. QED BY <1>2 DEF e

LEMMA EdgeTo ==
    ASSUME NEW r, NEW ty \in {"EXPOSES", "INVOKES"}, NEW s, NEW t, NEW c, NEW claim, NEW to,
           ty \in Types[r], t[1] \in Protocols(r)
    PROVE  LET e == Edge(r, ty, s, t, c, claim, to) IN
           /\ MadeBy(e, r)
           /\ e.type = ty /\ e.source = s /\ e.target = t /\ e.from = claim.repo /\ e.to = to
<1> DEFINE e == Edge(r, ty, s, t, c, claim, to)
<1>1. /\ Columns \subseteq DOMAIN e /\ e.detected_by = {r}
      /\ e.type = ty /\ e.source = s /\ e.target = t /\ e.from = claim.repo /\ e.to = to
      BY DEF Edge, Columns, Fields
<1> HIDE DEF e
<1>2. MadeBy(e, r)
      BY <1>1 DEF MadeBy
<1>3. QED BY <1>1, <1>2 DEF e

\* The calls between services, and the edges of a file and of its service
LEMMA CallsMade ==
    ASSUME NEW ctx, NEW r \in {"grpc", "env", "compose"}, NEW s, NEW t, NEW tier, NEW claim,
           NEW e \in CallsBetween(ctx, r, s, t, tier, claim)
    PROVE  MadeBy(e, r) /\ e.type = "CALLS_SERVICE"
<1>1. e = Edge(r, "CALLS_SERVICE", Service(s), Service(t), Conf[tier], claim, "")
      BY DEF CallsBetween
<1>2. "CALLS_SERVICE" \in Types[r]
      BY TypesOf
<1>3. MadeBy(e, r)
      BY <1>1, <1>2, EdgePlain
<1>4. e.type = "CALLS_SERVICE"
      BY <1>1 DEF Edge
<1>5. QED BY <1>3, <1>4

LEMMA SiteMade ==
    ASSUME NEW ctx, NEW r \in {"topic", "dataset"}, NEW ty, ty \in Types[r], NEW t,
           NEW claim, ty \notin {"EXPOSES", "INVOKES"}, NEW e \in FromSite(ctx, r, ty, t, claim)
    PROVE  MadeBy(e, r) /\ e.type = ty
<1>1. PICK s : e = Edge(r, ty, s, t, Conf[claim.tier], claim, "")
      BY DEF FromSite
<1>2. MadeBy(e, r)
      BY <1>1, EdgePlain
<1>3. e.type = ty
      BY <1>1 DEF Edge
<1>4. QED BY <1>2, <1>3

\* What each resolver makes, and whose repositories its calls run between
LEMMA HttpMade ==
    ASSUME NEW ctx, NEW cs, NEW e \in Http(ctx, cs)
    PROVE  /\ MadeBy(e, "http")
           /\ e.type = "INVOKES" => e.from = e.source[2] /\ e.to = e.target[2][2]
<1>1. \A p : Contract(ctx, p)[1] = "http" /\ Contract(ctx, p)[2][2] = p.repo
      BY DEF Contract, Scope, Service
<1>2. CASE \E p : e = Edge("http", "EXPOSES", Node(p), Contract(ctx, p), Conf["exposes"], p, "")
  <2>1. PICK p : e = Edge("http", "EXPOSES", Node(p), Contract(ctx, p), Conf["exposes"], p, "")
        BY <1>2
  <2>2. "EXPOSES" \in Types["http"] /\ Contract(ctx, p)[1] \in Protocols("http")
        BY <1>1, TypesOf DEF Protocols
  <2>3. MadeBy(e, "http") /\ e.type = "EXPOSES"
    <3>1. MadeBy(e, "http")
          BY <2>1, <2>2, EdgeTo
    <3>2. e.type = "EXPOSES"
          BY <2>1 DEF Edge
    <3>3. QED BY <3>1, <3>2
  <2>4. QED BY <2>3
<1>3. CASE \E m : e = Edge("http", "INVOKES", Node(m[1]), Contract(ctx, m[2]), Conf[m[1].tier],
                           m[1], m[2].repo)
  <2>1. PICK m : e = Edge("http", "INVOKES", Node(m[1]), Contract(ctx, m[2]), Conf[m[1].tier],
                           m[1], m[2].repo)
        BY <1>3
  <2>2. "INVOKES" \in Types["http"] /\ Contract(ctx, m[2])[1] \in Protocols("http")
        BY <1>1, TypesOf DEF Protocols
  <2>3. /\ MadeBy(e, "http") /\ e.source = Node(m[1]) /\ e.target = Contract(ctx, m[2])
        /\ e.from = m[1].repo /\ e.to = m[2].repo
        BY <2>1, <2>2, EdgeTo
  <2>4. QED BY <1>1, <2>3 DEF Node
<1>4. QED BY <1>2, <1>3 DEF Http

LEMMA WebhookMade ==
    ASSUME NEW ctx, NEW cs, NEW e \in Webhook(ctx, cs)
    PROVE  MadeBy(e, "webhook") /\ e.type # "INVOKES"
<1>1. PICK m : e = Edge("webhook", "REGISTERS_WEBHOOK", Service(m[1].repo), Contract(ctx, m[2]),
                      Conf[m[1].tier], m[1], m[2].repo)
      BY DEF Webhook
<1>2. MadeBy(e, "webhook") /\ e.type = "REGISTERS_WEBHOOK"
  <2>1. MadeBy(e, "webhook")
        BY <1>1, TypesOf, EdgePlain
  <2>2. e.type = "REGISTERS_WEBHOOK"
        BY <1>1 DEF Edge
  <2>3. QED BY <2>1, <2>2
<1>3. QED BY <1>2

LEMMA GrpcMade ==
    ASSUME NEW ctx, NEW cs, NEW e \in Grpc(ctx, cs)
    PROVE  /\ MadeBy(e, "grpc")
           /\ e.type = "INVOKES" =>
                 e.from = e.source[2] /\ \E o \in cs : o.id = e.target[2] /\ e.to = o.repo
<1>1. CASE \E stubs : e \in GrpcCalls(ctx, stubs)
  <2>1. PICK s : e \in CallsBetween(ctx, "grpc", s.repo, s.callee, "calls_service", s)
        BY <1>1 DEF GrpcCalls
  <2>2. MadeBy(e, "grpc") /\ e.type = "CALLS_SERVICE"
        BY <2>1, CallsMade
  <2>3. QED BY <2>2
<1>2. CASE \E o : e = Edge("grpc", "DECLARES_CONTRACT", Node(o), <<"grpc", o.id>>,
                           Conf[o.tier], o, "")
  <2>1. PICK o : e = Edge("grpc", "DECLARES_CONTRACT", Node(o), <<"grpc", o.id>>,
                           Conf[o.tier], o, "")
        BY <1>2
  <2>2. MadeBy(e, "grpc") /\ e.type = "DECLARES_CONTRACT"
    <3>1. MadeBy(e, "grpc")
          BY <2>1, TypesOf, EdgePlain
    <3>2. e.type = "DECLARES_CONTRACT"
          BY <2>1 DEF Edge
    <3>3. QED BY <3>1, <3>2
  <2>3. QED BY <2>2
<1>3. CASE \E ty \in {"EXPOSES", "INVOKES"} : \E c : \E o \in cs :
              e = Edge("grpc", ty, Node(c), <<"grpc", o.id>>, Conf[c.tier], c, o.repo)
  <2>1. PICK ty \in {"EXPOSES", "INVOKES"} : \E c : \E o \in cs :
              e = Edge("grpc", ty, Node(c), <<"grpc", o.id>>, Conf[c.tier], c, o.repo)
        BY <1>3
  <2>2. PICK c : \E o \in cs :
              e = Edge("grpc", ty, Node(c), <<"grpc", o.id>>, Conf[c.tier], c, o.repo)
        BY <2>1
  <2>a. PICK o \in cs : e = Edge("grpc", ty, Node(c), <<"grpc", o.id>>, Conf[c.tier], c, o.repo)
        BY <2>2
  <2>3. ty \in Types["grpc"] /\ <<"grpc", o.id>>[1] \in Protocols("grpc")
        BY TypesOf DEF Protocols
  <2>4. MadeBy(e, "grpc") /\ e.source = Node(c) /\ e.target = <<"grpc", o.id>> /\ e.from = c.repo
        /\ e.to = o.repo
        BY <2>a, <2>3, EdgeTo
  <2>5. QED BY <2>4 DEF Node
<1>4. QED
  <2>1. ASSUME ~ \E stubs : e \in GrpcCalls(ctx, stubs)
        PROVE  \/ \E o : e = Edge("grpc", "DECLARES_CONTRACT", Node(o), <<"grpc", o.id>>,
                           Conf[o.tier], o, "")
               \/ \E m : /\ m[2] \in Of(cs, "grpcop", "provides")
                  /\ e = Edge("grpc", IF m[1].direction = "provides" THEN "EXPOSES" ELSE "INVOKES",
                              Node(m[1]), <<"grpc", m[2].id>>, Conf[m[1].tier], m[1], m[2].repo)
        BY <2>1 DEF Grpc
  <2>2. QED BY <1>1, <1>2, <1>3, <2>1 DEF Of

\* The repository that alone declares a field, if one does
Declarer(cs, path) ==
    LET repos == {f.repo : f \in {g \in Of(cs, "graphqlop", "provides") : g.path = path}} IN
    IF Cardinality(repos) = 1 THEN (CHOOSE r \in repos : TRUE) ELSE ""

LEMMA GraphqlMade ==
    ASSUME NEW ctx, NEW cs, NEW e \in Graphql(ctx, cs)
    PROVE  /\ MadeBy(e, "graphql")
           /\ e.type = "INVOKES" => e.from = e.source[2] /\ e.to = Declarer(cs, e.target[2])
<1>1. CASE \E f : e = Edge("graphql", "EXPOSES", Node(f), <<"graphql", f.path>>, Conf["exposes"],
                           f, "")
  <2>1. PICK f : e = Edge("graphql", "EXPOSES", Node(f), <<"graphql", f.path>>, Conf["exposes"],
                           f, "")
        BY <1>1
  <2>2. "EXPOSES" \in Types["graphql"] /\ <<"graphql", f.path>>[1] \in Protocols("graphql")
        BY TypesOf DEF Protocols
  <2>3. MadeBy(e, "graphql") /\ e.type = "EXPOSES"
    <3>1. MadeBy(e, "graphql")
          BY <2>1, <2>2, EdgeTo
    <3>2. e.type = "EXPOSES"
          BY <2>1 DEF Edge
    <3>3. QED BY <3>1, <3>2
  <2>4. QED BY <2>3
<1>2. CASE \E c, worth : e = Edge("graphql", "INVOKES", Node(c), <<"graphql", c.path>>, worth, c,
                                  Declarer(cs, c.path))
  <2>1. PICK c, worth : e = Edge("graphql", "INVOKES", Node(c), <<"graphql", c.path>>, worth, c,
                                  Declarer(cs, c.path))
        BY <1>2
  <2>2. "INVOKES" \in Types["graphql"] /\ <<"graphql", c.path>>[1] \in Protocols("graphql")
        BY TypesOf DEF Protocols
  <2>3. /\ MadeBy(e, "graphql") /\ e.source = Node(c) /\ e.target = <<"graphql", c.path>>
        /\ e.from = c.repo /\ e.to = Declarer(cs, c.path)
        BY <2>1, <2>2, EdgeTo
  <2>4. e.source[2] = c.repo /\ e.target[2] = c.path
        BY <2>3 DEF Node
  <2>5. QED BY <2>3, <2>4
<1>3. QED BY <1>1, <1>2 DEF Graphql, Declarer

LEMMA AgentMade ==
    ASSUME NEW ctx, NEW cs, NEW e \in Agent(ctx, cs)
    PROVE  /\ MadeBy(e, "agent")
           /\ e.type = "INVOKES" =>
                 e.from = e.source[2] /\ \E t \in cs : t.id = e.target[2] /\ e.to = t.repo
<1> DEFINE operations == Of(cs, "mcpop", "provides") \cup Of(cs, "a2aop", "provides")
<1>1. \A t \in operations : t \in cs /\ t.kind \in {"mcpop", "a2aop"}
      BY DEF Of
<1>2. CASE \E t \in operations :
            e = Edge("agent", "EXPOSES", Node(t), <<t.kind, t.id>>, Conf[t.tier], t, "")
  <2> HIDE DEF operations
  <2>1. PICK t \in operations :
            e = Edge("agent", "EXPOSES", Node(t), <<t.kind, t.id>>, Conf[t.tier], t, "")
        BY <1>2
  <2>2. "EXPOSES" \in Types["agent"] /\ <<t.kind, t.id>>[1] \in Protocols("agent")
        BY <1>1, TypesOf DEF Protocols
  <2>3. MadeBy(e, "agent") /\ e.type = "EXPOSES"
    <3>1. MadeBy(e, "agent")
          BY <2>1, <2>2, EdgeTo
    <3>2. e.type = "EXPOSES"
          BY <2>1 DEF Edge
    <3>3. QED BY <3>1, <3>2
  <2>4. QED BY <2>3
<1>3. CASE \E c : \E t \in operations :
            e = Edge("agent", "INVOKES", Node(c), <<t.kind, t.id>>, Conf[c.tier], c, t.repo)
  <2> HIDE DEF operations
  <2>1. PICK c : \E t \in operations :
            e = Edge("agent", "INVOKES", Node(c), <<t.kind, t.id>>, Conf[c.tier], c, t.repo)
        BY <1>3
  <2>2. PICK t \in operations :
            e = Edge("agent", "INVOKES", Node(c), <<t.kind, t.id>>, Conf[c.tier], c, t.repo)
        BY <2>1
  <2>3. "INVOKES" \in Types["agent"] /\ <<t.kind, t.id>>[1] \in Protocols("agent")
        BY <1>1, TypesOf DEF Protocols
  <2>4. /\ MadeBy(e, "agent") /\ e.source = Node(c) /\ e.target = <<t.kind, t.id>>
        /\ e.from = c.repo /\ e.to = t.repo
        BY <2>2, <2>3, EdgeTo
  <2>5. QED BY <1>1, <2>4 DEF Node
<1>4. QED BY <1>2, <1>3, ZenonT(60) DEF Agent

\* The other resolvers
LEMMA TopicMade ==
    ASSUME NEW ctx, NEW cs, NEW e \in Topic(ctx, cs)
    PROVE  MadeBy(e, "topic") /\ e.type # "INVOKES"
<1>a. PICK ty \in {"PUBLISHES_TO", "CONSUMES_FROM"} : \E t, c : e \in FromSite(ctx, "topic", ty, t, c)
      BY DEF Topic
<1>1. PICK t, c : e \in FromSite(ctx, "topic", ty, t, c)
      BY <1>a
<1>2. ty \in Types["topic"]
      BY TypesOf
<1>3. MadeBy(e, "topic") /\ e.type = ty
      BY <1>1, <1>2, SiteMade
<1>4. QED BY <1>3

LEMMA DatasetMade ==
    ASSUME NEW ctx, NEW cs, NEW e \in Dataset(ctx, cs)
    PROVE  MadeBy(e, "dataset") /\ e.type # "INVOKES"
<1>a. PICK ty \in {"WRITES_TO", "READS_FROM"} : \E t, c : e \in FromSite(ctx, "dataset", ty, t, c)
      BY DEF Dataset
<1>1. PICK t, c : e \in FromSite(ctx, "dataset", ty, t, c)
      BY <1>a
<1>2. ty \in Types["dataset"] /\ ty \notin {"EXPOSES", "INVOKES"}
      BY TypesOf
<1>3. MadeBy(e, "dataset") /\ e.type = ty
      BY <1>1, <1>2, SiteMade
<1>4. QED BY <1>3

LEMMA OwnerMade ==
    ASSUME NEW ctx, NEW cs, NEW e \in Owner(ctx, cs)
    PROVE  MadeBy(e, "owner") /\ e.type # "INVOKES"
<1>1. PICK s, t, conf, c : e = Edge("owner", "OWNED_BY", s, t, conf, c, "")
      BY DEF Owner
<1>2. MadeBy(e, "owner") /\ e.type = "OWNED_BY"
  <2>1. MadeBy(e, "owner")
        BY <1>1, TypesOf, EdgePlain
  <2>2. e.type = "OWNED_BY"
        BY <1>1 DEF Edge
  <2>3. QED BY <2>1, <2>2
<1>3. QED BY <1>2

LEMMA EnvMade ==
    ASSUME NEW ctx, NEW cs, NEW e \in Env(ctx, cs)
    PROVE  MadeBy(e, "env") /\ e.type # "INVOKES"
<1>1. PICK set, c : e \in set /\ \E h : set = CallsBetween(ctx, "env", c.repo, h, c.tier, c)
      BY DEF Env
<1>2. MadeBy(e, "env") /\ e.type = "CALLS_SERVICE"
      BY <1>1, CallsMade
<1>3. QED BY <1>2

LEMMA OperationMade ==
    ASSUME NEW ctx, NEW cs, NEW e \in Operation(ctx, cs)
    PROVE  MadeBy(e, "operation") /\ e.type # "INVOKES"
<1>1. PICK o, t, tier, ev : e = SameOperation(o, t, tier, ev)
  <2>1. \/ \E o, t : e = SameOperation(o, t, "exposes", {})
        \/ \E m : e = SameOperation(m[2], <<"topic", m[1].path>>, "event_schema",
                                 {<<m[1].id, m[1].version>>})
        BY DEF Operation
  <2>2. QED BY <2>1
<1> DEFINE plain == Edge("operation", "SAME_OPERATION", <<"grpc", o.id>>, t, Conf[tier], o, "")
<1>2. MadeBy(plain, "operation") /\ plain.type = "SAME_OPERATION"
  <2>1. MadeBy(plain, "operation")
        BY TypesOf, EdgePlain
  <2>2. plain.type = "SAME_OPERATION"
        BY DEF Edge
  <2>3. QED BY <2>1, <2>2
<1>3. \E ev2 : e = [plain EXCEPT !.evidence = ev2]
      BY <1>1 DEF SameOperation
<1> HIDE DEF plain
<1>4. Columns \subseteq DOMAIN e /\ e.type = plain.type /\ e.target = plain.target
      /\ e.detected_by = plain.detected_by
      BY <1>2, <1>3 DEF MadeBy, Columns, Fields
<1>5. QED BY <1>2, <1>4 DEF MadeBy

LEMMA BroadcastMade ==
    ASSUME NEW ctx, NEW cs, NEW e \in Broadcast(ctx, cs)
    PROVE  /\ \E r \in {"alias", "compose"} : MadeBy(e, r)
           /\ e.type # "INVOKES"
<1>1. CASE e \in Alias(ctx, cs)
  <2>1. PICK s, t, conf, c : e = Edge("alias", "BUILT_FROM", s, t, conf, c, "")
        BY <1>1 DEF Alias
  <2>2. MadeBy(e, "alias") /\ e.type = "BUILT_FROM"
    <3>1. MadeBy(e, "alias")
          BY <2>1, TypesOf, EdgePlain
    <3>2. e.type = "BUILT_FROM"
          BY <2>1 DEF Edge
    <3>3. QED BY <3>1, <3>2
  <2>3. QED BY <2>2
<1>2. CASE e \in Compose(ctx, cs)
  <2>1. PICK c : e \in CallsBetween(ctx, "compose", c.repo, c.callee, c.tier, c)
        BY <1>2 DEF Compose
  <2>2. MadeBy(e, "compose") /\ e.type = "CALLS_SERVICE"
        BY <2>1, CallsMade
  <2>3. QED BY <2>2
<1>3. QED BY <1>1, <1>2 DEF Broadcast

LEMMA RollupsMade ==
    ASSUME NEW ctx, NEW es, NEW e \in Rollups(ctx, es)
    PROVE  MadeBy(e, "rollup") /\ e.type # "INVOKES"
<1> DEFINE rolled == \E ty \in {"CALLS_SERVICE", "DEPENDS_ON_REPO"} :
                        \E s, t, g, f, to : e = RolledUp(ty, s, t, g, f, to)
<1>a. ASSUME NEW set, e \in CallsRollup(ctx, set) PROVE rolled
  <2>1. PICK p, g : e = RolledUp("CALLS_SERVICE", Service(p[1]), Service(p[2]), g, p[1], p[2])
        BY <1>a DEF CallsRollup
  <2>2. QED BY <2>1
<1>b. ASSUME NEW set, e \in DependsRollup(set) PROVE rolled
  <2>1. PICK p, g : e = RolledUp("DEPENDS_ON_REPO", <<"repo", p[1]>>, <<"repo", p[2]>>, g,
                                 p[1], p[2])
        BY <1>b DEF DependsRollup
  <2>2. QED BY <2>1
<1>c. PICK ty \in {"CALLS_SERVICE", "DEPENDS_ON_REPO"} :
          \E s, t, g, f, to : e = RolledUp(ty, s, t, g, f, to)
  <2>1. rolled
        BY <1>a, <1>b DEF Rollups
  <2>2. QED BY <2>1
<1>1. PICK s, t, g, f, to : e = RolledUp(ty, s, t, g, f, to)
      BY <1>c
<1>2. Columns \subseteq DOMAIN e /\ e.type = ty /\ e.detected_by = {"rollup"}
      BY <1>1 DEF RolledUp, Columns, Fields
<1>3. QED BY <1>2, TypesOf DEF MadeBy

------------------------------------------------------------------------------
\* The resolvers an incremental run may leave out
Plain == JoinResolvers \ AlwaysRerun

\* No other resolver makes edges of their sorts.
LEMMA MadeByOne ==
    ASSUME NEW r \in Plain, NEW q \in DOMAIN Types, NEW e, NEW f, MadeBy(e, r), MadeBy(f, q),
           e.type = f.type, e.target = f.target
    PROVE  q = r
<1>1. r \in {"http", "webhook", "graphql", "agent", "topic", "operation", "dataset", "owner"}
      BY DEF Plain, JoinResolvers, ResolverKinds, AlwaysRerun
<1>2. q \in {"http", "webhook", "grpc", "graphql", "agent", "topic", "operation", "dataset",
             "owner", "env", "alias", "compose", "rollup"}
      BY DEF Types
<1>3. CASE e.type \in {"EXPOSES", "INVOKES"}
  <2>1. r \in {"http", "graphql", "agent"} /\ q \in {"http", "grpc", "graphql", "agent"}
        BY <1>1, <1>2, <1>3 DEF MadeBy, Types
  <2>2. e.target[1] \in Protocols(r) /\ e.target[1] \in Protocols(q)
        BY <1>3 DEF MadeBy
  <2>3. QED BY <2>1, <2>2 DEF Protocols
<1>4. CASE e.type \notin {"EXPOSES", "INVOKES"}
      BY <1>1, <1>2, <1>4 DEF MadeBy, Types
<1>5. QED BY <1>3, <1>4

Unique(cs) == \A c, d \in cs : c.id = d.id => c = d

\* Whatever a join resolver makes is an edge of its own sorts; the ends of its calls are
\* read off the target or the one claim that has the target's id.
LEMMA JoinMade ==
    ASSUME NEW ctx, NEW cs, NEW r \in JoinResolvers, NEW e \in Join(ctx, cs, {r})
    PROVE  /\ MadeBy(e, r)
           /\ e.type = "INVOKES" =>
                 /\ e.from = e.source[2]
                 /\ r \in {"http", "grpc", "graphql", "agent"}
                 /\ r = "http" => e.to = e.target[2][2]
                 /\ r = "graphql" => e.to = Declarer(cs, e.target[2])
                 /\ r \in {"grpc", "agent"} => \E o \in cs : o.id = e.target[2] /\ e.to = o.repo
<1>1. CASE r = "http"
  <2>1. e \in Http(ctx, cs) BY <1>1 DEF Join
  <2>2. QED BY <1>1, <2>1, HttpMade
<1>2. CASE r = "webhook"
  <2>1. e \in Webhook(ctx, cs) BY <1>2 DEF Join
  <2>2. QED BY <1>2, <2>1, WebhookMade
<1>3. CASE r = "grpc"
  <2>1. e \in Grpc(ctx, cs) BY <1>3 DEF Join
  <2>2. QED BY <1>3, <2>1, GrpcMade
<1>4. CASE r = "graphql"
  <2>1. e \in Graphql(ctx, cs) BY <1>4 DEF Join
  <2>2. QED BY <1>4, <2>1, GraphqlMade
<1>5. CASE r = "agent"
  <2>1. e \in Agent(ctx, cs) BY <1>5 DEF Join
  <2>2. QED BY <1>5, <2>1, AgentMade
<1>6. CASE r = "topic"
  <2>1. e \in Topic(ctx, cs) BY <1>6 DEF Join
  <2>2. QED BY <1>6, <2>1, TopicMade
<1>7. CASE r = "operation"
  <2>1. e \in Operation(ctx, cs) BY <1>7 DEF Join
  <2>2. QED BY <1>7, <2>1, OperationMade
<1>8. CASE r = "dataset"
  <2>1. e \in Dataset(ctx, cs) BY <1>8 DEF Join
  <2>2. QED BY <1>8, <2>1, DatasetMade
<1>9. CASE r = "owner"
  <2>1. e \in Owner(ctx, cs) BY <1>9 DEF Join
  <2>2. QED BY <1>9, <2>1, OwnerMade
<1>10. CASE r = "env"
  <2>1. e \in Env(ctx, cs) BY <1>10 DEF Join
  <2>2. QED BY <1>10, <2>1, EnvMade
<1>11. QED BY <1>1, <1>2, <1>3, <1>4, <1>5, <1>6, <1>7, <1>8, <1>9, <1>10
           DEF JoinResolvers, ResolverKinds

LEMMA JoinMadeBy ==
    ASSUME NEW ctx, NEW cs, NEW r \in JoinResolvers, NEW e \in Join(ctx, cs, {r})
    PROVE  MadeBy(e, r) /\ r \in DOMAIN Types
<1>1. MadeBy(e, r)
      BY JoinMade
<1>2. r \in DOMAIN Types
      BY DEF JoinResolvers, ResolverKinds, Types
<1>3. QED BY <1>1, <1>2

\* What one resolver's calls join is told by the three columns that identify the edge.
Mark(e) == <<Triple(e), IF e.type = "INVOKES" THEN <<e.from, e.to>> ELSE <<>>>>
Marks(es) == {Mark(e) : e \in es}

\* Two edges of one resolver with one triple have the same ends.
LEMMA JoinEnds ==
    ASSUME NEW ctx, NEW cs, Unique(cs), NEW r \in JoinResolvers, NEW e \in Join(ctx, cs, {r}),
           NEW f \in Join(ctx, cs, {r}), Triple(e) = Triple(f)
    PROVE  Mark(e) = Mark(f)
<1>1. e.type = f.type /\ e.source = f.source /\ e.target = f.target
      BY DEF Triple
<1>2. CASE e.type = "INVOKES"
  <2> f.type = "INVOKES"
        BY <1>1, <1>2
  <2>1. e.from = f.from
        BY <1>1, <1>2, JoinMade
  <2>2. e.to = f.to
    <3>1. CASE r = "http" BY <1>1, <1>2, <3>1, JoinMade
    <3>2. CASE r = "graphql" BY <1>1, <1>2, <3>2, JoinMade
    <3>3. CASE r \in {"grpc", "agent"}
      <4>1. PICK o \in cs : o.id = e.target[2] /\ e.to = o.repo BY <1>1, <1>2, <3>3, JoinMade
      <4>2. PICK p \in cs : p.id = f.target[2] /\ f.to = p.repo BY <1>1, <1>2, <3>3, JoinMade
      <4>3. QED BY <1>1, <4>1, <4>2 DEF Unique
    <3>4. r \in {"http", "graphql", "grpc", "agent"} BY <1>1, <1>2, JoinMade
    <3>5. QED BY <3>1, <3>2, <3>3, <3>4
  <2>3. QED BY <1>1, <1>2, <2>1, <2>2 DEF Mark
<1>3. CASE e.type # "INVOKES"
      BY <1>1, <1>3 DEF Mark
<1>4. QED BY <1>2, <1>3

\* Edges a pass fuses: each is made by a resolver, and two that fuse join the same two
\* repositories.
Clean(es) ==
    /\ \A e \in es : \E r \in DOMAIN Types : MadeBy(e, r)
    /\ \A e, f \in es : Triple(e) = Triple(f) => Mark(e) = Mark(f)

ByOnly(es, r) == {e \in es : e.detected_by = {r}}

\* Two edges that say the same of their ends and their resolvers
Same(e, f) == Triple(e) = Triple(f) /\ Mark(e) = Mark(f) /\ e.detected_by = f.detected_by
              /\ Columns \subseteq DOMAIN e

\* Fusing a group keeps its triple and the ends of its calls, and unites its resolvers.
LEMMA GroupFused ==
    ASSUME NEW es, Clean(es), NEW t \in Triples(es)
    PROVE  LET group == {e \in es : Triple(e) = t} IN
           \E any \in group :
              /\ Triple(Fused(group)) = t /\ Mark(Fused(group)) = Mark(any)
              /\ \/ Fused(group).detected_by = any.detected_by
                 \/ Fused(group).detected_by = UNION {e.detected_by : e \in group}
              /\ Columns \subseteq DOMAIN Fused(group)
<1> DEFINE group == {e \in es : Triple(e) = t}
           any == CHOOSE e \in group : TRUE
<1>1. any \in group
      BY DEF Triples
<1>2. /\ any \in es /\ Triple(any) = t /\ Columns \subseteq DOMAIN any
      /\ \A e \in group : Triple(e) = t /\ Mark(e) = Mark(any)
      BY <1>1 DEF Clean, MadeBy
<1> HIDE DEF group
<1>3. CASE Cardinality(group) = 1
  <2>1. Fused(group) = any
        BY <1>3 DEF Fused
  <2>2. QED BY <1>1, <1>2, <2>1 DEF group
<1>4. CASE Cardinality(group) # 1
  <2> DEFINE to == CHOOSE r \in {e.to : e \in group} : r # "" \/ \A e \in group : e.to = ""
             by == UNION {e.detected_by : e \in group}
  <2>1. PICK conf, evidence, weight, least :
           Fused(group) = [any EXCEPT !.confidence = conf, !.detected_by = by,
                              !.evidence = evidence, !.to = to, !.weight = weight,
                              !.min_confidence = least]
        BY <1>4, Zenon DEF Fused
  <2> HIDE DEF to, by
  <2>2. /\ Columns \subseteq DOMAIN Fused(group)
        /\ Fused(group).type = any.type /\ Fused(group).source = any.source
        /\ Fused(group).target = any.target /\ Fused(group).from = any.from
        /\ Fused(group).to = to /\ Fused(group).detected_by = by
        BY <1>2, <2>1 DEF Columns, Fields
  <2>3. any.type = "INVOKES" => to = any.to
    <3>1. ASSUME any.type = "INVOKES" PROVE \A e \in group : e.to = any.to
      <4>1. ASSUME NEW e \in group PROVE e.to = any.to
        <5>1. e.type = any.type /\ Mark(e) = Mark(any)
              BY <1>2 DEF Triple
        <5>2. QED BY <3>1, <5>1 DEF Mark
      <4>2. QED BY <4>1
    <3>2. {e.to : e \in group} # {}
          BY <1>1
    <3>3. ASSUME any.type = "INVOKES" PROVE \E r \in {e.to : e \in group} : r # "" \/ \A e \in group : e.to = ""
          BY <1>1, <3>1, <3>3
    <3>4. ASSUME any.type = "INVOKES" PROVE to \in {e.to : e \in group}
          BY <3>3, <3>4 DEF to
    <3>5. QED BY <3>1, <3>4
  <2>4. Triple(Fused(group)) = Triple(any)
        BY <2>2 DEF Triple
  <2>5. Mark(Fused(group)) = Mark(any)
        BY <2>2, <2>3, <2>4 DEF Mark
  <2>6. QED BY <1>1, <1>2, <2>2, <2>4, <2>5 DEF group, by
<1>5. QED BY <1>3, <1>4

\* Fusion loses no triple and makes up none,
LEMMA FuseTriples ==
    ASSUME NEW es, Clean(es)
    PROVE  /\ Triples(FuseEdges(es)) = Triples(es)
           /\ \A e \in FuseEdges(es) : Columns \subseteq DOMAIN e
<1> DEFINE group(t) == {e \in es : Triple(e) = t}
<1>1. \A t \in Triples(es) :
         Triple(Fused(group(t))) = t /\ Columns \subseteq DOMAIN Fused(group(t))
      BY GroupFused
<1>2. FuseEdges(es) = {Fused(group(t)) : t \in Triples(es)}
      BY DEF FuseEdges
<1> HIDE DEF group
<1>3. \A e \in FuseEdges(es) : Triple(e) \in Triples(es) /\ Columns \subseteq DOMAIN e
      BY <1>1, <1>2
<1>4. \A t \in Triples(es) : \E e \in FuseEdges(es) : Triple(e) = t
      BY <1>1, <1>2
<1>5. \A set : Triples(set) = {Triple(e) : e \in set}
      BY DEF Triples
<1>6. QED BY <1>3, <1>4, <1>5

\* and what one resolver alone found stays its own.
LEMMA FuseBy ==
    ASSUME NEW es, Clean(es), NEW r \in Plain
    PROVE  Marks(ByOnly(FuseEdges(es), r)) = Marks(ByOnly(es, r))
<1> DEFINE group(t) == {e \in es : Triple(e) = t}
<1>1. ASSUME NEW t \in Triples(es), NEW e \in group(t), e.detected_by = {r}
      PROVE  \A f \in group(t) : f.detected_by = {r}
  <2>1. ASSUME NEW f \in group(t) PROVE f.detected_by = {r}
    <3>1. PICK q \in DOMAIN Types : MadeBy(e, q) BY DEF Clean
    <3>2. PICK p \in DOMAIN Types : MadeBy(f, p) BY DEF Clean
    <3>3. q = r BY <1>1, <3>1 DEF MadeBy
    <3>4. e.type = f.type /\ e.target = f.target BY DEF Triple
    <3>5. p = r BY <3>1, <3>2, <3>3, <3>4, MadeByOne
    <3>6. QED BY <3>2, <3>5 DEF MadeBy
  <2>2. QED BY <2>1
<1>2. ASSUME NEW t \in Triples(es), Fused(group(t)).detected_by = {r}
      PROVE  \E e \in group(t) : e.detected_by = {r} /\ Mark(Fused(group(t))) = Mark(e)
  <2>1. PICK any \in group(t) :
           /\ Mark(Fused(group(t))) = Mark(any)
           /\ \/ Fused(group(t)).detected_by = any.detected_by
              \/ Fused(group(t)).detected_by = UNION {e.detected_by : e \in group(t)}
        BY GroupFused
  <2>2. PICK q \in DOMAIN Types : MadeBy(any, q) BY DEF Clean
  <2>3. any.detected_by = {q} BY <2>2 DEF MadeBy
  <2>4. q = r BY <1>2, <2>1, <2>3
  <2>5. QED BY <2>1, <2>3, <2>4
<1>3. ASSUME NEW t \in Triples(es), NEW e \in group(t), e.detected_by = {r}
      PROVE  Fused(group(t)).detected_by = {r} /\ Mark(Fused(group(t))) = Mark(e)
  <2>1. PICK any \in group(t) :
           /\ Mark(Fused(group(t))) = Mark(any)
           /\ \/ Fused(group(t)).detected_by = any.detected_by
              \/ Fused(group(t)).detected_by = UNION {f.detected_by : f \in group(t)}
        BY GroupFused
  <2>2. \A f \in group(t) : f.detected_by = {r} BY <1>1, <1>3
  <2>3. UNION {f.detected_by : f \in group(t)} = {r} BY <1>3, <2>2
  <2>4. Mark(any) = Mark(e) BY DEF Clean
  <2>5. QED BY <2>1, <2>2, <2>3, <2>4
<1>4. FuseEdges(es) = {Fused(group(t)) : t \in Triples(es)}
      BY DEF FuseEdges
<1>5. \A e \in es : Triple(e) \in Triples(es) /\ e \in group(Triple(e))
      BY DEF Triples
<1>6. \A t \in Triples(es) : group(t) \subseteq es
      OBVIOUS
<1> HIDE DEF group
<1>7. Marks(ByOnly(FuseEdges(es), r)) \subseteq Marks(ByOnly(es, r))
  <2>1. ASSUME NEW t \in Triples(es), Fused(group(t)).detected_by = {r}
        PROVE  Mark(Fused(group(t))) \in Marks(ByOnly(es, r))
        BY <1>2, <1>6, <2>1 DEF Marks, ByOnly
  <2>2. QED BY <1>4, <2>1 DEF Marks, ByOnly
<1>8. Marks(ByOnly(es, r)) \subseteq Marks(ByOnly(FuseEdges(es), r))
  <2>1. ASSUME NEW e \in es, e.detected_by = {r}
        PROVE  Mark(e) \in Marks(ByOnly(FuseEdges(es), r))
        BY <1>3, <1>4, <1>5, <2>1 DEF Marks, ByOnly
  <2>2. QED BY <2>1 DEF Marks, ByOnly
<1>9. QED BY <1>7, <1>8

\* The floor and the decisions change nothing but the status.
LEMMA StatusOnly ==
    ASSUME NEW f, Columns \subseteq DOMAIN f, NEW x
    PROVE  Same([f EXCEPT !.status = x], f)
<1> DEFINE e == [f EXCEPT !.status = x]
<1>1. /\ e.type = f.type /\ e.source = f.source /\ e.target = f.target
      /\ e.from = f.from /\ e.to = f.to /\ e.detected_by = f.detected_by
      /\ Columns \subseteq DOMAIN e
      BY DEF Columns, Fields
<1> HIDE DEF e
<1>2. Same(e, f)
      BY <1>1 DEF Same, Triple, Mark
<1>3. QED BY <1>2 DEF e

LEMMA FinalizeSame ==
    ASSUME NEW es, \A e \in FuseEdges(es) : Columns \subseteq DOMAIN e, NEW decisions
    PROVE  /\ \A e \in FinalizeEdges(es, decisions) : \E f \in FuseEdges(es) : Same(e, f)
           /\ \A f \in FuseEdges(es) : \E e \in FinalizeEdges(es, decisions) : Same(e, f)
<1> DEFINE fused == FuseEdges(es)
           floored(f) == [f EXCEPT !.status =
                             IF @ = "active" /\ f.confidence < Floor THEN "candidate" ELSE @]
           decided2(f) ==
              IF Triple(f) \notin DOMAIN decisions THEN f
              ELSE [f EXCEPT !.status = IF decisions[Triple(f)] = "reject" THEN "rejected"
                                        ELSE IF @ = "candidate" THEN "active" ELSE @]
<1>1. FinalizeEdges(es, decisions) = {decided2(e) : e \in {floored(f) : f \in fused}}
      BY DEF FinalizeEdges, ApplyFloor, ApplyPromotions
<1>2. \A f : Columns \subseteq DOMAIN f => Same(floored(f), f)
      BY StatusOnly
<1>3. \A f : Columns \subseteq DOMAIN f => Same(decided2(f), f)
  <2>1. \A f : Columns \subseteq DOMAIN f => Same(f, f)
        BY DEF Same
  <2>2. QED BY <2>1, StatusOnly
<1>4. \A f \in fused : Columns \subseteq DOMAIN f
      OBVIOUS
<1> HIDE DEF fused, floored, decided2
<1>5. \A f \in fused : Same(decided2(floored(f)), f)
      BY <1>2, <1>3, <1>4 DEF Same
<1>6. /\ \A e \in FinalizeEdges(es, decisions) : \E f \in fused : Same(e, f)
      /\ \A f \in fused : \E e \in FinalizeEdges(es, decisions) : Same(e, f)
      BY <1>1, <1>5
<1>7. QED BY <1>6 DEF fused

LEMMA FinalizeKeeps ==
    ASSUME NEW es, Clean(es), NEW decisions
    PROVE  /\ Triples(FinalizeEdges(es, decisions)) = Triples(es)
           /\ \A r \in Plain :
                 Marks(ByOnly(FinalizeEdges(es, decisions), r)) = Marks(ByOnly(es, r))
<1> DEFINE fin == FinalizeEdges(es, decisions)
           fused == FuseEdges(es)
<1>1. /\ \A e \in fin : \E f \in fused : Same(e, f)
      /\ \A f \in fused : \E e \in fin : Same(e, f)
      BY FuseTriples, FinalizeSame
<1> HIDE DEF fin, fused
<1>2. Triples(fin) = Triples(fused)
      BY <1>1 DEF Same, Triples
<1>3. ASSUME NEW r PROVE Marks(ByOnly(fin, r)) = Marks(ByOnly(fused, r))
  <2>1. ASSUME NEW e \in fin, e.detected_by = {r} PROVE Mark(e) \in Marks(ByOnly(fused, r))
        BY <1>1, <2>1 DEF Same, Marks, ByOnly
  <2>2. ASSUME NEW f \in fused, f.detected_by = {r} PROVE Mark(f) \in Marks(ByOnly(fin, r))
        BY <1>1, <2>2 DEF Same, Marks, ByOnly
  <2>3. QED BY <2>1, <2>2 DEF Marks, ByOnly
<1>4. QED BY <1>2, <1>3, FuseTriples, FuseBy DEF fin, fused

\* What rolls up is told by the marks of what is rolled up.
Within(es, fs) == \A e \in es : \E f \in fs : Mark(e) = Mark(f)

LEMMA MarkTells ==
    ASSUME NEW e, NEW f, Mark(e) = Mark(f)
    PROVE  /\ e.type = f.type /\ e.source = f.source /\ e.target = f.target
           /\ e.type = "INVOKES" => e.from = f.from /\ e.to = f.to
<1>1. Triple(e) = Triple(f)
      BY DEF Mark
<1>2. e.type = f.type /\ e.source = f.source /\ e.target = f.target
      BY <1>1 DEF Triple
<1>3. ASSUME e.type = "INVOKES" PROVE e.from = f.from /\ e.to = f.to
  <2>1. f.type = "INVOKES" BY <1>2, <1>3
  <2>2. <<e.from, e.to>> = <<f.from, f.to>> BY <1>3, <2>1 DEF Mark
  <2>3. QED BY <2>2
<1>4. QED BY <1>2, <1>3

LEMMA RolledMark ==
    ASSUME NEW ty \in {"CALLS_SERVICE", "DEPENDS_ON_REPO"}, NEW s, NEW t, NEW g, NEW f, NEW to
    PROVE  Mark(RolledUp(ty, s, t, g, f, to)) = <<<<s, ty, t>>, <<>>>>
BY DEF RolledUp, Mark, Triple

\* Rollups of edges that are among others, up to their marks, are among those of the others.
LEMMA CallsWithin ==
    ASSUME NEW ctx, NEW es, NEW fs, Within(es, fs)
    PROVE  Within(CallsRollup(ctx, es), CallsRollup(ctx, fs))
<1> DEFINE between(set, s, t) == {e \in set : /\ e.type = "INVOKES" /\ e.from = s
                                        /\ e.target[1] = "http" /\ e.target[2] = Service(t)}
           pairs(set) == {q \in ctx.services \X ctx.services :
                            q[1] # q[2] /\ between(set, q[1], q[2]) # {}}
           rolled(set, p) == RolledUp("CALLS_SERVICE", Service(p[1]), Service(p[2]),
                                      between(set, p[1], p[2]), p[1], p[2])
<1>1. \A set : CallsRollup(ctx, set) = {rolled(set, p) : p \in pairs(set)}
      BY DEF CallsRollup
<1>2. \A p \in pairs(es) : p \in pairs(fs)
  <2>1. ASSUME NEW s, NEW t, NEW e \in between(es, s, t) PROVE between(fs, s, t) # {}
    <3>1. PICK f \in fs : Mark(e) = Mark(f) BY DEF Within
    <3>2. f \in between(fs, s, t) BY <3>1, MarkTells
    <3>3. QED BY <3>2
  <2>2. QED BY <2>1
<1>3. \A set, p : Mark(rolled(set, p)) = <<<<Service(p[1]), "CALLS_SERVICE", Service(p[2])>>, <<>>>>
      BY RolledMark
<1> HIDE DEF pairs, rolled
<1>4. QED BY <1>1, <1>2, <1>3 DEF Within

LEMMA DependsWithin ==
    ASSUME NEW es, NEW fs, Within(es, fs)
    PROVE  Within(DependsRollup(es), DependsRollup(fs))
<1> DEFINE ends(e) == IF e.type = "CALLS_SERVICE" THEN <<e.source[2], e.target[2]>>
                      ELSE <<e.from, e.to>>
           calls(set) == {e \in set : /\ e.type \in {"INVOKES", "CALLS_SERVICE"}
                                /\ ends(e)[2] # "" /\ ends(e)[1] # ends(e)[2]}
           pairs(set) == {ends(e) : e \in calls(set)}
           rolled(set, p) == RolledUp("DEPENDS_ON_REPO", <<"repo", p[1]>>, <<"repo", p[2]>>,
                                      {e \in calls(set) : ends(e) = p}, p[1], p[2])
<1>1. \A set : DependsRollup(set) = {rolled(set, p) : p \in pairs(set)}
      BY DEF DependsRollup
<1>2. \A p \in pairs(es) : p \in pairs(fs)
  <2>1. ASSUME NEW e \in calls(es) PROVE \E f \in calls(fs) : ends(f) = ends(e)
    <3>1. PICK f \in fs : Mark(e) = Mark(f) BY DEF Within
    <3>2. /\ e.type = f.type /\ e.source = f.source /\ e.target = f.target
          /\ e.type = "INVOKES" => e.from = f.from /\ e.to = f.to
          BY <3>1, MarkTells
    <3>3. ends(f) = ends(e)
          BY <3>2
    <3>4. f \in calls(fs)
          BY <3>2, <3>3
    <3>5. QED BY <3>3, <3>4
  <2> HIDE DEF ends, calls
  <2>2. QED BY <2>1
<1> HIDE DEF ends, calls
<1>3. \A set, p : Mark(rolled(set, p)) = <<<<<<"repo", p[1]>>, "DEPENDS_ON_REPO", <<"repo", p[2]>>>>, <<>>>>
      BY RolledMark
<1> HIDE DEF pairs, rolled
<1>4. QED BY <1>1, <1>2, <1>3 DEF Within

LEMMA RollupsWithin ==
    ASSUME NEW ctx, NEW es, NEW fs, Within(es, fs)
    PROVE  Within(Rollups(ctx, es), Rollups(ctx, fs))
<1>1. Within(CallsRollup(ctx, es), CallsRollup(ctx, fs))
      BY CallsWithin
<1>2. Within(es \cup CallsRollup(ctx, es), fs \cup CallsRollup(ctx, fs))
      BY <1>1 DEF Within
<1>3. Within(DependsRollup(es \cup CallsRollup(ctx, es)), DependsRollup(fs \cup CallsRollup(ctx, fs)))
      BY <1>2, DependsWithin
<1>4. QED BY <1>1, <1>3 DEF Within, Rollups

------------------------------------------------------------------------------
\* An incremental run, from the edges "old" of a result whose claims were "before"
Up_to(old, before) ==
    \A r \in Plain : Marks(ByOnly(old, r)) = Marks(Join(Context(before), before, {r}))

\* A resolver that does not run again would join what it joined of the earlier claims:
\* neither the broadcast state nor a claim of its kinds moved.
LEMMA RerunResolvers ==
    ASSUME NEW cs, NEW before
    PROVE  /\ Rerun(cs, before) \subseteq JoinResolvers
           /\ JoinResolvers \ Rerun(cs, before) \subseteq Plain
           /\ \A r \in JoinResolvers \ Rerun(cs, before) :
                 Join(Context(before), before, {r}) = Join(Context(cs), cs, {r})
<1>1. AlwaysRerun \subseteq JoinResolvers
      BY DEF AlwaysRerun, JoinResolvers, ResolverKinds
<1>2. CASE FullNeeded(cs, before)
      BY <1>2 DEF Rerun
<1>3. CASE ~FullNeeded(cs, before)
  <2>1. Context(cs) = Context(before)
        BY <1>3 DEF FullNeeded, BroadcastDigest
  <2>2. Rerun(cs, before) = AlwaysRerun \cup {r \in JoinResolvers :
            ResolverKinds[r] \cap ChangedKinds(before, cs) # {}}
        BY <1>3 DEF Rerun
  <2>3. ASSUME NEW r \in JoinResolvers \ Rerun(cs, before)
        PROVE  Join(Context(before), before, {r}) = Join(Context(cs), cs, {r})
    <3>1. ResolverKinds[r] \cap ChangedKinds(before, cs) = {}
          BY <2>2
    <3>2. Restricted(cs, ResolverKinds[r]) = Restricted(before, ResolverKinds[r])
          BY <3>1 DEF Restricted, ChangedKinds
    <3>3. Join(Context(cs), Restricted(cs, ResolverKinds[r]), {r}) = Join(Context(cs), cs, {r})
          BY JoinRestricted
    <3>4. Join(Context(before), Restricted(before, ResolverKinds[r]), {r})
             = Join(Context(before), before, {r})
          BY JoinRestricted
    <3>5. QED BY <2>1, <3>2, <3>3, <3>4, Zenon
  <2>4. QED BY <1>1, <2>2, <2>3 DEF Plain
<1>4. QED BY <1>2, <1>3

\* What the resolvers of a run make of the reduced claims is what they make of all.
LEMMA ReducedJoin ==
    ASSUME NEW ctx, NEW cs, NEW rerun, rerun \subseteq JoinResolvers, NEW e
    PROVE  e \in Join(ctx, Restricted(cs, UNION {ResolverKinds[r] : r \in rerun}), rerun)
             <=> \E r \in rerun : e \in Join(ctx, cs, {r})
<1> DEFINE kinds == UNION {ResolverKinds[r] : r \in rerun}
<1>1. \A r \in rerun : ResolverKinds[r] \subseteq kinds
      OBVIOUS
<1> HIDE DEF kinds
<1>2. \A r \in rerun : Join(ctx, Restricted(cs, kinds), {r}) = Join(ctx, cs, {r})
      BY <1>1, JoinRestricted
<1>3. e \in Join(ctx, Restricted(cs, kinds), rerun)
         <=> \E r \in rerun : e \in Join(ctx, Restricted(cs, kinds), {r})
      BY JoinOnly
<1>4. e \in Join(ctx, Restricted(cs, kinds), rerun) <=> \E r \in rerun : e \in Join(ctx, cs, {r})
      BY <1>2, <1>3
<1>5. QED BY <1>4 DEF kinds

\* Broadcast, join and rollup edges never disagree on the ends of an edge.
LEMMA PassClean ==
    ASSUME NEW ctx, NEW cs, Unique(cs), NEW rerun, rerun \subseteq JoinResolvers, NEW es, NEW up,
           \A e \in es : \/ e \in Broadcast(ctx, cs)
                         \/ \E r \in rerun : e \in Join(ctx, cs, {r})
                         \/ e \in Rollups(ctx, up)
    PROVE  Clean(es)
<1> DEFINE Joined(e, r) == r \in JoinResolvers /\ e \in Join(ctx, cs, {r})
<1>1. ASSUME NEW e \in es
      PROVE  \/ \E r \in JoinResolvers : Joined(e, r) /\ MadeBy(e, r) /\ r \in DOMAIN Types
             \/ e.type # "INVOKES" /\ \E r \in DOMAIN Types \ Plain : MadeBy(e, r)
  <2>1. CASE e \in Broadcast(ctx, cs)
    <3>1. {"alias", "compose"} \subseteq DOMAIN Types \ Plain
          BY DEF Types, Plain, JoinResolvers, ResolverKinds
    <3>2. QED BY <2>1, <3>1, BroadcastMade
  <2>2. CASE \E r \in rerun : e \in Join(ctx, cs, {r})
        BY <2>2, JoinMadeBy
  <2>3. CASE e \in Rollups(ctx, up)
    <3>1. "rollup" \in DOMAIN Types \ Plain
          BY DEF Types, Plain, JoinResolvers, ResolverKinds
    <3>2. QED BY <2>3, <3>1, RollupsMade
  <2>4. QED BY <2>1, <2>2, <2>3
<1>2. ASSUME NEW e \in es, NEW f \in es, Triple(e) = Triple(f)
      PROVE  Mark(e) = Mark(f)
  <2>1. e.type = f.type /\ e.source = f.source /\ e.target = f.target
        BY <1>2 DEF Triple
  <2>2. CASE e.type # "INVOKES"
        BY <1>2, <2>1, <2>2 DEF Mark
  <2>3. CASE e.type = "INVOKES"
    <3>1. PICK r \in JoinResolvers : Joined(e, r) /\ MadeBy(e, r) /\ r \in DOMAIN Types
          BY <1>1, <2>3
    <3>2. f.type = "INVOKES"
          BY <2>1, <2>3
    <3>3. PICK q \in JoinResolvers : Joined(f, q) /\ MadeBy(f, q) /\ q \in DOMAIN Types
          BY <1>1, <3>2
    <3>4. r = q
      <4>1. CASE r \in Plain
            BY <2>1, <3>1, <3>3, <4>1, MadeByOne
      <4>2. CASE q \in Plain
            BY <2>1, <3>1, <3>3, <4>2, MadeByOne
      <4>3. CASE r \notin Plain /\ q \notin Plain
        <5>1. r \in {"env", "grpc"} /\ q \in {"env", "grpc"}
              BY <4>3 DEF Plain, AlwaysRerun
        <5>2. r # "env" /\ q # "env"
              BY <2>3, <3>1, <3>2, <3>3, JoinMade
        <5>3. QED BY <5>1, <5>2
      <4>4. QED BY <4>1, <4>2, <4>3
    <3>5. QED BY <1>2, <3>1, <3>3, <3>4, JoinEnds
  <2>4. QED BY <2>2, <2>3
<1>3. QED BY <1>1, <1>2 DEF Clean

\* What a run resolves again, what it keeps, and what it passes on to be fused
Rest(cs, before) == JoinResolvers \ Rerun(cs, before)
Kept(cs, before, old) == {e \in old : \E r \in Rest(cs, before) : e.detected_by = {r}}
Combined(cs, before) ==
    Broadcast(Context(cs), cs)
    \cup Join(Context(cs), {c \in cs : c.kind \in UNION {ResolverKinds[r] : r \in Rerun(cs, before)}},
              Rerun(cs, before))
Pass(cs, before, old) ==
    Combined(cs, before)
    \cup Rollups(Context(cs), Combined(cs, before) \cup Kept(cs, before, old))
All(cs) == Broadcast(Context(cs), cs) \cup Join(Context(cs), cs, JoinResolvers)
Joined(cs, r) == Join(Context(cs), cs, {r})

\* Relink and Link, in these terms
LEMMA RelinkIs ==
    ASSUME NEW cs, NEW before, NEW old, NEW decisions
    PROVE  /\ Relink(cs, before, old, decisions)
                 = [made |-> FinalizeEdges(Pass(cs, before, old), decisions),
                    kept |-> Kept(cs, before, old)]
           /\ Resolved(cs) = All(cs) \cup Rollups(Context(cs), All(cs))
BY Zenon DEF Relink, Only, Rest, Kept, Combined, Pass, Resolved, All

LEMMA CombinedHas ==
    ASSUME NEW cs, NEW before
    PROVE  /\ \A e : e \in Combined(cs, before)
                       <=> \/ e \in Broadcast(Context(cs), cs)
                           \/ \E r \in Rerun(cs, before) : e \in Joined(cs, r)
           /\ \A e : e \in All(cs) <=> \/ e \in Broadcast(Context(cs), cs)
                                      \/ \E r \in JoinResolvers : e \in Joined(cs, r)
<1> DEFINE rerun == Rerun(cs, before)
           reduced == {c \in cs : c.kind \in UNION {ResolverKinds[r] : r \in rerun}}
<1>1. reduced = Restricted(cs, UNION {ResolverKinds[r] : r \in rerun})
      BY DEF Restricted
<1>2. rerun \subseteq JoinResolvers
      BY RerunResolvers
<1>3. \A e : e \in Join(Context(cs), reduced, rerun) <=> \E r \in rerun : e \in Joined(cs, r)
      BY <1>1, <1>2, ReducedJoin DEF Joined
<1>4. \A e : e \in Join(Context(cs), cs, JoinResolvers)
                <=> \E r \in JoinResolvers : e \in Joined(cs, r)
      BY JoinOnly DEF Joined
<1> HIDE DEF reduced
<1>5. Combined(cs, before) = Broadcast(Context(cs), cs) \cup Join(Context(cs), reduced, rerun)
      BY DEF Combined, reduced
<1>6. QED BY <1>3, <1>4, <1>5 DEF All

\* What a run fuses, it or a full link, never disagrees on the ends of an edge.
LEMMA RunClean ==
    ASSUME NEW cs, Unique(cs), NEW before, NEW old
    PROVE  Clean(Pass(cs, before, old)) /\ Clean(Resolved(cs))
<1>1. Rerun(cs, before) \subseteq JoinResolvers
      BY RerunResolvers
<1>2. Clean(Pass(cs, before, old))
      BY <1>1, CombinedHas, PassClean DEF Pass, Joined
<1>3. Clean(Resolved(cs))
      BY CombinedHas, RelinkIs, PassClean DEF Joined
<1>4. QED BY <1>2, <1>3

\* The edges of one resolver, among those of a pass
LEMMA NotBroadcast ==
    ASSUME NEW ctx, NEW cs, NEW up, NEW r \in Plain, NEW e,
           e \in Broadcast(ctx, cs) \/ e \in Rollups(ctx, up)
    PROVE  e.detected_by # {r}
<1>1. e.detected_by \in {{"alias"}, {"compose"}, {"rollup"}}
      BY BroadcastMade, RollupsMade DEF MadeBy
<1>2. "alias" \notin Plain /\ "compose" \notin Plain /\ "rollup" \notin Plain
      BY DEF Plain, JoinResolvers, ResolverKinds
<1>3. QED BY <1>1, <1>2

LEMMA RunBy ==
    ASSUME NEW cs, NEW before, NEW old, NEW r \in Plain
    PROVE  /\ ByOnly(Pass(cs, before, old), r)
                 = IF r \in Rerun(cs, before) THEN Joined(cs, r) ELSE {}
           /\ ByOnly(Resolved(cs), r) = Joined(cs, r)
<1>1. Rerun(cs, before) \subseteq JoinResolvers /\ r \in JoinResolvers
      BY RerunResolvers DEF Plain
<1>2. \A q \in JoinResolvers : \A e \in Joined(cs, q) : e.detected_by = {q}
      BY JoinMadeBy DEF MadeBy, Joined
<1>3. \A e \in Pass(cs, before, old) :
         e.detected_by = {r} <=> r \in Rerun(cs, before) /\ e \in Joined(cs, r)
  <2>1. \A e \in Combined(cs, before) :
           e.detected_by = {r} => r \in Rerun(cs, before) /\ e \in Joined(cs, r)
    <3>1. ASSUME NEW e \in Combined(cs, before), e.detected_by = {r}
          PROVE  r \in Rerun(cs, before) /\ e \in Joined(cs, r)
      <4>1. e \notin Broadcast(Context(cs), cs) BY <3>1, NotBroadcast
      <4>2. PICK q \in Rerun(cs, before) : e \in Joined(cs, q) BY <4>1, CombinedHas
      <4>3. q = r BY <1>1, <1>2, <3>1, <4>2
      <4>4. QED BY <4>2, <4>3
    <3>2. QED BY <3>1
  <2>2. \A e \in Pass(cs, before, old) \ Combined(cs, before) : e.detected_by # {r}
        BY NotBroadcast DEF Pass
  <2>3. QED BY <1>1, <1>2, <2>1, <2>2
<1>4. \A e \in Resolved(cs) : e.detected_by = {r} <=> e \in Joined(cs, r)
      BY <1>1, <1>2, CombinedHas, NotBroadcast, RelinkIs
<1>5. /\ r \in Rerun(cs, before) => Joined(cs, r) \subseteq Pass(cs, before, old)
      /\ Joined(cs, r) \subseteq Resolved(cs)
      BY <1>1, CombinedHas, RelinkIs DEF Pass
<1>6. QED BY <1>3, <1>4, <1>5 DEF ByOnly

LEMMA KeptBy ==
    ASSUME NEW cs, NEW before, NEW old, NEW r \in Plain
    PROVE  ByOnly(Kept(cs, before, old), r)
              = IF r \in Rerun(cs, before) THEN {} ELSE ByOnly(old, r)
BY DEF ByOnly, Kept, Rest, Plain

\* One incremental run: what it leaves has the edges of a full link, and what the next
\* run may keep of it is what the claims join now.
LEMMA RelinkStep ==
    ASSUME NEW cs, Unique(cs), NEW before, NEW old, Up_to(old, before), NEW decisions,
           NEW new, new = Relink(cs, before, old, decisions)
    PROVE  /\ Triples(new.made \cup new.kept) = Triples(Resolved(cs))
           /\ Up_to(new.made \cup new.kept, cs)
<1> DEFINE ctx == Context(cs)
           rerun == Rerun(cs, before)
           rest == Rest(cs, before)
           kept == Kept(cs, before, old)
           combined == Combined(cs, before)
           pass == Pass(cs, before, old)
           J(r) == Joined(cs, r)
<1>1. new.made = FinalizeEdges(pass, decisions) /\ new.kept = kept
      BY RelinkIs
<1>2. /\ rerun \subseteq JoinResolvers /\ rest \subseteq Plain /\ JoinResolvers = rerun \cup rest
      /\ \A r \in rest : Join(Context(before), before, {r}) = J(r)
      BY RerunResolvers DEF Rest, Joined
\* What was kept of a resolver is what it joins now.
<1>3. ASSUME NEW r \in rest
      PROVE  /\ \A e \in kept : e.detected_by = {r} => \E f \in J(r) : Mark(f) = Mark(e)
             /\ \A f \in J(r) : \E e \in kept : e.detected_by = {r} /\ Mark(f) = Mark(e)
  <2>1. Marks(ByOnly(old, r)) = Marks(J(r))
        BY <1>2 DEF Up_to
  <2>2. ByOnly(old, r) = {e \in kept : e.detected_by = {r}}
        BY DEF ByOnly, Kept
  <2>3. QED BY <2>1, <2>2 DEF Marks
<1>4. \A e \in kept : \E r \in rest : e.detected_by = {r}
      BY DEF Kept
<1>5. /\ \A e : e \in combined <=> e \in Broadcast(ctx, cs) \/ \E r \in rerun : e \in J(r)
      /\ \A e : e \in All(cs) <=> e \in Broadcast(ctx, cs) \/ \E r \in JoinResolvers : e \in J(r)
      BY CombinedHas
<1>6. pass = combined \cup Rollups(ctx, combined \cup kept)
      BY DEF Pass
<1>7. Resolved(cs) = All(cs) \cup Rollups(ctx, All(cs))
      BY RelinkIs
<1>8. Clean(pass)
      BY RunClean
<1> HIDE DEF J, kept, combined, rest, rerun, pass
<1>9. Within(combined \cup kept, All(cs)) /\ Within(All(cs), combined \cup kept)
  <2>1. Within(combined \cup kept, All(cs))
        BY <1>2, <1>3, <1>4, <1>5 DEF Within
  <2>2. Within(All(cs), combined \cup kept)
        BY <1>2, <1>3, <1>5 DEF Within
  <2>3. QED BY <2>1, <2>2
<1>10. /\ Within(Rollups(ctx, combined \cup kept), Rollups(ctx, All(cs)))
       /\ Within(Rollups(ctx, All(cs)), Rollups(ctx, combined \cup kept))
      BY <1>9, RollupsWithin
<1>11. Within(pass \cup kept, Resolved(cs)) /\ Within(Resolved(cs), pass \cup kept)
      BY <1>6, <1>7, <1>9, <1>10 DEF Within
<1>12. Triples(new.made \cup new.kept) = Triples(Resolved(cs))
  <2>1. Triples(FinalizeEdges(pass, decisions)) = Triples(pass)
        BY <1>8, FinalizeKeeps
  <2>2. \A a, b : Triples(a \cup b) = Triples(a) \cup Triples(b)
        BY DEF Triples
  <2>3. Triples(new.made \cup new.kept) = Triples(new.made) \cup Triples(new.kept)
        BY <2>2
  <2>4. Triples(pass \cup kept) = Triples(pass) \cup Triples(kept)
        BY <2>2
  <2>5. Triples(new.made \cup new.kept) = Triples(pass \cup kept)
        BY <1>1, <2>1, <2>3, <2>4, Zenon
  <2>6. \A a, b : Within(a, b) => Triples(a) \subseteq Triples(b)
        BY DEF Within, Mark, Triples
  <2>7. QED BY <1>11, <2>5, <2>6
<1>13. ASSUME NEW r \in Plain
       PROVE  Marks(ByOnly(new.made \cup new.kept, r)) = Marks(J(r))
  <2>1. Marks(ByOnly(new.made, r)) = Marks(ByOnly(pass, r))
        BY <1>1, <1>8, FinalizeKeeps
  <2>2. \A a, b : Marks(ByOnly(a \cup b, r)) = Marks(ByOnly(a, r)) \cup Marks(ByOnly(b, r))
        BY DEF Marks, ByOnly
  <2>3. Marks(ByOnly(new.made \cup new.kept, r)) = Marks(ByOnly(pass, r)) \cup Marks(ByOnly(kept, r))
        BY <1>1, <2>1, <2>2
  <2>4. Marks({}) = {}
        BY DEF Marks
  <2>5. CASE r \in rerun
    <3>1. ByOnly(pass, r) = J(r) /\ ByOnly(kept, r) = {}
          BY <2>5, RunBy, KeptBy DEF pass, kept, J, rerun
    <3>2. QED BY <2>3, <2>4, <3>1
  <2>6. CASE r \notin rerun
    <3>1. ByOnly(pass, r) = {} /\ ByOnly(kept, r) = ByOnly(old, r)
          BY <2>6, RunBy, KeptBy DEF pass, kept, J, rerun
    <3>2. Marks(ByOnly(old, r)) = Marks(J(r))
      <4>1. r \in rest
            BY <1>2, <2>6 DEF Plain
      <4>2. QED BY <1>2, <4>1 DEF Up_to
    <3>3. QED BY <2>3, <2>4, <3>1, <3>2
  <2>7. QED BY <2>5, <2>6
<1>14. QED BY <1>12, <1>13 DEF Up_to, J, Joined

\* A full link has the edges it resolved, and of every resolver what its claims join.
LEMMA FullIsRelink ==
    ASSUME NEW cs, Unique(cs), NEW decisions
    PROVE  /\ Triples(Link(cs, decisions)) = Triples(Resolved(cs))
           /\ Up_to(Link(cs, decisions), cs)
<1>1. Clean(Resolved(cs))
      BY RunClean
<1>2. /\ Triples(Link(cs, decisions)) = Triples(Resolved(cs))
      /\ \A r \in Plain : Marks(ByOnly(Link(cs, decisions), r)) = Marks(ByOnly(Resolved(cs), r))
      BY <1>1, FinalizeKeeps DEF Link
<1>3. QED BY <1>2, RunBy DEF Up_to, Joined

------------------------------------------------------------------------------
\* What a resolver makes of finitely many claims are finitely many edges: each is told by a
\* claim, or by two.
LEMMA FiniteCover ==
    ASSUME NEW S, IsFiniteSet(S), NEW f, NEW T, \A y \in T : \E x \in S : y = f[x]
    PROVE  IsFiniteSet(T)
<1> DEFINE g == [x \in S |-> f[x]]
           U == {f[x] : x \in S}
<1>1. g \in Surjection(S, U)
      BY DEF Surjection
<1>2. IsFiniteSet(U)
      BY <1>1, FS_Surjection
<1>3. T \in SUBSET U
      OBVIOUS
<1>4. QED BY <1>2, <1>3, FS_Subset

LEMMA FiniteCovers ==
    ASSUME NEW S, IsFiniteSet(S), NEW f, NEW T, IsFiniteSet(T), NEW g,
           NEW U, \A y \in U : (\E x \in S : y = f[x]) \/ (\E x \in T : y = g[x])
    PROVE  IsFiniteSet(U)
<1> DEFINE A == {y \in U : \E x \in S : y = f[x]}
           B == {y \in U : \E x \in T : y = g[x]}
<1>1. IsFiniteSet(A) /\ IsFiniteSet(B)
      BY FiniteCover
<1>2. U = A \cup B
      OBVIOUS
<1> HIDE DEF A, B
<1>3. QED BY <1>1, <1>2, FS_Union

IsCall(e) == e.type \in {"INVOKES", "CALLS_SERVICE"}
CallsOf(es) == {e \in es : IsCall(e)}

LEMMA AliasFinite ==
    ASSUME NEW ctx, NEW cs, IsFiniteSet(cs)
    PROVE  IsFiniteSet(Alias(ctx, cs))
<1> DEFINE f == [c \in cs |-> Edge("alias", "BUILT_FROM", Service(c.repo), <<"repo", c.repo>>,
                                   Conf["alias"], c, "")]
<1>1. \A e \in Alias(ctx, cs) : \E c \in cs : e = f[c]
      BY DEF Alias, Of
<1> HIDE DEF f
<1>2. QED BY <1>1, FiniteCover

LEMMA CallsBetweenIs ==
    ASSUME NEW ctx, NEW r, NEW s, NEW t, NEW tier, NEW claim,
           NEW e \in CallsBetween(ctx, r, s, t, tier, claim)
    PROVE  e = Edge(r, "CALLS_SERVICE", Service(s), Service(t), Conf[tier], claim, "")
BY DEF CallsBetween

LEMMA ComposeFinite ==
    ASSUME NEW ctx, NEW cs, IsFiniteSet(cs)
    PROVE  IsFiniteSet(Compose(ctx, cs))
<1> DEFINE f == [c \in cs |-> Edge("compose", "CALLS_SERVICE", Service(c.repo),
                                   Service(c.callee), Conf[c.tier], c, "")]
<1>1. ASSUME NEW e \in Compose(ctx, cs) PROVE \E c \in cs : e = f[c]
  <2>1. PICK c \in cs : e \in CallsBetween(ctx, "compose", c.repo, c.callee, c.tier, c)
        BY <1>1 DEF Compose, Of
  <2>2. e = f[c]
        BY <2>1, CallsBetweenIs
  <2>3. QED BY <2>2
<1> HIDE DEF f
<1>2. QED BY <1>1, FiniteCover

LEMMA HttpFinite ==
    ASSUME NEW ctx, NEW cs, IsFiniteSet(cs)
    PROVE  IsFiniteSet(Http(ctx, cs))
<1> DEFINE f == [p \in cs |-> Edge("http", "EXPOSES", Node(p), Contract(ctx, p),
                                   Conf["exposes"], p, "")]
           g == [m \in cs \X cs |-> Edge("http", "INVOKES", Node(m[1]), Contract(ctx, m[2]),
                                          Conf[m[1].tier], m[1], m[2].repo)]
<1>1. \A e \in Http(ctx, cs) : (\E p \in cs : e = f[p]) \/ (\E m \in cs \X cs : e = g[m])
      BY DEF Http, Of
<1> HIDE DEF f, g
<1>2. IsFiniteSet(cs \X cs)
      BY FS_Product
<1>3. QED BY <1>1, <1>2, FiniteCovers

LEMMA WebhookFinite ==
    ASSUME NEW ctx, NEW cs, IsFiniteSet(cs)
    PROVE  IsFiniteSet(Webhook(ctx, cs))
<1> DEFINE g == [m \in cs \X cs |-> Edge("webhook", "REGISTERS_WEBHOOK", Service(m[1].repo),
                                          Contract(ctx, m[2]), Conf[m[1].tier], m[1], m[2].repo)]
<1>1. \A e \in Webhook(ctx, cs) : \E m \in cs \X cs : e = g[m]
      BY DEF Webhook, Of
<1> HIDE DEF g
<1>2. IsFiniteSet(cs \X cs)
      BY FS_Product
<1>3. QED BY <1>1, <1>2, FiniteCover

LEMMA GrpcFinite ==
    ASSUME NEW ctx, NEW cs, IsFiniteSet(cs)
    PROVE  IsFiniteSet(Grpc(ctx, cs))
<1> DEFINE d == [o \in cs |-> Edge("grpc", "DECLARES_CONTRACT", Node(o), <<"grpc", o.id>>,
                                   Conf[o.tier], o, "")]
           f == [m \in cs \X cs |->
                   Edge("grpc", IF m[1].direction = "provides" THEN "EXPOSES" ELSE "INVOKES",
                        Node(m[1]), <<"grpc", m[2].id>>, Conf[m[1].tier], m[1], m[2].repo)]
           g == [s \in cs |-> Edge("grpc", "CALLS_SERVICE", Service(s.repo), Service(s.callee),
                                   Conf["calls_service"], s, "")]
           R == {e \in Grpc(ctx, cs) : \E o \in cs : e = d[o]}
           S == {e \in Grpc(ctx, cs) : \E m \in cs \X cs : e = f[m]}
           T == {e \in Grpc(ctx, cs) : \E s \in cs : e = g[s]}
<1>1. ASSUME NEW e \in Grpc(ctx, cs) PROVE e \in R \/ e \in S \/ e \in T
  <2>1. CASE \E stubs \in SUBSET cs : e \in GrpcCalls(ctx, stubs)
    <3>1. PICK stubs \in SUBSET cs : e \in GrpcCalls(ctx, stubs)
          BY <2>1
    <3>2. PICK s \in cs : e \in CallsBetween(ctx, "grpc", s.repo, s.callee, "calls_service", s)
          BY <3>1 DEF GrpcCalls
    <3>3. e = g[s]
          BY <3>2, CallsBetweenIs
    <3>4. QED BY <3>3
  <2>2. CASE ~ \E stubs \in SUBSET cs : e \in GrpcCalls(ctx, stubs)
    <3>1. \/ \E o \in cs : e = Edge("grpc", "DECLARES_CONTRACT", Node(o), <<"grpc", o.id>>,
                                    Conf[o.tier], o, "")
          \/ \E m \in cs \X cs :
                e = Edge("grpc", IF m[1].direction = "provides" THEN "EXPOSES" ELSE "INVOKES",
                         Node(m[1]), <<"grpc", m[2].id>>, Conf[m[1].tier], m[1], m[2].repo)
          BY <2>2, ZenonT(60) DEF Grpc, Of
    <3>2. QED BY <3>1
  <2>3. QED BY <2>1, <2>2
<1> HIDE DEF d, f, g
<1>2. IsFiniteSet(cs \X cs)
      BY FS_Product
<1>3. IsFiniteSet(R) /\ IsFiniteSet(S) /\ IsFiniteSet(T)
      BY <1>2, FiniteCover
<1>4. Grpc(ctx, cs) = R \cup (S \cup T)
      BY <1>1
<1> HIDE DEF R, S, T
<1>5. IsFiniteSet(R \cup (S \cup T))
  <2>1. IsFiniteSet(S \cup T)
        BY <1>3, FS_Union
  <2>2. QED BY <1>3, <2>1, FS_Union
<1>6. QED BY <1>4, <1>5

LEMMA GraphqlFinite ==
    ASSUME NEW ctx, NEW cs, IsFiniteSet(cs)
    PROVE  IsFiniteSet(Graphql(ctx, cs))
<1> DEFINE found(c) == {f \in Of(cs, "graphqlop", "provides") : f.path = c.path}
           worth(c) == IF \E f \in found(c) : f.tier = "federated" THEN Conf["federated"]
                       ELSE Conf["field_name"] \div Cardinality({f.repo : f \in found(c)})
           d == [p \in cs |-> Edge("graphql", "EXPOSES", Node(p), <<"graphql", p.path>>,
                                   Conf["exposes"], p, "")]
           f == [c \in cs |-> Edge("graphql", "INVOKES", Node(c), <<"graphql", c.path>>, worth(c), c,
                                   Declarer(cs, c.path))]
<1>1. ASSUME NEW e \in Graphql(ctx, cs)
      PROVE  (\E p \in cs : e = d[p]) \/ (\E c \in cs : e = f[c])
  <2>1. CASE \E p \in cs : e = Edge("graphql", "EXPOSES", Node(p), <<"graphql", p.path>>,
                                    Conf["exposes"], p, "")
        BY <2>1
  <2>2. CASE \E c \in cs : e = Edge("graphql", "INVOKES", Node(c), <<"graphql", c.path>>, worth(c), c,
                                   Declarer(cs, c.path))
        BY <2>2
  <2>3. QED BY <2>1, <2>2 DEF Graphql, Declarer, Of
<1> HIDE DEF d, f
<1>2. QED BY <1>1, FiniteCovers

LEMMA AgentFinite ==
    ASSUME NEW ctx, NEW cs, IsFiniteSet(cs)
    PROVE  IsFiniteSet(Agent(ctx, cs))
<1> DEFINE d == [t \in cs |-> Edge("agent", "EXPOSES", Node(t), <<t.kind, t.id>>, Conf[t.tier], t, "")]
           f == [m \in cs \X cs |-> Edge("agent", "INVOKES", Node(m[1]), <<m[2].kind, m[2].id>>,
                                          Conf[m[1].tier], m[1], m[2].repo)]
<1>1. ASSUME NEW e \in Agent(ctx, cs)
      PROVE  (\E t \in cs : e = d[t]) \/ (\E m \in cs \X cs : e = f[m])
  <2>1. CASE \E t \in cs : e = Edge("agent", "EXPOSES", Node(t), <<t.kind, t.id>>, Conf[t.tier], t, "")
        BY <2>1
  <2>2. CASE \E m \in cs \X cs : e = Edge("agent", "INVOKES", Node(m[1]), <<m[2].kind, m[2].id>>,
                                          Conf[m[1].tier], m[1], m[2].repo)
        BY <2>2
  <2>3. QED BY <2>1, <2>2, ZenonT(60) DEF Agent, Of
<1> HIDE DEF d, f
<1>2. IsFiniteSet(cs \X cs)
      BY FS_Product
<1>3. QED BY <1>1, <1>2, FiniteCovers

LEMMA EnvFinite ==
    ASSUME NEW ctx, NEW cs, IsFiniteSet(cs)
    PROVE  IsFiniteSet(Env(ctx, cs))
<1> DEFINE its(c) == {v \in ctx.env_values : v.path = c.path}
           own(c) == {v \in its(c) : v.repo = c.repo}
           hosts(c) == {v.callee : v \in IF own(c) # {} THEN own(c) ELSE its(c)}
           f == [c \in cs |-> Edge("env", "CALLS_SERVICE", Service(c.repo),
                                   Service(CHOOSE h \in hosts(c) : TRUE), Conf[c.tier], c, "")]
<1>1. ASSUME NEW e \in Env(ctx, cs) PROVE \E c \in cs : e = f[c]
  <2>1. PICK c \in cs : \E set : /\ e \in set
           /\ set = CallsBetween(ctx, "env", c.repo, CHOOSE h \in hosts(c) : TRUE, c.tier, c)
        BY <1>1 DEF Env, Of
  <2>2. e = f[c]
        BY <2>1, CallsBetweenIs
  <2>3. QED BY <2>2
<1> HIDE DEF f
<1>2. QED BY <1>1, FiniteCover

\* An edge from a claim's site starts at its file or at its service.
LEMMA SiteIs ==
    ASSUME NEW ctx, NEW r, NEW type, NEW t, NEW c, NEW e \in FromSite(ctx, r, type, t, c)
    PROVE  \/ e = Edge(r, type, Node(c), t, Conf[c.tier], c, "")
           \/ e = Edge(r, type, Service(c.repo), t, Conf[c.tier], c, "")
BY DEF FromSite

LEMMA TopicFinite ==
    ASSUME NEW ctx, NEW cs, IsFiniteSet(cs)
    PROVE  IsFiniteSet(Topic(ctx, cs))
<1> DEFINE named(c) == IF c.callee = "literal" THEN {c.path}
                       ELSE {v.callee : v \in {w \in ctx.env_values : w.path = c.path}}
           type(c) == IF c.direction = "provides" THEN "PUBLISHES_TO" ELSE "CONSUMES_FROM"
           topic(c) == <<"topic", CHOOSE n \in named(c) : TRUE>>
           f == [c \in cs |-> Edge("topic", type(c), Node(c), topic(c), Conf[c.tier], c, "")]
           g == [c \in cs |-> Edge("topic", type(c), Service(c.repo), topic(c), Conf[c.tier], c, "")]
<1>1. ASSUME NEW e \in Topic(ctx, cs) PROVE (\E c \in cs : e = f[c]) \/ (\E c \in cs : e = g[c])
  <2>1. PICK c \in cs : \E set : e \in set /\ set = FromSite(ctx, "topic", type(c), topic(c), c)
        BY <1>1 DEF Topic
  <2>2. e = f[c] \/ e = g[c]
        BY <2>1, SiteIs
  <2>3. QED BY <2>2
<1> HIDE DEF f, g
<1>2. QED BY <1>1, FiniteCovers

LEMMA DatasetFinite ==
    ASSUME NEW ctx, NEW cs, IsFiniteSet(cs)
    PROVE  IsFiniteSet(Dataset(ctx, cs))
<1> DEFINE type(c) == IF c.direction = "provides" THEN "WRITES_TO" ELSE "READS_FROM"
           f == [c \in cs |-> Edge("dataset", type(c), Node(c), <<"dataset", c.path>>,
                                   Conf[c.tier], c, "")]
           g == [c \in cs |-> Edge("dataset", type(c), Service(c.repo), <<"dataset", c.path>>,
                                   Conf[c.tier], c, "")]
<1>1. ASSUME NEW e \in Dataset(ctx, cs) PROVE (\E c \in cs : e = f[c]) \/ (\E c \in cs : e = g[c])
  <2>1. PICK c \in cs : \E set : /\ e \in set
           /\ set = FromSite(ctx, "dataset", type(c), <<"dataset", c.path>>, c)
        BY <1>1 DEF Dataset
  <2>2. e = f[c] \/ e = g[c]
        BY <2>1, SiteIs
  <2>3. QED BY <2>2
<1> HIDE DEF f, g
<1>2. QED BY <1>1, FiniteCovers

LEMMA OperationFinite ==
    ASSUME NEW ctx, NEW cs, IsFiniteSet(cs)
    PROVE  IsFiniteSet(Operation(ctx, cs))
<1> DEFINE bound(o) == {Contract(ctx, p) : p \in {q \in Of(cs, "http", "provides") :
                                                    q.path = o.path}}
           f == [o \in cs |-> SameOperation(o, CHOOSE b \in bound(o) : TRUE, "exposes", {})]
           g == [m \in cs \X cs |-> SameOperation(m[2], <<"topic", m[1].path>>, "event_schema",
                                                   {<<m[1].id, m[1].version>>})]
<1>1. ASSUME NEW e \in Operation(ctx, cs)
      PROVE  (\E o \in cs : e = f[o]) \/ (\E m \in cs \X cs : e = g[m])
  <2>1. \/ \E o \in cs : e = SameOperation(o, CHOOSE b \in bound(o) : TRUE, "exposes", {})
        \/ \E m \in cs \X cs : e = SameOperation(m[2], <<"topic", m[1].path>>, "event_schema",
                                                   {<<m[1].id, m[1].version>>})
        BY <1>1, ZenonT(60) DEF Operation, Of
  <2>2. QED BY <2>1
<1> HIDE DEF f, g
<1>2. IsFiniteSet(cs \X cs)
      BY FS_Product
<1>3. QED BY <1>1, <1>2, FiniteCovers

LEMMA OwnerFinite ==
    ASSUME NEW ctx, NEW cs, IsFiniteSet(cs)
    PROVE  IsFiniteSet(Owner(ctx, cs))
<1> DEFINE owners == Of(cs, "owner", "provides")
           first(c) == CHOOSE o \in owners : o.repo = c.repo /\ o.path = c.path
           team(c) == Edge("owner", "OWNED_BY", <<"repo", c.repo>>, <<"team", c.path>>,
                           Conf[c.tier], c, "")
           f == [o \in cs |-> team(first(o))]
           g == [c \in cs |-> Edge("owner", "OWNED_BY", Service(c.callee), <<"team", c.path>>,
                                   Conf[c.tier], c, "")]
<1>1. ASSUME NEW e \in Owner(ctx, cs)
      PROVE  (\E o \in cs : e = f[o]) \/ (\E c \in cs : e = g[c])
  <2>1. owners \subseteq cs
        BY DEF Of
  <2>2. \/ \E c \in {first(o) : o \in owners} : e = team(c)
        \/ \E c \in owners : e = Edge("owner", "OWNED_BY", Service(c.callee), <<"team", c.path>>,
                                       Conf[c.tier], c, "")
        BY <1>1, Zenon DEF Owner
  <2> HIDE DEF owners, first, team
  <2>3. QED BY <2>1, <2>2
<1> HIDE DEF f, g
<1>2. QED BY <1>1, FiniteCovers

\* All that the resolvers make of finitely many claims is finite.
LEMMA JoinedFinite ==
    ASSUME NEW ctx, NEW cs, IsFiniteSet(cs)
    PROVE  IsFiniteSet(Broadcast(ctx, cs) \cup Join(ctx, cs, JoinResolvers))
<1> DEFINE A == Broadcast(ctx, cs) \cup (Http(ctx, cs) \cup Webhook(ctx, cs))
           B == (Grpc(ctx, cs) \cup Graphql(ctx, cs)) \cup (Agent(ctx, cs) \cup Topic(ctx, cs))
           C == (Operation(ctx, cs) \cup Dataset(ctx, cs)) \cup (Owner(ctx, cs) \cup Env(ctx, cs))
<1>1. IsFiniteSet(Broadcast(ctx, cs))
      BY AliasFinite, ComposeFinite, FS_Union DEF Broadcast
<1>2. IsFiniteSet(A)
  <2>1. IsFiniteSet(Http(ctx, cs) \cup Webhook(ctx, cs))
        BY HttpFinite, WebhookFinite, FS_Union
  <2>2. QED BY <1>1, <2>1, FS_Union
<1>3. IsFiniteSet(B)
  <2>1. IsFiniteSet(Grpc(ctx, cs) \cup Graphql(ctx, cs))
        BY GrpcFinite, GraphqlFinite, FS_Union
  <2>2. IsFiniteSet(Agent(ctx, cs) \cup Topic(ctx, cs))
        BY AgentFinite, TopicFinite, FS_Union
  <2>3. QED BY <2>1, <2>2, FS_Union
<1>4. IsFiniteSet(C)
  <2>1. IsFiniteSet(Operation(ctx, cs) \cup Dataset(ctx, cs))
        BY OperationFinite, DatasetFinite, FS_Union
  <2>2. IsFiniteSet(Owner(ctx, cs) \cup Env(ctx, cs))
        BY OwnerFinite, EnvFinite, FS_Union
  <2>3. QED BY <2>1, <2>2, FS_Union
<1>5. IsFiniteSet(A \cup (B \cup C))
  <2>1. IsFiniteSet(B \cup C)
        BY <1>3, <1>4, FS_Union
  <2>2. QED BY <1>2, <2>1, FS_Union
<1>6. Broadcast(ctx, cs) \cup Join(ctx, cs, JoinResolvers) \in SUBSET (A \cup (B \cup C))
  <2>1. ASSUME NEW r \in JoinResolvers, NEW e \in Join(ctx, cs, {r})
        PROVE  e \in A \cup (B \cup C)
        BY <2>1 DEF Join, JoinResolvers, ResolverKinds
  <2>2. ASSUME NEW e \in Join(ctx, cs, JoinResolvers)
        PROVE  e \in A \cup (B \cup C)
        BY <2>1, <2>2, JoinOnly
  <2>3. QED BY <2>2
<1>7. QED BY <1>5, <1>6, FS_Subset

LEMMA CallsFinite ==
    ASSUME NEW ctx, NEW cs, IsFiniteSet(cs)
    PROVE  IsFiniteSet(CallsOf(Broadcast(ctx, cs) \cup Join(ctx, cs, JoinResolvers)))
BY JoinedFinite, FS_Subset DEF CallsOf

------------------------------------------------------------------------------
\* Finitely many edges with as many triples have each a triple of its own.
LEMMA AsManyTriples ==
    ASSUME NEW S, IsFiniteSet(S), Cardinality(Triples(S)) = Cardinality(S)
    PROVE  \A e, f \in S : Triple(e) = Triple(f) => e = f
<1> DEFINE g == [e \in S |-> Triple(e)]
<1>1. g \in Surjection(S, Triples(S))
      BY DEF Surjection, Triples
<1>2. g \in Injection(S, Triples(S))
      BY <1>1, FS_Surjection
<1>3. \A e, f \in S : g[e] = g[f] => e = f
      BY <1>2 DEF Injection, IsInjective
<1>4. QED BY <1>3

\* The edge a pass leaves of a fused one: its status is the only thing that changes.
Final(f, decisions) ==
    LET floored == [f EXCEPT !.status =
                       IF @ = "active" /\ f.confidence < Floor THEN "candidate" ELSE @] IN
    IF Triple(floored) \notin DOMAIN decisions THEN floored
    ELSE [floored EXCEPT !.status = IF decisions[Triple(floored)] = "reject" THEN "rejected"
                                    ELSE IF @ = "candidate" THEN "active" ELSE @]

\* FinalizeEdges, edge by edge
LEMMA FinalizeIs ==
    ASSUME NEW es, NEW decisions
    PROVE  FinalizeEdges(es, decisions) = {Final(f, decisions) : f \in FuseEdges(es)}
<1> DEFINE floored(f) == [f EXCEPT !.status =
                             IF @ = "active" /\ f.confidence < Floor THEN "candidate" ELSE @]
           verdict(f) ==
              IF Triple(f) \notin DOMAIN decisions THEN f
              ELSE [f EXCEPT !.status = IF decisions[Triple(f)] = "reject" THEN "rejected"
                                        ELSE IF @ = "candidate" THEN "active" ELSE @]
<1>1. FinalizeEdges(es, decisions) = {verdict(e) : e \in {floored(f) : f \in FuseEdges(es)}}
      BY DEF FinalizeEdges, ApplyFloor, ApplyPromotions
<1>2. \A f : Final(f, decisions) = verdict(floored(f))
      BY DEF Final
<1> HIDE DEF floored, verdict
<1>3. QED BY <1>1, <1>2

LEMMA FinalSame ==
    ASSUME NEW f, Columns \subseteq DOMAIN f, NEW decisions
    PROVE  Same(Final(f, decisions), f) /\ Final(f, decisions).confidence = f.confidence
<1> DEFINE floored == [f EXCEPT !.status =
                       IF @ = "active" /\ f.confidence < Floor THEN "candidate" ELSE @]
<1>1. \A g : Columns \subseteq DOMAIN g => \A x : Same([g EXCEPT !.status = x], g)
      BY StatusOnly
<1>2. \A g : Columns \subseteq DOMAIN g => \A x : [g EXCEPT !.status = x].confidence = g.confidence
      BY DEF Columns, Fields
<1>3. Same(floored, f) /\ floored.confidence = f.confidence
      BY <1>1, <1>2
<1>4. \/ Final(f, decisions) = floored
      \/ \E x : Final(f, decisions) = [floored EXCEPT !.status = x]
      BY DEF Final
<1> HIDE DEF floored
<1>5. CASE Final(f, decisions) = floored BY <1>3, <1>5
<1>6. CASE \E x : Final(f, decisions) = [floored EXCEPT !.status = x]
  <2>1. PICK x : Final(f, decisions) = [floored EXCEPT !.status = x] BY <1>6
  <2>2. Columns \subseteq DOMAIN floored BY <1>3 DEF Same
  <2>3. Same(Final(f, decisions), floored) /\ Final(f, decisions).confidence = floored.confidence
        BY <1>1, <1>2, <2>1, <2>2
  <2>4. QED BY <1>3, <2>3 DEF Same
<1>7. QED BY <1>4, <1>5, <1>6

\* A group of a part that holds every edge of its triples is the group in the whole.
LEMMA FusePart ==
    ASSUME NEW es, NEW part, part \subseteq es,
           \A e \in part : \A f \in es : Triple(e) = Triple(f) => f \in part
    PROVE  FuseEdges(part) = {Fused({e \in es : Triple(e) = t}) : t \in Triples(part)}
<1>1. ASSUME NEW t \in Triples(part)
      PROVE  {e \in part : Triple(e) = t} = {e \in es : Triple(e) = t}
      BY DEF Triples
<1> DEFINE g(t) == {e \in part : Triple(e) = t}
           h(t) == {e \in es : Triple(e) = t}
<1>2. \A t \in Triples(part) : g(t) = h(t) BY <1>1
<1>3. FuseEdges(part) = {Fused(g(t)) : t \in Triples(part)} BY DEF FuseEdges
<1> HIDE DEF g, h
<1>4. FuseEdges(part) = {Fused(h(t)) : t \in Triples(part)} BY <1>2, <1>3
<1>5. QED BY <1>4 DEF h

\* The edges of no resolver that a run may leave out
Others(es) == {e \in es : \A r \in Plain : e.detected_by # {r}}

\* A group is of one resolver that may be left out, or of none of them.
LEMMA GroupBy ==
    ASSUME NEW es, Clean(es), NEW r \in Plain, NEW t \in Triples(es)
    PROVE  LET group == {e \in es : Triple(e) = t} IN
           /\ \A e, f \in group : e.detected_by = {r} => f.detected_by = {r}
           /\ \A e \in group : Fused(group).detected_by = {r} <=> e.detected_by = {r}
<1> DEFINE group == {e \in es : Triple(e) = t}
<1>1. ASSUME NEW e \in group, NEW f \in group, e.detected_by = {r} PROVE f.detected_by = {r}
  <2>1. PICK q \in DOMAIN Types : MadeBy(e, q) BY DEF Clean
  <2>2. PICK p \in DOMAIN Types : MadeBy(f, p) BY DEF Clean
  <2>3. q = r BY <1>1, <2>1 DEF MadeBy
  <2>4. e.type = f.type /\ e.target = f.target BY DEF Triple
  <2>5. p = r BY <2>1, <2>2, <2>3, <2>4, MadeByOne
  <2>6. QED BY <2>2, <2>5 DEF MadeBy
<1>2. PICK any \in group : \/ Fused(group).detected_by = any.detected_by
                          \/ Fused(group).detected_by = UNION {e.detected_by : e \in group}
      BY GroupFused
<1>3. ASSUME NEW e \in group, e.detected_by = {r} PROVE Fused(group).detected_by = {r}
  <2>1. \A f \in group : f.detected_by = {r} BY <1>1, <1>3
  <2>2. UNION {f.detected_by : f \in group} = {r} BY <2>1
  <2>3. QED BY <1>2, <2>1, <2>2
<1>4. ASSUME NEW e \in group, Fused(group).detected_by = {r} PROVE e.detected_by = {r}
  <2>1. PICK q \in DOMAIN Types : MadeBy(any, q) BY DEF Clean
  <2>2. any.detected_by = {q} BY <2>1 DEF MadeBy
  <2>3. q \in Fused(group).detected_by
    <3> HIDE DEF group
    <3>1. QED BY <1>2, <2>2
  <2>4. q = r BY <1>4, <2>3
  <2>5. QED BY <1>1, <2>2, <2>4
<1>5. QED BY <1>1, <1>3, <1>4

\* The resolvers that may be left out fuse with nobody, so a result falls apart into theirs
\* and that of the others,
LEMMA FuseParts ==
    ASSUME NEW es, Clean(es)
    PROVE  /\ \A r \in Plain : ByOnly(FuseEdges(es), r) = FuseEdges(ByOnly(es, r))
           /\ Others(FuseEdges(es)) = FuseEdges(Others(es))
<1> DEFINE group(t) == {e \in es : Triple(e) = t}
<1>1. FuseEdges(es) = {Fused(group(t)) : t \in Triples(es)}
      BY DEF FuseEdges
<1>2. ASSUME NEW t \in Triples(es), NEW r \in Plain
      PROVE  /\ \A e, f \in group(t) : e.detected_by = {r} => f.detected_by = {r}
             /\ \A e \in group(t) : Fused(group(t)).detected_by = {r} <=> e.detected_by = {r}
      BY GroupBy
<1>3. \A t \in Triples(es) : \E e \in es : e \in group(t) /\ Triple(e) = t
      BY DEF Triples
<1>4. \A e \in es : Triple(e) \in Triples(es) /\ e \in group(Triple(e))
      BY DEF Triples
<1>5. ASSUME NEW part, part \subseteq es, \A e \in part : \A f \in es : Triple(e) = Triple(f) => f \in part
      PROVE  FuseEdges(part) = {Fused(group(t)) : t \in Triples(part)}
      BY <1>5, FusePart
<1> HIDE DEF group
<1>6. ASSUME NEW r \in Plain PROVE ByOnly(FuseEdges(es), r) = FuseEdges(ByOnly(es, r))
  <2>1. \A e \in ByOnly(es, r) : \A f \in es : Triple(e) = Triple(f) => f \in ByOnly(es, r)
        BY <1>2, <1>4 DEF ByOnly
  <2>2. FuseEdges(ByOnly(es, r)) = {Fused(group(t)) : t \in Triples(ByOnly(es, r))}
        BY <1>5, <2>1 DEF ByOnly
  <2>3. \A t \in Triples(es) : Fused(group(t)).detected_by = {r} <=> t \in Triples(ByOnly(es, r))
        BY <1>2, <1>3, <1>4 DEF Triples, ByOnly
  <2>4. Triples(ByOnly(es, r)) \subseteq Triples(es)
        BY DEF Triples, ByOnly
  <2>5. QED BY <1>1, <2>2, <2>3, <2>4 DEF ByOnly
<1>7. Others(FuseEdges(es)) = FuseEdges(Others(es))
  <2>1. \A e \in Others(es) : \A f \in es : Triple(e) = Triple(f) => f \in Others(es)
        BY <1>2, <1>4 DEF Others
  <2>2. FuseEdges(Others(es)) = {Fused(group(t)) : t \in Triples(Others(es))}
        BY <1>5, <2>1 DEF Others
  <2>3. \A t \in Triples(es) : (\A r \in Plain : Fused(group(t)).detected_by # {r}) <=> t \in Triples(Others(es))
        BY <1>2, <1>3, <1>4 DEF Triples, Others
  <2>4. Triples(Others(es)) \subseteq Triples(es)
        BY DEF Triples, Others
  <2>5. QED BY <1>1, <2>2, <2>3, <2>4 DEF Others
<1>8. QED BY <1>6, <1>7

\* and so does what the floor and the decisions make of it.
LEMMA FinalizeParts ==
    ASSUME NEW es, Clean(es), NEW decisions
    PROVE  /\ \A r \in Plain : ByOnly(FinalizeEdges(es, decisions), r)
                                 = FinalizeEdges(ByOnly(es, r), decisions)
           /\ Others(FinalizeEdges(es, decisions)) = FinalizeEdges(Others(es), decisions)
<1>1. \A set : FinalizeEdges(set, decisions) = {Final(f, decisions) : f \in FuseEdges(set)}
      BY FinalizeIs
<1>2. \A f \in FuseEdges(es) : Columns \subseteq DOMAIN f
      BY FuseTriples
<1>3. \A f \in FuseEdges(es) : Final(f, decisions).detected_by = f.detected_by
      BY <1>2, FinalSame DEF Same
<1>4. ASSUME NEW r \in Plain
      PROVE  ByOnly(FinalizeEdges(es, decisions), r) = FinalizeEdges(ByOnly(es, r), decisions)
  <2>1. FuseEdges(ByOnly(es, r)) = {f \in FuseEdges(es) : f.detected_by = {r}}
        BY FuseParts DEF ByOnly
  <2>2. QED BY <1>1, <1>3, <2>1 DEF ByOnly
<1>5. Others(FinalizeEdges(es, decisions)) = FinalizeEdges(Others(es), decisions)
  <2>1. FuseEdges(Others(es)) = {f \in FuseEdges(es) : \A r \in Plain : f.detected_by # {r}}
        BY FuseParts DEF Others
  <2>2. QED BY <1>1, <1>3, <2>1 DEF Others
<1>6. QED BY <1>4, <1>5

------------------------------------------------------------------------------
\* A weighted edge does not change when the calls it counts are replaced one by one.
LEMMA RolledSame ==
    ASSUME NEW G, IsFiniteSet(G), NEW h, \A e, f \in G : h[e] = h[f] => e = f,
           \A e \in G : h[e].confidence = e.confidence, NEW K, K = {h[e] : e \in G},
           NEW ty, NEW s, NEW t, NEW from, NEW to
    PROVE  RolledUp(ty, s, t, K, from, to) = RolledUp(ty, s, t, G, from, to)
<1> DEFINE g == [e \in G |-> h[e]]
<1>1. g \in Surjection(G, K) /\ g \in Injection(G, K)
      BY DEF Surjection, Injection, IsInjective
<1>2. Cardinality(K) = Cardinality(G)
      BY <1>1, FS_Surjection
<1>3. {e.confidence : e \in K} = {e.confidence : e \in G}
      OBVIOUS
<1>4. QED BY <1>2, <1>3, Zenon DEF RolledUp

\* "h" takes each call of one set to a call of another that joins the same and is worth
\* the same.
Twins(h, fs, es) ==
    /\ \A e \in CallsOf(fs) :
          h[e] \in CallsOf(es) /\ Mark(h[e]) = Mark(e) /\ h[e].confidence = e.confidence
    /\ \A e, f \in CallsOf(fs) : h[e] = h[f] => e = f
    /\ \A k \in CallsOf(es) : \E e \in CallsOf(fs) : k = h[e]

\* Weighted calls, and dependencies, of two sets of edges whose calls are the same
LEMMA CallsSame ==
    ASSUME NEW ctx, NEW es, NEW fs, NEW h, Twins(h, fs, es), IsFiniteSet(CallsOf(fs))
    PROVE  CallsRollup(ctx, es) = CallsRollup(ctx, fs)
<1> DEFINE between(set, s, t) == {e \in set : /\ e.type = "INVOKES" /\ e.from = s
                                        /\ e.target[1] = "http" /\ e.target[2] = Service(t)}
           pairs(set) == {q \in ctx.services \X ctx.services :
                            q[1] # q[2] /\ between(set, q[1], q[2]) # {}}
           rolled(set, p) == RolledUp("CALLS_SERVICE", Service(p[1]), Service(p[2]),
                                      between(set, p[1], p[2]), p[1], p[2])
<1>1. \A set : CallsRollup(ctx, set) = {rolled(set, p) : p \in pairs(set)}
      BY DEF CallsRollup
<1>2. ASSUME NEW s, NEW t
      PROVE  /\ between(fs, s, t) \subseteq CallsOf(fs)
             /\ between(es, s, t) = {h[e] : e \in between(fs, s, t)}
  <2>1. between(fs, s, t) \subseteq CallsOf(fs) /\ between(es, s, t) \subseteq CallsOf(es)
        BY DEF CallsOf, IsCall
  <2>2. \A e \in CallsOf(fs) :
           /\ h[e] \in es /\ h[e].type = e.type /\ h[e].target = e.target
           /\ e.type = "INVOKES" => h[e].from = e.from
        BY MarkTells DEF Twins, CallsOf
  <2>3. \A e \in CallsOf(fs) : e \in between(fs, s, t) <=> h[e] \in between(es, s, t)
        BY <2>2 DEF CallsOf
  <2> HIDE DEF between
  <2>4. QED BY <2>1, <2>3 DEF Twins
<1>3. ASSUME NEW p PROVE rolled(es, p) = rolled(fs, p)
  <2> DEFINE G == between(fs, p[1], p[2])
             K == between(es, p[1], p[2])
  <2> HIDE DEF between
  <2>1. G \subseteq CallsOf(fs) /\ K = {h[e] : e \in G} BY <1>2
  <2> HIDE DEF G, K
  <2>2. IsFiniteSet(G) BY <2>1, FS_Subset
  <2>3. \A e, f \in G : h[e] = h[f] => e = f BY <2>1 DEF Twins
  <2>4. \A e \in G : h[e].confidence = e.confidence BY <2>1 DEF Twins
  <2>5. RolledUp("CALLS_SERVICE", Service(p[1]), Service(p[2]), K, p[1], p[2])
           = RolledUp("CALLS_SERVICE", Service(p[1]), Service(p[2]), G, p[1], p[2])
        BY <2>1, <2>2, <2>3, <2>4, RolledSame
  <2>6. QED BY <2>5 DEF G, K
<1>4. pairs(es) = pairs(fs)
  <2>1. \A s, t : between(es, s, t) = {} <=> between(fs, s, t) = {}
    <3>1. ASSUME NEW s, NEW t PROVE between(es, s, t) = {} <=> between(fs, s, t) = {}
      <4>1. between(es, s, t) = {h[e] : e \in between(fs, s, t)} BY <1>2
      <4> HIDE DEF between
      <4>2. QED BY <4>1
    <3>2. QED BY <3>1
  <2> HIDE DEF between
  <2>2. QED BY <2>1
<1> HIDE DEF pairs, rolled
<1>5. QED BY <1>1, <1>3, <1>4

LEMMA DependsSame ==
    ASSUME NEW es, NEW fs, NEW h, Twins(h, fs, es), IsFiniteSet(CallsOf(fs))
    PROVE  DependsRollup(es) = DependsRollup(fs)
<1> DEFINE ends(e) == IF e.type = "CALLS_SERVICE" THEN <<e.source[2], e.target[2]>>
                      ELSE <<e.from, e.to>>
           calls(set) == {e \in set : /\ e.type \in {"INVOKES", "CALLS_SERVICE"}
                                /\ ends(e)[2] # "" /\ ends(e)[1] # ends(e)[2]}
           group(set, p) == {e \in calls(set) : ends(e) = p}
           pairs(set) == {ends(e) : e \in calls(set)}
           rolled(set, p) == RolledUp("DEPENDS_ON_REPO", <<"repo", p[1]>>, <<"repo", p[2]>>,
                                      group(set, p), p[1], p[2])
<1>1. \A set : DependsRollup(set) = {rolled(set, p) : p \in pairs(set)}
      BY DEF DependsRollup
<1>2. \A e \in CallsOf(fs) : h[e] \in es /\ ends(h[e]) = ends(e) /\ h[e].type = e.type
  <2>1. ASSUME NEW e \in CallsOf(fs) PROVE h[e] \in es /\ ends(h[e]) = ends(e) /\ h[e].type = e.type
    <3>1. /\ h[e] \in es /\ h[e].type = e.type /\ h[e].source = e.source /\ h[e].target = e.target
          /\ e.type = "INVOKES" => h[e].from = e.from /\ h[e].to = e.to
          BY MarkTells DEF Twins, CallsOf
    <3>2. e.type \in {"INVOKES", "CALLS_SERVICE"} BY DEF CallsOf, IsCall
    <3>3. QED BY <3>1, <3>2
  <2>2. QED BY <2>1
<1>3. \A e \in CallsOf(fs) : e \in calls(fs) <=> h[e] \in calls(es)
  <2> HIDE DEF ends
  <2>1. QED BY <1>2 DEF CallsOf
<1>4. calls(fs) \subseteq CallsOf(fs) /\ calls(es) \subseteq CallsOf(es)
      BY DEF CallsOf, IsCall
<1> HIDE DEF ends, calls
<1>5. ASSUME NEW p PROVE group(es, p) = {h[e] : e \in group(fs, p)} /\ group(fs, p) \subseteq CallsOf(fs)
      BY <1>2, <1>3, <1>4 DEF Twins
<1>6. pairs(es) = pairs(fs)
      BY <1>2, <1>3, <1>4 DEF Twins
<1>7. ASSUME NEW p PROVE rolled(es, p) = rolled(fs, p)
  <2> DEFINE G == group(fs, p)
             K == group(es, p)
  <2>1. G \subseteq CallsOf(fs) /\ K = {h[e] : e \in G} BY <1>5
  <2> HIDE DEF G, K, group
  <2>2. IsFiniteSet(G) BY <2>1, FS_Subset
  <2>3. \A e, f \in G : h[e] = h[f] => e = f BY <2>1 DEF Twins
  <2>4. \A e \in G : h[e].confidence = e.confidence BY <2>1 DEF Twins
  <2>5. RolledUp("DEPENDS_ON_REPO", <<"repo", p[1]>>, <<"repo", p[2]>>, K, p[1], p[2])
           = RolledUp("DEPENDS_ON_REPO", <<"repo", p[1]>>, <<"repo", p[2]>>, G, p[1], p[2])
        BY <2>1, <2>2, <2>3, <2>4, RolledSame
  <2>6. QED BY <2>5 DEF G, K
<1> HIDE DEF pairs, rolled
<1>8. QED BY <1>1, <1>6, <1>7

\* Services that have a name are finitely many, so the weighted calls are.
LEMMA CallsRollupFinite ==
    ASSUME NEW ctx, IsFiniteSet(ctx.services), NEW es
    PROVE  IsFiniteSet(CallsRollup(ctx, es))
<1> DEFINE between(s, t) == {e \in es : /\ e.type = "INVOKES" /\ e.from = s
                                   /\ e.target[1] = "http" /\ e.target[2] = Service(t)}
           f == [p \in ctx.services \X ctx.services |->
                    RolledUp("CALLS_SERVICE", Service(p[1]), Service(p[2]),
                             between(p[1], p[2]), p[1], p[2])]
<1>1. \A e \in CallsRollup(ctx, es) : \E p \in ctx.services \X ctx.services : e = f[p]
      BY DEF CallsRollup
<1>2. IsFiniteSet(ctx.services \X ctx.services)
      BY FS_Product
<1> HIDE DEF f
<1>3. QED BY <1>1, <1>2, FiniteCover

\* Two sets of edges with the same calls roll up to the same edges.
LEMMA RollupsSame ==
    ASSUME NEW ctx, IsFiniteSet(ctx.services), NEW es, NEW fs, NEW h, Twins(h, fs, es),
           IsFiniteSet(CallsOf(fs)), \A e \in es \cup fs : e.detected_by # {"rollup"}
    PROVE  Rollups(ctx, es) = Rollups(ctx, fs)
<1> DEFINE calls == CallsRollup(ctx, fs)
           g == [e \in CallsOf(fs \cup calls) |-> IF e \in calls THEN e ELSE h[e]]
<1>1. CallsRollup(ctx, es) = calls
      BY CallsSame
<1>2. \A e \in calls : e.detected_by = {"rollup"} /\ IsCall(e)
  <2>1. ASSUME NEW e \in calls PROVE e.detected_by = {"rollup"} /\ IsCall(e)
    <3>1. PICK p, k : e = RolledUp("CALLS_SERVICE", Service(p[1]), Service(p[2]), k, p[1], p[2])
          BY DEF CallsRollup
    <3>2. QED BY <3>1 DEF RolledUp, IsCall
  <2>2. QED BY <2>1
<1> HIDE DEF calls
<1>3. /\ CallsOf(fs \cup calls) = CallsOf(fs) \cup calls
      /\ CallsOf(es \cup calls) = CallsOf(es) \cup calls
      BY <1>2 DEF CallsOf
<1>4. /\ \A e \in CallsOf(fs) : e \notin calls /\ g[e] = h[e] /\ h[e] \notin calls
      /\ \A e \in calls : g[e] = e
      BY <1>2, <1>3 DEF Twins, CallsOf
<1> HIDE DEF g
<1>5. Twins(g, fs \cup calls, es \cup calls)
  <2>1. \A e \in CallsOf(fs) \cup calls :
           /\ g[e] \in CallsOf(es) \cup calls /\ Mark(g[e]) = Mark(e)
           /\ g[e].confidence = e.confidence
        BY <1>4 DEF Twins
  <2>2. \A e, f \in CallsOf(fs) \cup calls : g[e] = g[f] => e = f
        BY <1>4 DEF Twins
  <2>3. \A k \in CallsOf(es) \cup calls : \E e \in CallsOf(fs) \cup calls : k = g[e]
        BY <1>4 DEF Twins
  <2>4. QED BY <1>3, <2>1, <2>2, <2>3 DEF Twins
<1>6. IsFiniteSet(CallsOf(fs \cup calls))
  <2>1. IsFiniteSet(calls)
        BY CallsRollupFinite DEF calls
  <2>2. IsFiniteSet(CallsOf(fs) \cup calls)
        BY <2>1, FS_Union
  <2>3. QED BY <1>3, <2>2, Zenon
<1>7. DependsRollup(es \cup calls) = DependsRollup(fs \cup calls)
      BY <1>5, <1>6, DependsSame
<1>8. QED BY <1>1, <1>7 DEF Rollups, calls

------------------------------------------------------------------------------
\* Two calls of one file that fuse (Linking's Doubled, of any claims)
CallsIn(cs) == {e \in Resolved(cs) : e.type = "INVOKES" /\ e.detected_by # {"grpc"}}
DoubledIn(cs) == Cardinality(Triples(CallsIn(cs))) # Cardinality(CallsIn(cs))

\* Where no two calls of a file fuse, a call of a resolver that may be left out has its
\* triple to itself.
LEMMA SingleCalls ==
    ASSUME NEW cs, IsFiniteSet(cs), ~DoubledIn(cs), NEW r \in Plain,
           NEW e \in Joined(cs, r), IsCall(e)
    PROVE  /\ e \in CallsIn(cs) /\ e.type = "INVOKES"
           /\ \A f \in CallsIn(cs) : Triple(e) = Triple(f) => e = f
<1>1. IsFiniteSet(CallsIn(cs))
  <2>1. IsFiniteSet(CallsOf(All(cs))) BY CallsFinite DEF All
  <2>2. CallsIn(cs) \in SUBSET CallsOf(All(cs))
    <3>1. \A f \in Rollups(Context(cs), All(cs)) : f.type # "INVOKES" BY RollupsMade
    <3>2. QED BY <3>1, RelinkIs DEF CallsIn, CallsOf, IsCall
  <2>3. QED BY <2>1, <2>2, FS_Subset
<1>2. \A f, g \in CallsIn(cs) : Triple(f) = Triple(g) => f = g
      BY <1>1, AsManyTriples DEF DoubledIn
<1>3. r \in JoinResolvers /\ r # "grpc" /\ r # "env"
      BY DEF Plain, AlwaysRerun
<1>4. MadeBy(e, r)
      BY <1>3, JoinMadeBy DEF Joined
<1>5. e.detected_by # {"grpc"}
      BY <1>3, <1>4 DEF MadeBy
<1>6. e.type = "INVOKES"
  <2>1. e.type \in Types[r] BY <1>4 DEF MadeBy
  <2>2. "CALLS_SERVICE" \notin Types[r] BY <1>3 DEF Types, JoinResolvers, ResolverKinds
  <2>3. QED BY <2>1, <2>2 DEF IsCall
<1>7. e \in Resolved(cs)
      BY <1>3, CombinedHas, RelinkIs
<1>8. QED BY <1>2, <1>5, <1>6, <1>7 DEF CallsIn

\* What one resolver joins never disagrees on the ends of an edge.
LEMMA JoinedClean ==
    ASSUME NEW cs, Unique(cs), NEW r \in Plain
    PROVE  Clean(Joined(cs, r))
<1>1. Clean(Resolved(cs)) /\ ByOnly(Resolved(cs), r) = Joined(cs, r)
      BY RunClean, RunBy
<1>2. Joined(cs, r) \subseteq Resolved(cs)
      BY <1>1 DEF ByOnly
<1>3. QED BY <1>1, <1>2 DEF Clean

\* The calls that are kept of a resolver: those it joins, with the status they got.
LEMMA KeptCalls ==
    ASSUME NEW cs, Unique(cs), IsFiniteSet(cs), ~DoubledIn(cs), NEW r \in Plain, NEW decisions,
           NEW set, set = FinalizeEdges(Joined(cs, r), decisions)
    PROVE  /\ \A e \in Joined(cs, r) : IsCall(e) => Final(e, decisions) \in set
           /\ \A k \in set : IsCall(k) => \E e \in Joined(cs, r) : IsCall(e) /\ k = Final(e, decisions)
           /\ \A e \in Joined(cs, r) : Columns \subseteq DOMAIN e
<1> DEFINE J == Joined(cs, r)
           group(t) == {e \in J : Triple(e) = t}
<1>1. set = {Final(f, decisions) : f \in FuseEdges(J)} /\ FuseEdges(J) = {Fused(group(t)) : t \in Triples(J)}
      BY FinalizeIs DEF FuseEdges
<1>2. ASSUME NEW e \in J, IsCall(e) PROVE Fused(group(Triple(e))) = e
  <2>1. \A f \in group(Triple(e)) : f = e
    <3>1. ASSUME NEW f \in group(Triple(e)) PROVE f = e
      <4>1. f \in J /\ Triple(f) = Triple(e) OBVIOUS
      <4>2. IsCall(f) BY <1>2, <4>1 DEF Triple, IsCall
      <4>3. f \in CallsIn(cs) BY <4>1, <4>2, SingleCalls
      <4>4. QED BY <1>2, <4>1, <4>3, SingleCalls
    <3>2. QED BY <3>1
  <2>2. group(Triple(e)) = {e} BY <2>1
  <2>3. Cardinality({e}) = 1 BY FS_Singleton
  <2>4. (CHOOSE x \in {e} : TRUE) = e OBVIOUS
  <2>5. Fused({e}) = e BY <2>3, <2>4, Zenon DEF Fused
  <2>6. QED BY <2>2, <2>5
<1>3. Clean(J)
      BY JoinedClean
<1>4. \A t \in Triples(J) : Triple(Fused(group(t))) = t /\ Columns \subseteq DOMAIN Fused(group(t))
      BY <1>3, GroupFused
<1>5. \A e \in J : Triple(e) \in Triples(J)
      BY DEF Triples
<1>6. \A t \in Triples(J) : \E e \in J : Triple(e) = t
      BY DEF Triples
<1>7. \A e \in J : Columns \subseteq DOMAIN e
      BY <1>3 DEF Clean, MadeBy
<1> HIDE DEF group, J
<1>8. \A e \in J : IsCall(e) => Final(e, decisions) \in set
      BY <1>1, <1>2, <1>5
<1>9. ASSUME NEW k \in set, IsCall(k) PROVE \E e \in J : IsCall(e) /\ k = Final(e, decisions)
  <2>1. PICK t \in Triples(J) : k = Final(Fused(group(t)), decisions) BY <1>1
  <2>2. Triple(k) = t BY <1>4, <2>1, FinalSame DEF Same
  <2>3. PICK e \in J : Triple(e) = t BY <1>6
  <2>4. IsCall(e) BY <1>9, <2>2, <2>3 DEF Triple, IsCall
  <2>5. Fused(group(t)) = e BY <1>2, <2>3, <2>4
  <2>6. QED BY <2>1, <2>4, <2>5
<1>10. QED BY <1>7, <1>8, <1>9 DEF J

\* What is kept of a result, edge by edge: of every resolver that may be left out, what
\* its claims join, under the decisions of one of the runs since the last full one; and
\* of the others what a full link makes.
Exact(old, before, ds) ==
    /\ \A r \in Plain : \E d \in ds : ByOnly(old, r) = FinalizeEdges(Joined(before, r), d)
    /\ ~DoubledIn(before) => \E d \in ds : Others(old) = Others(Link(before, d))

\* With no two calls of one file to count, what is kept rolls up as what a full link
\* joins.
LEMMA KeptRollsUp ==
    ASSUME NEW cs, Unique(cs), IsFiniteSet(cs), ~DoubledIn(cs), NEW before, NEW old, NEW ds,
           Exact(old, before, ds)
    PROVE  Rollups(Context(cs), Combined(cs, before) \cup Kept(cs, before, old))
              = Rollups(Context(cs), All(cs))
<1> DEFINE ctx == Context(cs)
           rerun == Rerun(cs, before)
           rest == Rest(cs, before)
           kept == Kept(cs, before, old)
           combined == Combined(cs, before)
           J(r) == Joined(cs, r)
           h == [e \in CallsOf(All(cs)) |->
                    IF e \in combined THEN e
                    ELSE CHOOSE k \in kept : Triple(k) = Triple(e) /\ k.detected_by = e.detected_by]
<1>1. /\ rerun \subseteq JoinResolvers /\ rest \subseteq Plain /\ JoinResolvers = rerun \cup rest
      /\ \A r \in rest : r \notin rerun /\ Joined(before, r) = J(r)
      BY RerunResolvers DEF Rest, Joined
<1>2. /\ \A e : e \in combined <=> e \in Broadcast(ctx, cs) \/ \E r \in rerun : e \in J(r)
      /\ \A e : e \in All(cs) <=> e \in Broadcast(ctx, cs) \/ \E r \in JoinResolvers : e \in J(r)
      BY CombinedHas
<1>3. \A q \in JoinResolvers : \A e \in J(q) : e.detected_by = {q}
      BY JoinMadeBy DEF MadeBy, Joined
<1>4. \A e \in Broadcast(ctx, cs) : \A r \in Plain : e.detected_by # {r}
      BY NotBroadcast
<1>5. \A e \in kept : \E r \in rest : e.detected_by = {r} /\ e \in ByOnly(kept, r)
      BY DEF Kept, ByOnly
<1>6. \A r \in rest : \A e \in combined : e.detected_by # {r}
      BY <1>1, <1>2, <1>3, <1>4
\* Each call of a resolver left out is kept once.
<1>7. ASSUME NEW r \in rest
      PROVE  \E d : /\ \A e \in J(r) : IsCall(e) => Final(e, d) \in kept
                    /\ \A k \in ByOnly(kept, r) : IsCall(k) => \E e \in J(r) : IsCall(e) /\ k = Final(e, d)
                    /\ \A e \in J(r) : /\ Same(Final(e, d), e)
                                       /\ Final(e, d).confidence = e.confidence
  <2>1. PICK d \in ds : ByOnly(old, r) = FinalizeEdges(Joined(before, r), d)
        BY <1>1 DEF Exact
  <2>2. ByOnly(kept, r) = FinalizeEdges(J(r), d)
        BY <1>1, <2>1, KeptBy
  <2>3. ByOnly(kept, r) \subseteq kept
        BY DEF ByOnly
  <2>4. r \in Plain
        BY <1>1
  <2> HIDE DEF kept
  <2>5. /\ \A e \in J(r) : IsCall(e) => Final(e, d) \in ByOnly(kept, r)
        /\ \A k \in ByOnly(kept, r) : IsCall(k) => \E e \in J(r) : IsCall(e) /\ k = Final(e, d)
        /\ \A e \in J(r) : Columns \subseteq DOMAIN e
        BY <2>2, <2>4, KeptCalls
  <2>6. QED BY <2>3, <2>5, FinalSame
<1>8. ASSUME NEW r \in rest, NEW e \in J(r), IsCall(e)
      PROVE  /\ e \in CallsIn(cs)
             /\ \A f \in CallsIn(cs) : Triple(e) = Triple(f) => e = f
      BY <1>1, <1>8, SingleCalls
<1>9. ASSUME NEW e \in CallsOf(All(cs)), e \notin combined
      PROVE  /\ \E r \in rest : e \in J(r)
             /\ h[e] \in CallsOf(kept)
             /\ Triple(h[e]) = Triple(e) /\ Mark(h[e]) = Mark(e) /\ h[e].detected_by = e.detected_by
             /\ h[e].confidence = e.confidence
  <2>1. e \in All(cs) /\ IsCall(e)
        BY DEF CallsOf
  <2>2. PICK r \in rest : e \in J(r)
        BY <1>1, <1>2, <1>9, <2>1
  <2>3. e.detected_by = {r}
        BY <1>1, <1>3, <2>2
  <2>4. PICK d : /\ \A f \in J(r) : IsCall(f) => Final(f, d) \in kept
                 /\ \A k \in ByOnly(kept, r) : IsCall(k) => \E f \in J(r) : IsCall(f) /\ k = Final(f, d)
                 /\ \A f \in J(r) : Same(Final(f, d), f) /\ Final(f, d).confidence = f.confidence
        BY <1>7
  <2>5. Final(e, d) \in kept /\ Same(Final(e, d), e) /\ Final(e, d).confidence = e.confidence
        BY <2>1, <2>2, <2>4
  <2> DEFINE k == CHOOSE x \in kept : Triple(x) = Triple(e) /\ x.detected_by = e.detected_by
  <2>6. k \in kept /\ Triple(k) = Triple(e) /\ k.detected_by = e.detected_by
        BY <2>5 DEF Same
  <2>7. h[e] = k
        BY <1>9
  <2> HIDE DEF k, h, kept, combined, J
  <2>8. IsCall(k)
        BY <2>1, <2>6 DEF Triple, IsCall
  <2>9. PICK f \in J(r) : IsCall(f) /\ k = Final(f, d)
        BY <2>3, <2>4, <2>6, <2>8 DEF ByOnly
  <2>10. Triple(f) = Triple(e)
        BY <2>4, <2>6, <2>9 DEF Same
  <2>11. f = e
        BY <1>8, <2>1, <2>2, <2>9, <2>10
  <2>12. QED BY <2>2, <2>5, <2>6, <2>7, <2>8, <2>9, <2>11 DEF Same, CallsOf
<1>10. \A e \in CallsOf(All(cs)) : e \in combined => h[e] = e
      OBVIOUS
<1>11. CallsOf(combined) \subseteq CallsOf(All(cs))
      BY <1>1, <1>2 DEF CallsOf
<1> HIDE DEF h, kept, combined, J, rest, rerun
<1>12. \A e, f \in CallsOf(All(cs)) : h[e] = h[f] => e = f
  <2>1. ASSUME NEW e \in CallsOf(All(cs)), NEW f \in CallsOf(All(cs)), h[e] = h[f], e \notin combined
        PROVE  e = f
    <3>1. PICK r \in rest : e \in J(r) BY <1>9, <2>1
    <3>2. h[e].detected_by = {r} BY <1>1, <1>3, <1>9, <2>1, <3>1
    <3>3. f \notin combined BY <1>6, <1>10, <2>1, <3>2
    <3>4. Triple(e) = Triple(f) BY <1>9, <2>1, <3>3
    <3>5. PICK q \in rest : f \in J(q) BY <1>9, <3>3
    <3>6. IsCall(e) /\ IsCall(f) BY DEF CallsOf
    <3>7. QED BY <1>8, <3>1, <3>4, <3>5, <3>6
  <2>2. QED BY <1>10, <2>1
<1>13. \A k \in CallsOf(combined \cup kept) : \E e \in CallsOf(All(cs)) : k = h[e]
  <2>1. ASSUME NEW k \in CallsOf(kept) PROVE \E e \in CallsOf(All(cs)) : k = h[e]
    <3>1. PICK r \in rest : k.detected_by = {r} /\ k \in ByOnly(kept, r) BY <1>5 DEF CallsOf
    <3>2. IsCall(k) BY DEF CallsOf
    <3>3. PICK d : /\ \A k2 \in ByOnly(kept, r) : IsCall(k2) => \E e \in J(r) : IsCall(e) /\ k2 = Final(e, d)
                   /\ \A e \in J(r) : Same(Final(e, d), e)
          BY <1>7
    <3>4. PICK e \in J(r) : IsCall(e) /\ k = Final(e, d) BY <3>1, <3>2, <3>3
    <3>5. e \in CallsOf(All(cs)) /\ e \notin combined BY <1>1, <1>2, <1>3, <1>6, <3>4 DEF CallsOf
    <3>6. h[e] \in CallsOf(kept) /\ Triple(h[e]) = Triple(e) /\ h[e].detected_by = e.detected_by
          BY <1>9, <3>5
    <3>7. e.detected_by = {r} BY <1>1, <1>3, <3>4
    <3>8. h[e] \in ByOnly(kept, r) /\ IsCall(h[e]) BY <3>6, <3>7 DEF ByOnly, CallsOf
    <3>9. PICK f \in J(r) : IsCall(f) /\ h[e] = Final(f, d) BY <3>3, <3>8
    <3>10. Triple(f) = Triple(e) BY <3>3, <3>6, <3>9 DEF Same
    <3>11. f = e BY <1>8, <3>4, <3>9, <3>10
    <3>12. QED BY <3>4, <3>5, <3>9, <3>11
  <2>2. ASSUME NEW k \in CallsOf(combined) PROVE \E e \in CallsOf(All(cs)) : k = h[e]
        BY <1>10, <1>11 DEF CallsOf
  <2>3. QED BY <2>1, <2>2 DEF CallsOf
<1>14. Twins(h, All(cs), combined \cup kept)
  <2>1. \A e \in CallsOf(All(cs)) :
          h[e] \in CallsOf(combined \cup kept) /\ Mark(h[e]) = Mark(e) /\ h[e].confidence = e.confidence
        BY <1>9, <1>10 DEF CallsOf
  <2>2. QED BY <1>12, <1>13, <2>1 DEF Twins
<1>15. IsFiniteSet(CallsOf(All(cs)))
      BY CallsFinite DEF All
<1>16. IsFiniteSet(ctx.services)
  <2> DEFINE f == [c \in cs |-> c.repo]
  <2>1. \A s \in ctx.services : \E c \in cs : s = f[c] BY DEF Context, Of
  <2> HIDE DEF f
  <2>2. QED BY <2>1, FiniteCover
<1>17. \A e \in (combined \cup kept) \cup All(cs) : e.detected_by # {"rollup"}
  <2>1. "rollup" \notin JoinResolvers BY DEF JoinResolvers, ResolverKinds
  <2>2. \A e \in Broadcast(ctx, cs) : e.detected_by # {"rollup"} BY BroadcastMade DEF MadeBy
  <2>3. \A e \in kept : e.detected_by # {"rollup"} BY <1>1, <1>5, <2>1
  <2>4. QED BY <1>1, <1>2, <1>3, <2>1, <2>2, <2>3
<1>18. Rollups(ctx, combined \cup kept) = Rollups(ctx, All(cs))
      BY <1>14, <1>15, <1>16, <1>17, RollupsSame
<1>19. QED BY <1>18 DEF combined, kept

\* Nothing is made of nothing; resolvers of a union are those of its parts.
LEMMA FinalizeNone == \A decisions : FinalizeEdges({}, decisions) = {}
BY DEF FinalizeEdges, ApplyPromotions, ApplyFloor, FuseEdges, Triples

LEMMA OnlyCup ==
    ASSUME NEW es, NEW fs
    PROVE  /\ Others(es \cup fs) = Others(es) \cup Others(fs)
           /\ \A r : ByOnly(es \cup fs, r) = ByOnly(es, r) \cup ByOnly(fs, r)
BY DEF Others, ByOnly

\* A full link is exact.
LEMMA FullIsExact ==
    ASSUME NEW cs, Unique(cs), NEW d
    PROVE  Exact(Link(cs, d), cs, {d})
<1>1. Clean(Resolved(cs))
      BY RunClean
<1>2. \A r \in Plain : ByOnly(Link(cs, d), r) = FinalizeEdges(ByOnly(Resolved(cs), r), d)
      BY <1>1, FinalizeParts DEF Link
<1>3. \A r \in Plain : ByOnly(Resolved(cs), r) = Joined(cs, r)
      BY RunBy
<1>4. QED BY <1>2, <1>3 DEF Exact

\* With no two calls of one file to count, a run resolves what a full link resolves,
\* but for what the resolvers it leaves out join.
LEMMA PassOthers ==
    ASSUME NEW cs, Unique(cs), IsFiniteSet(cs), ~DoubledIn(cs), NEW before, NEW old, NEW ds,
           Exact(old, before, ds)
    PROVE  Others(Pass(cs, before, old)) = Others(Resolved(cs))
<1> DEFINE up == Rollups(Context(cs), All(cs))
           combined == Combined(cs, before)
<1>1. Pass(cs, before, old) = combined \cup up
      BY KeptRollsUp DEF Pass
<1>2. Resolved(cs) = All(cs) \cup up
      BY RelinkIs
<1>3. Rest(cs, before) \subseteq Plain /\ Rerun(cs, before) \subseteq JoinResolvers
      BY RerunResolvers DEF Rest
<1>4. /\ \A e : e \in combined <=> \/ e \in Broadcast(Context(cs), cs)
                                   \/ \E r \in Rerun(cs, before) : e \in Joined(cs, r)
      /\ \A e : e \in All(cs) <=> \/ e \in Broadcast(Context(cs), cs)
                                  \/ \E r \in JoinResolvers : e \in Joined(cs, r)
      BY CombinedHas
<1>5. \A r \in JoinResolvers : \A e \in Joined(cs, r) : e.detected_by = {r}
      BY JoinMadeBy DEF MadeBy, Joined
<1> HIDE DEF up, combined
<1>6. Others(combined) = Others(All(cs))
  <2>1. \A e : e \in combined => e \in All(cs)
        BY <1>3, <1>4
  <2>2. ASSUME NEW e, e \in All(cs), e \notin combined PROVE e \notin Others(All(cs))
    <3>1. PICK r \in JoinResolvers : e \in Joined(cs, r) BY <1>4, <2>2
    <3>2. r \in Rest(cs, before) BY <1>4, <2>2, <3>1 DEF Rest
    <3>3. QED BY <1>3, <1>5, <3>1, <3>2 DEF Others
  <2>3. QED BY <2>1, <2>2 DEF Others
<1>7. /\ Others(combined \cup up) = Others(combined) \cup Others(up)
      /\ Others(All(cs) \cup up) = Others(All(cs)) \cup Others(up)
      BY OnlyCup
<1>8. QED BY <1>1, <1>2, <1>6, <1>7

\* A relink stays exact: what it leaves out it keeps under the decisions it had, what it
\* makes it makes under today's, and a full one forgets every earlier decision.
LEMMA ExactStep ==
    ASSUME NEW cs, Unique(cs), IsFiniteSet(cs), NEW before, NEW old, NEW ds,
           Exact(old, before, ds), NEW d, NEW new, new = Relink(cs, before, old, d)
    PROVE  Exact(new.made \cup new.kept, cs,
                 (IF FullNeeded(cs, before) THEN {} ELSE ds) \cup {d})
<1> DEFINE pass == Pass(cs, before, old)
           kept == Kept(cs, before, old)
           made == FinalizeEdges(pass, d)
           after == (IF FullNeeded(cs, before) THEN {} ELSE ds) \cup {d}
<1>1. new.made = made /\ new.kept = kept
      BY RelinkIs
<1>2. Clean(pass) /\ Clean(Resolved(cs))
      BY RunClean
<1>3. /\ \A r \in Plain : ByOnly(made, r) = FinalizeEdges(ByOnly(pass, r), d)
      /\ Others(made) = FinalizeEdges(Others(pass), d)
      /\ Others(Link(cs, d)) = FinalizeEdges(Others(Resolved(cs)), d)
      BY <1>2, FinalizeParts DEF Link
<1>4. ASSUME NEW r \in Plain
      PROVE  \E o \in after : ByOnly(made \cup kept, r) = FinalizeEdges(Joined(cs, r), o)
  <2>1. ByOnly(made \cup kept, r) = ByOnly(made, r) \cup ByOnly(kept, r)
        BY OnlyCup
  <2>2. CASE r \in Rerun(cs, before)
    <3>1. ByOnly(pass, r) = Joined(cs, r) /\ ByOnly(kept, r) = {}
          BY <2>2, RunBy, KeptBy
    <3>2. ByOnly(made \cup kept, r) = FinalizeEdges(Joined(cs, r), d)
          BY <1>3, <2>1, <3>1
    <3>3. QED BY <3>2
  <2>3. CASE r \notin Rerun(cs, before)
    <3>1. ByOnly(pass, r) = {} /\ ByOnly(kept, r) = ByOnly(old, r)
          BY <2>3, RunBy, KeptBy
    <3>2. r \in JoinResolvers
          BY DEF Plain
    <3>3. ds \subseteq after
          BY <2>3, <3>2 DEF Rerun
    <3>4. Joined(before, r) = Joined(cs, r)
          BY <2>3, <3>2, RerunResolvers DEF Joined
    <3>5. PICK o \in ds : ByOnly(old, r) = FinalizeEdges(Joined(before, r), o)
          BY DEF Exact
    <3>6. ByOnly(made, r) = {}
          BY <1>3, <3>1, FinalizeNone
    <3>7. ByOnly(made \cup kept, r) = FinalizeEdges(Joined(cs, r), o)
          BY <2>1, <3>1, <3>4, <3>5, <3>6
    <3>8. QED BY <3>3, <3>7
  <2>4. QED BY <2>2, <2>3
<1>5. ASSUME ~DoubledIn(cs) PROVE Others(made \cup kept) = Others(Link(cs, d))
  <2>1. Others(pass) = Others(Resolved(cs))
        BY <1>5, PassOthers
  <2>2. Rest(cs, before) \subseteq Plain
        BY RerunResolvers DEF Rest
  <2>3. Others(kept) = {}
        BY <2>2 DEF Others, Kept
  <2>4. Others(made \cup kept) = Others(made) \cup Others(kept)
        BY OnlyCup
  <2>5. QED BY <1>3, <2>1, <2>3, <2>4
<1>6. d \in after
      OBVIOUS
<1> HIDE DEF made, kept, pass, after
<1>7. Exact(made \cup kept, cs, after)
      BY <1>4, <1>5, <1>6 DEF Exact
<1>8. QED BY <1>1, <1>7 DEF after

\* Two results, each under the decisions of the one run there was, are one.
LEMMA ExactIsLink ==
    ASSUME NEW cs, Unique(cs), ~DoubledIn(cs), NEW old, NEW d, Exact(old, cs, {d})
    PROVE  old = Link(cs, d)
<1> DEFINE full == Link(cs, d)
<1>1. Exact(full, cs, {d})
      BY FullIsExact
<1> HIDE DEF full
<1>2. \A r \in Plain : ByOnly(old, r) = ByOnly(full, r)
      BY <1>1 DEF Exact
<1>3. Others(old) = Others(full)
      BY <1>1 DEF Exact, full
<1>4. \A es : \A e : e \in es <=> e \in Others(es) \/ \E r \in Plain : e \in ByOnly(es, r)
      BY DEF Others, ByOnly
<1>5. QED BY <1>2, <1>3, <1>4 DEF full

------------------------------------------------------------------------------
\* What a branch breaks: a call of a file to an operation over HTTP
HttpCall(e) == e.type = "INVOKES" /\ e.target[1] = "http"
Cited(e) == e.detected_by = {"http"} /\ "evidence" \in DOMAIN e /\ e.evidence # {}

\* Only r7_http makes such calls, each of a claim of its own and a provider's.
LEMMA HttpCallMade ==
    ASSUME NEW ctx, NEW cs, NEW e \in Http(ctx, cs), HttpCall(e)
    PROVE  \E c \in cs, p \in Of(cs, "http", "provides") :
              e = Edge("http", "INVOKES", Node(c), Contract(ctx, p), Conf[c.tier], c, p.repo)
<1>1. CASE \E p : e = Edge("http", "EXPOSES", Node(p), Contract(ctx, p), Conf["exposes"], p, "")
  <2>1. PICK p : e = Edge("http", "EXPOSES", Node(p), Contract(ctx, p), Conf["exposes"], p, "")
        BY <1>1
  <2>2. e.type = "EXPOSES"
        BY <2>1 DEF Edge
  <2>3. QED BY <2>2 DEF HttpCall
<1>2. CASE \E m \in cs \X Of(cs, "http", "provides") :
              e = Edge("http", "INVOKES", Node(m[1]), Contract(ctx, m[2]), Conf[m[1].tier], m[1],
                       m[2].repo)
      BY <1>2
<1>3. QED BY <1>1, <1>2 DEF Http, Of

\* and cites it.
LEMMA HttpCallCited ==
    ASSUME NEW ctx, NEW cs, NEW e \in Http(ctx, cs), HttpCall(e)
    PROVE  Cited(e)
<1>1. PICK c, p : e = Edge("http", "INVOKES", Node(c), Contract(ctx, p), Conf[c.tier], c, p.repo)
      BY HttpCallMade
<1>2. e.detected_by = {"http"} /\ e.evidence = {<<c.id, c.version>>} /\ "evidence" \in DOMAIN e
      BY <1>1 DEF Edge
<1>3. QED BY <1>2 DEF Cited

\* What a run or a full link resolves holds no other.
LEMMA HttpCallsHttp ==
    ASSUME NEW cs, NEW before, NEW old, NEW e, HttpCall(e),
           e \in Pass(cs, before, old) \/ e \in Resolved(cs)
    PROVE  e \in Http(Context(cs), cs)
<1>1. \A up : e \notin Rollups(Context(cs), up)
      BY RollupsMade DEF HttpCall
<1>2. e \notin Broadcast(Context(cs), cs)
      BY BroadcastMade DEF HttpCall
<1>3. e \in Combined(cs, before) \/ e \in All(cs)
      BY <1>1, RelinkIs DEF Pass
<1>4. PICK r \in JoinResolvers : e \in Joined(cs, r)
      BY <1>2, <1>3, CombinedHas, RerunResolvers
<1>5. MadeBy(e, r)
      BY <1>4, JoinMadeBy DEF Joined
<1>6. e.target[1] \in Protocols(r)
      BY <1>5 DEF MadeBy, HttpCall
<1>7. r = "http"
      BY <1>6 DEF Protocols, HttpCall
<1>8. QED BY <1>4, <1>7 DEF Joined, Join

\* The floor and the decisions leave the evidence alone.
LEMMA FinalEvidence ==
    ASSUME NEW f, "evidence" \in DOMAIN f, NEW decisions
    PROVE  "evidence" \in DOMAIN Final(f, decisions) /\ Final(f, decisions).evidence = f.evidence
<1> DEFINE floored == [f EXCEPT !.status =
                       IF @ = "active" /\ f.confidence < Floor THEN "candidate" ELSE @]
<1>1. \A g : "evidence" \in DOMAIN g =>
         \A x : /\ "evidence" \in DOMAIN [g EXCEPT !.status = x]
                /\ [g EXCEPT !.status = x].evidence = g.evidence
      OBVIOUS
<1>2. "evidence" \in DOMAIN floored /\ floored.evidence = f.evidence
      BY <1>1
<1>3. \/ Final(f, decisions) = floored
      \/ \E x : Final(f, decisions) = [floored EXCEPT !.status = x]
      BY DEF Final
<1> HIDE DEF floored
<1>4. QED BY <1>1, <1>2, <1>3

\* Calls that fuse cite all that their parts cite.
LEMMA FusedCited ==
    ASSUME NEW es, Clean(es), NEW t \in Triples(es),
           \A e \in es : Triple(e) = t => Cited(e)
    PROVE  Cited(Fused({e \in es : Triple(e) = t}))
<1> DEFINE group == {e \in es : Triple(e) = t}
           any == CHOOSE e \in group : TRUE
<1>1. any \in group /\ any \in es /\ Triple(any) = t
      BY DEF Triples
<1>2. \A e \in group : Cited(e)
      OBVIOUS
<1>3. "http" \in Plain
      BY DEF Plain, AlwaysRerun, JoinResolvers, ResolverKinds
<1>4. Fused(group).detected_by = {"http"}
      BY <1>1, <1>2, <1>3, GroupBy DEF Cited
<1>5. CASE Cardinality(group) = 1
  <2>1. Fused(group) = any
        BY <1>5 DEF Fused
  <2>2. Cited(any)
        BY <1>1, <1>2
  <2>3. QED BY <2>1, <2>2, Zenon DEF group
<1>6. CASE Cardinality(group) # 1
  <2> DEFINE evidence == UNION {e.evidence : e \in group}
  <2>1. PICK conf, by, to, weight, least :
           Fused(group) = [any EXCEPT !.confidence = conf, !.detected_by = by,
                              !.evidence = evidence, !.to = to, !.weight = weight,
                              !.min_confidence = least]
        BY <1>6, Zenon DEF Fused
  <2>2. any.evidence \subseteq evidence
        BY <1>1
  <2>3. evidence # {}
        BY <1>1, <1>2, <2>2 DEF Cited
  <2> HIDE DEF evidence
  <2>4. "evidence" \in DOMAIN Fused(group) /\ Fused(group).evidence = evidence
        BY <1>1, <1>2, <2>1 DEF Cited
  <2>5. Fused(group).evidence # {}
        BY <2>3, <2>4
  <2>6. QED BY <1>4, <2>4, <2>5, Zenon DEF Cited
<1>7. QED BY <1>5, <1>6

\* A run whose calls are cited leaves cited calls, and a full link does.
LEMMA FinalizeCited ==
    ASSUME NEW es, Clean(es), \A e \in es : HttpCall(e) => Cited(e), NEW decisions,
           NEW k \in FinalizeEdges(es, decisions), HttpCall(k)
    PROVE  Cited(k)
<1>1. PICK f \in FuseEdges(es) : k = Final(f, decisions)
      BY FinalizeIs
<1>2. PICK t \in Triples(es) : f = Fused({e \in es : Triple(e) = t})
      BY <1>1 DEF FuseEdges
<1>3. Triple(f) = t /\ Columns \subseteq DOMAIN f
      BY <1>2, GroupFused
<1>4. Triple(k) = t /\ k.detected_by = f.detected_by
      BY <1>1, <1>3, FinalSame DEF Same
<1>5. \A e \in es : Triple(e) = t => HttpCall(e)
      BY <1>4 DEF Triple, HttpCall
<1>6. Cited(f)
      BY <1>2, <1>5, FusedCited
<1>7. QED BY <1>1, <1>4, <1>6, FinalEvidence DEF Cited

LEMMA LinkCited ==
    ASSUME NEW cs, Unique(cs), NEW decisions, NEW k \in Link(cs, decisions), HttpCall(k)
    PROVE  Cited(k)
<1>1. Clean(Resolved(cs))
      BY RunClean
<1>2. \A e \in Resolved(cs) : HttpCall(e) => Cited(e)
      BY HttpCallsHttp, HttpCallCited
<1>3. QED BY <1>1, <1>2, FinalizeCited DEF Link

\* Without its provider an operation is no target.
LEMMA NoProvider ==
    ASSUME NEW cs, Unique(cs), NEW path,
           \A q \in Of(cs, "http", "provides") : q.path # path,
           NEW decisions, NEW k \in Link(cs, decisions), HttpCall(k)
    PROVE  k.target[3] # path
<1>1. Triple(k) \in Triples(Resolved(cs))
      BY FullIsRelink DEF Triples
<1>2. PICK e \in Resolved(cs) : Triple(e) = Triple(k)
      BY <1>1 DEF Triples
<1>3. HttpCall(e) /\ e.target = k.target
      BY <1>2 DEF HttpCall, Triple
<1>4. PICK c \in cs, q \in Of(cs, "http", "provides") :
         e = Edge("http", "INVOKES", Node(c), Contract(Context(cs), q), Conf[c.tier], c, q.repo)
      BY <1>2, <1>3, HttpCallsHttp, HttpCallMade
<1>5. e.target = Contract(Context(cs), q)
      BY <1>4 DEF Edge
<1>6. QED BY <1>3, <1>4, <1>5 DEF Contract

------------------------------------------------------------------------------
\* A link of finitely many claims has finitely many edges: rollups have one for each two
\* services, or two ends of a call, and what finalizes edges makes no more of them.
LEMMA DependsFinite ==
    ASSUME NEW es, IsFiniteSet(es)
    PROVE  IsFiniteSet(DependsRollup(es))
<1> DEFINE ends(e) == IF e.type = "CALLS_SERVICE" THEN <<e.source[2], e.target[2]>>
                      ELSE <<e.from, e.to>>
           calls == {e \in es : /\ e.type \in {"INVOKES", "CALLS_SERVICE"}
                                /\ ends(e)[2] # "" /\ ends(e)[1] # ends(e)[2]}
           rolled(p) == RolledUp("DEPENDS_ON_REPO", <<"repo", p[1]>>, <<"repo", p[2]>>,
                                 {e \in calls : ends(e) = p}, p[1], p[2])
           f == [e \in es |-> rolled(ends(e))]
<1>1. DependsRollup(es) = {rolled(p) : p \in {ends(e) : e \in calls}}
      BY Zenon DEF DependsRollup
<1>2. calls \subseteq es
      OBVIOUS
<1> HIDE DEF calls, rolled, ends
<1>3. \A d \in DependsRollup(es) : \E e \in es : d = f[e]
      BY <1>1, <1>2
<1> HIDE DEF f
<1>4. QED BY <1>3, FiniteCover

LEMMA ResolvedFinite ==
    ASSUME NEW cs, IsFiniteSet(cs)
    PROVE  IsFiniteSet(Resolved(cs))
<1> DEFINE ctx == Context(cs)
           combined == Broadcast(ctx, cs) \cup Join(ctx, cs, JoinResolvers)
           calls == CallsRollup(ctx, combined)
<1>1. IsFiniteSet(ctx.services)
  <2> DEFINE f == [c \in cs |-> c.repo]
  <2>1. \A r \in ctx.services : \E c \in cs : r = f[c]
        BY DEF Context, Of
  <2> HIDE DEF f, ctx
  <2>2. QED BY <2>1, FiniteCover
<1>2. Resolved(cs) = combined \cup (calls \cup DependsRollup(combined \cup calls))
      BY DEF Resolved, Rollups
<1> HIDE DEF ctx
<1>3. IsFiniteSet(combined)
      BY JoinedFinite
<1> HIDE DEF combined
<1>4. IsFiniteSet(calls)
      BY <1>1, CallsRollupFinite
<1> HIDE DEF calls
<1>5. IsFiniteSet(combined \cup calls)
      BY <1>3, <1>4, FS_Union
<1>6. IsFiniteSet(DependsRollup(combined \cup calls))
      BY <1>5, DependsFinite
<1>7. IsFiniteSet(calls \cup DependsRollup(combined \cup calls))
      BY <1>4, <1>6, FS_Union
<1>8. QED BY <1>2, <1>3, <1>7, FS_Union

LEMMA FinalizeFinite ==
    ASSUME NEW es, IsFiniteSet(es), NEW decisions
    PROVE  IsFiniteSet(FinalizeEdges(es, decisions))
<1> DEFINE fused == FuseEdges(es)
           whole == FinalizeEdges(es, decisions)
           f == [e \in es |-> Fused({d \in es : Triple(d) = Triple(e)})]
           g == [e \in fused |-> Final(e, decisions)]
<1>1. \A e \in fused : \E d \in es : e = f[d]
      BY DEF FuseEdges, Triples
<1> HIDE DEF f
<1>2. IsFiniteSet(fused)
      BY <1>1, FiniteCover
<1>3. \A k \in whole : \E e \in fused : k = g[e]
      BY FinalizeIs
<1> HIDE DEF g, fused, whole
<1>4. IsFiniteSet(whole)
      BY <1>2, <1>3, FiniteCover
<1>5. QED BY <1>4 DEF whole

LEMMA LinkFinite ==
    ASSUME NEW cs, IsFiniteSet(cs), NEW decisions
    PROVE  IsFiniteSet(Link(cs, decisions))
BY ResolvedFinite, FinalizeFinite DEF Link
================================================================================
