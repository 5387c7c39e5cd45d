---------------------------------- MODULE Naming ----------------------------------
(***************************************************************************)
(* The half of a link run that is global by design (linker/engine.py:      *)
(* broadcast_pass): whose names are whose (Names.tla), what a gateway does *)
(* to a path, which variable holds which host, and so under which key each *)
(* call is joined (r4_gateway, path_algebra, r9_env, normalize); the       *)
(* packages and topics (r3_library, r6_topic); and the plan that splits    *)
(* the join between workers (partitions.py).  The other joining resolvers  *)
(* are in LinkPass.                                                        *)
(***************************************************************************)
EXTENDS Names

CONSTANTS
    Within,          \* <<v, s>>: the variable name v is within the name s, separators apart
    Telling,         \* the variable names of four characters and more
    MaxHops,         \* gateway_chain_max_hops
    Workers,         \* what the join is planned for
    ReplicationCap,  \* above it a key is not split
    Trees            \* of each repository, the claims its scans may find, in their order

VARIABLES
    loaded           \* the repositories in the store and the tree of each, as it lists them

\* A scan finds claims in an order, each with its identity, and none that another
\* repository has; the scopes of service names are among those that sorted() orders.
Ids(repo) == {c.id : c \in UNION {Range(Trees[repo][t]) : t \in DOMAIN Trees[repo]}}
ASSUME NamingAssumption ==
    /\ \A r \in DOMAIN Trees : \A t \in DOMAIN Trees[r] :
          LET tree == Trees[r][t] IN
          /\ tree \in Seq(Range(tree))
          /\ \A i \in DOMAIN tree :
                /\ tree[i].id \in Nat /\ tree[i].direction \in {"provides", "consumes"}
                /\ tree[i].kind = "svcname" => tree[i].scope \in Range(Alphabet)
                /\ \A j \in DOMAIN tree : tree[i].id = tree[j].id => i = j
    /\ \A r, q \in DOMAIN Trees : r # q => Ids(r) \cap Ids(q) = {}
    /\ Alphabet \in Seq(Range(Alphabet))
    /\ Workers \in Nat \ {0} /\ MaxHops \in Nat /\ ReplicationCap \in Nat

namingVars == <<loaded>>

NamingInit == loaded = <<>>

Known == {loaded[i][1] : i \in DOMAIN loaded}
Others(repo) ==
    LET at == SelectInSeq(loaded, LAMBDA e : e[1] = repo) IN
    IF at = 0 THEN loaded ELSE RemoveAt(loaded, at)

\* A repository is scanned, again too: the store says nothing of its claims' order.
Rescan(repo, tree) ==
    /\ <<repo, tree>> \notin Range(loaded)
    /\ \E at \in 0 .. Len(Others(repo)) :
          loaded' = InsertAt(Others(repo), at + 1, <<repo, tree>>)
Drop(repo) == repo \in Known /\ loaded' = Others(repo)

NamingNext ==
    \/ \E repo \in DOMAIN Trees : \E tree \in DOMAIN Trees[repo] : Rescan(repo, tree)
    \/ \E repo \in DOMAIN Trees : Drop(repo)
NamingSpec == NamingInit /\ [][NamingNext]_namingVars

\* load_claims
Claims == FlattenSeq([i \in DOMAIN loaded |-> Trees[loaded[i][1]][loaded[i][2]]])

------------------------------------------------------------------------------
(* r3_library: who publishes and who depends on a package.  A coordinate   *)
(* is <<ecosystem, segments>>.                                             *)

Coordinate(claim) == <<claim.scope, claim.name>>
Library(claim) == <<"Library", claim.scope, claim.name>>
Publishers(index) ==
    {c \in OfKind(index.claims, "lib", "provides") : ~Attr(c, "private", FALSE)}
Consumers(index) == OfKind(index.claims, "lib", "consumes")

\* _repo_for_module: a Go module's path is a URL, and so may a dependency's claim say one
BoundRepos(index, claim) ==
    LET same == InOrder(index.claims,
                    {c \in Consumers(index) : Coordinate(c) = Coordinate(claim)
                                             /\ RepoForUrl(index, Attr(c, "git_url", <<>>)) # {}})
        module == IF claim.scope = "golang" /\ Len(claim.name) >= 3
                  THEN RepoForUrl(index, SubSeq(claim.name, 1, 3)) ELSE {} IN
    IF module # {} \/ same = <<>> THEN module ELSE RepoForUrl(index, same[1].at.git_url)

LibraryEdges(index) ==
    LET published == {Coordinate(c) : c \in Publishers(index)}
        Repos(c) == {p.repo : p \in {q \in Publishers(index) : Coordinate(q) = Coordinate(c)}}
        Bound(c) == IF Coordinate(c) \in published THEN {} ELSE BoundRepos(index, c)
        linked == {c \in Consumers(index) :
                     Coordinate(c) \in published \cup InternalLibs \/ Bound(c) # {}}
        Target(c) == IF Cardinality(Repos(c)) = 1 THEN Repos(c) ELSE Bound(c) IN
    (UNION {{Edge("library", "RESOLVED_TO", ClaimNode(c), Library(c)),
             Edge("library", IF c.direction = "provides" THEN "PUBLISHES" ELSE "DEPENDS_ON",
                  RepoNode(c.repo), Library(c))} : c \in Publishers(index) \cup linked})
    \cup UNION {{Edge("library", "DEPENDS_ON_REPO", RepoNode(c.repo), RepoNode(r)) :
                    r \in Target(c) \ {c.repo}} : c \in linked}

------------------------------------------------------------------------------
(* r4_gateway and path_algebra: what a gateway does to a path.  A prefix   *)
(* is one of the string's: it may end within a segment.                    *)

\* The rules of a table whose prefixes of the path are longest
Finalists(rules, path) ==
    LET claiming == SelectSeq(rules, LAMBDA r : StartsWith(path, r.prefix)) IN
    SelectSeq(claiming, LAMBDA r :
        ~\E i \in DOMAIN claiming : claiming[i].prefix # r.prefix /\ StartsWith(claiming[i].prefix, r.prefix))
Targets(rules) == {rules[i].target : i \in DOMAIN rules}

\* What is left without the first run of these segments
Without(path, run) ==
    LET at == {i \in 0 .. Len(path) - Len(run) : SubSeq(path, i + 1, i + Len(run)) = run} IN
    IF at = {} THEN path ELSE SubSeq(path, 1, Min(at)) \o SubSeq(path, Min(at) + Len(run) + 1, Len(path))

\* apply_rule: segments are stripped, then the pattern, here a path, is removed where it
\* first is: nothing says by what to replace it.  "/" is the first slash, and no path
\* without it is one of a service's.
Applied(rule, path) ==
    LET stripped == SubSeq(path, rule.strip + 1, Len(path)) IN
    IF rule.rewrite = <<>> \/ stripped = <<>> THEN stripped
    ELSE IF rule.rewrite = << <<>> >> THEN <<"">> \o stripped ELSE Without(stripped, rule.rewrite[1])

Rule(index, claim) ==
    [prefix |-> Attr(claim, "path_prefix", <<>>), strip |-> Attr(claim, "strip_prefix", 0),
     rewrite |-> Attr(claim, "rewrite", <<>>), broken |-> Attr(claim, "broken", FALSE),
     target |-> Canon(index, Attr(claim, "target", <<>>)), repo |-> claim.repo]
Routes(index) == {c \in OfKind(index.claims, "route", "consumes") : Attr(c, "target", <<>>) # <<>>}
\* A route's gateway is the one it names, or the service whose file it is in.
Gateway(index, r0, claim) ==
    IF claim.hint # <<>> THEN Canon(index, claim.hint)
    ELSE Canon(index, OwnerOf(r0.modules, claim.repo, claim.path))

\* rewrite_routes: the gateways as routes name them, and the rules of each
Gateways(index, r0) ==
    FoldLeft(LAMBDA found, c : LET g == Gateway(index, r0, c) IN
                               IF g = <<>> \/ g \in Range(found) THEN found ELSE Append(found, g),
             <<>>, InOrder(index.claims, Routes(index)))
Table(index, r0, gateway) ==
    LET its == InOrder(index.claims, {c \in Routes(index) : Gateway(index, r0, c) = gateway}) IN
    [i \in DOMAIN its |-> Rule(index, its[i])]

\* Mutant: where a route leads is a discovery name, whatever it was found as.
RouteTarget_Discovery(r0, name) ==
    IF name \in DOMAIN r0.by \/ <<"discovery", name>> \in r0.names
    THEN {ServiceName(<<"discovery", name>>)} ELSE {}

\* Where a route's claim resolves to: the name discovery has, else the service
RouteTarget(r0, name) ==
    IF <<"discovery", name>> \in r0.names THEN {ServiceName(<<"discovery", name>>)}
    ELSE IF name \in DOMAIN r0.by THEN {r0.by[name]} ELSE {}
\* _target_endpoint: where its gateway leads: the service, else the name discovery has
TargetEndpoint(r0, name) ==
    IF name \in DOMAIN r0.by THEN {r0.by[name]}
    ELSE IF <<"discovery", name>> \in r0.names THEN {ServiceName(<<"discovery", name>>)} ELSE {}
GatewayEdges(index, r0) ==
    UNION {LET target == Canon(index, c.at.target)
               gateway == {r0.by[n] : n \in {Gateway(index, r0, c)} \cap DOMAIN r0.by} IN
           {Edge("gateway", "RESOLVED_TO", ClaimNode(c), t) : t \in RouteTarget(r0, target)}
           \cup {Edge("gateway", "ROUTES_TO", g, t) : g \in gateway, t \in TargetEndpoint(r0, target)} :
              c \in Routes(index)}

Ambiguous(finalists) == Cardinality(Targets(finalists)) > 1

Cycle(target, seen) == target \in seen

Refused == [service |-> <<>>, path |-> <<>>, stopped |-> "cycle"]

\* match_table, of the table a service has, if any
Matching(ctx, service, path) ==
    IF service \in DOMAIN ctx.tables THEN Finalists(ctx.tables[service], path) ELSE <<>>

\* Once round resolve_chain's loop, from the service the path has come to
Hop(ctx, at, seen) ==
    LET finalists == Matching(ctx, at.service, at.path)
        target == Canon(ctx, finalists[1].target)
        Stop(why) == [at EXCEPT !.stopped = why] IN
    CASE at.stopped # "" -> at
      [] at.stopped = "" /\ finalists = <<>> -> Stop("landed")
      [] OTHER ->
            IF Ambiguous(finalists) THEN Stop("ambiguous")
            ELSE IF Cardinality(seen) > MaxHops THEN Stop("deep")
            ELSE IF finalists[1].broken THEN Stop("invalid")
            ELSE IF Cycle(target, seen) THEN Refused
            ELSE [service |-> target, path |-> Applied(finalists[1], at.path), stopped |-> ""]

\* resolve_chain: gateway after gateway, until no table claims the path
Chain(ctx, service, path) ==
    LET start == [service |-> service, path |-> path, stopped |-> ""]
        after[k \in 0 .. MaxHops + 1] ==
            IF k = 0 THEN [at |-> start, seen |-> {service}]
            ELSE LET before == after[k - 1]
                     at == Hop(ctx, before.at, before.seen) IN
                 [at |-> at, seen |-> before.seen \cup {at.service}] IN
    after[MaxHops + 1].at

------------------------------------------------------------------------------
(* NORMALIZE: under which service, method and path a call site is joined   *)

\* _env_host_services: the host a repository's compose files give a variable, the last
\* of several
EnvHosts(index, repo, variable) ==
    LET its == InOrder(index.claims,
                   {c \in OfKind(index.claims, "svcname", "consumes") :
                      /\ Attr(c, "via", "") = "env_host" /\ c.repo = repo
                      /\ Attr(c, "env_key", "") = variable /\ c.hint # <<>>}) IN
    IF its = <<>> THEN {} ELSE {Last(its).hint}
EnvKeys(index, repo) ==
    {Attr(c, "env_key", "") : c \in {d \in OfKind(index.claims, "svcname", "consumes") : d.repo = repo}}

\* _env_reads_by_dir: the variables read by the files below a directory
ReadBelow(index, repo, directory) ==
    {Last(c.name) : c \in {d \in Kind(index.claims, "cfgread") :
        d.repo = repo /\ d.path # <<>> /\ IsPrefix(directory, Front(d.path))}}

\* _qualify_from_config: the one service that the variables read nearest point at, or
\* the one that the call's own variable is named like, of those or of all
FromConfig(index, claim) ==
    LET Pointed(directory) ==
            UNION {EnvHosts(index, claim.repo, k) : k \in ReadBelow(index, claim.repo, directory)}
        depths == {d \in 1 .. Len(claim.path) - 1 : Pointed(SubSeq(claim.path, 1, d)) # {}}
        nearest == IF depths = {} THEN {} ELSE Pointed(SubSeq(claim.path, 1, Max(depths)))
        variable == Attr(claim, "base_var", "")
        narrowed == {s \in nearest : <<variable, s[1]>> \in Within}
        all == UNION {EnvHosts(index, claim.repo, k) :
                         k \in {e \in EnvKeys(index, claim.repo) : <<variable, e>> \in Within}} IN
    CASE Cardinality(nearest) = 1 -> nearest
      [] Cardinality(nearest) # 1 /\ Cardinality(narrowed) = 1 -> narrowed
      [] OTHER -> IF variable \in Telling /\ Cardinality(all) = 1 THEN all ELSE {}

\* _qualify_from_gateway: what all gateways together make of a path without a host, those
\* the caller's repository declares first
Everything(ctx) == FlattenSeq([i \in DOMAIN ctx.gateways |-> ctx.tables[ctx.gateways[i]]])

\* Mutant: the path is as the first gateway leaves it.
FromGateway_OneHop(ctx, claim) ==
    LET finalists == Finalists(Everything(ctx), claim.name) IN
    IF finalists = <<>> \/ Ambiguous(finalists) \/ finalists[1].broken THEN {}
    ELSE {[service |-> Canon(ctx, finalists[1].target),
           path |-> Applied(finalists[1], claim.name), stopped |-> "landed"]}

FromGateway(ctx, claim) ==
    LET finalists == Finalists(Everything(ctx), claim.name)
        local == SelectSeq(finalists, LAMBDA r : r.repo = claim.repo)
        preferred == IF local # <<>> THEN local ELSE finalists IN
    IF preferred = <<>> \/ Ambiguous(preferred) \/ preferred[1].broken THEN {}
    ELSE {Chain(ctx, Canon(ctx, preferred[1].target), Applied(preferred[1], claim.name))}

\* normalize_http_calls: a call site that is declined has no key
Normalized(ctx, claim) ==
    LET named == IF claim.hint_source \in {"discovery", "host", "config", "gateway_route"} /\ claim.hint # <<>>
                 THEN {claim.hint} ELSE FromConfig(ctx, claim)
        chains == IF named # {} THEN {Chain(ctx, Canon(ctx, n), claim.name) : n \in named}
                  ELSE {[c EXCEPT !.service = Canon(ctx, @)] : c \in FromGateway(ctx, claim)} IN
    IF claim.node THEN {c \in chains : c # Refused} ELSE {}
Calls(ctx) ==
    LET sites == OfKind(ctx.claims, "http", "consumes") IN
    [c \in {d \in sites : Normalized(ctx, d) # {}} |-> CHOOSE n \in Normalized(ctx, c) : TRUE]

------------------------------------------------------------------------------
(* r9_env_index and r9_env: a variable that code reads, and its value.  A  *)
(* variable is <<name>>, or <<file, property>>.                            *)

\* Of each key the last claim that defines it: _index_definitions, _index_helm_values
Definitions(claims) ==
    LastBy(claims,
           {c \in OfKind(claims, "cfgdef", "provides") :
               FromSource(c, {"k8s_configmap", "k8s_secret"}) /\ {"object", "config_key"} \subseteq DOMAIN c.at},
           LAMBDA c : <<c.scope, c.at.object, c.at.config_key>>)
HelmValues(claims) ==
    LastBy(claims,
           {c \in OfKind(claims, "cfgdef", "provides") :
               FromSource(c, {"helm_values"}) /\ "config_key" \in DOMAIN c.at},
           LAMBDA c : <<c.repo, c.at.config_key>>)

\* _chase_helm_ref: one layer down, in the chart's own repository
Chased(helm, claim, attrs) ==
    LET ref == <<claim.repo, IF "helm_ref" \in DOMAIN attrs THEN attrs.helm_ref ELSE "">> IN
    IF ref \in DOMAIN helm THEN helm[ref].at ELSE attrs

\* _resolve_references: what sets a variable, if its value can be known
Setting(definitions, helm, claim) ==
    LET ref == <<claim.scope, Attr(claim, "ref_name", <<>>), Attr(claim, "ref_key", "")>> IN
    CASE FromSource(claim, {"helm_values", "compose_env"}) -> {claim.at}
      [] FromSource(claim, {"k8s_env"}) /\ ~Attr(claim, "unresolved", FALSE) ->
            {Chased(helm, claim, claim.at)}
      [] FromSource(claim, {"k8s_env"}) /\ Attr(claim, "ref_kind", "") # "secret"
            /\ ref \in DOMAIN definitions ->
            {Chased(helm, claim, definitions[ref].at)}
      [] OTHER -> {}

\* record_env_value: an overlay's value comes before a base's, else the first does
Outranks(value, current) == current.env_scope = "" /\ value.env_scope # ""

\* _record_value, of every claim: the values, in the order their variables were met in
Values(claims) ==
    LET definitions == Definitions(claims)
        helm == HelmValues(claims)
        Value(c, attrs) ==
            [scope |-> c.scope, name |-> c.name, repo |-> c.repo, env_scope |-> Attr(c, "env_scope", ""),
             consumer |-> Attr(c, "service", <<>>),
             class |-> IF "value_class" \in DOMAIN attrs THEN attrs.value_class ELSE "",
             host |-> IF "value_host" \in DOMAIN attrs THEN attrs.value_host ELSE <<>>,
             hmac |-> IF "value_hmac" \in DOMAIN attrs THEN attrs.value_hmac ELSE <<>>]
        Record(values, v) ==
            LET at == {i \in DOMAIN values : values[i].scope = v.scope /\ values[i].name = v.name} IN
            IF at = {} THEN Append(values, v)
            ELSE [i \in DOMAIN values |-> IF i \in at /\ Outranks(v, values[i]) THEN v ELSE values[i]]
        Meet(values, c) ==
            LET known == {Value(c, a) : a \in Setting(definitions, helm, c)} IN
            IF \E v \in known : v.class \in {"url", "hostname", "enum-ish"}
            THEN Record(values, CHOOSE v \in known : TRUE) ELSE values IN
    FoldLeft(Meet, <<>>, InOrder(claims, OfKind(claims, "cfgdef", "provides")))

OneOf(things) == Cardinality(things) = 1

\* _join_read_sites: code that reads a variable calls the one host it has, in its own
\* repository if that sets it
ReadCalls(ctx, r0) ==
    LET Candidates(c) ==
            LET found == SelectSeq(ctx.values, LAMBDA v : v.name = <<Attr(c, "env_name", "")>>)
                local == SelectSeq(found, LAMBDA v : v.repo = c.repo) IN
            IF local # <<>> THEN local ELSE found
        Hosts(vs) == {vs[i].host : i \in DOMAIN vs} \ {<<>>}
        Readers(vs) == {vs[i].consumer : i \in DOMAIN vs} \ {<<>>}
        Source(c, vs) == IF Readers(vs) # {} THEN CHOOSE r \in Readers(vs) : TRUE
                         ELSE OwnerOf(r0.modules, c.repo, c.path)
        Target(vs) == IF vs[1].host = <<>> THEN <<>> ELSE Canon(ctx, <<vs[1].host[1]>>) IN
    {Call("env", "CALLS_SERVICE", Canon(ctx, Source(c, Candidates(c))), Target(Candidates(c)), c) :
        c \in {d \in OfKind(ctx.claims, "cfgread", "consumes") :
                 LET vs == Candidates(d) IN
                 /\ OneOf(Hosts(vs)) /\ Cardinality(Readers(vs)) <= 1
                 /\ {Target(vs), Source(d, vs)} \cap {<<>>} = {}
                 /\ Canon(ctx, Source(d, vs)) # Target(vs)}}

------------------------------------------------------------------------------
(* r6_topic: a topic is <<system, name>>; the name may be a variable's     *)
(* (<<"env:", v>>) or a property's (<<"cfg:", p>>) value                   *)

Indirect(claim) == claim.name # <<>> /\ claim.name[1] \in {"env:", "cfg:"}
Literal(claim) == ~Attr(claim, "fan_out", FALSE) /\ ~Indirect(claim) /\ claim.name # <<>>
TopicClaims(ctx) == {c \in Range(ctx.claims) : c.kind = "topic" /\ c.matchable}

\* _fold_unknown_system: a channel is of the one system that has its name
Folded(ctx, claim) ==
    LET systems == {c.scope : c \in {d \in TopicClaims(ctx) : Literal(d) /\ d.name = claim.name}} \ {"channel"} IN
    IF claim.scope = "channel" /\ Cardinality(systems) = 1
    THEN <<CHOOSE s \in systems : TRUE, claim.name>> ELSE <<claim.scope, claim.name>>
LiteralTopics(ctx) == {Folded(ctx, c) : c \in {d \in TopicClaims(ctx) : Literal(d)}}

\* _resolve_indirect: the topics that a variable's values are, as literals, as hosts or
\* as the digests that stand for them
Resolved(ctx, claim) ==
    LET variable == claim.name[2]
        values == {v \in Range(ctx.values) :
                     \/ claim.name[1] = "env:" /\ v.name = <<variable>>
                     \/ claim.name[1] = "cfg:" /\ Last(v.name) = variable}
        Topic(v) == IF <<claim.scope, v.hmac>> \in LiteralTopics(ctx) THEN {<<claim.scope, v.hmac>>}
                    ELSE IF v.class = "hostname" /\ v.host # <<>> THEN {<<claim.scope, v.host>>}
                    ELSE IF v.hmac # <<>> THEN {<<claim.scope, <<"#">> \o v.hmac>>} ELSE {} IN
    UNION {Topic(v) : v \in values}

\* The topic a claim is about, if it is known
TopicOf(ctx, claim) ==
    IF Attr(claim, "fan_out", FALSE) THEN {}
    ELSE IF Literal(claim) THEN {Folded(ctx, claim)}
    ELSE {t \in Resolved(ctx, claim) : OneOf(Resolved(ctx, claim))}

TopicNode(topic) == <<"Topic", topic[1], topic[2]>>
TopicEdges(ctx, r0) ==
    LET Type(c) == IF Attr(c, "declares", FALSE) THEN "DECLARES_TOPIC"
                   ELSE IF c.direction = "provides" THEN "PUBLISHES_TO" ELSE "CONSUMES_FROM"
        Site(c) == IF Attr(c, "service", <<>>) # <<>> THEN c.at.service ELSE OwnerOf(r0.modules, c.repo, c.path)
        Sites(c) == IF ~c.node THEN {}
                    ELSE {<<"GraphNode", c.id>>}
                         \cup {r0.by[n] : n \in {m \in {Canon(ctx, Site(c))} \cap DOMAIN r0.by :
                                                   ~Attr(c, "declares", FALSE)}} IN
    (UNION {{Edge("topic", "RESOLVED_TO", ClaimNode(c), TopicNode(t)) : t \in TopicOf(ctx, c)}
            \cup {Edge("topic", Type(c), s, TopicNode(t)) : s \in Sites(c), t \in TopicOf(ctx, c)} :
               c \in TopicClaims(ctx)})
    \cup UNION {LET target == TopicNode(<<c.at.to[1], c.at.to[2]>>) IN
                {Edge("topic", "FANS_OUT_TO", TopicNode(<<c.scope, c.name>>), target),
                 Edge("topic", "RESOLVED_TO", ClaimNode(c), target)} :
                   c \in {d \in TopicClaims(ctx) : Attr(d, "fan_out", FALSE) /\ "to" \in DOMAIN d.at}}
Topics(ctx) ==
    LiteralTopics(ctx) \cup (UNION {TopicOf(ctx, c) : c \in TopicClaims(ctx)})
    \cup UNION {{<<c.scope, c.name>>, c.at.to} :
                   c \in {d \in TopicClaims(ctx) : Attr(d, "fan_out", FALSE) /\ "to" \in DOMAIN d.at}}

------------------------------------------------------------------------------
(* The run: its context and its edges                                      *)

\* broadcast_pass
Broadcast(claims) ==
    LET index == Index(claims)
        r0 == Alias(index)
        gateways == Gateways(index, r0) IN
    [claims |-> claims, k8s |-> index.k8s, canon |-> index.canon, r0 |-> r0, gateways |-> gateways,
     tables |-> [g \in Range(gateways) |-> Table(index, r0, g)], values |-> Values(claims)]

Queued(ctx) == EnvHostCalls(ctx) \cup PolicyCalls(ctx) \cup ReadCalls(ctx, ctx.r0)
Edges(ctx) ==
    SelectorEdges(ctx) \cup AliasEdges(ctx, ctx.r0) \cup ComposeEdges(ctx, ctx.r0)
    \cup LibraryEdges(ctx) \cup GatewayEdges(ctx, ctx.r0) \cup TopicEdges(ctx, ctx.r0)
    \cup PendingEdges(ctx.r0, Queued(ctx)) \cup GitopsEdges(ctx, ctx.r0)

\* The nodes an edge may touch: those of the claims and their repositories, and those
\* the resolvers mint.  (A module, a unit and a package are minted with their edges.)
Nodes(ctx) ==
    {ClaimNode(c) : c \in Range(ctx.claims)} \cup {<<"GraphNode", c.id>> : c \in Range(ctx.claims)}
    \cup {RepoNode(c.repo) : c \in Range(ctx.claims)}
    \cup Range(ctx.r0.at) \cup {ServiceName(p) : p \in ctx.r0.names}
    \cup {TopicNode(t) : t \in Topics(ctx)} \cup {Library(c) : c \in Publishers(ctx) \cup Consumers(ctx)}

------------------------------------------------------------------------------
(* partitions.py: the claims of each key to workers, a key with more than  *)
(* its share of them in parts                                              *)

JoinKey(claim) == <<claim.kind, claim.scope, claim.name>>
Fair(claims) == LET share == Cardinality(claims) \div Workers IN IF share = 0 THEN 1 ELSE share
Rank(claims, c) == Cardinality({d \in claims : d.id < c.id})

\* Mutant: the replicated side takes no room of a part.
Room_All(fair, small) == fair

Room(fair, small) == IF fair > Cardinality(small) THEN fair - Cardinality(small) ELSE 1

\* The parts of one key: [part, all], "all" being in every part of it
Shards(claims, group) ==
    LET provides == {c \in group : c.direction = "provides"}
        small == IF Cardinality(provides) <= Cardinality(group \ provides) THEN provides ELSE group \ provides
        large == group \ small
        size == Room(Fair(claims), small)
        Part(c) == Rank(large, c) \div size IN
    IF Cardinality(group) <= Fair(claims) \/ Workers = 1 \/ Cardinality(small) > ReplicationCap
    THEN {[part |-> group, all |-> {}]}
    ELSE {[part |-> {d \in large : Part(d) = Part(c)}, all |-> small] : c \in large}

AllShards(claims) ==
    LET keyed == {c \in claims : c.matchable}
        Group(k) == {c \in keyed : JoinKey(c) = k} IN
    UNION {Shards(keyed, Group(k)) : k \in {JoinKey(c) : c \in keyed}}
Weight(shard) == Cardinality(shard.part \cup shard.all)
Load(shards) == Cardinality(UNION {{s} \X (s.part \cup s.all) : s \in shards})

Lightest(loads) ==
    CHOOSE w \in DOMAIN loads : \A v \in DOMAIN loads : loads[w] < loads[v] \/ (loads[w] = loads[v] /\ w <= v)

Heavier(s, t) ==
    \/ Weight(s) > Weight(t)
    \/ Weight(s) = Weight(t) /\ Min({c.id : c \in s.part}) < Min({c.id : c \in t.part})
Heaviest(shards) == CHOOSE s \in shards : \A t \in shards : ~Heavier(t, s)

\* plan: the heaviest first, each to the lightest worker
Pack(plan) ==
    LET s == Heaviest(plan.left)
        w == Lightest(plan.loads) IN
    [left |-> plan.left \ {s},
     partitions |-> [plan.partitions EXCEPT ![w] = @ \cup {s}],
     loads |-> [plan.loads EXCEPT ![w] = @ + Weight(s)]]
Unpacked(shards) ==
    [left |-> shards, partitions |-> [w \in 1 .. Workers |-> {}], loads |-> [w \in 1 .. Workers |-> 0]]
Plan(claims) ==
    LET shards == AllShards(claims)
        after[n \in 0 .. Cardinality(shards)] ==
            IF n = 0 THEN Unpacked(shards) ELSE Pack(after[n - 1]) IN
    after[Cardinality(shards)].partitions

------------------------------------------------------------------------------
(* Properties                                                              *)

\* No edge touches a node that the run does not write (graph_writer rejects the whole
\* run then): whatever a name resolves to, in whichever resolver, is a node of the kind
\* it says, though a name may be a service, only a name, or not known at all.
Dangling(ctx) ==
    LET nodes == Nodes(ctx) IN
    {e \in Edges(ctx) : \/ e.source \notin nodes
                        \/ e.target \notin nodes /\ e.type \notin {"BELONGS_TO", "DEPLOYED_AS"}}
EndpointsExist == Known # {} => Dangling(Broadcast(Claims)) = {}

\* I9: a key is final once a call site has it.  What the gateways make of a call's key,
\* if they do not stop half way, is the key itself, whichever of config, gateway table
\* or hint named the callee.
Unfinished(ctx) ==
    LET calls == Calls(ctx) IN
    {c \in DOMAIN calls :
        calls[c].stopped = "landed" /\ Chain(ctx, calls[c].service, calls[c].path) # calls[c]}
KeysAreFinal == Known # {} => Unfinished(Broadcast(Claims)) = {}

\* The plan computes the join: every provider and every consumer of a key meet in one
\* worker, once; and no worker has more than its share and one part of it.
MeetOnce(bins) ==
    LET claims == {c \in Range(Claims) : c.matchable}
        provides == {c \in claims : c.direction = "provides"}
        consumes == claims \ provides
        all == UNION Range(bins)
        most == Load(all) + Workers * Max({0} \cup {Weight(s) : s \in all})
        fair == Fair(claims)
        placed == UNION {{w} \X bins[w] : w \in DOMAIN bins}
        Holds(p, c) == c \in p[2].part \cup p[2].all IN
    /\ \A c \in provides :
          LET its == {p \in placed : Holds(p, c)} IN
          \A d \in consumes :
              JoinKey(c) = JoinKey(d) => Cardinality({p \in its : Holds(p, d)}) = 1
    /\ claims \subseteq UNION {s.part \cup s.all : s \in all}
    /\ \A w \in DOMAIN bins : Load(bins[w]) * Workers <= most
    /\ \A s \in all : s.all # {} => Weight(s) <= Max({fair, Cardinality(s.all) + 1})
PairsMeetOnce == Known # {} => MeetOnce(Plan(Range(Claims)))

\* r2_k8s, of the alias a selector gives: both spellings resolve to one service.  So what
\* a policy permits is an edge, whichever name its workloads go by, when both have a
\* service.
Unseen(ctx) ==
    {p \in PolicyCalls(ctx) :
        LET source == Canon(ctx, p.source)
            target == Canon(ctx, p.target) IN
        /\ {source, target} \subseteq DOMAIN ctx.r0.by /\ source # target
        /\ Edge("k8s", "PERMITS_TRAFFIC", ctx.r0.by[source], ctx.r0.by[target]) \notin Edges(ctx)}
PolicyIsSeen == Known # {} => Unseen(Broadcast(Claims)) = {}

=============================================================================
