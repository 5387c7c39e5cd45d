----------------------------------- MODULE Names -----------------------------------
(***************************************************************************)
(* Which spellings name one service (linker/base.py: LinkContext,          *)
(* r2_k8s.py, r0_alias.py, r1_compose.py, modules.py, engine.py:           *)
(* materialize_pending): the aliases that operators and Kubernetes give a  *)
(* name, the services that claims of a name are clustered into, and the    *)
(* directories that are a service's own.  Claims are in the order the      *)
(* store returned them in.                                                 *)
(*                                                                         *)
(* A name is the sequence of its labels, in lower case, and a bare name    *)
(* has one; a path is the sequence of its segments.  Left out: confidence  *)
(* and evidence (LinkPass), counters, a service's qualified spelling.      *)
(***************************************************************************)
EXTENDS Integers, FiniteSets, Sequences, FiniteSetsExt, SequencesExt, TLC

CONSTANTS
    Alphabet,        \* the labels and scopes, as sorted() orders them
    Begins,          \* <<s, t>>: the segment t begins with the shorter s
    Generic,         \* the names is_generic_name knows
    Aliases,         \* service_aliases.yml: <<[target, names]>>, a name <<scope or "", name>>
    RepoAt,          \* the repository at each URL
    InternalLibs,    \* the coordinates of internal_namespaces.yml
    Containers,      \* MODULE_CONTAINERS
    Infrastructure   \* INFRASTRUCTURE_DIRS

------------------------------------------------------------------------------
(* A claim: [id, repo, kind, direction, scope, name, hint, hint_source,    *)
(* matchable, path, at], its key being scope and name, and "at" its attrs. *)

Attr(claim, field, default) == IF field \in DOMAIN claim.at THEN claim.at[field] ELSE default
FromSource(claim, sources) == Attr(claim, "source", "") \in sources
Kind(claims, kind) == {c \in Range(claims) : c.kind = kind}
OfKind(claims, kind, direction) == {c \in Kind(claims, kind) : c.direction = direction /\ c.matchable}
InOrder(claims, chosen) == SelectSeq(claims, LAMBDA c : c \in chosen)

Before(a, b) == SelectInSeq(Alphabet, LAMBDA x : x = a) < SelectInSeq(Alphabet, LAMBDA x : x = b)
Precedes(m, n) ==
    \/ IsStrictPrefix(m, n)
    \/ \E i \in DOMAIN m \cap DOMAIN n :
          SubSeq(m, 1, i - 1) = SubSeq(n, 1, i - 1) /\ Before(m[i], n[i])
Sorted(S, Less(_, _)) ==
    FoldSet(LAMBDA x, done : InsertAt(done, 1 + Cardinality({i \in DOMAIN done : Less(done[i], x)}), x), <<>>, S)
\* A path that begins with a prefix, as a string: it may end within a segment, and a path
\* that a rewrite left without its first slash ("" is its first segment) begins with none.
StartsWith(path, prefix) ==
    /\ path = <<>> \/ Head(path) # ""
    /\ \/ IsPrefix(prefix, path)
       \/ /\ prefix # <<>> /\ Len(prefix) <= Len(path) /\ IsPrefix(Front(prefix), path)
          /\ Last(prefix) = "" \/ <<Last(prefix), path[Len(prefix)]>> \in Begins
LeastOf(scopes) == CHOOSE s \in scopes : \A t \in scopes \ {s} : Before(s, t)

\* Of these claims the last of each key: what a dict that is written in a loop ends up with
LastBy(claims, chosen, Key(_)) ==
    [k \in {Key(c) : c \in chosen} |->
        claims[Max({i \in DOMAIN claims : claims[i] \in chosen /\ Key(claims[i]) = k})]]

------------------------------------------------------------------------------
(* Aliases: the operator's, then those of Kubernetes (r2_k8s), first wins  *)

\* LinkContext.__init__: a qualified alias names the service by its bare name too,
\* unless that is already one.
OperatorCanon ==
    LET Own(canon, entry) ==
            FoldLeft(LAMBDA c, n : IF n[1] = "" THEN (n[2] :> entry.target) @@ c
                                   ELSE c @@ (n[2] :> entry.target),
                     (entry.target :> entry.target) @@ canon, entry.names) IN
    FoldLeft(Own, <<>>, Aliases)

Canonical(canon, name) == IF name \in DOMAIN canon THEN canon[name] ELSE name

\* _index_services and _index_workloads: of each Service object the last claim, of the
\* workloads all, both under the names the operator knows.
Placed(claim) == <<claim.scope, Canonical(OperatorCanon, claim.name)>>
K8sServices(claims) ==
    LastBy(claims, {c \in OfKind(claims, "svcname", "provides") : FromSource(c, {"k8s_service"})}, Placed)
Workloads(claims) ==
    {c \in OfKind(claims, "svcname", "provides") : FromSource(c, {"k8s"})}

\* resolve, as it begins: both by their places
K8s(claims) == [services |-> K8sServices(claims), workloads |-> Workloads(claims)]

\* The workloads of the namespace that a selector finds by their pods' labels
Selected(k8s, namespace, selector) ==
    {w \in k8s.workloads : /\ w.scope = namespace /\ selector # {}
                           /\ selector \subseteq Attr(w, "pod_labels", {})}
BoundTo(k8s, place) == Selected(k8s, place[1], Attr(k8s.services[place], "selector", {}))

\* _bind_selectors and _emit_dns_aliases: what one Service's names are also spelled
SelectorAliases(k8s, place) ==
    [n \in {Placed(w)[2] : w \in BoundTo(k8s, place)} \ {place[2]} |-> place[2]]
DnsAliases(k8s, place) ==
    LET dns == {place[2] \o <<place[1]>> \o tail : tail \in {<<>>, <<"svc">>, <<"svc", "cluster", "local">>}}
        external == Attr(k8s.services[place], "external_name", <<>>) IN
    [n \in (dns \cup {external}) \ {<<>>, place[2]} |-> place[2]]

CanonOf(k8s) ==
    LET Sooner(p, q) == Before(p[1], q[1]) \/ (p[1] = q[1] /\ Precedes(p[2], q[2]))
        places == Sorted(DOMAIN k8s.services, Sooner)
        selectors == FoldLeft(LAMBDA c, p : c @@ SelectorAliases(k8s, p), OperatorCanon, places) IN
    FoldLeft(LAMBDA c, p : c @@ DnsAliases(k8s, p), selectors, places)

\* The link run's context, as it grows: the claims and their canon to begin with
Index(claims) ==
    LET k8s == K8s(claims) IN [claims |-> claims, k8s |-> k8s, canon |-> CanonOf(k8s)]
Canon(index, name) == Canonical(index.canon, name)

------------------------------------------------------------------------------
(* r0_alias: which claims' names are one service, and its directories      *)

NameClaims(index) == {c \in Range(index.claims) : c.kind = "svcname" /\ c.matchable}
Providers(index) == {c \in NameClaims(index) : c.direction = "provides"}
Named(index, name) == {c \in Providers(index) : Canon(index, c.name) = name}

\* Two scopes' providers of a name are one service's if a repository has both.
Together(index, name, s, t) ==
    \E c, d \in Named(index, name) : c.scope = s /\ d.scope = t /\ c.repo = d.repo

\* _cluster_scopes: the least sets of scopes that such pairs do not leave
Clusters(index, name) ==
    LET scopes == {c.scope : c \in Named(index, name)}
        Closed(C) == \A s \in C, t \in scopes \ C : ~Together(index, name, s, t) IN
    IF name \in Generic THEN {{s} : s \in scopes}
    ELSE {C \in (SUBSET scopes) \ {{}} :
             Closed(C) /\ \A D \in (SUBSET C) \ {{}, C} : ~Closed(D)}

\* _service_identity: by its name, and its first scope if the name alone is not enough
Identity(index, name, cluster) ==
    IF name \in Generic \/ Cardinality(Clusters(index, name)) > 1
    THEN <<"Service", LeastOf(cluster), name>> ELSE <<"Service", "", name>>

\* service_by_scope_name
ServiceAt(index) ==
    [p \in {<<c.scope, Canon(index, c.name)>> : c \in Providers(index)} |->
        Identity(index, p[2], CHOOSE C \in Clusters(index, p[2]) : p[1] \in C)]

\* service_by_name: the first service of a name, whatever its scope
ServiceBy(at) ==
    [n \in {p[2] : p \in DOMAIN at} |-> at[<<LeastOf({p[1] : p \in {q \in DOMAIN at : q[2] = n}}), n>>]]

\* normpath of a path that may hold "." and ".."
Normal(path) ==
    FoldLeft(LAMBDA done, s :
                 CASE s = "." -> done
                   [] s = ".." /\ done # <<>> /\ Last(done) # ".." -> Front(done)
                   [] OTHER -> Append(done, s),
             <<>>, path)
Directory(path) == IF path = <<>> THEN <<>> ELSE Front(path)

\* A build context is a directory seen from the file's.
ContextOf(claim) == Normal(Directory(claim.path) \o Attr(claim, "build_context", <<>>))

\* register_module: the module whose src holds the file, or the file's directory
ModuleRoot(path) ==
    LET src == {i \in 2 .. Len(path) - 1 : path[i] = "src"} IN
    IF src = {} THEN Directory(path) ELSE SubSeq(path, 1, Min(src) - 1)

\* _register_scope: the directory a provider's claim gives its service, if any
Owned(claim, name) ==
    LET Entry(prefix, rank) == {[repo |-> claim.repo, prefix |-> prefix, name |-> name, rank |-> rank]} IN
    CASE "build_context" \in DOMAIN claim.at ->
            IF ContextOf(claim) # <<>> /\ Head(ContextOf(claim)) = ".." THEN Entry(<<>>, 0)
            ELSE Entry(ContextOf(claim), 2)
      [] FromSource(claim, {"spring.application.name", "otel-env"}) -> Entry(ModuleRoot(claim.path), 1)
      [] FromSource(claim, {"config-filename", "prometheus-job"}) -> {}
      [] OTHER -> Entry(<<>>, 0)

\* module_service_name: the one service whose prefix of the path is longest and best
OwnerOf(modules, repo, path) ==
    LET over == {m \in modules : m.repo = repo /\ IsPrefix(m.prefix, path)}
        Better(m, n) == Len(m.prefix) > Len(n.prefix) \/ (m.prefix = n.prefix /\ m.rank > n.rank)
        names == {m.name : m \in {n \in over : ~\E b \in over : Better(b, n)}} IN
    IF Cardinality(names) = 1 THEN CHOOSE n \in names : TRUE ELSE <<>>

\* module_of: the first directory, or a directory of directories and the one in it; none
\* for a file of the root and for what only says where things run
ModuleOf(path) ==
    CASE Len(path) < 2 -> <<>>
      [] Len(path) > 2 /\ path[1] \in Containers -> SubSeq(path, 1, 2)
      [] path[1] \in Infrastructure -> <<>>
      [] OTHER -> <<path[1]>>

Edge(by, type, source, target) == [by |-> by, type |-> type, source |-> source, target |-> target]
ClaimNode(claim) == <<"ContractClaim", claim.id>>
RepoNode(repo) == <<"Repo", repo>>
Unit(claim) ==
    <<"DeploymentUnit", Attr(claim, "namespace", "default"), Attr(claim, "kind", ""), Attr(claim, "workload", "")>>

\* _emit_module: the one module the service's claims are all in
ModulesOf(claims) == {ModuleOf(c.path) : c \in claims} \ {<<>>}
\* _emit_deployment: each workload that its manifests name
UnitsOf(claims) ==
    {Unit(c) : c \in {d \in claims : FromSource(d, {"k8s"}) /\ Attr(d, "kind", "") # "" /\ Attr(d, "workload", "") # ""}}
\* _built_from: not the repository that only configures it
BuiltIn(claims) ==
    {c.repo : c \in {d \in claims : \/ "build_context" \in DOMAIN d.at
                                    \/ FromSource(d, {"spring.application.name", "compose", "k8s"})}}

\* What r0_alias leaves in the context
Alias(index) ==
    LET at == ServiceAt(index)
        Claiming(service) == {c \in Providers(index) : at[<<c.scope, Canon(index, c.name)>>] = service} IN
    [at |-> at, by |-> ServiceBy(at),
     names |-> {<<c.scope, Canon(index, c.name)>> : c \in NameClaims(index)},
     claiming |-> [s \in Range(at) |-> Claiming(s)],
     modules |-> UNION {Owned(c, Canon(index, c.name)) : c \in Providers(index)}]

ServiceName(place) == <<"ServiceName", place[1], place[2]>>

AliasEdges(index, r0) ==
    {Edge("alias", "RESOLVED_TO", ClaimNode(c), ServiceName(<<c.scope, Canon(index, c.name)>>)) :
        c \in NameClaims(index)}
    \cup {Edge("alias", "HAS_ALIAS", r0.at[p], ServiceName(p)) : p \in DOMAIN r0.at}
    \cup UNION {LET claims == r0.claiming[s] IN
                {Edge("alias", "BELONGS_TO", s, <<"Module", m>>) :
                    m \in {n \in ModulesOf(claims) : Cardinality(ModulesOf(claims)) = 1}}
                \cup {Edge("alias", "DEPLOYED_AS", s, u) : u \in UnitsOf(claims)}
                \cup {Edge("alias", "BUILT_FROM", s, RepoNode(r)) : r \in BuiltIn(claims)} :
                   s \in DOMAIN r0.claiming}

\* r1_compose: what a compose project's services depend on.  An endpoint is the service
\* of the name in the scope, or the name alone.
Endpoint(r0, place) ==
    IF place \in DOMAIN r0.at THEN {r0.at[place]}
    ELSE IF place \in r0.names THEN {ServiceName(place)} ELSE {}
ComposeEdges(index, r0) ==
    UNION {{Edge("compose", "CALLS_SERVICE", pair[1], pair[2]) :
               pair \in {e \in Endpoint(r0, <<c.scope, Canon(index, Attr(c, "from", <<>>))>>)
                               \X Endpoint(r0, <<c.scope, Canon(index, c.name)>>) : e[1] # e[2]}} :
             c \in {d \in OfKind(index.claims, "svcname", "consumes") :
                      /\ d.scope # "discovery" /\ Attr(d, "from", <<>>) # <<>>
                      /\ \E p \in Range(index.claims) :
                            /\ p.kind = "svcname" /\ p.direction = "provides"
                            /\ p.scope = d.scope /\ p.name = d.name}}

------------------------------------------------------------------------------
(* r2_k8s: what is queued by name before any service is minted             *)

Call(by, type, source, target, claim) ==
    [by |-> by, type |-> type, source |-> source, target |-> target, claim |-> claim.id]

\* _emit_env_host_calls: a variable of a Deployment that points at a Service
EnvHostCalls(index) ==
    LET services == DOMAIN index.k8s.services IN
    {Call("k8s", "CALLS_SERVICE", m.source, m.target, m.claim) :
        m \in {n \in {[claim |-> c, source |-> Canon(index, Attr(c, "service", <<>>)),
                       target |-> Canon(index, <<Attr(c, "value_host", <<>>)[1]>>)] :
                         c \in {d \in OfKind(index.claims, "cfgdef", "provides") :
                                  FromSource(d, {"k8s_env"}) /\ Attr(d, "value_host", <<>>) # <<>>}} :
                 /\ n.source # <<>> /\ n.source # n.target
                 /\ \E s \in services : s[2] = n.target}}

\* _emit_policy_edges: who may talk to whom.  The workloads are under the names they were
\* indexed by; an account is a name like any other.
PolicyCalls(index) ==
    LET Found(namespace, selector) ==
            {Placed(w)[2] : w \in Selected(index.k8s, namespace, selector)}
        Account(ref) == {Placed(w)[2] : w \in index.k8s.workloads} \cap {Canon(index, ref)}
        Sources(c) == IF Attr(c, "account", <<>>) # <<>> THEN Account(c.at.account)
                      ELSE Found(Attr(c, "namespace", "default"), Attr(c, "source_selector", {})) IN
    UNION {{Call("k8s", "PERMITS_TRAFFIC", pair[1], pair[2], c) :
               pair \in {e \in Sources(c)
                               \X Found(Attr(c, "namespace", "default"), Attr(c, "target_selector", {})) :
                           e[1] # e[2]}} :
             c \in OfKind(index.claims, "policy", "provides")}

\* _emit_gitops_built_from
GitopsSources(index) ==
    {<<Canon(index, c.hint), Attr(c, "source_repo", <<>>)>> :
        c \in {d \in OfKind(index.claims, "declared", "provides") :
                 FromSource(d, {"gitops"}) /\ d.hint # <<>> /\ Attr(d, "source_repo", <<>>) # <<>>}}
SelectorEdges(index) ==
    UNION {{Edge("k8s", "MEMBER_OF", ClaimNode(w), ClaimNode(index.k8s.services[p])) :
               w \in BoundTo(index.k8s, p)} : p \in DOMAIN index.k8s.services}
RepoForUrl(index, url) ==
    {r \in {c.repo : c \in Range(index.claims)} : url \in DOMAIN RepoAt /\ r = RepoAt[url]}

\* record_service_call is looked up by name once there are services: materialize_pending
PendingEdges(r0, calls) ==
    {Edge(c.by, c.type, r0.by[c.source], r0.by[c.target]) :
        c \in {d \in calls : /\ {d.source, d.target} \subseteq DOMAIN r0.by
                             /\ r0.by[d.source] # r0.by[d.target]}}
GitopsEdges(index, r0) ==
    UNION {{Edge("k8s", "BUILT_FROM", r0.by[g[1]], RepoNode(r)) : r \in RepoForUrl(index, g[2])} :
              g \in {h \in GitopsSources(index) : h[1] \in DOMAIN r0.by}}
====================================================================================
