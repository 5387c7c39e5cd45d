-------------------------------- MODULE Gateways --------------------------------
(***************************************************************************)
(* The route tables of gateways and proxies (parsers/gateway_parser.py and *)
(* emit_gateway_claims): each of six formats is a sequence of rules        *)
(* [kind, host, prefix, target, strip, rewrite]: what matches the prefix   *)
(* goes to the target.  Whatever the length of the prefix is, what strips  *)
(* it strips one segment.                                                  *)
(*                                                                         *)
(* A host that a variable stands for is empty, and so is a rule's target   *)
(* then.  A rewrite is <<>> or <<path>>, a regular expression's anchors    *)
(* are left out, and a parameter is a label.                               *)
(***************************************************************************)
EXTENDS Statements

RuleOf(kind, domain, prefix, target, strips, rewrite) ==
    [kind |-> kind, host |-> domain, prefix |-> prefix, target |-> target,
     strip |-> IF strips THEN 1 ELSE 0, rewrite |-> rewrite]

\* The last entry of a name, in a dict that a loop writes
LastNamed(entries, name) ==
    LET its == SelectSeq(entries, LAMBDA e : e.name = name) IN
    IF its = <<>> THEN <<>> ELSE <<Last(its)>>

------------------------------------------------------------------------------
(* NGINX: [upstreams, servers], an upstream [name, servers], its servers   *)
(* [host, spare, unix], a server [names, locations], a location            *)
(* [path, pass, rewrites, locations]; "pass" is <<>> or <<[host, uri]>>    *)

\* _nginx_upstreams: the first server that is neither a spare nor a socket
Upstream(file, domain) ==
    LET InUse(u) == SelectSeq(u.servers, LAMBDA s : ~s.spare /\ ~s.unix)
        its == LastNamed(SelectSeq(file.upstreams, LAMBDA u : InUse(u) # <<>>), domain) IN
    IF its = <<>> THEN domain ELSE InUse(its[1])[1].host

\* _nginx_location_rules: those of the locations within it come first.  A proxy_pass with a
\* path, be it the root's, replaces the prefix, and so does a rewrite, the first that does
\* not redirect.
RECURSIVE LocationRules(_, _, _)
LocationRules(file, domain, location) ==
    LET pass == location.pass[1]
        said == SelectSeq(location.rewrites, LAMBDA r : ~r.redirect)
        rewrite == IF said # <<>> THEN <<said[1].path>> ELSE SelectSeq(pass.uri, LAMBDA p : p # <<>>) IN
    Each(location.locations, LAMBDA l : LocationRules(file, domain, l))
    \o If(location.pass # <<>>,
          <<RuleOf("nginx", domain, location.path, Upstream(file, pass.host),
                 pass.uri # <<>> \/ said # <<>>, rewrite)>>)

\* parse_nginx_conf: a server is the first of its names that is one; a snippet has none
NginxRules(file) ==
    LET Host(server) == First(SelectSeq(server.names, LAMBDA n : n \notin {<<"_">>, <<"localhost">>})) IN
    Each(file.servers, LAMBDA s : Each(s.locations, LAMBDA l : LocationRules(file, Host(s), l)))

------------------------------------------------------------------------------
(* Envoy: [clusters, hosts], a cluster [name, addresses], a virtual host   *)
(* [domains, routes], a route [path, clusters, prefixRewrite,              *)
(* regexRewrite], its clusters being one, the weighted ones, or <<<<>>>>   *)
(* where a header says which                                               *)

\* _envoy_clusters: a cluster is its first address, or its name
ClusterHost(file, name) ==
    LET its == LastNamed(file.clusters, name) IN
    First((IF its = <<>> THEN <<>> ELSE its[1].addresses) \o <<name>>)

\* parse_envoy_config and _envoy_route_rules: only the rewrite of a prefix strips it
EnvoyRules(file) ==
    LET Wildcard(domain) == "*" \in Range(domain)
        Routed(domain, route) ==
            [i \in DOMAIN route.clusters |->
                RuleOf("envoy", domain, route.path, ClusterHost(file, route.clusters[i]), route.prefixRewrite # <<>>,
                     IF route.prefixRewrite # <<>> THEN route.prefixRewrite ELSE route.regexRewrite)] IN
    Each(file.hosts, LAMBDA h :
        Each(h.routes, LAMBDA r : Routed(First(SelectSeq(h.domains, LAMBDA d : ~Wildcard(d))), r)))

------------------------------------------------------------------------------
(* Kong: [services], a service [host, routes], be it its URL's, a route    *)
(* [hosts, paths] and perhaps strip_path                                   *)

\* parse_kong_config: strip_path is true unless the route says otherwise
KongRules(file) ==
    LET Routed(service, route) ==
            [i \in DOMAIN OrRoot(route.paths) |->
                RuleOf("kong", First(route.hosts), OrRoot(route.paths)[i], service.host,
                     Get(route, "strip_path", TRUE), <<>>)] IN
    Each(file.services, LAMBDA s : Each(s.routes, LAMBDA r : Routed(s, r)))

------------------------------------------------------------------------------
(* Traefik: [routers, services, middlewares], a router [service, hosts,    *)
(* paths, middlewares], a service [name, hosts], a middleware [name,       *)
(* strips]                                                                 *)

\* parse_traefik_file, _traefik_emit: a service is its first server, or what another
\* provider has under the name
TraefikRules(file) ==
    LET strippers == {m.name : m \in {n \in Range(file.middlewares) : n.strips}}
        Server(name) ==
            LET its == LastNamed(SelectSeq(file.services, LAMBDA s : s.hosts # <<>>), name) IN
            IF its = <<>> THEN name ELSE its[1].hosts[1]
        Routed(router) ==
            [i \in DOMAIN OrRoot(router.paths) |->
                RuleOf("traefik", First(router.hosts), OrRoot(router.paths)[i], Server(router.service),
                     Range(router.middlewares) \cap strippers # {}, <<>>)] IN
    Each(file.routers, Routed)

------------------------------------------------------------------------------
(* JavaScript: Next.js entries [section, source, host, path], the section  *)
(* being the last keyword before it, and proxies [contexts, target,        *)
(* rewrite], a rewrite [from, to] of a map or [anchored, to] of a function *)

\* parse_next_config: a redirect is a route too; a destination without a host, and a base
\* path, lead nowhere
NextRules(file) ==
    LET known == SelectSeq(file.entries, LAMBDA e : e.section \in {"rewrites", "redirects"})
        Called(entry) == IF entry.section = "redirects" THEN "next-redirect" ELSE "next-rewrite" IN
    [i \in DOMAIN known |->
        RuleOf(Called(known[i]), <<>>, known[i].source, known[i].host, FALSE, known[i].path)]

\* _js_rewrite: what a rewrite leaves out is stripped if it is what the path begins with
Strips(context, rewrite) ==
    /\ rewrite.to = <<>>
    /\ IF "anchored" \in DOMAIN rewrite THEN rewrite.anchored ELSE StartsWith(context, rewrite.from)
\* _hpm_rules, _proxy_map_rules
ProxyRules(file) ==
    LET Routed(proxy, context) ==
            LET strips == \E i \in DOMAIN proxy.rewrite : Strips(context, proxy.rewrite[i]) IN
            RuleOf("js-proxy", <<>>, context, proxy.target, strips,
                 IF strips \/ proxy.rewrite = <<>> THEN <<>> ELSE proxy.rewrite[1].to)
        Routes(proxy) == [i \in DOMAIN OrRoot(proxy.contexts) |-> Routed(proxy, OrRoot(proxy.contexts)[i])] IN
    Each(file.proxies, Routes)

------------------------------------------------------------------------------
\* sniff_gateway_file and emit_gateway_claims: a route that leads nowhere says nothing
GatewayRules(file) ==
    IF file.gateway = "nginx" THEN NginxRules(file)
    ELSE IF file.gateway = "envoy" THEN EnvoyRules(file)
    ELSE IF file.gateway = "kong" THEN KongRules(file)
    ELSE IF file.gateway = "traefik" THEN TraefikRules(file)
    ELSE IF file.gateway = "next" THEN NextRules(file) ELSE ProxyRules(file)
GatewayStatements(file) ==
    Each(SelectSeq(GatewayRules(file), LAMBDA r : r.target # <<>>), LAMBDA r :
        <<About(<<"gw", r.kind>> \o r.host \o <<"/">> \o r.prefix,
             With(RouteAt(r), By(<<>>, "gateway_route", Say("route", "consumes", "", RouteKey(r.prefix, r.target))))),
          Service("consumes", "discovery", r.target, "gateway_route")>>)
=============================================================================
