------------------------------- MODULE MCLinking -------------------------------
(* Repository "a" calls repository "b" in every way the resolvers know, and *)
(* each way that several claims can make ambiguous has the claim for it.    *)
EXTENDS Hosts

Percent ==
    [alias |-> 90, depends_on |-> 95, exposes |-> 95, hint_exact |-> 90, hint_template |-> 50,
     registered |-> 80, literal |-> 80, declared |-> 95, env_resolved |-> 70,
     client |-> 85, calls_service |-> 85, event_schema |-> 80, federated |-> 90,
     field_name |-> 75, config |-> 80, catalog |-> 90]

Claim(id, kind, direction, repo, callee, path, tier) ==
    [id |-> id, version |-> 1, kind |-> kind, direction |-> direction, repo |-> repo,
     node |-> "f", callee |-> callee, path |-> path, tier |-> tier]

Names == {Claim(r, "svcname", "provides", r, "", "", "alias") : r \in {"a", "b"}}
Depends == Claim("dep", "svcname", "consumes", "a", "b", "", "depends_on")
Reads == Claim("cfg", "cfgread", "consumes", "a", "", "URL", "env_resolved")
Sets == Claim("def", "cfgdef", "provides", "b", "b", "URL", "declared")
Other == Claim("def2", "cfgdef", "provides", "b", "c", "URL", "declared")
Orders == Claim("orders", "http", "provides", "b", "", "/orders", "exposes")
Guess == Claim("guess", "http", "consumes", "a", "b", "/orders", "hint_template")
Call == Claim("call", "http", "consumes", "a", "b", "/orders", "hint_exact")
Hook == Claim("hook", "webhook", "consumes", "a", "b", "/orders", "registered")
Rpc == [Claim("rpc", "grpcop", "provides", "b", "b", "/orders", "declared") EXCEPT
           !.node = "Event"]
Stub == Claim("stub", "grpcstub", "consumes", "a", "b", "", "client")
Event == [Claim("event", "topic", "provides", "b", "literal", "b", "literal") EXCEPT
             !.node = "Event"]
Listens == Claim("listen", "topic", "consumes", "a", "env", "URL", "env_resolved")
Table == Claim("table", "dataset", "consumes", "a", "", "orders", "literal")
Schema == Claim("schema", "db", "provides", "b", "", "orders", "declared")
Fields == {Claim("field", "graphqlop", "provides", "b", "", "user", "exposes"),
           Claim("field2", "graphqlop", "provides", "a", "", "user", "federated")}
Query == Claim("query", "graphqlop", "consumes", "a", "", "user", "field_name")
Tools == {Claim("tool", "mcpop", "provides", "b", "files", "", "config"),
          Claim("tool2", "mcpop", "provides", "a", "files", "", "config")}
Client == Claim("client", "mcpop", "consumes", "a", "files", "", "config")
Skill == Claim("skill", "a2aop", "provides", "b", "", "/card", "config")
Delegates == Claim("agent", "a2aop", "consumes", "a", "", "/card", "config")
Team == Claim("team", "owner", "provides", "b", "b", "core", "catalog")

Before == Names \cup Fields \cup
    {Depends, Reads, Sets, Orders, Guess, Hook, Rpc, Stub, Event, Listens, Table, Schema,
     Query, Client, Skill, Delegates, Team} \cup {t \in Tools : t.repo = "b"}

\* A call and the edge that fuses four ways of finding it
Questioned == {<<<<"node", "a", "f">>, "INVOKES", <<"http", <<"service", "b">>, "/orders">>>>,
               <<<<"service", "a">>, "CALLS_SERVICE", <<"service", "b">>>>}
Claims == Before \cup Tools \cup {Other, Call, [Guess EXCEPT !.version = 2]}

\* Three nodes, a cycle, two ways of reaching one, two edges between two of them, two
\* resolvers of one edge, and one edge that is only a candidate
Written7 ==
    {[source |-> w[1], type |-> w[2], target |-> w[3], by |-> w[4], run |-> w[5],
      confidence |-> w[6], status |-> IF w[6] < 60 THEN "candidate" ELSE "active"] :
        w \in {<<1, "INVOKES", 2, "a", 1, 90>>, <<1, "INVOKES", 2, "b", 2, 70>>,
              <<1, "DECLARES_CONTRACT", 2, "a", 0, 90>>, <<2, "INVOKES", 3, "a", 1, 80>>,
              <<1, "CALLS_SERVICE", 3, "a", 0, 50>>, <<3, "INVOKES", 1, "a", 2, 65>>,
              <<1, "CALLS_SERVICE", 2, "a", 1, 65>>}}

\* Repository "app" serves what files of "app-web" call. The second file of "app-web" is
\* anything that can come of a file; with a third one it has a file too many.
InFile(id, kind, direction, repo, file, path, tier) ==
    [Claim(id, kind, direction, repo, "app", path, tier) EXCEPT !.node = file]
Api == [fate |-> "parsed",
        claims |-> {InFile("app", "svcname", "provides", "app", 1, "", "alias"),
                    InFile("/orders", "http", "provides", "app", 1, "/orders", "exposes")}]
Web == [fate |-> "parsed",
        claims |-> {InFile("web", "svcname", "provides", "app-web", 1, "", "alias")}]
Caller(id, file, fate) ==
    [fate |-> fate,
     claims |-> {InFile(id, "http", "consumes", "app-web", file, "/orders", "hint_exact")}]
Checkouts == ("app" :> <<{Api}>>) @@
             ("app-web" :> <<{Web}, {Caller("call", 2, f) : f \in Fates}, {Caller("more", 3, "parsed")}>>)
Cloned == ("app" :> {<<Api>>}) @@
          ("app-web" :> {<<Web, Caller("call", 2, "parsed"), Absent>>,
                         <<Web, Absent, Absent>>,
                         <<Web, Caller("call", 2, "parsed"), Caller("more", 3, "parsed")>>})
SamePrefix == ("app" :> {"app", "app-web"}) @@ ("app-web" :> {"app-web"})
OldAndNew == {<<1, 0>>, <<1, 4>>}

Contract1 == <<"http", Service("app"), "/orders">>
Asked == [tool : {"consumers_of", "trace", "neighbors", "impact"}, to : {Contract1}, hops : {2},
          node : {Contract1, <<"name", "app">>, <<"name", "other">>, <<"node", "app-web", 2>>},
          limit : {1, 99}]
         \cup [tool : {"services"}, node : {Contract1}, to : {Contract1}, hops : {2}, limit : {99}]
================================================================================
