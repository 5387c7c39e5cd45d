-------------------------------- MODULE Contracts --------------------------------
(***************************************************************************)
(* What the documents of an interface say (parsers/proto_parser.py,        *)
(* graphql_parser.py, asyncapi_parser.py, mcp_manifest_parser.py,          *)
(* cron_parser.py, services/http_call_url.py, ingest_artifacts.py and the  *)
(* emitters of ingest_claims.py for them).                                 *)
(*                                                                         *)
(* An operation, a field, a tool and a parameter are labels; a parameter   *)
(* of a path is the label "{}", as canonicalize_path_template leaves it.   *)
(***************************************************************************)
EXTENDS Statements

Given(names) == SelectSeq(names, LAMBDA n : n # "")

------------------------------------------------------------------------------
(* URLs: [form, host, path], the form being that of "lb://", of an         *)
(* absolute URL, a path, a template that begins it, or no URL at all       *)

LocalHosts == {<<"localhost">>, <<"127.0.0.1">>, <<"0.0.0.0">>, <<"host", "docker", "internal">>}
InCluster(domain) == Len(domain) = 1 \/ Last(domain) \in {"svc", "local"}

\* classify_url: the service that a URL names, if any: only a host of the cluster does
Classified(url) ==
    LET named == /\ url.form \in {"lb", "absolute"} /\ url.host \notin LocalHosts \cup {<<>>}
                 /\ Unresolvable \cap Range(url.host) = {} /\ InCluster(url.host) IN
    [hint |-> IF named THEN <<url.host[1]>> ELSE <<>>, path |-> url.path,
     source |-> IF ~named THEN "none" ELSE IF url.form = "lb" THEN "discovery" ELSE "host"]
IsUrl(url) == url.form # "other"

\* http_consumes_key: the key of a call is none of an endpoint's
HttpCall(method, url, statement) ==
    LET said == Classified(url) IN
    By(said.hint, said.source, [statement EXCEPT !.scope = "httpcall:" \o method, !.name = said.path])

------------------------------------------------------------------------------
(* Remote procedures: [idl, package, namespaces, service, services], a     *)
(* service [name, rpcs], an rpc [name, http]                               *)

\* parse_thrift: the Java namespace is the package, or the Python one, or the first
Package(file) ==
    LET Space(language) ==
            LET its == SelectSeq(file.namespaces, LAMBDA n : n[1] = language) IN
            IF its = <<>> THEN <<>> ELSE Last(its)[2] IN
    IF file.idl = "thrift"
    THEN First(<<Space("java"), Space("py")>> \o [i \in DOMAIN file.namespaces |-> file.namespaces[i][2]])
    ELSE IF file.idl = "wsdl" THEN <<>> ELSE file.package
\* parse_wsdl: a port without a name has the service's
PortName(file, service) ==
    IF file.idl = "wsdl" THEN First(<<service.name, file.service, <<"SoapService">> >>) ELSE service.name

\* emit_proto_claims: the name of an operation is the path it has on the wire
RpcStatements(file) ==
    Each(file.services, LAMBDA s :
        LET full == Package(file) \o PortName(file, s) IN
        [i \in DOMAIN s.rpcs |->
            About(<<"proto">> \o full \o <<s.rpcs[i].name>>,
               With([source |-> file.idl, http |-> s.rpcs[i].http],
                    By(PortName(file, s), "none", Say("grpcop", "provides", "", full \o <<s.rpcs[i].name>>))))])

\* parse_buf, emit_buf_claims: a module's name is the file's, or the first module's
BufStatements(file) ==
    LET name == First(<<file.name>> \o file.modules)
        Buf(direction, module, subject) ==
            About(subject \o module, By(<<Last(module)>>, "config", Say("declared", direction, "buf", module))) IN
    If(name # <<>>, <<Buf("provides", name, <<"buf">>)>>)
    \o [i \in DOMAIN file.deps |-> Buf("consumes", file.deps[i], <<"buf-dep">>)]

------------------------------------------------------------------------------
(* GraphQL: [roots, types, operations], a type [name, fields], an          *)
(* operation [operation, name, words], a word [text, depth, argument]      *)

DefaultRoots == [query |-> "Query", mutation |-> "Mutation", subscription |-> "Subscription"]
Root(parent, field) == Say("graphqlop", "provides", parent, <<field>>)

\* parse_graphql_schema: the fields of the types that the schema names as its roots
RootFields(file) ==
    Each(file.types, LAMBDA t :
         If(t.name \in Range(file.roots @@ DefaultRoots),
            [i \in DOMAIN t.fields |->
                About(<<"graphql", t.name, t.fields[i]>>, By(<<t.name>>, "none", Root(t.name, t.fields[i])))]))

\* parse_graphql_operations: what an operation selects at its top is of a root, of the one
\* that has the default name
Operations(operations) ==
    Each(operations, LAMBDA o :
        LET fields == SelectSeq(o.words, LAMBDA w : w.depth = 0 /\ ~w.argument /\ w.text \notin {"fragment", "on"})
            root == DefaultRoots[o.operation] IN
        [i \in DOMAIN fields |->
            About(<<"gqlop", o.name, fields[i].text>>,
               By(<<root>>, "none", Say("graphqlop", "consumes", root, <<fields[i].text>>)))])

\* emit_graphql_claims: a file with root fields is no client
GraphqlStatements(file) ==
    IF RootFields(file) # <<>> THEN RootFields(file) ELSE Operations(file.operations)

\* emit_graphql_client_claims, emit_graphql_server_claims: what source code selects, in
\* JavaScript and TypeScript, and the roots that its classes are, in TypeScript and Python
GraphqlCode(language, tags, fields) ==
    If(language \in {"javascript", "typescript"}, Operations(tags))
    \o If(language \in {"typescript", "python"},
          [i \in DOMAIN fields |->
              About(<<"gqlsrv">> \o fields[i],
                 With([source |-> "code_first"], By(<<fields[i][1]>>, "none", Root(fields[i][1], fields[i][2]))))])

------------------------------------------------------------------------------
(* AsyncAPI: [version, servers, channels, operations], the servers as      *)
(* their protocols, a channel [key, address, bindings, verbs], a verb      *)
(* [verb, bindings], an operation [action, channel, bindings].  A protocol *)
(* is what _normalize_protocol makes of it, "" if it is no broker's.       *)

Actions == [publish |-> "consumes", subscribe |-> "produces", send |-> "produces", receive |-> "consumes"]
\* The first of these that names a protocol: the operation's, the channel's, the servers'
Protocol(file, channel, operation) ==
    LET said == Given(operation \o channel \o file.servers) IN IF said = <<>> THEN "channel" ELSE said[1]

\* _parse_v2: a channel says who does what, in the application's terms the other way round
V2Operations(file) ==
    Each(file.channels, LAMBDA c :
        [i \in DOMAIN c.verbs |->
            [channel |-> c.key, address |-> c.key, action |-> Actions[c.verbs[i].verb],
             protocol |-> Protocol(file, c.bindings, c.verbs[i].bindings)]])
\* _parse_v3: operations refer to channels, which have addresses
V3Operations(file) ==
    LET Of3(key) == SelectSeq(file.channels, LAMBDA c : c.key = key)
        said == SelectSeq(file.operations, LAMBDA o : o.action \in {"send", "receive"} /\ o.channel # <<>>) IN
    [i \in DOMAIN said |->
        LET its == Of3(said[i].channel) IN
        [channel |-> said[i].channel, action |-> Actions[said[i].action],
         address |-> IF its = <<>> THEN said[i].channel ELSE First(<<its[1].address, its[1].key>>),
         protocol |-> Protocol(file, IF its = <<>> THEN <<>> ELSE its[1].bindings, said[i].bindings)]]
Declared(file) ==
    [i \in DOMAIN file.channels |->
        First(<<IF file.version = 3 THEN file.channels[i].address ELSE <<>>, file.channels[i].key>>)]

\* emit_asyncapi_claims: a channel that no operation has the address of is declared too
AsyncApiStatements(file) ==
    LET operations == IF file.version = 3 THEN V3Operations(file) ELSE V2Operations(file)
        idle == SelectSeq(Declared(file), LAMBDA a : \A i \in DOMAIN operations : operations[i].address # a)
        Says(direction, system, address) ==
            With([source |-> "asyncapi", declares |-> TRUE],
                 By(<<>>, "config", Say("topic", direction, system, address))) IN
    [i \in DOMAIN operations |->
        LET o == operations[i] IN
        About(<<"asyncapi">> \o o.channel \o <<o.action>>,
           Says(IF o.action = "produces" THEN "provides" ELSE "consumes", o.protocol, o.address))]
    \o [i \in DOMAIN idle |->
           About(<<"asyncapi">> \o idle[i] \o <<"declared">>, Says("provides", "channel", idle[i]))]

\* parse_avro_schema, emit_avro_claims: a registry's subject is its topic's value or key
AvroStatements(file) ==
    If(file.record /\ file.suffix \in {"value", "key"} /\ file.topic # <<>>,
       <<About(<<"avro", file.suffix>> \o file.topic,
            With([source |-> "avro", declares |-> TRUE],
                 By(<<>>, "config", Say("topic", "provides", "kafka", file.topic))))>>)

------------------------------------------------------------------------------
(* Agents, schedules and specifications                                    *)

\* parse_mcp_manifest, emit_mcp_manifest_claims: of two tools of one name the first; the
\* server's directory is where its manifest is
ManifestStatements(path, file) ==
    LET named == SelectSeq(file.tools, LAMBDA t : t # "") IN
    If(file.server # <<>>,
       <<With([source |-> "mcp-manifest", build_context |-> Directory(path)],
              Service("provides", "discovery", file.server, "config"))>>
       \o [i \in DOMAIN named |->
              About(<<"mcp", "provides">> \o file.server \o <<named[i]>>,
                 By(<<>>, "config", Say("mcpop", "provides", "", file.server \o <<named[i]>>)))])
\* emit_mcp_config_claims
McpConfigStatements(servers) ==
    LET named == SelectSeq(servers, LAMBDA s : s # <<>>) IN
    [i \in DOMAIN named |->
        About(<<"mcpcfg">> \o named[i], By(<<>>, "config", Say("mcpop", "consumes", "", named[i] \o <<"*">>)))]
\* emit_agent_card_claims: an agent without skills has them all
CardStatements(card) ==
    LET skills == IF card.skills = <<>> THEN <<"*">> ELSE card.skills IN
    If(card.name # <<>>,
       [i \in DOMAIN skills |->
           About(<<"a2acard">> \o card.name \o <<skills[i]>>,
              By(<<>>, "config", Say("a2aop", "provides", "", card.name \o <<skills[i]>>)))])

\* parse_crontab, process_cron: a command calls every URL that it has
CronStatements(entries) ==
    Each(entries, LAMBDA e :
        Each(SelectSeq(e.urls, IsUrl), LAMBDA u :
            <<About(<<"cron", e.schedule>>,
                 With([source |-> "crontab"], HttpCall(e.method, u, Say("http", "consumes", "", <<>>))))>>))

\* parse_openapi, process_openapi: what a specification promises nothing may be joined to
OpenApiStatements(operations) ==
    [i \in DOMAIN operations |->
        LET o == operations[i] IN
        About(<<"openapi", o.method>> \o o.path,
           With([source |-> "openapi"], From("spec", Say("http", "provides", o.method, o.path))))]
==================================================================================
