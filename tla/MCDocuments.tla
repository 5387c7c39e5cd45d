------------------------------ MODULE MCDocuments ------------------------------
(***************************************************************************)
(* Documents to make trees of, and a file of each kind that a parser is    *)
(* for, with each of the forms that the parser tells apart.                *)
(***************************************************************************)
EXTENDS Emission

At(path, parts) == parts @@ [path |-> path, marked |-> FALSE, overlay |-> "", named |-> FALSE]
Value(shape, domain, text) == [shape |-> shape, host |-> domain, text |-> text, ref |-> ""]
Host(domain) == Value("url", domain, <<>>)
Word(text) == Value("enum-ish", <<>>, text)

\* Kubernetes, Spring, Compose and Terraform
Doc(kind, name, namespace, fields) ==
    fields @@ [kind |-> kind, name |-> <<name>>, namespace |-> namespace]
Container(env) == [name |-> "main", image |-> <<"hub", "main">>, env |-> env]
PodOf(label, containers) ==
    [metadata |-> [labels |-> [tier |-> <<label>>]], spec |-> [containers |-> containers]]
Workload(name, namespace, label, env) ==
    Doc("Deployment", name, namespace, [spec |-> [template |-> PodOf(label, <<Container(env)>>)]])
Ingress(name, namespace, rules) == Doc("Ingress", name, namespace, [spec |-> [rules |-> rules]])
Rule1(path, service) == [host |-> <<>>, path |-> path, service |-> <<service>>]
SpringApp(app, routes) ==
    [config |-> [stem |-> <<>>, framework |-> TRUE, app |-> <<app>>, routes |-> routes, bindings |-> <<>>]]
SpringUri(name, paths, strip) ==
    [uri |-> [lb |-> TRUE, host |-> <<name>>], paths |-> paths, strip |-> strip, rewrite |-> <<>>]
ComposeOf(project, services) == [docker |-> [project |-> project, services |-> services]]
Unlinked == [dependsOn |-> <<>>, links |-> <<>>, env |-> <<>>]
Block(type, label, fields) == fields @@ [data |-> FALSE, type |-> type, label |-> <<label>>, refs |-> <<>>]

\* Code
Code(language, sites) ==
    [source |-> sites @@ [language |-> language, mentions |-> {}, endpoints |-> <<>>, calls |-> <<>>, units |-> <<>>,
                          webhooks |-> <<>>, feign |-> <<>>, stubs |-> <<>>, tags |-> <<>>, fields |-> <<>>,
                          reads |-> <<>>, messages |-> <<>>, search |-> <<>>, classes |-> <<>>, sql |-> <<>>,
                          stores |-> <<>>, extension |-> "", version |-> "", changes |-> <<>>, servers |-> <<>>,
                          tools |-> <<>>, peers |-> <<>>, models |-> <<>>, vectors |-> <<>>, errors |-> FALSE]]
Url(form, domain, path) == [form |-> form, host |-> domain, path |-> path]
CallTo(form, url) == [form |-> form, verb |-> "GET", url |-> url]
Fetch(url) == Code("javascript", [calls |-> <<CallTo("fetch", url)>>])
Argument(form, name) == [form |-> form, name |-> <<name>>]
Send(form, args) == [form |-> form, args |-> args]
Clause(verb, table) == [verb |-> verb, table |-> table, quoted |-> FALSE]
Operation(operation, name, words) ==
    [operation |-> operation, name |-> name,
     words |-> [i \in DOMAIN words |-> [text |-> words[i][1], depth |-> words[i][2], argument |-> words[i][3]]]]

\* Packages
Entry(name) == [name |-> name, version |-> "1"]
Manifest(format, fields) == [dependencies |-> [format |-> format] @@ fields]
GoModule(module, entries) ==
    Manifest("go.mod", [entries |-> entries]) @@ [publish |-> [format |-> "go.mod", module |-> module]]

\* Names of one's own
Named1(variables) == [tool |-> "", extension |-> "env", variables |-> variables, labels |-> <<>>]
Variable(var, name) == [var |-> var, name |-> <<name>>, env |-> "", team |-> <<>>]

------------------------------------------------------------------------------
(* A manifest of every format                                              *)

Acme == <<"acme", "ui">>
Scoped == <<"@acme", "ui">>
Requirement(form, name) == [form |-> form] @@ Entry(name)
LockEntry(entry, installed, link) == [installed |-> installed, link |-> link] @@ entry
Purl(ecosystem, namespace, name) == [ecosystem |-> ecosystem, namespace |-> namespace, name |-> name]
Component(described, group, name, purl) ==
    [described |-> described, group |-> group, name |-> name, version |-> "1", purl |-> purl]
PomOf(parent, group, dependencies) ==
    [parent |-> [group |-> parent, artifact |-> parent, version |-> "1"], properties |-> "${lib}" :> "ui", group |-> group,
     dependencies |-> [i \in DOMAIN dependencies |->
                          [group |-> dependencies[i][1], artifact |-> dependencies[i][2], version |-> "1"]]]
ManifestFiles ==
    <<<<"package.json", [dependencies |-> <<Entry(Scoped)>>]>>,
      <<"package-lock.json", [version |-> 1, dependencies |-> <<Entry(<<"left">>) @@ [dependencies |-> <<Entry(Scoped)>>]>>]>>,
      <<"package-lock.json", [version |-> 2, packages |-> <<LockEntry(Entry(Scoped), TRUE, FALSE), LockEntry(Entry(Acme), TRUE, TRUE)>>]>>,
      <<"pnpm-lock.yaml", [packages |-> <<Entry(Scoped), Entry(Scoped), [name |-> Acme, version |-> ""]>>]>>,
      <<"yarn.lock", [entries |-> <<Entry(Scoped)>>]>>,
      <<"requirements.txt", [lines |-> <<Requirement("named", <<"pay">>), Requirement("direct", <<"bill">>), Requirement("option", <<"x">>)>>]>>,
      <<"pyproject.toml", [dependencies |-> <<Requirement("direct", <<"pay">>)>>, optional |-> <<>>,
                           poetry |-> << <<Entry(<<"python">>), Entry(<<"bill">>)>> >>]>>,
      <<"poetry.lock", [packages |-> <<Entry(<<"pay">>)>>]>>,
      <<"pom.xml", PomOf("acme", "", << <<"${project.groupId}", "${lib}">>, <<"", "x">> >>)>>,
      <<"build.gradle", [entries |-> <<[form |-> "string", name |-> Acme, version |-> ""], [form |-> "project"] @@ Entry(<<"ui">>),
                                       [form |-> "catalog"] @@ Entry(<<"libs", "ui">>), [form |-> "platform"] @@ Entry(<<"bom">>)>>]>>,
      <<"libs.versions.toml", [libraries |-> <<Entry(Acme)>>]>>,
      <<"go.mod", [entries |-> <<[form |-> "replace", to |-> <<"hub", "acme", "web">>] @@ Entry(<<"hub", "up", "pay">>)>>]>>,
      <<"go.sum", [lines |-> <<[gomod |-> TRUE] @@ Entry(<<"hub", "acme", "shop">>), [gomod |-> FALSE] @@ Entry(<<"hub", "acme", "shop">>)>>]>>,
      <<"csproj", [items |-> <<[project |-> TRUE] @@ Entry(<<"ui">>), [project |-> FALSE] @@ Entry(<<"acme.ui">>)>>]>>,
      <<"directory.packages.props", [items |-> <<Entry(<<"acme.ui">>)>>]>>,
      <<"gemfile", [gems |-> <<Entry(<<"pay">>)>>]>>,
      <<"gemfile.lock", [sections |-> <<[section |-> "GIT", remote |-> <<"hub", "acme", "shop">>, specs |-> <<Entry(<<"pay">>)>>],
                                        [section |-> "PLATFORMS", remote |-> <<>>, specs |-> <<Entry(<<"x">>)>>]>>]>>,
      <<"composer.json", [require |-> <<[platform |-> TRUE] @@ Entry(<<"php">>), [platform |-> FALSE] @@ Entry(Acme)>>, requireDev |-> <<>>]>>,
      <<"cargo.toml", [dependencies |-> <<[path |-> TRUE] @@ Entry(<<"ui">>)>>, devDependencies |-> <<Entry(<<"pay">>)>>, buildDependencies |-> <<>>]>>,
      <<"cargo.lock", [packages |-> <<[git |-> <<"hub", "acme", "shop">>] @@ Entry(<<"pay">>)>>]>>,
      <<"bazel", [modules |-> <<Entry(<<"ui">>)>>, repositories |-> <<Entry(<<>>)>>]>>,
      <<"sbom", [bom |-> "CycloneDX", components |-> <<Component(FALSE, <<>>, <<>>, Purl("npm", <<"@acme">>, <<"ui">>)),
                                                       Component(TRUE, <<"acme">>, <<"ui">>, Purl("maven", <<"acme">>, <<"ui">>))>>]>>,
      <<"sbom", [bom |-> "SPDX", components |-> <<Component(TRUE, <<>>, <<"x">>, Purl("npm", <<>>, <<"x">>)),
                                                  Component(FALSE, <<>>, <<"ui">>, Purl("npm", <<"@acme">>, <<"ui">>))>>]>>>>
PublishFiles ==
    <<[format |-> "package.json", name |-> Scoped, private |-> FALSE],
      [format |-> "pom.xml", artifact |-> "ui"] @@ PomOf("acme", "", <<>>),
      [format |-> "pyproject.toml", name |-> <<>>, poetryName |-> <<"pay">>],
      [format |-> "cargo.toml", name |-> <<"pay">>, private |-> TRUE],
      [format |-> "csproj", packageId |-> <<>>, assembly |-> <<>>, stem |-> <<"acme.ui">>, packable |-> TRUE],
      [format |-> "gemspec", name |-> <<"pay">>], [format |-> "build.gradle"]>>
PackageTree ==
    [i \in DOMAIN ManifestFiles |->
        At(<<"deps", ToString(i), "manifest">>, Manifest(ManifestFiles[i][1], ManifestFiles[i][2]))]
    \o [i \in DOMAIN PublishFiles |-> At(<<"deps", ToString(i), "published">>, [publish |-> PublishFiles[i]])]

------------------------------------------------------------------------------
(* Gateways                                                                *)

Location(path, pass, rewrites, inner) ==
    [path |-> path, pass |-> pass, rewrites |-> rewrites, locations |-> inner]
To(domain, uri) == <<[host |-> domain, uri |-> uri]>>
Server(domain, spare, unix) == [host |-> domain, spare |-> spare, unix |-> unix]
Cluster1(name, addresses) == [name |-> name, addresses |-> addresses]
EnvoyRoute(path, clusters, prefix, regex) ==
    [path |-> path, clusters |-> clusters, prefixRewrite |-> prefix, regexRewrite |-> regex]
NextEntry(section, source, domain, path) == [section |-> section, source |-> source, host |-> domain, path |-> path]
ProxyTo(contexts, target, rewrite) == [contexts |-> contexts, target |-> target, rewrite |-> rewrite]
Router(service, paths, middlewares) ==
    [service |-> service, hosts |-> <<>>, paths |-> paths, middlewares |-> middlewares]
GatewayFiles ==
    <<[gateway |-> "nginx",
       upstreams |-> <<[name |-> <<"pool">>, servers |-> <<Server(<<"x">>, TRUE, FALSE), Server(<<"pay">>, FALSE, FALSE)>>],
                       [name |-> <<"sock">>, servers |-> <<Server(<<"x">>, FALSE, TRUE)>>]>>,
       servers |-> <<[names |-> << <<"_">>, <<"edge">> >>,
           locations |-> <<Location(<<"v", "pay">>, To(<<"pool">>, << <<>> >>), <<>>,
                               <<Location(<<"v", "pay", "x">>, To(<<"sock">>, <<>>), <<[redirect |-> TRUE, path |-> <<"y">>]>>, <<>>)>>),
                           Location(<<"v", "own">>, <<>>, <<>>, <<>>),
                           Location(<<"v", "bill">>, To(<<"bill">>, << <<"b">> >>),
                                    <<[redirect |-> FALSE, path |-> <<"v">>]>>, <<>>)>>]>>],
      [gateway |-> "envoy", clusters |-> <<Cluster1(<<"c">>, << <<"pay">>, <<"x">> >>), Cluster1(<<"bill">>, <<>>)>>,
       hosts |-> <<[domains |-> << <<"*">>, <<"edge">> >>,
                    routes |-> <<EnvoyRoute(<<"e">>, << <<"c">>, <<"bill">> >>, << <<"v">> >>, <<>>),
                                 EnvoyRoute(<<"f">>, << <<>> >>, <<>>, << <<"f">> >>)>>]>>],
      [gateway |-> "kong",
       services |-> <<[host |-> <<"pay">>, routes |-> <<[hosts |-> << <<"edge">> >>, paths |-> << <<"k">>, <<"l">> >>, strip_path |-> FALSE],
                                                        [hosts |-> <<>>, paths |-> <<>>]>>],
                      [host |-> <<>>, routes |-> <<[hosts |-> <<>>, paths |-> << <<"m">> >>]>>]>>],
      [gateway |-> "traefik", routers |-> <<Router(<<"s">>, << <<"t">> >>, << <<"cut">> >>), Router(<<"bill">>, <<>>, <<>>)>>,
       services |-> <<[name |-> <<"s">>, hosts |-> << <<"pay">> >>], [name |-> <<"bill">>, hosts |-> <<>>]>>,
       middlewares |-> <<[name |-> <<"cut">>, strips |-> TRUE], [name |-> <<"log">>, strips |-> FALSE]>>],
      [gateway |-> "next", entries |-> <<NextEntry("rewrites", <<"n">>, <<"pay">>, << <<"v">> >>), NextEntry("headers", <<"h">>, <<>>, <<>>),
                                         NextEntry("redirects", <<"o">>, <<"bill">>, <<>>)>>],
      [gateway |-> "js", proxies |-> <<ProxyTo(<< <<"p">> >>, <<"pay">>, <<[from |-> <<"p">>, to |-> <<>>]>>),
                                       ProxyTo(<< <<"q">> >>, <<"bill">>, <<[anchored |-> FALSE, to |-> <<"v">>]>>),
                                       ProxyTo(<< <<"r">> >>, <<>>, <<>>), ProxyTo(<<>>, <<"x">>, <<[anchored |-> TRUE, to |-> <<>>]>>)>>]>>

------------------------------------------------------------------------------
(* Interfaces                                                              *)

Rpc(name) == [name |-> name, http |-> FALSE]
Idl(idl, package, spaces, services) ==
    [idl |-> idl, package |-> package, namespaces |-> spaces, service |-> <<"pay">>, services |-> services]
Channel(key, address) == [key |-> key, address |-> address, bindings |-> <<"kafka">>, verbs |-> <<>>]
ContractFiles ==
    <<[proto |-> Idl("proto", <<"acme">>, <<>>, <<[name |-> <<"Pay">>, rpcs |-> <<Rpc("Charge")>>]>>)],
      [proto |-> Idl("thrift", <<>>, << <<"go", <<"g">> >>, <<"py", <<"p">> >> >>, <<[name |-> <<"Pay">>, rpcs |-> <<Rpc("Refund")>>]>>)],
      [proto |-> Idl("wsdl", <<>>, <<>>, <<[name |-> <<>>, rpcs |-> <<Rpc("Charge")>>]>>)],
      [buf |-> [name |-> <<>>, modules |-> << <<"hub", "acme", "pay">> >>, deps |-> << <<"hub", "up", "x">> >>]],
      [graphql |-> [roots |-> [query |-> "Root"], operations |-> <<>>,
                    types |-> <<[name |-> "Root", fields |-> <<"pay">>], [name |-> "Query", fields |-> <<"x">>],
                                [name |-> "Mutation", fields |-> <<"charge">>]>>]],
      [graphql |-> [roots |-> <<>>, types |-> <<>>,
                    operations |-> <<Operation("query", "Q", << <<"pay", 0, FALSE>>, <<"id", 0, TRUE>>, <<"x", 1, FALSE>>,
                                                                <<"on", 0, FALSE>> >>)>>]],
      [asyncapi |-> [version |-> 3, servers |-> <<"", "amqp">>, channels |-> <<Channel(<<"c">>, <<"orders">>), Channel(<<"d">>, <<>>)>>,
                     operations |-> <<[action |-> "send", channel |-> <<"c">>, bindings |-> <<>>],
                                      [action |-> "receive", channel |-> <<"gone">>, bindings |-> <<"sqs">>],
                                      [action |-> "other", channel |-> <<"c">>, bindings |-> <<>>]>>]],
      [asyncapi |-> [version |-> 2, servers |-> <<>>, operations |-> <<>>,
                     channels |-> <<[Channel(<<"orders">>, <<>>) EXCEPT !.verbs = <<[verb |-> "publish", bindings |-> <<>>]>>]>>]],
      [avro |-> [record |-> TRUE, suffix |-> "value", topic |-> <<"orders">>]],
      [mcp_manifest |-> [server |-> <<"tools">>, tools |-> <<"add", "">>]],
      [mcp_config |-> << <<"tools">>, <<>> >>],
      [agent_card |-> [name |-> <<"agent">>, skills |-> <<>>]],
      [agent_card |-> [name |-> <<"other">>, skills |-> <<"plan">>]],
      [cron |-> <<[schedule |-> "daily", method |-> "POST",
                   urls |-> <<Url("absolute", <<"bill">>, <<"run">>), Url("other", <<>>, <<>>)>>]>>],
      [openapi |-> <<[method |-> "GET", path |-> <<"v", "{}">>]>>]>>
OwnerFiles ==
    <<[codeowners |-> <<[pattern |-> <<"*">>, owners |-> << <<"acme", "core">>, <<"ann">> >>]>>],
      [catalog |-> <<[kind |-> "Component", name |-> <<"pay">>, owner |-> <<"group", "core">>],
                     [kind |-> "User", name |-> <<"ann">>, owner |-> <<>>], [kind |-> "System", name |-> <<"x">>, owner |-> <<>>]>>],
      [observability |-> [tool |-> "sentry", projects |-> << <<>>, <<"pay">> >>, extension |-> "properties", variables |-> <<>>, labels |-> <<>>]],
      [observability |-> [tool |-> "newrelic", app |-> << <<"pay">> >>, extension |-> "yml", jobs |-> << <<"bill">> >>, variables |-> <<>>,
                          sections |-> <<[env |-> "dev", app |-> << <<"pay">> >>], [env |-> "prod", app |-> << <<"bill">> >>]>>,
                          labels |-> <<[service |-> <<"pay">>, env |-> "prod"]>>]],
      [observability |-> [tool |-> "newrelic.ini", apps |-> << << <<"pay">> >> >>, extension |-> "ini", variables |-> <<>>, labels |-> <<>>]],
      [observability |-> [tool |-> "datadog", service |-> <<>>, env |-> "", tags |-> [service |-> <<"pay">>, env |-> "prod", team |-> <<"core">>],
                          extension |-> "json", services |-> << <<"bill">> >>, variables |-> <<>>, labels |-> <<>>]],
      [observability |-> [tool |-> "", extension |-> "py", resource |-> TRUE, constants |-> << <<"pay">> >>, literals |-> << <<>> >>]],
      [observability |-> Named1(<<[Variable("DD_TAGS", "pay") EXCEPT !.env = "dev", !.team = <<"core">>], Variable("DD_SERVICE", "bill"),
                                  Variable("NEW_RELIC_APP_NAME", "pay"), Variable("SENTRY_PROJECT", "pay")>>)]>>

------------------------------------------------------------------------------
(* Code                                                                    *)

Site(form, fields) == [form |-> form] @@ fields
CallAt(form, verb, url, fields) == fields @@ [form |-> form, verb |-> verb, url |-> url]
Bill == Url("absolute", <<"bill">>, <<"run">>)
Var(var, name) == [var |-> var, name |-> name]
Store(form, verb, name) == [form |-> form, verb |-> verb, name |-> name]
Sql(clauses) == <<clauses>>
CodeFiles ==
    <<Code("java", [mentions |-> {"KStream", "mongo", "dynamo", "s3"},
         calls |-> <<CallAt("rest", "exchange", Bill, [open |-> TRUE]), CallTo("put", Url("lb", <<"gate">>, <<"v">>)), CallTo("create", Bill)>>,
         feign |-> << <<"gate">> >>, stubs |-> <<Site("extends", Var("", <<"Pay">>)), Site("newStub", Var("", <<>>))>>,
         reads |-> <<"BILL_URL", "PORT">>,
         messages |-> <<Send("through", <<Argument("literal", "orders")>>), Send("@SqsListener", <<>>), Send("stream", <<>>),
                        Send("queueUrl", <<Argument("env", "TOPIC")>>) @@ [receives |-> TRUE]>>,
         search |-> <<Store("call", "search", <<"logs">>), Store("request", "create", <<"logs">>)>>,
         classes |-> <<[form |-> "entity", table |-> <<>>, name |-> <<"order">>], [form |-> "entity", table |-> <<"bills">>, name |-> <<"bill">>]>>,
         sql |-> Sql(<<Clause("from", <<"orders">>), Clause("insert", <<"a", "b", "c">>) , Clause("call", <<"proc">>), Clause("join", <<"select">>)>>),
         stores |-> <<Store("property", "find", <<"users">>), Store("property", "then", <<"x">>), Store("Command", "GetItem", <<"users">>),
                      Store("Table", "", <<"users">>), Store("Bucket", "upload", <<"files">>)>>]),
      Code("javascript", [mentions |-> {"federation", "superagent", "graphql", "search client", "mcp", "redis", "gcs", "nest"},
         calls |-> <<CallAt("remote", "", Url("absolute", <<"cdn", "org">>, <<"x">>), [remote |-> <<"bill">>]), CallAt("superagent", "del", Bill, <<>>),
                     CallTo("swr", Url("lb", <<"gate">>, <<"v">>)), CallTo("query", Url("path", <<>>, <<"v">>))>>,
         units |-> <<[source |-> "pulumi", name |-> <<"pay">>, env |-> << <<"BILL_URL", Host(<<"bill">>)>> >>]>>,
         webhooks |-> <<Url("absolute", <<"bill">>, <<"hook">>), Url("absolute", <<"out", "org">>, <<>>)>>,
         tags |-> <<Operation("mutation", "M", << <<"charge", 0, FALSE>> >>)>>, fields |-> << <<"Query", "x">> >>,
         search |-> <<Store("call", "bulk", <<"logs">>), Store("indices", "create", <<"logs">>)>>,
         servers |-> <<Site("new", Var("s", <<"tools">>)), Site("new", Var("t", <<>>))>>,
         tools |-> <<Site("register", Var("t", "sub")), Site("register", Var("u", "mul")), Site("listed", Var("", "div"))>>,
         stores |-> <<Store("prefix", "set", <<"sess">>), Store("bucket", "write", <<"files">>)>>]),
      Code("python", [mentions |-> {"search client", "snowflake", "mcp", "openai", "anthropic", "pinecone", "qdrant", "s3"},
         calls |-> <<CallAt("f-string", "", Url("template", <<>>, <<"x">>), [passed |-> "POST"]), CallAt("f-string", "", Bill, [passed |-> ""]),
                     CallAt("Session", "", Url("other", <<>>, <<>>), [var |-> "s"]),
                     CallAt("session", "PUT", Bill, [var |-> "s", named |-> TRUE]),
                     CallAt("session", "HEAD", Url("path", <<>>, <<"y">>), [var |-> "client", named |-> TRUE]), CallAt("request(", "X", Bill, <<>>)>>,
         endpoints |-> <<[method |-> "GET", path |-> <<"own">>]>>, errors |-> TRUE,
         fields |-> << <<"Query", "user">> >>, search |-> <<Store("indices", "create", <<"logs">>)>>,
         sql |-> Sql(<<[Clause("delete", <<"p", "d", "t">>) EXCEPT !.quoted = TRUE], Clause("from", <<"w">>)>>),
         stores |-> <<Store("Bucket=", "get_object", <<"files">>)>>, classes |-> <<[form |-> "Table", table |-> <<"bills">>, name |-> <<>>]>>,
         servers |-> <<Site("FastMCP", Var("m", <<"srv">>)), Site("Server", Var("low", <<"lows">>))>>,
         tools |-> <<Site("decorator", Var("m", "t1")), Site("decorator", Var("mcp", "t2")), Site("types", Var("", "t3"))>>,
         peers |-> << <<"http", "agent">>, <<>> >>,
         models |-> <<Site("chat", [model |-> <<"m">>]), Site("AzureOpenAI", [model |-> <<"m">>]), Site("messages", [model |-> <<>>])>>,
         vectors |-> <<Store("pinecone", "", <<"idx">>) @@ [var |-> "i"], Store("use", "upsert", <<>>) @@ [var |-> "i"],
                       Store("qdrant", "upsert", <<"col">>) @@ [var |-> ""]>>]),
      Code("csharp", [calls |-> <<CallTo("Async", Bill), CallTo("BaseAddress", Bill)>>, stubs |-> <<Site("Base", Var("", <<"Pay">>))>>,
                      messages |-> <<Send("MessageRequest", <<>>) @@ [receives |-> FALSE], Send("Produce", <<Argument("other", "x")>>)>>,
                      classes |-> <<[form |-> "ToTable", table |-> <<"bills">>, name |-> <<"Bill">>]>>]),
      Code("go", [mentions |-> {"elastic", "sarama"}, calls |-> <<CallAt("NewRequest", "PUT", Bill, <<>>), CallAt("http.", "PostForm", Bill, <<>>)>>,
                  search |-> <<Store("request", "create", <<"logs">>)>>,
                  messages |-> <<Send("ReaderConfig", <<Argument("literal", "orders"), Argument("env", "TOPIC")>>) @@ [loose |-> TRUE]>>]),
      Code("rust", [calls |-> <<CallAt("verb", "POST", Bill, <<>>), CallTo("verb", Url("path", <<>>, <<>>))>>]),
      Code("ruby", [calls |-> <<CallAt("Net::HTTP", "post_form", Bill, <<>>)>>]), Code("php", [calls |-> <<CallTo("curl", Bill)>>]),
      Code("prisma", [classes |-> <<[form |-> "model", table |-> <<>>, name |-> <<"User">>]>>])>>

------------------------------------------------------------------------------
(* Datasets                                                                *)

Migration(fields) == fields @@ [extension |-> "", version |-> "", changes |-> <<>>, sql |-> <<>>]
Change(op, table) == [op |-> op, table |-> table]
MigrationFiles ==
    << << <<"db", "migration", "v1">>, Migration([extension |-> "sql", sql |-> Sql(<<Clause("create", <<"orders">>), Clause("drop", <<"old">>)>>)])>>,
       << <<"db", "migrate", "m">>, Migration([extension |-> "rb", changes |-> <<Change("alter", <<"bills">>)>>])>>,
       << <<"versions", "a">>, Migration([extension |-> "py", changes |-> <<Change("create", <<"orders">>) @@ [downgrade |-> FALSE],
                                                                             Change("alter", <<"x">>) @@ [downgrade |-> TRUE]>>])>>,
       << <<"migrations", "b">>, Migration([extension |-> "py", version |-> "number", changes |-> <<Change("create", <<>>) @@ [model |-> <<"bill">>]>>])>>,
       << <<"db", "changelog", "c">>, Migration([extension |-> "xml", changes |-> <<Change("alter", <<"u">>) @@ [form |-> "yaml"],
                                                                                    Change("create", <<"v">>) @@ [form |-> "xml"]>>])>>,
       << <<"other", "d">>, Migration([extension |-> "sql", sql |-> Sql(<<Clause("create", <<"orders">>)>>)])>> >>
Spark(form, chain, name, sql) == [form |-> form, chain |-> chain, name |-> name, sql |-> sql]
Operator(type, dag, bucket, sql) ==
    [type |-> type, dag |-> dag, bucket |-> bucket, schema |-> <<"s">>, table |-> <<"t">>, sql |-> sql]
PipelineFiles ==
    <<[pipeline |-> "dbt-project", name |-> <<"shop">>], [pipeline |-> "dbt-project", name |-> <<>>],
      [pipeline |-> "dbt-model", stem |-> <<"orders">>, refs |-> << <<"bills">>, <<"bills">> >>, sources |-> << <<"raw", "x">> >>],
      [pipeline |-> "dbt-schema", sources |-> <<[schema |-> <<>>, name |-> <<"raw">>, tables |-> << <<"x">> >>]>>, models |-> << <<"orders">> >>],
      [pipeline |-> "airflow", dagId |-> <<>>, leading |-> <<"nightly">>, decorated |-> <<>>, function |-> <<>>,
       operators |-> <<Operator("TriggerDagRunOperator", <<"shop">>, <<>>, <<>>), Operator("S3ToRedshiftOperator", <<>>, <<"files">>, <<>>),
                       Operator("SQL", <<>>, <<>>, <<Clause("merge", <<"a", "b", "c">>), Clause("from", <<"select">>)>>)>>],
      [pipeline |-> "databricks-bundle", name |-> <<"b">>,
       blocks |-> <<[tasks |-> << << <<"n", "book">>, <<"${}">> >> >>, libraries |-> << << <<>> >> >>]>>],
      [pipeline |-> "databricks-notebook", mentions |-> {"dlt", "kafka"}, stem |-> <<"book">>, magic |-> << <<"lib">> >>, runs |-> << <<"d", "lib">> >>,
       live |-> <<Store("table", "", <<>>) @@ [function |-> <<"clean">>], Store("read", "", <<"raw">>)>>,
       spark |-> <<Spark("path", "reads", <<"files">>, <<>>), Spark("path", "", <<"x">>, <<>>), Spark("subscribe", "", <<"orders">>, <<>>),
                   Spark("topic", "", <<"bills">>, <<>>), Spark("sql", "", <<>>, <<Clause("insert", <<"w">>)>>),
                   Spark("register_model", "", <<"m">>, <<>>)>>]>>

------------------------------------------------------------------------------
(* Manifests                                                               *)

Reference(kind, env, ref) == [name |-> env] @@ (kind :> ref)
Route1(path, services) == [host |-> <<>>, path |-> path, services |-> services]
Trigger(type, field, name) == [type |-> type] @@ (field :> name)
Pod(env, from) == [spec |-> [containers |-> <<Container(env) @@ [envFrom |-> from]>>]]
Documents ==
    <<Doc("ConfigMap", "settings", "a", [data |-> << <<"BILL_URL", Host(<<"bill">>)>>, <<"PASSWORD", Word(<<"x">>)>> >>]),
      Doc("Secret", "keys", "a", [data |-> << <<"TOKEN">> >>, environment |-> "prod"]),
      Doc("CronJob", "nightly", "a",
          [spec |-> [jobTemplate |-> [spec |-> [template |->
              Pod(<<Reference("configMapKeyRef", "BILL_URL", <<<<"settings">>, "BILL_URL">>),
                    Reference("secretKeyRef", "TOKEN", <<<<"keys">>, "TOKEN">>), Reference("fieldRef", "POD", "name"),
                    [name |-> "TOPIC", value |-> [Word(<<"orders">>) EXCEPT !.ref = "topic"]]>>,
                  << <<"configmap", <<"settings">> >> >>)]]]]),
      Doc("Pod", "one", "a", Pod(<<>>, <<>>)),
      Doc("AuthorizationPolicy", "allow", "a", [spec |-> [selector |-> [tier |-> <<"w">>], from |-> << <<"bill">>, <<>> >>]]),
      Doc("HTTPRoute", "web", "a",
          [spec |-> [hostnames |-> << <<"edge">> >>,
                     rules |-> <<[matches |-> << <<"h">> >>, backendRefs |-> << <<"bill">> >>, urlRewrite |-> TRUE, path |-> << <<>> >>],
                                 [matches |-> <<>>, backendRefs |-> << <<"pay">> >>, urlRewrite |-> FALSE, path |-> <<>>]>>]]),
      Doc("VirtualService", "bill", "a",
          [spec |-> [hosts |-> <<>>, http |-> <<[match |-> << <<"i">> >>, route |-> << <<"bill", "a", "svc">> >>, rewrite |-> << <<"j">> >>]>>]]),
      Doc("Middleware", "cut", "a", [spec |-> [stripPrefix |-> << <<"t">> >>]]), Doc("Middleware", "log", "a", [spec |-> [stripPrefix |-> <<>>]]),
      Doc("IngressRoute", "in", "a",
          [spec |-> [routes |-> <<Route1(<<"t">>, << <<"bill">> >>) @@ [middlewares |-> << <<"cut">> >>],
                                  Route1(<<"u">>, << <<"pay">> >>) @@ [middlewares |-> << <<"log">> >>]>>]]),
      Doc("Ingress", "back", "a", [spec |-> [defaultBackend |-> <<"pay">>, rules |-> <<Rule1(<<"v">>, "bill")>>, rewrite |-> << <<"$1">> >>]]),
      Doc("HelmRelease", "rel", "a", [spec |-> [chart |-> [spec |-> [sourceRef |-> [name |-> <<"charts">>]]]]]),
      Doc("ScaledObject", "scale", "a", [spec |-> [target |-> <<"bill">>,
          triggers |-> <<Trigger("kafka", "topic", <<"orders">>), Trigger("cpu", "x", <<>>), Trigger("aws-sqs-queue", "queueURL", <<"jobs">>)>>]])>>
Ref(type, label) == <<type, <<label>>>>
Blocks ==
    <<Block("aws_sqs_queue", "jobs", [name |-> <<"jobs">>]), [Block("aws_sqs_queue", "far", <<>>) EXCEPT !.data = TRUE],
      [Block("aws_lambda_event_source_mapping", "m", <<>>) EXCEPT !.refs = <<Ref("aws_sqs_queue", "jobs"), Ref("aws_lambda_function", "bill")>>],
      [Block("aws_sns_topic_subscription", "s", [topic_arn |-> <<"orders">>]) EXCEPT !.refs = <<Ref("aws_sqs_queue", "jobs")>>],
      Block("aws_apigatewayv2_integration", "i", [uri |-> <<"bill">>]),
      [Block("aws_apigatewayv2_route", "r", [path |-> <<"g">>]) EXCEPT !.refs = <<Ref("aws_apigatewayv2_integration", "i")>>],
      [Block("aws_lb_listener_rule", "l", <<>>) EXCEPT !.refs = <<Ref("aws_lb_target_group", "pay")>>],
      Block("aws_lb_target_group", "pay", [name |-> <<"pay">>]), Block("aws_ecs_service", "bill", [environment |-> "prod"]),
      Block("ecs_container", "pay", [image |-> <<"hub", "pay">>, env |-> << <<"BILL_URL", Host(<<"bill">>)>>, <<"PASSWORD", Word(<<"x">>)>> >>]),
      Block("aws_vpc", "main", <<>>)>>
Stack ==
    ComposeOf("", <<[name |-> <<"web">>, image |-> <<"hub", "web">>, dependsOn |-> << <<"db">> >>, links |-> << <<"db">> >>,
                     env |-> << <<"BILL_URL", [Value("opaque", <<>>, <<>>) EXCEPT !.shape = "opaque"] @@ [default |-> Word(<<"bill">>)]>>,
                                <<"OTHER", Host(<<"out", "org">>)>> >>],
                    [name |-> <<"db">>] @@ Unlinked>>)
Stream ==
    [config |-> [stem |-> <<"bill">>, framework |-> TRUE, app |-> <<"bill">>,
                 routes |-> <<[uri |-> [lb |-> FALSE, host |-> <<"pay">>], paths |-> <<>>, strip |-> 0, rewrite |-> << <<"v">> >>, broken |-> TRUE],
                              [uri |-> [lb |-> FALSE, host |-> <<"out", "org">>], paths |-> <<>>, strip |-> 0, rewrite |-> <<>>]>>,
                 bindings |-> <<[produces |-> TRUE, binder |-> "kafka", destination |-> <<"orders">>],
                                [produces |-> FALSE, binder |-> "kafka", destination |-> <<"orders">>]>>]]
Units == [iac_units |-> <<[source |-> "nomad", name |-> <<"bill">>, env |-> << <<"PAY_URL", Host(<<"pay">>)>>, <<"X", Word(<<"y">>)>> >>]>>]

------------------------------------------------------------------------------
(* Every file, each at its place                                           *)

Documented(place, kind, files) == [i \in DOMAIN files |-> At(<<place, kind \o ToString(i), "file">>, files[i])]
GatewayTree == Documented("edge", "gateway", [i \in DOMAIN GatewayFiles |-> [gateway |-> GatewayFiles[i]]])
ContractTree == Documented("docs", "contract", ContractFiles)
OwnerTree == Documented("docs", "owner", Tail(OwnerFiles)) \o <<At(<<"CODEOWNERS">>, OwnerFiles[1])>>
CodeTree == Documented("code", "source", CodeFiles)
DataTree ==
    [i \in DOMAIN MigrationFiles |-> At(MigrationFiles[i][1], [migration |-> MigrationFiles[i][2]])]
    \o Documented("jobs", "pipeline", [i \in DOMAIN PipelineFiles |-> [pipeline |-> PipelineFiles[i]]])
DeployTree ==
    <<At(<<"k8s", "overlays", "dev", "all.yml">>, [kubernetes |-> Documents]), At(<<"infra", "main.tf">>, [iac |-> Blocks]),
      At(<<"stack.yml">>, Stack), At(<<"bill", "src", "bill.yml">>, Stream), At(<<"jobs", "bill.nomad">>, Units)>>
PlacesTree ==
    <<At(<<"vendor", "a.rb">>, CodeFiles[7]), At(<<"tests", "b.rb">>, CodeFiles[7]),
      At(<<"gen", "c.rb">>, CodeFiles[7]), At(<<"d.rb">>, CodeFiles[7]) @@ [fate |-> "timeout"]>>
================================================================================
