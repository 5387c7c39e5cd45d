--------------------------------- MODULE Sources ---------------------------------
(***************************************************************************)
(* What a source file says (services/http_call_extractor.py,               *)
(* http_call_js.py, grpc_extractor.py, env_extractor.py,                   *)
(* messaging_extractor.py, agents_extractor.py and emit_source_claims of   *)
(* ingest_claims.py).                                                      *)
(*                                                                         *)
(* As in Datasets, what the regular expressions find in the text is given: *)
(* sites, in its order, under the name of the form that they have.  The    *)
(* forms of a language are looked for one after the other.  A duplicate    *)
(* that an extractor drops would have the identity of the one it keeps, and *)
(* add_claim drops it.                                                     *)
(***************************************************************************)
EXTENDS Contracts, Manifests, Datasets

------------------------------------------------------------------------------
(* Calls: a site [form, verb, url], the verb being "" if nothing says it,  *)
(* and perhaps a variable "var", a module's "remote", and "open": that a   *)
(* string which ends in a slash has something added to it.                 *)

Verbs == {"GET", "POST", "PUT", "DELETE", "PATCH", "HEAD", "OPTIONS"}

\* _extract_java, extract_js, _extract_csharp, _extract_go, _extract_rust, _extract_ruby and
\* _extract_php; superagent, undici, RTK Query and module federation only where the file
\* mentions them
CallForms(file) ==
    LET When(word, forms) == If(Mentions(file, word), forms) IN
    IF file.language \in JavaFamily
    THEN <<"rest", "put", "uri", "create", "okhttp", "apache", "newBuilder", "retrofit">>
    ELSE IF file.language \in Scripts
    THEN <<"WebSocket", "EventSource", "fetch", "axios", "axios config", "$http", "got">>
         \o When("superagent", <<"superagent">>) \o <<"undici">> \o When("undici", <<"request">>) \o <<"swr">>
         \o When("createApi", <<"baseUrl", "query">>) \o When("federation", <<"remote">>)
    ELSE IF file.language \in {"c#", "csharp"}
    THEN <<"Async", "BaseAddress", "RestClient", "RestRequest", "refit">>
    ELSE IF file.language = "go" THEN <<"http.", "NewRequest", "NewRequestWithContext", "R()", "SetBaseURL">>
    ELSE IF file.language = "rust" THEN <<"reqwest::get", "verb">>
    ELSE IF file.language = "ruby" THEN <<"Net::HTTP", "library">>
    ELSE If(file.language = "php", <<"client", "->request", "Http::", "curl">>)

\* The forms that only say where later calls go, and those that look for a concatenation
BaseForms == {"create", "BaseAddress", "RestClient", "SetBaseURL"}
Concatenated == {"rest", "put", "uri", "okhttp", "apache", "newBuilder", "$http", "Async",
                 "http.", "NewRequest", "NewRequestWithContext", "R()"}

\* Some forms are a call only with a URL, or with a verb that is one.
IsCall(site) ==
    /\ site.form \in {"verb", "remote"} => site.url.form = "absolute"
    /\ site.form \in {"put", "session", "swr"} => site.url.form \in {"lb", "absolute", "path"}
    /\ site.form \in {"session", "swr"} => site.url.form # "lb"
    /\ site.form = "query" => site.url.form = "path"
    /\ site.form \in {"NewRequest", "NewRequestWithContext", "request("} => site.verb \in Verbs
    /\ IsUrl(site.url)

\* _extract_python: what requests and httpx are called with, then strings that begin with a
\* base URL's variable, with the verb of the call around them or else of the first that
\* passes the variable they are assigned to; the calls of each session, of whatever is named
\* like one, and those that say the verb first
PythonCalls(file) ==
    LET calls == file.calls
        bases == SelectSeq(Formed(calls, "f-string"), LAMBDA s : Given(<<s.verb, s.passed>>) # <<>>)
        sessions == {s.var : s \in Range(Formed(calls, "Session"))}
        Of1(var) == SelectSeq(calls, LAMBDA s : s.form = "session" /\ s.var = var)
        others == SelectSeq(Formed(calls, "session"),
                            LAMBDA s : s.named /\ s.var \notin sessions /\ IsCall(s)) IN
    Formed(calls, "requests")
    \o [i \in DOMAIN bases |-> [bases[i] EXCEPT !.verb = Given(<<@, bases[i].passed>>)[1]]]
    \o Each(Sorted(sessions, Before), Of1) \o others
    \o SelectSeq(Formed(calls, "request("), IsCall)

CallSites(file) ==
    IF file.language = "python" THEN SelectSeq(PythonCalls(file), LAMBDA s : IsUrl(s.url))
    ELSE Each(CallForms(file), LAMBDA f : SelectSeq(Formed(file.calls, f), IsCall))

\* The verb, spelled alike, of a call: GET if nothing says it, or what is said is none
Method(site) ==
    IF site.form \in {"rest", "okhttp", "newBuilder", "RestRequest"} /\ site.verb \notin Verbs THEN "GET"
    ELSE IF site.verb \in {"PostForm", "post_form"} THEN "POST"
    ELSE IF site.verb = "del" THEN "DELETE"
    ELSE IF site.verb = "" THEN "GET" ELSE site.verb

\* _add: something follows the last slash
Sent(site) ==
    [site.url EXCEPT !.path = IF site.form \in Concatenated /\ Get(site, "open", FALSE) THEN Append(@, "{}") ELSE @]

\* The loop over the sites of emit_source_claims: a call, and whom it names.  Of a federated
\* module the remote's name is one.
CallStatements(site) ==
    LET said == HttpCall(Method(site), Sent(site), Say("http", "consumes", "", <<>>))
        call == IF site.form # "remote" THEN said
                ELSE By(First(<<said.hint, site.remote>>),
                        IF said.hint_source = "none" THEN "config" ELSE said.hint_source, said) IN
    If(site.form \notin BaseForms, <<call>>)
    \o If(call.hint # <<>>, <<Service("consumes", "discovery", call.hint, call.hint_source)>>)

\* extract_webhook_registrations: a callback of a host that names something
WebhookStatements(urls) ==
    LET named == SelectSeq(urls, LAMBDA u : Classified(u).hint # <<>>) IN
    [i \in DOMAIN named |->
        LET said == Classified(named[i]) IN
        About(<<"webhook">> \o said.hint,
           By(said.hint, said.source, Say("webhook", "consumes", "webhook:POST", said.path)))]

\* extract_feign_clients
FeignStatements(file) ==
    If(file.language \in {"java", "kotlin"},
       [i \in DOMAIN file.feign |-> Service("consumes", "discovery", file.feign[i], "config")])

------------------------------------------------------------------------------
(* Remote procedures: a site [form, name], the name being what             *)
(* strip_generated_suffix leaves, <<>> if it is a letter.  The last form   *)
(* of a language is the client's.                                          *)

StubForms(language) ==
    IF language \in JavaFamily THEN <<"extends", "newStub">>
    ELSE IF language \in {"c#", "csharp"} THEN <<"Base", "new Client">>
    ELSE IF language = "go" THEN <<"Register", "NewClient">>
    ELSE IF language = "python" THEN <<"add_to_server", "Servicer", "Stub">>
    ELSE IF language \in Scripts THEN <<"addService", "new Client">> ELSE <<>>
\* extract_grpc_sites, emit_grpc_site_claims
StubStatements(file) ==
    LET forms == StubForms(file.language)
        Direct(form) == IF form = Last(forms) THEN "consumes" ELSE "provides" IN
    Each(forms, LAMBDA f :
        Each(SelectSeq(Formed(file.stubs, f), LAMBDA s : s.name # <<>>), LAMBDA s :
             <<About(<<"grpc", Direct(f)>> \o s.name, By(s.name, "none", Say("grpcstub", Direct(f), "", s.name)))>>))

\* emit_env_read_claims
ReadStatements(repo, file) ==
    LET Languages == JavaFamily \cup Scripts \cup {"python", "go", "c#", "csharp", "ruby"}
        read == SelectSeq(file.reads, LAMBDA v : v \notin GenericVariables) IN
    If(file.language \in Languages,
       [i \in DOMAIN read |-> With([env_name |-> read[i]], Say("cfgread", "consumes", repo, <<read[i]>>))])

------------------------------------------------------------------------------
(* Messages: a site [form, args], an argument [form, name] being an        *)
(* environment's variable, a literal (of a queue the last part of its URL  *)
(* or ARN, <<>> if there is none), a "${placeholder}" or something else.   *)
(* "receives" tells an SQS call's direction, and "loose" that the          *)
(* arguments are searched for names.                                       *)

\* A form, its system and its role: the role is a verb's where it is "".  Some forms are
\* only looked for where the file mentions their library.
MessageForms(file) ==
    LET When(word, forms) == If(Mentions(file, word), forms) IN
    IF file.language \in JavaFamily
    THEN << <<"@KafkaListener", "kafka", "consumes">>, <<"kafkaTemplate.send", "kafka", "produces">>,
            <<"ProducerRecord", "kafka", "produces">>, <<"subscribe", "kafka", "consumes">> >>
         \o When("KStream", << <<"stream", "kafka", "consumes">>, <<"to", "kafka", "produces">>,
                               <<"through", "kafka", "both">> >>)
         \o << <<"@SqsListener", "sqs", "consumes">>, <<"sqsTemplate.send", "sqs", "produces">>,
               <<"queueUrl", "sqs", "">>, <<"topicArn", "sns", "produces">> >>
    ELSE IF file.language \in Scripts
    THEN << <<"producer.send", "kafka", "produces">>, <<"sendBatch", "kafka", "produces">>,
            <<"subscribe", "kafka", "consumes">>, <<"produce", "kafka", "produces">>,
            <<"@MessagePattern", "kafka", "consumes">> >>
         \o When("nest", << <<"client.emit", "kafka", "produces">> >>)
         \o << <<"MessageCommand", "sqs", "">>, <<"PublishCommand", "sns", "produces">>,
               <<"sqs.sendMessage", "sqs", "">>, <<"sns.publish", "sns", "produces">> >>
    ELSE IF file.language = "go"
    THEN << <<"ProducerMessage", "kafka", "produces">> >>
         \o When("sarama", << <<"ConsumePartition", "kafka", "consumes">>, <<"Consume", "kafka", "consumes">> >>)
         \o << <<"ReaderConfig", "kafka", "consumes">>, <<"Writer", "kafka", "produces">>,
               <<"SubscribeTopics", "kafka", "consumes">> >>
         \o When("Produce", << <<"TopicPartition", "kafka", "produces">> >>)
         \o << <<"MessageInput", "sqs", "">>, <<"PublishInput", "sns", "produces">> >>
    ELSE IF file.language = "python"
    THEN << <<"producer.send", "kafka", "produces">>, <<"KafkaConsumer", "kafka", "consumes">>,
            <<"subscribe", "kafka", "consumes">>, <<"app.topic", "kafka", "consumes">>,
            <<"@app.agent", "kafka", "consumes">>, <<"send_message", "sqs", "">>,
            <<"get_queue_by_name", "sqs", "produces">>, <<"publish", "sns", "produces">> >>
    ELSE If(file.language \in {"c#", "csharp"},
            << <<"Produce", "kafka", "produces">>, <<"Subscribe", "kafka", "consumes">>,
               <<"MessageRequest", "sqs", "">>, <<"PublishRequest", "sns", "produces">>,
               <<"SendMessageAsync", "sqs", "produces">> >>)

\* What sends or receives even if it does not say what
Certain == {"@KafkaListener", "@SqsListener", "MessageCommand", "ReaderConfig", "Writer", "MessageInput",
            "MessageRequest", "PublishRequest"}
SureSend(file, form) == form \in Certain \/ (form = "producer.send" /\ file.language \in Scripts)
Somewhere == [form |-> "other", name |-> <<>>]

\* _emit_from_window: the variables, then the literals; if there is neither, one site
Searched(args) ==
    LET In(form) == SelectSeq(args, LAMBDA a : a.form = form)
        given == In("env") \o In("literal") IN
    IF given # <<>> THEN given
    ELSE IF In("placeholder") # <<>> THEN <<In("placeholder")[1]>> ELSE If(args # <<>>, <<Somewhere>>)
Arguments(file, site) ==
    IF Get(site, "loose", FALSE) THEN Searched(site.args)
    ELSE IF site.args = <<>> /\ SureSend(file, site.form) THEN <<Somewhere>> ELSE site.args

MessageSites(file) ==
    LET Roles(role, site) ==
            IF role = "both" THEN <<"produces", "consumes">>
            ELSE IF role # "" THEN <<role>> ELSE IF site.receives THEN <<"consumes">> ELSE <<"produces">>
        InForm(f) ==
            Each(Formed(file.messages, f[1]), LAMBDA s :
                 Each(Roles(f[3], s), LAMBDA r :
                      LET args == Arguments(file, s) IN
                      [i \in DOMAIN args |-> [system |-> f[2], role |-> r, arg |-> args[i]]])) IN
    Each(MessageForms(file), InForm)

\* extract_messaging_sites: what has no literal and no variable is one site per role, so that
\* of two placeholders the second is lost; emit_messaging_claims
MessageStatements(file) ==
    LET Known(a) == a.form \in {"env", "literal"} /\ a.name # <<>>
        sites == FirstBy(MessageSites(file),
                         LAMBDA s : <<s.system, s.role, IF Known(s.arg) THEN <<s.arg.form, s.arg.name>> ELSE <<>> >>)
        Name(a) == IF a.form = "env" THEN <<"env:">> \o a.name
                   ELSE IF a.form = "placeholder" THEN <<"cfg:">> \o a.name ELSE a.name IN
    [i \in DOMAIN sites |->
        LET s == sites[i] IN
        About(<<"msg", s.role>>,
           Say("topic", IF s.role = "produces" THEN "provides" ELSE "consumes",
               IF Name(s.arg) = <<>> THEN "" ELSE s.system, Name(s.arg)))]

------------------------------------------------------------------------------
(* Agents: servers [form, var, name], tools [form, var, name], models      *)
(* [form, model], vectors [form, var, verb, name]; what is not written     *)
(* out is <<>>, and what has no variable has ""                            *)

Tool(server, tool) ==
    If(server # <<>>,
       <<About(<<"mcp", "provides">> \o server \o <<tool>>, Say("mcpop", "provides", "", server \o <<tool>>))>>)

\* _py_mcp: a decorator's variable has been assigned a server, or is "mcp"; the tools of the
\* low-level SDK are the file's one server's
PythonTools(file) ==
    LET Served(var) ==
            LET its == SelectSeq(Formed(file.servers, "FastMCP"), LAMBDA s : s.var = var /\ s.name # <<>>) IN
            IF its = <<>> THEN <<>> ELSE Last(its).name
        known == {s.var : s \in Range(Formed(file.servers, "FastMCP"))} \cup {"mcp"}
        low == {s.name : s \in {t \in Range(Formed(file.servers, "Server")) : t.var # ""}} IN
    Each(SelectSeq(Formed(file.tools, "decorator"), LAMBDA t : t.var \in known /\ t.name # ""),
         LAMBDA t : Tool(Served(t.var), t.name))
    \o If(Mentions(file, "mcp") /\ Cardinality(low) = 1,
          Each(SelectSeq(Formed(file.tools, "types"), LAMBDA t : t.name # ""),
               LAMBDA t : Tool(CHOOSE s \in low : TRUE, t.name)))
\* _ts_mcp: a variable's server, or the first that has a name
ScriptTools(file) ==
    LET servers == Formed(file.servers, "new")
        default == First([i \in DOMAIN servers |-> servers[i].name])
        Assigned(var) == SelectSeq(servers, LAMBDA s : s.var = var)
        Served(var) == IF Assigned(var) = <<>> THEN default ELSE First(<<Last(Assigned(var)).name, default>>) IN
    If(Mentions(file, "mcp"),
       Each(SelectSeq(Formed(file.tools, "register"),
                      LAMBDA t : Assigned(t.var) # <<>> \/ t.var \in {"server", "mcp"}),
            LAMBDA t : Tool(Served(t.var), t.name))
       \o Each(Formed(file.tools, "listed"), LAMBDA t : Tool(default, t.name)))
ToolStatements(file) ==
    IF file.language = "python" THEN PythonTools(file)
    ELSE IF file.language \in Scripts THEN ScriptTools(file) ELSE PythonTools(file) \o ScriptTools(file)

\* extract_a2a_call_sites: the key is the URL
PeerStatements(urls) ==
    LET said == SelectSeq(urls, LAMBDA u : u # <<>>) IN
    [i \in DOMAIN said |-> About(<<"a2a", "call">> \o said[i], Say("a2aop", "consumes", "url", said[i]))]

\* extract_llm_sites: whoever constructs an Azure client calls no other OpenAI
ModelForms == <<"messages", "chat", "responses", "invoke_model", "converse", "Command", "GenerativeModel", "AzureOpenAI">>
ModelStatements(file) ==
    LET azure == Formed(file.models, "AzureOpenAI") # <<>>
        Provider(form) ==
            IF form = "messages" THEN "anthropic"
            ELSE IF form \in {"chat", "responses"} THEN IF azure THEN "azure-openai" ELSE "openai"
            ELSE IF form = "GenerativeModel" THEN "vertex"
            ELSE IF form = "AzureOpenAI" THEN "azure-openai" ELSE "bedrock"
        IsModel(m) ==
            /\ m.model # <<>>
            /\ m.form = "messages" => Mentions(file, "anthropic")
            /\ m.form \in {"chat", "responses"} => Mentions(file, "openai")
            /\ m.form = "GenerativeModel" => Mentions(file, "vertexai") \/ m.gemini IN
    Each(ModelForms, LAMBDA f :
        Each(SelectSeq(Formed(file.models, f), IsModel), LAMBDA m :
             LET name == <<Provider(f)>> \o m.model IN
             <<About(<<"llm">> \o name, Say("declared", "consumes", "llm", name))>>))

\* extract_vector_sites: of each system that is mentioned the collections, then what is done
\* through the variables that hold them
VectorRole(verb) ==
    IF verb \in {"upsert", "upload", "add", "data"} THEN "writes"
    ELSE IF verb = "create_collection" THEN "declares" ELSE "reads"
Held(file, system, verbs) ==
    LET bound == SelectSeq(Formed(file.vectors, system), LAMBDA v : v.var # "")
        variables == Once([i \in DOMAIN bound |-> bound[i].var])
        Names(var) == Last(SelectSeq(bound, LAMBDA v : v.var = var)).name
        Used(var, verb) == \E u \in Range(Formed(file.vectors, "use")) : u.var = var /\ u.verb = verb IN
    Each(variables, LAMBDA x :
        Each(verbs, LAMBDA b : If(Used(x, b), << <<system, VectorRole(b), Names(x)>> >>)))
VectorSites(file) ==
    LET Sites(form, system, Role(_)) ==
            LET its == Formed(file.vectors, form) IN
            [i \in DOMAIN its |-> <<system, Role(its[i].verb), its[i].name>>]
        Declares(verb) == "declares"
        Reads(verb) == "reads"
        When(system, sites) == If(Mentions(file, system), sites) IN
    When("pinecone", Sites("pinecone", "pinecone", Declares) \o Held(file, "pinecone", <<"upsert", "query">>))
    \o When("qdrant", Sites("qdrant", "qdrant", VectorRole))
    \o When("weaviate", Sites("weaviate", "weaviate", Declares) \o Held(file, "weaviate", <<"data", "query">>)
                        \o Sites("weaviate get", "weaviate", Reads))
    \o When("chroma", Sites("chroma", "chroma", Declares) \o Held(file, "chroma", <<"add", "upsert", "query">>))
    \o When("milvus", Sites("milvus", "milvus", Declares)) \o Sites("pgvector", "pgvector", Declares)
VectorStatements(file) ==
    Each(SelectSeq(VectorSites(file), LAMBDA v : v[3] # <<>>), LAMBDA v :
         <<About(<<"vec", v[1], v[2]>> \o v[3],
              With(Declaring(v[2]), Say("dataset", Direction(v[2]), "vector", <<v[1]>> \o v[3])))>>)

------------------------------------------------------------------------------
(* emit_source_claims: everything, in its order.  An endpoint is [method,  *)
(* path], as the parsers of the frameworks have found it.                  *)

EndpointStatements(endpoints) ==
    [i \in DOMAIN endpoints |-> Say("http", "provides", endpoints[i].method, endpoints[i].path)]

SourceStatements(repo, file, endpoints) ==
    LET Stamped(statements) ==
            [i \in DOMAIN statements |-> From(Class(file.path, file.marked), statements[i])] IN
    Stamped(EndpointStatements(endpoints) \o Each(CallSites(file), CallStatements))
    \o If(file.language \in Scripts \cup {"python"}, UnitStatements(file.units))
    \o Stamped(WebhookStatements(file.webhooks) \o FeignStatements(file) \o StubStatements(file)
               \o GraphqlCode(file.language, file.tags, file.fields) \o ReadStatements(repo, file)
               \o MessageStatements(file) \o DataStatements(file) \o MigrationStatements(file)
               \o ToolStatements(file) \o PeerStatements(file.peers) \o ModelStatements(file)
               \o VectorStatements(file))
==================================================================================
