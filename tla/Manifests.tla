-------------------------------- MODULE Manifests --------------------------------
(***************************************************************************)
(* What manifests say (parsers/kubernetes_parser.py, docker_parser.py,     *)
(* config_parser.py, iac_parser.py, and the emitters of ingest_claims.py   *)
(* and ingest_config_defs.py for them): from the documents of a file to    *)
(* its statements, in their order.                                         *)
(*                                                                         *)
(* A document is the record YAML has it as, of the shape its schema gives  *)
(* it: other shapes are read as if the field were absent, which is left    *)
(* out.  Labels are functions, their values names; values are those of     *)
(* Statements.                                                             *)
(***************************************************************************)
EXTENDS Statements

\* A field of a field ...
Dig(document, fields) == FoldLeft(LAMBDA inner, f : Get(inner, f, <<>>), document, fields)

------------------------------------------------------------------------------
(* Kubernetes                                                              *)

WorkloadKinds == {"Deployment", "StatefulSet", "DaemonSet", "Job", "CronJob", "ReplicaSet", "Pod", "Rollout"}
NameLabels == <<"app.kubernetes.io/name", "app.kubernetes.io/instance", "app.kubernetes.io/component",
                "app", "k8s-app", "tags.datadoghq.com/service">>

\* is_k8s_file: a manifest is read as one for its name or for one of these kinds
SniffedKinds == {"Deployment", "Service", "ServiceEntry", "ServiceAccount", "ConfigMap", "Secret", "Ingress",
                 "IngressRoute", "Pod", "ReplicaSet", "StatefulSet", "DaemonSet"}
IsK8sFile(file, documents) == file.named \/ \E i \in DOMAIN documents : documents[i].kind \in SniffedKinds

\* _pod_template and _pod_labels: a CronJob's are one level deeper
Template(document) ==
    Dig(document, IF document.kind = "CronJob" THEN <<"spec", "jobTemplate", "spec", "template">>
                  ELSE <<"spec", "template">>)
PodSpec(document) == IF document.kind = "Pod" THEN Get(document, "spec", <<>>) ELSE Get(Template(document), "spec", <<>>)
PodLabels(document) == IF document.kind = "Pod" THEN <<>> ELSE Dig(Template(document), <<"metadata", "labels">>)

Namespace(document) == Get(document, "namespace", "default")
Labelled(document, label) ==
    First(<<Get(Get(document, "labels", <<>>), label, <<>>), Get(PodLabels(document), label, <<>>)>>)
\* service_name_hint: labels beat the object's name
NameHint(document) == First([i \in DOMAIN NameLabels |-> Labelled(document, NameLabels[i])] \o <<document.name>>)
\* _label_signature
Signature(labels) == {<<l, labels[l]>> : l \in DOMAIN labels}
Object(document) == <<document.kind, "/">> \o document.name

PodContainers(document) ==
    Get(PodSpec(document), "initContainers", <<>>) \o Get(PodSpec(document), "containers", <<>>)

\* _parse_env: a variable is a value, or a key of an object; a field of the pod is neither
Binding(entry) ==
    LET Ref(kind, ref) == [name |-> entry.name, source |-> kind, ref_name |-> ref[1], ref_key |-> ref[2]] IN
    CASE "value" \in DOMAIN entry -> [name |-> entry.name, source |-> "literal", value |-> entry.value]
      [] "configMapKeyRef" \in DOMAIN entry -> Ref("configmap", entry.configMapKeyRef)
      [] "secretKeyRef" \in DOMAIN entry -> Ref("secret", entry.secretKeyRef)
      [] OTHER -> Ref("field", <<<<>>, "">>)
\* ... and every key of an object is a variable
Bindings(container) ==
    LET env == Get(container, "env", <<>>)
        from == Get(container, "envFrom", <<>>) IN
    [i \in DOMAIN env |-> Binding(env[i])]
    \o [i \in DOMAIN from |-> [name |-> "*", source |-> from[i][1], ref_name |-> from[i][2], ref_key |-> ""]]

\* emit_env_binding
EnvStatement(document, environment, b) ==
    LET named == [source |-> "k8s_env", env_name |-> b.name, service |-> NameHint(document),
                  namespace |-> Namespace(document), env_scope |-> environment] IN
    About(Object(document),
       IF b.name = "*"
       THEN With([source |-> "k8s_envfrom", ref_kind |-> b.source, ref_name |-> b.ref_name],
                 By(<<>>, "config", Say("cfgread", "consumes", Namespace(document), Append(b.ref_name, "*"))))
       ELSE With(named @@ (IF b.source = "literal" THEN Kept(b.name, b.value)
                           ELSE [ref_kind |-> b.source, ref_name |-> b.ref_name, ref_key |-> b.ref_key,
                                 unresolved |-> TRUE]),
                 By(<<>>, "config", Say("cfgdef", "provides", Namespace(document), <<b.name>>))))

\* image_ref_key leaves the tag and the digest out: an image is a name here
Image(subject, name, attrs) == About(subject, With(attrs, Say("image", "provides", "", name)))

\* _emit_workload
WorkloadStatements(document, environment) ==
    LET name == NameHint(document)
        containers == PodContainers(document) IN
    <<About(Object(document), With([source |-> "k8s", kind |-> document.kind, workload |-> document.name,
                                 namespace |-> Namespace(document), pod_labels |-> Signature(PodLabels(document))],
                                Service("provides", Namespace(document), name, "config")))>>
    \o Each(containers, LAMBDA c :
               If("image" \in DOMAIN c,
                  <<Image(Object(document) \o <<c.name>>, c.image, [source |-> "k8s", service |-> name])>>))
    \o Each(containers, LAMBDA c :
               [i \in DOMAIN Bindings(c) |-> EnvStatement(document, environment, Bindings(c)[i])])

\* _parse_service, _emit_k8s_service
ServiceStatements(document) ==
    <<About(Object(document), With([source |-> "k8s_service", namespace |-> Namespace(document),
                                 selector |-> Signature(Dig(document, <<"spec", "selector">>)),
                                 external_name |-> Dig(document, <<"spec", "externalName">>)],
                                Service("provides", Namespace(document), document.name, "discovery")))>>

\* emit_config_object: a Secret's values are not read
ObjectStatements(document, environment) ==
    LET Key(k) ==
            About(Object(document),
               With([object |-> document.name, namespace |-> Namespace(document), config_key |-> k[1],
                     source |-> IF document.kind = "Secret" THEN "k8s_secret" ELSE "k8s_configmap",
                     env_scope |-> environment]
                    @@ (IF document.kind = "Secret" THEN [value_class |-> "secret"] ELSE Kept(k[1], k[2])),
                    By(<<>>, "config", Say("cfgdef", "provides", Namespace(document), document.name \o <<k[1]>>)))) IN
    [i \in DOMAIN document.data |-> Key(document.data[i])]

\* _parse_network_policy, _parse_authorization_policy: a source is the labels of pods, or
\* an account; _emit_policy
PolicyStatements(document) ==
    LET mesh == document.kind = "AuthorizationPolicy"
        target == Signature(Dig(document, <<"spec", IF mesh THEN "selector" ELSE "podSelector">>))
        from == SelectSeq(Dig(document, <<"spec", "from">>), LAMBDA s : s # <<>>)
        Allowed(s) == With([source |-> IF mesh THEN "authorization_policy" ELSE "network_policy",
                         namespace |-> Namespace(document), target_selector |-> target]
                        @@ (IF mesh THEN [account |-> s] ELSE [source_selector |-> Signature(s)]),
                        By(<<>>, "config", Say("policy", "provides", Namespace(document), <<ToString(target)>>))) IN
    If(target # {}, [i \in DOMAIN from |-> About(Object(document) \o <<ToString(from[i])>>, Allowed(from[i]))])

\* _parse_gitops, _emit_gitops: the first of the places that may name the source
GitopsStatements(document) ==
    LET At(fields) == Dig(document.spec, fields)
        source == First(<<At(<<"source", "repoURL">>), At(<<"url">>), At(<<"chart", "spec", "sourceRef", "name">>),
                          At(<<"sourceRef", "name">>)>>) IN
    If(source # <<>>,
       <<About(Object(document), With([source |-> "gitops", source_repo |-> source],
                                   By(document.name, "config", Say("declared", "provides", "gitops", document.name))))>>)

\* _emit_keda: what a workload is scaled by it consumes; a queue's URL may say its name
KedaSystems == [t \in {"kafka", "aws-sqs-queue", "rabbitmq"} |->
                   IF t = "kafka" THEN "kafka" ELSE IF t = "rabbitmq" THEN "amqp" ELSE "sqs"]
KedaStatements(document) ==
    LET Name(t) == First(<<Get(t, "topic", <<>>), Get(t, "queueName", <<>>), Get(t, "queueURL", <<>>)>>) IN
    Each(SelectSeq(document.spec.triggers, LAMBDA t : t.type \in DOMAIN KedaSystems /\ Name(t) # <<>>),
         LAMBDA t : <<About(Object(document) \o <<t.type>>,
                         With([source |-> "keda"]
                              @@ (IF document.spec.target = <<>> THEN <<>> ELSE [service |-> document.spec.target]),
                              By(document.spec.target, "config",
                                 Say("topic", "consumes", KedaSystems[t.type], Name(t)))))>>)

\* _emit_route_claim, for a route [host, prefix, target, strip, rewrite]
RouteStatements(document, route) ==
    IF route.target = <<>> THEN <<>>
    ELSE <<About(Object(document) \o route.host \o <<"/">> \o route.prefix,
              With(RouteAt(route),
                   By(document.name, "gateway_route",
                      Say("route", "consumes", "", RouteKey(route.prefix, route.target))))),
           About(Object(document) \o route.target,
              Service("consumes", Namespace(document), route.target, "gateway_route"))>>

\* _parse_ingress, _emit_ingress_routes: a rewrite to the root, or to what was captured,
\* strips a segment too
IngressRoutes(document) ==
    LET spec == document.spec
        rules == (IF "defaultBackend" \in DOMAIN spec
                  THEN <<[host |-> <<>>, path |-> <<>>, service |-> spec.defaultBackend]>> ELSE <<>>)
                 \o spec.rules
        rewrite == Get(spec, "rewrite", <<>>) IN
    [i \in DOMAIN rules |->
        [host |-> rules[i].host, prefix |-> rules[i].path, target |-> rules[i].service, rewrite |-> rewrite,
         strip |-> IF rewrite \in {<< <<>> >>, << <<"$1">> >>} THEN 1 ELSE 0]]

\* _parse_httproute: each backend gets each path; a filter may replace the path, or its
\* host only, which strips as well
GatewayApiRoutes(document) ==
    LET Host == First(document.spec.hostnames)
        Paths(rule) == OrRoot(rule.matches)
        Strip(rule) == IF rule.urlRewrite /\ rule.path \in {<<>>, << <<>> >>} THEN 1 ELSE 0 IN
    Each(document.spec.rules, LAMBDA rule :
        Each(rule.backendRefs, LAMBDA backend :
            [i \in DOMAIN Paths(rule) |->
                [host |-> Host, prefix |-> Paths(rule)[i], target |-> backend,
                 rewrite |-> rule.path, strip |-> Strip(rule)]]))

\* _parse_virtual_service: a destination is a DNS name; any rewrite strips
IstioRoutes(document) ==
    LET Host == First(document.spec.hosts)
        Paths(http) == OrRoot(http.match) IN
    Each(document.spec.http, LAMBDA http :
        Each(http.route, LAMBDA destination :
            [i \in DOMAIN Paths(http) |->
                [host |-> Host, prefix |-> Paths(http)[i], rewrite |-> http.rewrite,
                 target |-> SubSeq(destination, 1, Min({1, Len(destination)})),
                 strip |-> IF http.rewrite = <<>> THEN 0 ELSE 1]]))

\* _parse_ingressroute: what strips is a Middleware of the same file
TraefikRoutes(document, strippers) ==
    Each(document.spec.routes, LAMBDA route :
        [i \in DOMAIN route.services |->
            [host |-> route.host, prefix |-> route.path, target |-> route.services[i], rewrite |-> <<>>,
             strip |-> IF Range(route.middlewares) \cap strippers # {} THEN 1 ELSE 0]])

\* parse_helm_values, emit_helm_values: what looks like the address of something, and a
\* word if its key says that it is a topic
HelmStatements(repo, file, document) ==
    LET Joinable(v) ==
            \/ Redacted(v[1], v[2]).value_class \in {"url", "hostname"}
            \/ Redacted(v[1], v[2]).value_class = "enum-ish" /\ v[1] \in TopicKeys IN
    Each(SelectSeq(document.data, Joinable), LAMBDA v :
         <<About(Object(document),
              With([source |-> "helm_values", config_key |-> v[1], env_scope |-> file.overlay]
                   @@ Redacted(v[1], v[2]),
                   By(<<>>, "config", Say("cfgdef", "provides", repo, <<v[1]>>))))>>)

\* emit_k8s_claims
DocumentStatements(repo, file, document, strippers) ==
    LET environment == EnvironmentOf(file, Get(document, "environment", ""), Namespace(document))
        routes == IF document.kind = "Ingress" THEN IngressRoutes(document)
                  ELSE IF document.kind \in {"HTTPRoute", "GRPCRoute"} THEN GatewayApiRoutes(document)
                  ELSE IF document.kind = "VirtualService" THEN IstioRoutes(document)
                  ELSE IF document.kind = "IngressRoute" THEN TraefikRoutes(document, strippers) ELSE <<>> IN
    CASE document.kind \in WorkloadKinds -> WorkloadStatements(document, environment)
      [] document.kind = "Service" -> ServiceStatements(document)
      [] document.kind \in {"ConfigMap", "Secret"} -> ObjectStatements(document, environment)
      [] document.kind \in {"NetworkPolicy", "AuthorizationPolicy"} -> PolicyStatements(document)
      [] document.kind \in {"Application", "ApplicationSet", "Kustomization", "HelmRelease"} ->
            GitopsStatements(document)
      [] document.kind = "HelmValues" -> HelmStatements(repo, file, document)
      [] document.kind \in {"ScaledObject", "ScaledJob"} -> KedaStatements(document)
      [] OTHER -> Each(routes, LAMBDA r : RouteStatements(document, r))
K8sStatements(repo, file, documents) ==
    LET strippers == {d.name : d \in {e \in Range(documents) :
                                        e.kind = "Middleware" /\ e.spec.stripPrefix # <<>>}} IN
    If(IsK8sFile(file, documents),
       Each(documents, LAMBDA d : DocumentStatements(repo, file, d, strippers)))

------------------------------------------------------------------------------
(* Compose: [project, services], a service [name, dependsOn, links, env]   *)
(* and perhaps build and image                                             *)

\* The host that a variable of a compose file names: what its value says or, of a variable
\* that is named like an endpoint, what its default says or is
HostNamed(key, value) ==
    LET fallback == Get(value, "default", <<>>)
        named == IF fallback # <<>> /\ key \in EndpointKeys THEN Redacted(key, fallback).value_host ELSE <<>> IN
    IF Redacted(key, value).value_host # <<>>
    THEN [via |-> "env_host", host |-> Redacted(key, value).value_host]
    ELSE [via |-> "env_host_default",
          host |-> IF named = <<>> /\ fallback # <<>> /\ key \in EndpointKeys /\ fallback.shape # "number"
                   THEN fallback.text ELSE named]

\* parse_docker_compose, emit_compose_claims
ComposeStatements(repo, document) ==
    LET scope == IF document.project = "" THEN repo ELSE document.project
        Needs(s, name) ==
            About(s.name \o <<"dep">> \o name,
               With([via |-> "depends_on", from |-> s.name], Service("consumes", scope, name, "config")))
        Points(s, variable) ==
            LET said == HostNamed(variable[1], variable[2]) IN
            If(IsServiceHost(said.host),
               <<About(s.name \o <<"env", variable[1]>>,
                    With([via |-> said.via, env_key |-> variable[1], from |-> s.name],
                         Service("consumes", scope, said.host, "config")))>>) IN
    Each(document.services, LAMBDA s :
        <<With([source |-> "compose"] @@ (IF "build" \in DOMAIN s THEN [build_context |-> s.build] ELSE <<>>),
               Service("provides", scope, s.name, "config"))>>
        \o If("image" \in DOMAIN s, <<Image(<<>>, s.image, [compose_service |-> s.name])>>)
        \o [i \in DOMAIN (s.dependsOn \o s.links) |-> Needs(s, (s.dependsOn \o s.links)[i])]
        \o Each(s.env, LAMBDA v : Points(s, v)))

------------------------------------------------------------------------------
(* Configuration files: [stem, framework, app, routes, bindings]           *)

\* _route_target: a service of discovery, or a host without dots
ConfigTarget(uri) == IF uri.lb \/ IsServiceHost(uri.host) THEN uri.host ELSE <<>>
\* "/**" at the end of a path says nothing.
Cleaned(path) == IF path # <<>> /\ Last(path) = "**" THEN Front(path) ELSE path

\* _extract_gateway_routes, emit_config_claims: a route has all its paths or the root's
SpringRoute(hint, route) ==
    LET target == ConfigTarget(route.uri)
        paths == OrRoot(route.paths) IN
    If(target # <<>>,
       [i \in DOMAIN paths |->
           With(RouteAt([target |-> target, prefix |-> Cleaned(paths[i])] @@ route),
                By(hint, "gateway_route", Say("route", "consumes", "", RouteKey(Cleaned(paths[i]), target))))]
       \o <<Service("consumes", "discovery", target, "gateway_route")>>)

\* Each of the names a file gives its service is one; where both are the same name the
\* first claim stays.  What is an application.yml has no stem.
ConfigStatements(config) ==
    LET hint == First(<<config.app, config.stem>>)
        BindingStatement(b) == By(config.app, "config",
                          Say("topic", IF b.produces THEN "provides" ELSE "consumes", b.binder, b.destination)) IN
    If(config.stem # <<>> /\ config.framework,
       <<With([source |-> "config-filename"], Service("provides", "discovery", config.stem, "config"))>>)
    \o If(config.app # <<>>,
          <<With([source |-> "spring.application.name"], Service("provides", "discovery", config.app, "config"))>>)
    \o Each(config.routes, LAMBDA r : SpringRoute(hint, r))
    \o [i \in DOMAIN config.bindings |-> BindingStatement(config.bindings[i])]

------------------------------------------------------------------------------
(* Infrastructure: a Terraform block is [data, type, label] and perhaps    *)
(* name, environment and what its type has; refs are the blocks it refers  *)
(* to, as <<type, label>>, in their order                                  *)

TopicSystems == [aws_sqs_queue |-> "sqs", aws_sns_topic |-> "sns", aws_kinesis_stream |-> "kinesis",
                 confluent_kafka_topic |-> "kafka", google_pubsub_topic |-> "pubsub",
                 azurerm_servicebus_queue |-> "servicebus", azurerm_eventhub |-> "eventhub"]
ServiceTypes == {"aws_ecs_service", "google_cloud_run_service"}

\* iac_names: a block is what it provisions by the name it gives that, else by its label
Provisioned(block) == First(<<Get(block, "name", <<>>), block.label>>)
\* _reference_tail: the label of the first block of a type that this one refers to
LabelOf(block, type) ==
    LET its == SelectSeq(block.refs, LAMBDA r : r[1] = type) IN IF its = <<>> THEN <<>> ELSE its[1][2]
\* ... and its name, if the file has the block: the last of that label
Referred(blocks, block, type) ==
    LET its == SelectSeq(blocks, LAMBDA b : ~b.data /\ b.type = type /\ b.label = LabelOf(block, type)) IN
    IF its = <<>> THEN LabelOf(block, type) ELSE Provisioned(Last(its))

Address(block) == IF block.data THEN <<"data">> \o block.label ELSE <<block.type>> \o block.label
TopicSaid(direction, system, name) == By(<<>>, "config", Say("topic", direction, system, name))

\* _emit_iac_messaging: what a block provisions it declares; a subscription, and what a
\* function is triggered by, say who receives
TopicBlock(blocks, block) ==
    LET topic == First(<<Get(block, "topic_arn", <<>>), Referred(blocks, block, "aws_sns_topic")>>)
        endpoint == First(<<Get(block, "endpoint", <<>>), Referred(blocks, block, "aws_sqs_queue")>>)
        arn == Get(block, "event_source_arn", [system |-> "", name |-> <<>>])
        Queue(type) == Referred(blocks, block, type)
        source == IF arn.name # <<>> THEN arn
                  ELSE IF Queue("aws_sqs_queue") # <<>> THEN [system |-> "sqs", name |-> Queue("aws_sqs_queue")]
                  ELSE [system |-> "kinesis", name |-> Queue("aws_kinesis_stream")]
        function == First(<<Get(block, "function_name", <<>>), LabelOf(block, "aws_lambda_function")>>) IN
    IF block.type \in DOMAIN TopicSystems
    THEN <<With([source |-> "terraform", declares |-> TRUE],
                TopicSaid("provides", TopicSystems[block.type], Provisioned(block)))>>
    ELSE IF block.type = "aws_sns_topic_subscription"
    THEN If(topic # <<>> /\ endpoint # <<>>,
            <<With([source |-> "terraform", fan_out |-> TRUE, to |-> <<"sqs", endpoint>>],
                   TopicSaid("consumes", "sns", topic))>>)
    ELSE If(source.name # <<>> /\ source.system # "",
            <<With([source |-> "terraform", service |-> function],
                   By(function, "config", TopicSaid("consumes", source.system, source.name)))>>)

\* _emit_iac_gateway_route: a route leads where the last of its integrations that the file
\* has leads; a rule of a load balancer, to the group it refers to.  The prefix of a rule
\* is the root, unless the rule has a scalar for it.
Integrations(blocks, block) ==
    LET uri(b) == First(<<Get(b, "uri", <<>>), LabelOf(b, "aws_lambda_function")>>)
        Called(label) == SelectSeq(blocks, LAMBDA b : b.type = "aws_apigatewayv2_integration" /\ b.label = label) IN
    Each(SelectSeq(block.refs, LAMBDA r : r[1] = "aws_apigatewayv2_integration"),
         LAMBDA r : If(Called(r[2]) # <<>>, <<uri(Called(r[2])[1])>>))
RouteBlock(blocks, block) ==
    LET rule == block.type = "aws_lb_listener_rule"
        groups == SelectSeq(blocks, LAMBDA b : b.type = "aws_lb_target_group"
                                               /\ b.label = LabelOf(block, "aws_lb_target_group"))
        group == IF groups = <<>> THEN LabelOf(block, "aws_lb_target_group") ELSE Provisioned(Last(groups))
        uris == Integrations(blocks, block)
        target == IF rule THEN group ELSE IF uris = <<>> THEN <<>> ELSE Last(uris)
        prefix == Get(block, "path", <<>>) IN
    If(target # <<>>,
       <<With(RouteAt([target |-> target, prefix |-> prefix, strip |-> 0, rewrite |-> <<>>]),
              By(<<>>, "gateway_route", Say("route", "consumes", "", RouteKey(prefix, target))))>>)

\* _emit_managed_service and _emit_ecs_container: a container has the variables of a pod's
ManagedBlock(block, environment) ==
    <<With([source |-> "terraform"],
           Service("provides", IF environment = "" THEN "tf" ELSE environment, Provisioned(block), "config"))>>
ContainerBlock(block, environment) ==
    LET scope == IF environment = "" THEN "ecs" ELSE environment
        Variable(v) ==
            With([source |-> "k8s_env", env_name |-> v[1], service |-> Provisioned(block), namespace |-> scope,
                  env_scope |-> environment] @@ Redacted(v[1], v[2]),
                 By(<<>>, "config", Say("cfgdef", "provides", scope, <<v[1]>>))) IN
    <<With([source |-> "ecs"], Service("provides", scope, Provisioned(block), "config"))>>
    \o If("image" \in DOMAIN block,
          <<With([source |-> "ecs", service |-> Provisioned(block)], Say("image", "provides", "", block.image))>>)
    \o [i \in DOMAIN block.env |-> Variable(block.env[i])]

\* emit_iac_claims
TerraformStatements(file, blocks) ==
    LET Environment(block) == EnvironmentOf(file, Get(block, "environment", ""), "")
        Says(block) ==
            IF block.type = "ecs_container" THEN ContainerBlock(block, Environment(block))
            ELSE IF block.type \in ServiceTypes THEN ManagedBlock(block, Environment(block))
            ELSE IF block.type \in {"aws_apigatewayv2_route", "aws_lb_listener_rule"} THEN RouteBlock(blocks, block)
            ELSE If(block.type \in DOMAIN TopicSystems
                                   \cup {"aws_sns_topic_subscription", "aws_lambda_event_source_mapping"},
                    TopicBlock(blocks, block)) IN
    Each(blocks, LAMBDA b : LET said == Says(b) IN [i \in DOMAIN said |-> About(Address(b), said[i])])

\* process_iac_units: a unit of Nomad, systemd, Ansible or Pulumi is [source, name, env],
\* the variables in the order of their names
UnitStatements(units) ==
    LET Points(unit, v) ==
            LET domain == Redacted(v[1], v[2]).value_host IN
            If(IsServiceHost(domain),
               <<About(unit.name \o <<"env", v[1]>>,
                    With([via |-> "env_host", env_key |-> v[1], from |-> unit.name],
                         Service("consumes", unit.source, domain, "config")))>>) IN
    Each(units, LAMBDA u :
        <<About(<<u.source>> \o u.name,
             With([source |-> u.source], Service("provides", u.source, u.name, "config")))>>
        \o Each(u.env, LAMBDA v : Points(u, v)))
==================================================================================
