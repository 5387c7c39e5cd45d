------------------------------- MODULE MCNaming -------------------------------
EXTENDS MCDocuments

AlphabetN == <<"a", "b", "channel", "default", "dev", "discovery", "ecs", "kafka", "nomad", "prj", "prod", "pulumi", "shop",
               "ads", "api", "bill", "gate", "mesh", "nginx", "np", "orders", "svc", "cluster", "local", "w1", "w2",
               "web", "", "x">>
RepoAtN == [u \in {<<"hub", "acme", "shop">>, <<"hub", "acme", "web">>} |->
               IF u[3] = "shop" THEN "shop" ELSE "web"]
AliasesN == <<[target |-> <<"web">>, names |-> << <<"", <<"www">> >>, <<"discovery", <<"front">> >> >>]>>
GenericN == {<<"api">>}
InternalN == {<<"npm", <<"@acme", "ui">> >>}
BeginsN == {<<"v", "vet">>, <<"v", "vote">>}
WithinN == {<<"billing", "bill">>}

------------------------------------------------------------------------------
\* Services that Kubernetes names otherwise than their workloads, and what may reach them
Cluster ==
    <<At(<<"k8s", "web.yml">>,
         [kubernetes |->
            <<Doc("Service", "web", "a", [spec |-> [selector |-> [tier |-> <<"w">>]]]),
              Workload("nginx", "a", "w", <<>>),
              Doc("NetworkPolicy", "np", "a",
                  [spec |-> [podSelector |-> [tier |-> <<"w">>], from |-> <<[tier |-> <<"b">>]>>]])>>]),
      At(<<"k8s", "bill.yml">>,
         [kubernetes |-> <<Workload("bill", "a", "b", <<[name |-> "WEB_URL", value |-> Host(<<"web", "a", "svc">>)]>>)>>])>>
\* A compose project of two services, whose calls are named by their variables
Compose ==
    <<At(<<"compose.yml">>,
         ComposeOf("prj", <<[name |-> <<"orders">>, build |-> <<".", "orders">>,
                             env |-> << <<"BILL_URL", Host(<<"bill">>)>> >>] @@ Unlinked>>)),
      At(<<"deploy", "compose.yml">>,
         ComposeOf("prj", <<[name |-> <<"bill">>, build |-> <<"..", "bill">>] @@ Unlinked>>)),
      At(<<"orders", "cfg.py">>, Code("python", [reads |-> <<"BILL_URL">>])),
      At(<<"orders", "call.py">>, Code("python", [calls |-> <<CallTo("requests", Url("template", <<>>, <<"pay">>))>>])),
      [At(<<"services.yml">>,
          [kubernetes |-> <<Doc("Application", "bill", "default",
                                [spec |-> [source |-> [repoURL |-> <<"hub", "acme", "web">>]]])>>])
         EXCEPT !.named = TRUE]>>
\* A Spring service with topics that its configuration names
Spring ==
    <<At(<<"services", "orders", "src", "main", "application.yml">>, SpringApp("orders", <<>>)),
      At(<<"services", "orders", "src", "Pub.java">>,
         Code("java", [messages |-> <<Send("kafkaTemplate.send", <<Argument("env", "TOPIC")>>),
                                      Send("@KafkaListener", <<Argument("placeholder", "topic")>>)>>])),
      [At(<<"services", "orders", "values.yml">>,
          [kubernetes |-> <<Doc("HelmValues", "values", "default",
                                [data |-> << <<"TOPIC", Word(<<"orders">>)>>, <<"topic", Word(<<"bill">>)>> >>])>>])
         EXCEPT !.named = TRUE],
      At(<<"go.mod">>, GoModule(<<"hub", "acme", "shop">>, <<>>))>>
\* Gateways: one that leads to another and that back
Gates ==
    <<At(<<"gate", "application.yml">>,
         SpringApp("gate", <<SpringUri("orders", << <<"api">> >>, 1), SpringUri("mesh", << <<"api", "v">> >>, 0),
                             SpringUri("mesh", << <<"x", "**">> >>, 1)>>)),
      At(<<"mesh", "application.yml">>,
         SpringApp("mesh", <<SpringUri("web", << <<"api", "vet">> >>, 2), SpringUri("gate", << <<"api", "vote">> >>, 0)>>)),
      At(<<"mesh", "mesh.yml">>, [kubernetes |-> <<Workload("mesh", "a", "m", <<>>)>>])>>
\* ... one that is only a file, and another for the same paths
Proxy ==
    <<At(<<"gate", ".env">>, [observability |-> Named1(<<Variable("OTEL_SERVICE_NAME", "gate")>>)]),
      At(<<"gate", "nginx.conf">>,
         [gateway |-> [gateway |-> "nginx", upstreams |-> <<>>,
            servers |-> <<[names |-> << <<"_">> >>,
                           locations |-> <<[path |-> <<"api">>, pass |-> <<[host |-> <<"bill">>, uri |-> << <<>> >>]>>,
                                            rewrites |-> <<>>, locations |-> <<>>]>>]>>]]),
      At(<<"bill", "ingress.yml">>, [kubernetes |-> <<Ingress("bill", "a", <<Rule1(<<"api">>, "orders")>>)>>]),
      [At(<<"gate", "values-dev.yml">>,
          [kubernetes |-> <<Doc("HelmValues", "values", "default", [data |-> << <<"TOPIC", Word(<<"bill">>)>> >>])>>])
         EXCEPT !.named = TRUE, !.overlay = "dev"],
      At(<<"gate", "asyncapi.yml">>,
         [asyncapi |-> [version |-> 2, servers |-> <<>>, operations |-> <<>>,
                        channels |-> <<[key |-> <<"orders">>, bindings |-> <<>>, verbs |-> <<>>]>>]])>>
\* The same name in two namespaces
Twins ==
    <<At(<<"a", "api.yml">>, [kubernetes |-> <<Doc("Service", "api", "a", [spec |-> <<>>])>>]),
      At(<<"b", "api.yml">>, [kubernetes |-> <<Workload("api", "b", "x", <<>>), Workload("mesh", "b", "m", <<>>)>>]),
      At(<<"b", "ingress.yml">>, [kubernetes |-> <<Ingress("mesh", "b", <<Rule1(<<"api">>, "api")>>)>>])>>
\* A browser's calls, by path alone and by the gateway's name
Browser ==
    <<At(<<"ui", "a.js">>, Fetch(Url("path", <<>>, <<"api", "vet", "pay">>))),
      At(<<"ui", "b.js">>, Fetch(Url("absolute", <<"gate">>, <<"api", "vote">>))),
      At(<<"ui", "c.js">>, Fetch(Url("absolute", <<"gate", "a", "svc">>, <<"api", "x">>))),
      At(<<"ui", "d.js">>, Fetch(Url("path", <<>>, <<"x", "api", "vet", "pay">>))),
      At(<<"go.mod">>, GoModule(<<>>, <<[form |-> "require"] @@ Entry(<<"hub", "acme", "shop">>)>>)),
      At(<<"ui", "pub.py">>, Code("python", [messages |-> <<Send("producer.send", <<Argument("literal", "orders")>>)>>])),
      At(<<"infra", "sns.tf">>,
         [iac |-> <<[data |-> FALSE, type |-> "aws_sns_topic_subscription", label |-> <<"fan">>, refs |-> <<>>,
                     topic_arn |-> <<"orders">>, endpoint |-> <<"bill">>]>>])>>
\* One package that many modules use
Crowd ==
    <<At(<<"go.mod">>, GoModule(<<"hub", "acme", "shop">>, <<>>))>>
    \o [i \in 1 .. 5 |-> At(<<<<"a", "b", "x", "w1", "w2">>[i], "go.mod">>,
                            GoModule(<<>>, <<[form |-> "require"] @@ Entry(<<"hub", "acme", "shop">>)>>))]

FilesN ==
    [shop |-> <<Cluster \o DataTree, Compose \o OwnerTree, Spring \o DeployTree>>,
     edge |-> <<Gates \o GatewayTree, Proxy \o ContractTree, Twins \o PlacesTree \o PackageTree>>,
     web |-> <<Browser \o CodeTree, Crowd>>]
===============================================================================
