--------------------------------- MODULE Owners ---------------------------------
(***************************************************************************)
(* Who owns what, and what services call themselves                        *)
(* (parsers/ownership_parser.py and the emitters of ingest_claims.py for   *)
(* it): CODEOWNERS, the Backstage catalog, and the names that the          *)
(* configuration of observability tools gives.                             *)
(*                                                                         *)
(* An owner and a team are names; an owner of one label is a person.  An   *)
(* identity that is found twice has one identity as a claim, so what the   *)
(* parser does to drop duplicates is left out.                             *)
(***************************************************************************)
EXTENDS Statements

Team(team, hint, source) ==
    By(hint, source, Say("owner", "provides", "team", team))

\* is_codeowners_file, emit_codeowners_claims: of a rule [pattern, owners] the teams
CodeownersStatements(path, rules) ==
    LET Rules(rule) ==
            LET teams == SelectSeq(rule.owners, LAMBDA o : Len(o) > 1) IN
            [i \in DOMAIN teams |->
                About(<<"codeowners">> \o rule.pattern,
                   With([source |-> "codeowners"],
                        Team(teams[i], <<>>, "config")))] IN
    If(path \in {<<"CODEOWNERS">>, <<".github", "CODEOWNERS">>, <<"docs", "CODEOWNERS">>},
       Each(rules, Rules))

\* parse_catalog_info, emit_catalog_claims, of entities [kind, name, owner], the owner being
\* a reference: only the last part of it is kept
CatalogKinds == {"Component", "System", "API", "Resource", "Domain", "Group"}
CatalogStatements(entities) ==
    LET Entity(e) ==
            LET subject == <<"catalog", e.kind>> \o e.name IN
            If(e.kind \in {"Component", "API"},
               <<About(subject, With([source |-> "backstage"], Service("provides", "discovery", e.name, "catalog")))>>)
            \o If(e.owner # <<>>,
                  <<About(Append(subject, "owner"),
                       With([source |-> "backstage"],
                            Team(<<Last(e.owner)>>, e.name, "catalog")))>>) IN
    Each(SelectSeq(entities, LAMBDA e : e.kind \in CatalogKinds /\ e.name # <<>>), Entity)

------------------------------------------------------------------------------
(* What a service calls itself: [source, name, env, team]                  *)

Itself(source, name, env, team) == [source |-> source, name |-> name, env |-> env, team |-> team]
Called(source, names, env) == [i \in DOMAIN names |-> Itself(source, names[i], env, <<>>)]
FirstGiven(texts) == LET said == SelectSeq(texts, LAMBDA t : t # "") IN IF said = <<>> THEN "" ELSE said[1]

\* _parse_sentry_properties, _parse_newrelic_yaml, _parse_newrelic_ini and
\* _parse_datadog_config: a New Relic app has one name or several, and a section [env, app]
\* that has another than all have is one too
ToolNames(file) ==
    LET sections == SelectSeq(Get(file, "sections", <<>>), LAMBDA s : s.app # file.app)
        service == First(<<file.service, file.tags.service>>) IN
    IF file.tool = "sentry" THEN If(First(file.projects) # <<>>, Called("sentry-project", <<First(file.projects)>>, ""))
    ELSE IF file.tool = "newrelic"
    THEN Called("newrelic", file.app, "") \o Each(sections, LAMBDA s : Called("newrelic", s.app, s.env))
    ELSE IF file.tool = "newrelic.ini" THEN Each(file.apps, LAMBDA a : Called("newrelic", a, ""))
    ELSE If(file.tool = "datadog" /\ service # <<>>,
            <<Itself("datadog", service, FirstGiven(<<file.env, file.tags.env>>), file.tags.team)>>)

\* _identities_from_env: a variable [var, name, env, team] of the file, or what a list of
\* attributes or tags says; whatever of the file says the environment and the team of one
\* says those of all
VariableNames(variables) ==
    LET Of2(vars) == SelectSeq(variables, LAMBDA v : v.var \in vars)
        Field(vars, field) == [i \in DOMAIN Of2(vars) |-> Of2(vars)[i][field]]
        otel == {"OTEL_SERVICE_NAME", "OTEL_RESOURCE_ATTRIBUTES"}
        Direct(v) == IF v.var = "NEW_RELIC_APP_NAME" THEN Called("newrelic", <<v.name>>, "")
                     ELSE If(v.var = "SENTRY_PROJECT", Called("sentry-project", <<v.name>>, "")) IN
    Each(variables, Direct)
    \o Called("otel-env", Field(otel, "name"), FirstGiven(Field({"OTEL_RESOURCE_ATTRIBUTES"}, "env")))
    \o Each(Field({"DD_SERVICE", "DD_TAGS"}, "name"), LAMBDA n :
            <<Itself("datadog", n, FirstGiven(Field({"DD_ENV", "DD_TAGS"}, "env")), First(Field({"DD_TAGS"}, "team")))>>)

\* _identities_from_code: a constant's, then a literal key's value
ResourceNames(file) ==
    If(file.resource, Called("otel-resource", file.constants, "") \o Called("otel-resource", file.literals, ""))

CodeExtensions == {"py", "js", "ts", "jsx", "tsx", "mjs", "cjs"}

\* extract_observability_identity, of the names of Prometheus jobs and of Consul services,
\* and of the labels [service, env] of pods
Identities(file) ==
    ToolNames(file)
    \o If(file.extension \in {"yml", "yaml"}, Called("prometheus-job", file.jobs, ""))
    \o If(file.extension = "json", Called("consul-service", file.services, ""))
    \o (IF file.extension \in CodeExtensions THEN ResourceNames(file)
        ELSE VariableNames(file.variables)
             \o Each(file.labels, LAMBDA l : <<Itself("datadog", l.service, l.env, <<>>)>>))

\* emit_observability_claims
ObservabilityStatements(file) ==
    Each(SelectSeq(Identities(file), LAMBDA n : n.name # <<>>), LAMBDA n :
        LET subject == <<"obs", n.source>> \o n.name IN
        <<About(subject, With([source |-> n.source, env_scope |-> n.env],
                           Service("provides", "discovery", n.name, "observability")))>>
        \o If(n.team # <<>>,
              <<About(Append(subject, "team"),
                   With([source |-> n.source], Team(n.team, n.name, "observability")))>>))
=================================================================================
