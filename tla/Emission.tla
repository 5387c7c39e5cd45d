--------------------------------- MODULE Emission ---------------------------------
(***************************************************************************)
(* From the files of a repository's tree to its claims, as the link run    *)
(* loads them (services/file_parse.py, parsers/parser_registry.py,         *)
(* ingest_artifacts.py): which parsers a file has, in which order what     *)
(* they found is said, and what comes of a file that cannot be parsed.     *)
(*                                                                         *)
(* A file is [path, marked, overlay, ...] with a field for each parser     *)
(* that is for it and did not raise, the documents that it gave; "source"  *)
(* has the errors of the parse too.  One that is too large, cannot be      *)
(* read, is not parsed in time or makes the parse raise has a "fate".      *)
(***************************************************************************)
EXTENDS Sources, Gateways, Packages, Owners, Naming

CONSTANT TreeFiles       \* of each repository, the trees its scans may find: their files, in order

\* _parse_one_file: symbols are not trusted of a source file with errors, and the calls,
\* which are looked for in its text, are; then what each of the other parsers found
SourceSays(repo, file) ==
    SourceStatements(repo, file.source @@ [path |-> file.path, marked |-> file.marked],
                     IF file.source.errors THEN <<>> ELSE file.source.endpoints)
OthersSay(repo, file) ==
    LET Said(parser, statements) == If(parser \in DOMAIN file, statements)
        migration == file.migration @@ [path |-> file.path] IN
    Said("dependencies", DependencyStatements(file.dependencies))
    \o Said("config", ConfigStatements(file.config))
    \o Said("docker", ComposeStatements(repo, file.docker))
    \o Said("kubernetes", K8sStatements(repo, file, file.kubernetes))
    \o Said("iac", TerraformStatements(file, file.iac))
    \o Said("proto", RpcStatements(file.proto)) \o Said("buf", BufStatements(file.buf))
    \o Said("graphql", GraphqlStatements(file.graphql))
    \o Said("asyncapi", AsyncApiStatements(file.asyncapi))
    \o Said("mcp_manifest", ManifestStatements(file.path, file.mcp_manifest))
    \o Said("avro", AvroStatements(file.avro))
    \o Said("publish", PublishStatements(file.publish))
    \o Said("gateway", GatewayStatements(file.gateway))
    \o Said("codeowners", CodeownersStatements(file.path, file.codeowners))
    \o Said("catalog", CatalogStatements(file.catalog))
    \o Said("observability", ObservabilityStatements(file.observability))
    \o Said("pipeline", PipelineStatements(file.pipeline))
    \o If("source" \notin DOMAIN file, Said("migration", MigrationStatements(migration)))
    \o Said("mcp_config", McpConfigStatements(file.mcp_config))
    \o Said("agent_card", CardStatements(file.agent_card))
    \o Said("cron", CronStatements(file.cron)) \o Said("iac_units", UnitStatements(file.iac_units))
    \o Said("openapi", OpenApiStatements(file.openapi))
FileStatements(repo, file) ==
    If("fate" \notin DOMAIN file,
       If("source" \in DOMAIN file, SourceSays(repo, file)) \o OthersSay(repo, file))

\* parse_files: file after file into one sink; the claims of two files have not the same identity
ParseFile(repo, file) ==
    FoldLeft(LAMBDA claims, s : AddClaim(repo, file.path, claims, s), <<>>, FileStatements(repo, file))
ParseFiles(repo, files) == Each(files, LAMBDA file : ParseFile(repo, file))

\* An identity is a number here, the same one in every scan.
Scanned == [repo \in DOMAIN TreeFiles |-> [t \in DOMAIN TreeFiles[repo] |-> ParseFiles(repo, TreeFiles[repo][t])]]
ScannedTrees ==
    LET trees == Scanned
        all == FoldSet(LAMBDA r, claims : claims \o FlattenSeq(trees[r]), <<>>, DOMAIN trees)
        Number(claim) == SelectInSeq(all, LAMBDA c : ClaimId(c) = ClaimId(claim)) IN
    [r \in DOMAIN trees |->
        [t \in DOMAIN trees[r] |->
            Each(trees[r][t], LAMBDA claim : <<[id |-> Number(claim)] @@ claim>>)]]
==================================================================================
