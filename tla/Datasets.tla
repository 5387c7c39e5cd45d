-------------------------------- MODULE Datasets --------------------------------
(***************************************************************************)
(* What code, migrations and pipelines do to tables, indices, buckets and  *)
(* models (services/data_extractor.py, parsers/sql_tables.py,              *)
(* migration_parser.py, pipeline_parser.py, and the emitters of            *)
(* ingest_claims.py for them).                                             *)
(*                                                                         *)
(* What the regular expressions find in a text is given: sites, in its     *)
(* order, under the name of the form that they have.  A name that is not   *)
(* written out is <<>>; a table is <<table>>, <<schema, table>> or has     *)
(* three parts.  SQL is a sequence of clauses [verb, table, quoted], the   *)
(* FROM of a DELETE being part of its clause.                              *)
(***************************************************************************)
EXTENDS Statements

JavaFamily == {"java", "kotlin", "scala"}
Scripts == {"javascript", "typescript"}

\* _DATASET_PREFIX and dataset_key: a kind that is not listed is its own prefix
KeyPrefix == [index |-> "index", table |-> "table", collection |-> "mongo", bucket |-> "s3",
             warehouse |-> "wh", cache |-> "cache", model |-> "model", dataset |-> "s3",
             notebook |-> "pipeline"]
\* _ROLE_DIRECTION
Direction(role) == IF role \in {"writes", "declares"} THEN "provides" ELSE "consumes"
Declaring(role) == IF role = "declares" THEN [declares |-> TRUE] ELSE <<>>

\* DataSite
DataSite(kind, name, role, system) == [kind |-> kind, name |-> name, role |-> role, system |-> system]
\* The sites of a form, in the order of the text
Formed(sites, form) == SelectSeq(sites, LAMBDA s : s.form = form)
\* What is mentioned, or imported, lets the extractors look for the rest.
Mentions(file, word) == word \in file.mentions

------------------------------------------------------------------------------
(* Search indices: a site [form, verb, name]                               *)

IndexWrites == {"index", "bulk", "update", "delete", "create", "update_by_query", "delete_by_query"}
\* _es_role
IndexRole(verb) == IF verb \in IndexWrites THEN "writes" ELSE "reads"

\* _search_indices: in Python what declares an index also writes it, in JavaScript not
IndexSites(file) ==
    LET system == IF Mentions(file, "opensearch") THEN "opensearch" ELSE "elasticsearch"
        Sites(its, Role(_)) == [i \in DOMAIN its |-> DataSite("index", its[i].name, Role(its[i].verb), system)]
        InForms(forms) == SelectSeq(file.search, LAMBDA s : s.form \in forms)
        Declares(verb) == "declares"
        Requests(verb) == IF verb = "create" THEN "declares" ELSE IndexRole(verb) IN
    IF file.language = "python" /\ Mentions(file, "search client")
    THEN Sites(InForms({"call", "indices"}), IndexRole) \o Sites(InForms({"indices"}), Declares)
    ELSE IF file.language \in Scripts /\ Mentions(file, "search client")
    THEN Sites(InForms({"call"}), IndexRole) \o Sites(InForms({"indices"}), Declares)
    ELSE IF file.language \in JavaFamily
    THEN Sites(InForms({"call"}), IndexRole) \o Sites(InForms({"request"}), Requests) \o Sites(InForms({"document"}), Declares)
    ELSE If(file.language = "go" /\ (Mentions(file, "opensearch") \/ Mentions(file, "elastic")),
            Sites(InForms({"request"}), Requests))

------------------------------------------------------------------------------
(* Object-relational mappings: a class [form, table, name], the table <<>> *)
(* if none is named                                                        *)

\* The forms of each language's frameworks, in the order they are looked for
MappingForms(language) ==
    IF language = "python" THEN <<"__tablename__", "Table", "db_table">>
    ELSE IF language \in {"c#", "csharp"} THEN <<"[Table]", "ToTable">>
    ELSE IF language \in JavaFamily \cup Scripts \cup {"go"} THEN <<"entity">> ELSE <<>>

\* _orm_tables: what names its table comes first, then the classes that stand for theirs;
\* a Prisma model does either where it is
TableSites(file) ==
    LET Sites(its) ==
            [i \in DOMAIN its |-> DataSite("table", First(<<its[i].table, its[i].name>>), "declares", "sql")]
        Explicit(form) == SelectSeq(Formed(file.classes, form), LAMBDA c : c.table # <<>>)
        bare == SelectSeq(file.classes, LAMBDA c : c.table = <<>>) IN
    IF file.language = "prisma" THEN Sites(file.classes)
    ELSE Each(MappingForms(file.language), LAMBDA form : Sites(Explicit(form)))
         \o If(file.language \in JavaFamily \cup Scripts, Sites(bare))

------------------------------------------------------------------------------
(* SQL                                                                     *)

SqlKeywords == {"select", "from", "where", "join", "on", "set", "values", "into", "table", "if", "not",
                "exists", "only", "inner", "left", "right", "outer", "cross", "lateral", "dual", "unnest",
                "function", "procedure", "immediate", "when"}
\* parse_sql_tables: the clauses of one verb after those of another
Clauses(sql, verbs) ==
    Each(verbs, LAMBDA v : SelectSeq(sql, LAMBDA c : c.verb = v /\ c.table # <<>> /\ c.table[1] \notin SqlKeywords))

\* _sql_sites: SQL is a file of it, or the literals that begin with a statement's verb
SqlSites(file) ==
    LET system == IF Mentions(file, "snowflake") THEN "snowflake"
                  ELSE IF Mentions(file, "cassandra") THEN "cassandra" ELSE "sql"
        kind == IF system = "snowflake" THEN "warehouse" ELSE "table"
        Site(clause, role) ==
            IF clause.quoted /\ Len(clause.table) = 3 THEN DataSite("warehouse", clause.table, role, "bigquery")
            ELSE DataSite(kind, clause.table, role, system)
        Sites(its, role) == [i \in DOMAIN its |-> Site(its[i], role)]
        procedures(sql) == Clauses(sql, <<"call">>) IN
    Each(file.sql, LAMBDA sql :
        Sites(Clauses(sql, <<"from", "join">>), "reads")
        \o Sites(Clauses(sql, <<"insert", "update", "delete">>), "writes")
        \o [i \in DOMAIN procedures(sql) |-> DataSite("table", procedures(sql)[i].table, "reads", system)])

------------------------------------------------------------------------------
(* Other stores: a site [form, verb, name], the verb being that of the     *)
(* call which is chained to it, "" if there is none                        *)

\* The verbs, each in one of its spellings; of Dynamo as they are
MongoReads == {"find", "findOne", "aggregate", "count", "distinct", "watch"}
MongoWrites == {"insertOne", "updateOne", "replaceOne", "deleteOne", "bulkWrite", "save"}
DynamoReads == {"get_item", "query", "scan", "batch_get_item", "Get", "Query", "Scan", "BatchGetItem"}
RedisReads == {"get", "hget", "hgetall"}

\* _nosql: of the properties of a Mongo database those are collections that a known verb is
\* called of; Dynamo reads unless it is known to write, commands write unless known to read
NosqlSites(file) ==
    LET Sites(form, kind, system, Role(_)) ==
            LET its == Formed(file.stores, form) IN
            [i \in DOMAIN its |-> DataSite(kind, its[i].name, Role(its[i].verb), system)]
        MongoRole(verb) == IF verb \in MongoWrites THEN "writes" ELSE "reads"
        properties == SelectSeq(Formed(file.stores, "property"), LAMBDA s : s.verb \in MongoReads \cup MongoWrites)
        DynamoRole(verb) == IF verb \in {""} \cup DynamoReads THEN "reads" ELSE "writes"
        CommandRole(verb) == IF verb \in DynamoReads THEN "reads" ELSE "writes"
        Declares(verb) == "declares"
        RedisRole(verb) == IF verb \in RedisReads THEN "reads" ELSE "writes" IN
    If(Mentions(file, "mongo"),
       Sites("collection", "collection", "mongo", MongoRole)
       \o [i \in DOMAIN properties |->
              DataSite("collection", properties[i].name, MongoRole(properties[i].verb), "mongo")]
       \o Sites("subscript", "collection", "mongo", MongoRole))
    \o If(Mentions(file, "dynamo"),
          Sites("Table", "table", "dynamo", DynamoRole) \o Sites("Command", "table", "dynamo", CommandRole)
          \o Sites("DynamoDBTable", "table", "dynamo", Declares))
    \o If(Mentions(file, "redis"), Sites("prefix", "cache", "redis", RedisRole))

S3Reads == {"get_object", "download_file", "head_object", "list_objects", "GetObject", "HeadObject", "ListObjects"}
\* _object_storage: a bucket is read, unless what is called of it writes
BucketSites(file) ==
    LET Sites(form, system, Role(_)) ==
            LET its == Formed(file.stores, form) IN
            [i \in DOMAIN its |-> DataSite("bucket", its[i].name, Role(its[i].verb), system)]
        CallRole(verb) == IF verb \in S3Reads THEN "reads" ELSE "writes"
        Chained(verb) == IF verb \in {"upload", "put", "delete"} THEN "writes" ELSE "reads"
        Near(verb) == IF verb \in {"upload", "write", "delete"} THEN "writes" ELSE "reads" IN
    If(Mentions(file, "s3"),
       Sites("Bucket=", "s3", CallRole) \o Sites("file, bucket", "s3", CallRole)
       \o Sites("Bucket", "s3", Chained) \o Sites("BucketCommand", "s3", CallRole))
    \o If(Mentions(file, "gcs"), Sites("bucket", "gcs", Near))

\* extract_data_sites: of the same site the first
DataSites(file) ==
    Once(IndexSites(file) \o TableSites(file) \o SqlSites(file) \o NosqlSites(file) \o BucketSites(file))

\* emit_data_site_claims
DataStatements(file) ==
    LET named == SelectSeq(DataSites(file), LAMBDA s : s.name # <<>>)
        Scope(s) == IF s.system = "dynamo" /\ s.kind = "table" THEN "dynamo" ELSE KeyPrefix[s.kind]
        Says(s) ==
            About(<<"data", s.system, s.role>> \o s.name,
               With(Declaring(s.role),
                    Say(IF s.kind \in {"table", "collection"} THEN "db" ELSE "dataset",
                        Direction(s.role), Scope(s), s.name))) IN
    [i \in DOMAIN named |-> Says(named[i])]

------------------------------------------------------------------------------
(* Migrations: a change [op, table], of Django with a model, its op being  *)
(* "create", "drop" or, for all else that is done to a table, "alter"      *)

HasRun(path, run) == \E i \in 0 .. Len(path) - Len(run) : SubSeq(path, i + 1, i + Len(run)) = run

\* _detect: which framework's a path is; its file's name has an extension and is that of a
\* version, as "version" says
Framework(file) ==
    LET dirs == Range(Directory(file.path)) IN
    IF file.version = "flyway" \/ (HasRun(file.path, <<"db", "migration">>) /\ file.extension = "sql") THEN "flyway"
    ELSE IF HasRun(file.path, <<"prisma", "migrations">>) /\ file.extension = "sql" THEN "prisma"
    ELSE IF HasRun(file.path, <<"db", "migrate">>) /\ file.extension = "rb" THEN "rails"
    ELSE IF "versions" \in dirs /\ file.extension = "py" THEN "alembic"
    ELSE IF "migrations" \in dirs /\ file.version = "number" /\ file.extension = "py" THEN "django"
    ELSE IF "migrations" \in dirs /\ file.version = "number" /\ file.extension = "cs" THEN "ef"
    ELSE IF (file.version = "changelog" \/ HasRun(file.path, <<"db", "changelog">>))
            /\ file.extension \in {"xml", "yaml", "yml"} THEN "liquibase" ELSE ""

\* What counts of a file: of Alembic only what comes before downgrade(); of Liquibase the
\* XML, then the YAML
Changes(file) ==
    IF Framework(file) = "alembic" THEN SelectSeq(file.changes, LAMBDA c : ~c.downgrade)
    ELSE IF Framework(file) = "liquibase" THEN Formed(file.changes, "xml") \o Formed(file.changes, "yaml")
    ELSE file.changes
\* parse_migration: Django's model is its table unless that is named; SQL is a file of it,
\* or within that of Liquibase
Migrated(file, op) ==
    LET its == SelectSeq(Changes(file), LAMBDA c : c.op = op)
        sql == Each(file.sql, LAMBDA s : Clauses(s, <<op>>)) IN
    [i \in DOMAIN its |-> First(<<its[i].table, Get(its[i], "model", <<>>)>>)]
    \o If(Framework(file) \in {"flyway", "prisma", "liquibase"}, [i \in DOMAIN sql |-> sql[i].table])

\* emit_migration_claims: what is only dropped is nobody's
MigrationStatements(file) ==
    LET tables == Once(Migrated(file, "create") \o Migrated(file, "alter")) IN
    If(Framework(file) # "",
       [i \in DOMAIN tables |->
           About(<<"migration", Framework(file)>> \o tables[i],
              With([declares |-> TRUE], Say("db", "provides", "table", tables[i])))])

------------------------------------------------------------------------------
(* Pipelines: [framework, name, datasets, depends], a dataset [name, role, *)
(* kind, topic]; a pipeline that has no name is <<>>, and a reference to   *)
(* another a path                                                          *)

Dataset(name, role, kind) == [name |-> name, role |-> role, kind |-> kind, topic |-> FALSE]
\* _table_kind
TableKind(name) == IF Len(name) = 3 THEN "warehouse" ELSE "table"
Pipeline(framework, name, datasets, depends) ==
    <<[framework |-> framework, name |-> name, datasets |-> datasets, depends |-> depends]>>

\* _sql_datasets: what a statement writes, then what it reads
SqlWrites == {"insert", "merge", "update", "delete", "truncate", "copy", "create"}
Stopwords == {<<w>> : w \in {"select", "values", "where", "dual", "unnest", "lateral", "directory"}}
SqlDatasets(sql) ==
    LET Clause(verbs) == SelectSeq(sql, LAMBDA c : c.verb \in verbs /\ c.table \notin Stopwords)
        Sets(its, role) == [i \in DOMAIN its |-> Dataset(its[i].table, role, TableKind(its[i].table))] IN
    Once(Sets(Clause(SqlWrites), "writes") \o Sets(Clause({"from", "join"}), "reads"))

\* extract_spark_datasets, of sites [form, name, chain, sql], the chain's role being "" if
\* nothing in it says whether it reads: what no chain tells is left out, but a topic
\* without one is written
SparkDatasets(file) ==
    LET Said(form) == Formed(file.spark, form)
        Sets(its, Role(_), KindOf(_)) ==
            [i \in DOMAIN its |-> Dataset(its[i].name, Role(its[i]), KindOf(its[i].name))]
        Reads(s) == "reads"
        Writes(s) == "writes"
        Declares(s) == "declares"
        ByChain(s) == s.chain
        Plain(name) == "dataset"
        Told(form) == SelectSeq(Said(form), LAMBDA s : s.chain # "")
        Streams(its, Role(_)) ==
            [i \in DOMAIN its |-> [Dataset(its[i].name, Role(its[i]), "dataset") EXCEPT !.topic = TRUE]]
        OrWrites(s) == IF s.chain = "" THEN "writes" ELSE s.chain IN
    FirstBy(Sets(Said("table"), Reads, TableKind) \o Sets(Said("saveAsTable"), Writes, TableKind)
            \o Sets(Told("path"), ByChain, Plain) \o Sets(Told("dbtable"), ByChain, TableKind)
            \o If(Mentions(file, "kafka"), Streams(Said("subscribe"), Reads) \o Streams(Said("topic"), OrWrites))
            \o Each(Said("sql"), LAMBDA s : SqlDatasets(s.sql))
            \o Sets(Said("registered_model_name"), Declares, Plain) \o Sets(Said("register_model"), Declares, Plain),
            LAMBDA d : <<d.name, d.role, d.kind>>)

\* parse_dbt_project, parse_dbt_model and parse_dbt_sources: a model is its file's stem and
\* reads what ref() and source() name, a package's model by its own name
DbtProject(file) == If(file.name # <<>>, Pipeline("dbt", file.name, <<>>, <<>>))
DbtModel(file) ==
    Pipeline("dbt", file.stem,
             <<Dataset(file.stem, "writes", "model")>>
             \o FirstBy([i \in DOMAIN file.refs |-> Dataset(file.refs[i], "reads", "model")]
                        \o [i \in DOMAIN file.sources |-> Dataset(file.sources[i], "reads", "table")],
                        LAMBDA d : d.name),
             <<>>)
DbtSchema(file) ==
    LET Declare(names, kind) == [i \in DOMAIN names |-> Dataset(names[i], "declares", kind)]
        tables == Each(file.sources, LAMBDA s :
                       [i \in DOMAIN s.tables |-> First(<<s.schema, s.name>>) \o s.tables[i]])
        said == Declare(tables, "table") \o Declare(file.models, "model") IN
    If(said # <<>>, Pipeline("dbt", <<>>, said, <<>>))

\* parse_airflow_dag: an operator [type, dag, bucket, schema, table, sql], what is
\* templated being <<>>; its DAG has the first name that something gives it
AirflowDag(file) ==
    LET Datasets(o) ==
            CASE o.type \in {"TriggerDagRunOperator", "ExternalTaskSensor"} -> <<>>
              [] o.type = "S3ToRedshiftOperator" ->
                    If(o.bucket # <<>>, <<Dataset(o.bucket, "reads", "dataset")>>)
                    \o If(o.table # <<>>,
                          <<Dataset(o.schema \o o.table, "writes", TableKind(o.schema \o o.table))>>)
              [] OTHER -> SqlDatasets(o.sql)
        waits == SelectSeq(file.operators, LAMBDA o :
                     o.type \in {"TriggerDagRunOperator", "ExternalTaskSensor"} /\ o.dag # <<>>) IN
    Pipeline("airflow", First(<<file.dagId, file.leading, file.decorated, file.function>>),
             Once(Each(file.operators, Datasets)), Once([i \in DOMAIN waits |-> waits[i].dag]))

\* parse_databricks_bundle: the notebooks and files that the tasks of jobs run, then those
\* of pipelines, of the resources and of each target's; what a variable is in is left out
BundlePipeline(file) ==
    If(file.name # <<>> \/ file.blocks # <<>>,
       Pipeline("databricks", file.name, <<>>,
                Once(SelectSeq(Each(file.blocks, LAMBDA b : FlattenSeq(b.tasks \o b.libraries)),
                               LAMBDA p : p # <<>> /\ "${}" \notin Range(p)))))

\* parse_databricks_notebook: which notebooks it runs, the datasets of its Spark code, and
\* of Delta Live Tables the tables it defines and reads
Notebook(file) ==
    LET live == Mentions(file, "dlt")
        tables == Formed(file.live, "table")
        reads == Formed(file.live, "read") IN
    Pipeline(IF live THEN "dlt" ELSE "databricks", file.stem,
             FirstBy(SparkDatasets(file)
                     \o If(live, [i \in DOMAIN tables |->
                                     Dataset(First(<<tables[i].name, tables[i].function>>), "writes", "table")]
                                 \o [i \in DOMAIN reads |-> Dataset(reads[i].name, "reads", "table")]),
                     LAMBDA d : <<d.name, d.role, d.kind>>),
             Once(file.magic \o file.runs))

\* is_pipeline_file and emit_pipeline_claims: a topic is a dataset too, under a bucket's key
PipelineOf(file) ==
    CASE file.pipeline = "dbt-project" -> DbtProject(file)
      [] file.pipeline = "dbt-model" -> DbtModel(file)
      [] file.pipeline = "dbt-schema" -> DbtSchema(file)
      [] file.pipeline = "airflow" -> AirflowDag(file)
      [] file.pipeline = "databricks-bundle" -> BundlePipeline(file)
      [] file.pipeline = "databricks-notebook" -> Notebook(file)
DatasetStatements(pipeline, d) ==
    <<About(<<"pipe", pipeline.framework, d.role>> \o d.name,
         With(Declaring(d.role), Say("dataset", Direction(d.role), KeyPrefix[d.kind], d.name)))>>
    \o If(d.topic,
          <<About(<<"pipe", pipeline.framework, "kafka">> \o d.name,
               Say("topic", IF d.role = "reads" THEN "consumes" ELSE "provides", "kafka", d.name))>>)
PipelineStatements(file) ==
    Each(PipelineOf(file), LAMBDA p :
        LET named == SelectSeq(p.datasets, LAMBDA d : d.name # <<>>)
            Other(direction, subject, name, attrs) ==
                About(<<"pipe", p.framework>> \o subject \o name, With(attrs, Say("dataset", direction, "pipeline", name))) IN
        Each(named, LAMBDA d : DatasetStatements(p, d))
        \o If(p.name # <<>>, <<Other("provides", <<>>, p.name, [declares |-> TRUE])>>)
        \o [i \in DOMAIN p.depends |-> Other("consumes", <<"dep">>, <<Last(p.depends[i])>>, <<>>)])
=================================================================================
