-------------------------------- MODULE Statements --------------------------------
(***************************************************************************)
(* What a file may say, and what is kept of it (services/claims.py,        *)
(* claim_sink.py, file_classifier.py, redaction.py, ingest_config_defs.py: *)
(* the identity of a claim, the gate that every claim passes, whether it   *)
(* may be joined, and what of a value survives its redaction.              *)
(*                                                                         *)
(* As in Names, a name is the sequence of its labels, in lower case, a     *)
(* path that of its segments, and a claim's key is a scope and a name.     *)
(* Lines are left out: no identity has one.                                *)
(***************************************************************************)
EXTENDS Names

CONSTANTS
    VendorDirs, TestDirs, GeneratedDirs,   \* of file_classifier, a NuGet restore folder's too
    TestFiles, GeneratedFiles,             \* the file names its patterns match
    SecretKeys,      \* the variables of is_secret_key
    EndpointKeys,    \* the variables of looks_like_endpoint_var
    TopicKeys,       \* the Helm keys of _topicish_key
    GenericVariables, \* GENERIC_ENV_NAMES
    Environments     \* ENVIRONMENT_TOKENS

Get(record, field, default) == IF field \in DOMAIN record THEN record[field] ELSE default
First(names) == LET said == SelectSeq(names, LAMBDA n : n # <<>>) IN IF said = <<>> THEN <<>> ELSE said[1]
Each(items, Says(_)) == FlattenSeq([i \in DOMAIN items |-> Says(items[i])])
OrRoot(paths) == IF paths = <<>> THEN << <<>> >> ELSE paths
FirstBy(items, Key(_)) ==
    FoldLeft(LAMBDA kept, x : IF \E i \in DOMAIN kept : Key(kept[i]) = Key(x) THEN kept ELSE Append(kept, x),
             <<>>, items)
Once(items) == FirstBy(items, LAMBDA x : x)
If(condition, statements) == IF condition THEN statements ELSE <<>>

------------------------------------------------------------------------------
(* Where a file is.  A file is [path, overlay, marked, ...]: "overlay" is   *)
(* what follows "values-" in its name, and "marked" that it says in its     *)
(* first lines that it is generated.                                       *)

\* classify(path, content).reason; the marker of generated code is in the content
Class(path, marked) ==
    LET dirs == Range(Directory(path)) IN
    IF dirs \cap VendorDirs # {} THEN "vendored"
    ELSE IF dirs \cap TestDirs # {} \/ Last(path) \in TestFiles THEN "test"
    ELSE IF dirs \cap GeneratedDirs # {} \/ Last(path) \in GeneratedFiles \/ marked THEN "generated"
    ELSE ""

SourceTrees == {"src", "test", "tests", "internal", "pkg", "cmd", "lib", "app", "main", "java",
                "kotlin", "resources", "node_modules", "vendor", "target", "build"}
DeployTrees == {"overlays", "environments", "envs", "env", "deploy", "deployment", "deployments",
                "k8s", "kubernetes", "manifests", "helm", "charts", "infra", "infrastructure",
                "terraform", "argocd", "flux", "gitops", "clusters", "config"}

\* _environment_of: as declared, or as a values file's name says, or the first directory
\* that a deployment tree has for one, or else the namespace
EnvironmentOf(file, declared, namespace) ==
    LET path == file.path
        Above(i) == IF i = 1 THEN "" ELSE path[i - 1]
        named == {i \in 1 .. Len(path) : /\ path[i] \in Environments
                                         /\ i = Len(path) => i = 1
                                         /\ Above(i) \notin SourceTrees
                                         /\ i = 1 \/ Above(i) \in DeployTrees \cup Environments} IN
    IF declared # "" THEN declared
    ELSE IF file.overlay \in Environments THEN file.overlay
    ELSE IF named # {} THEN path[Min(named)]
    ELSE IF namespace = "default" THEN "" ELSE namespace

------------------------------------------------------------------------------
(* What is left of a value.  A value is [shape, host, text, ref, default]: *)
(* its shape is the class it would have under a key that is no secret's,   *)
(* "random" if it looks like one; "ref" is the Helm value it stands for,   *)
(* and "default" what a ${VAR:-...} would be, if that is a value.          *)

\* redact, with _classify_url
Redacted(key, value) ==
    LET class == IF value.shape = "empty" THEN "opaque"
                 ELSE IF key \in SecretKeys THEN "secret"
                 ELSE IF value.shape = "random" THEN "secret" ELSE value.shape IN
    [value_class |-> class, value_hmac |-> value.text,
     value_host |-> IF class \in {"url", "hostname"} THEN value.host ELSE <<>>]

\* What emit_env_binding and emit_config_object keep: a value, and where Helm has it
HelmRef(value) == IF value.ref = "" THEN <<>> ELSE [helm_ref |-> value.ref]
Kept(key, value) == HelmRef(value) @@ Redacted(key, value)

\* A host that names a service of the same file has no dots.
IsServiceHost(domain) == Len(domain) = 1

------------------------------------------------------------------------------
(* A statement: [kind, direction, scope, name, hint, hint_source, subject, *)
(* at, provenance], the object that makes it being its subject             *)

Say(kind, direction, scope, name) ==
    [kind |-> kind, direction |-> direction, scope |-> scope, name |-> name, hint |-> <<>>,
     hint_source |-> "none", subject |-> <<>>, at |-> <<>>, provenance |-> ""]
By(hint, source, statement) == [statement EXCEPT !.hint = hint, !.hint_source = source]
About(subject, statement) == [statement EXCEPT !.subject = subject]
With(attrs, statement) == [statement EXCEPT !.at = attrs]
From(provenance, statement) == [statement EXCEPT !.provenance = provenance]

\* svcname_key and its hint
Service(direction, scope, name, source) == By(name, source, Say("svcname", direction, scope, name))

\* A route [prefix, target, strip, rewrite], as every gateway's claims have it: it may strip
\* segments and has no rewrite (<<>>) or one (<<path>>), and nothing says by what a rewrite
\* replaces: what configurations have as the new path is the pattern that r4_gateway removes
RouteAt(route) ==
    [target |-> route.target, path_prefix |-> route.prefix, strip_prefix |-> route.strip,
     rewrite |-> route.rewrite, broken |-> Get(route, "broken", FALSE)]
RouteKey(prefix, target) == prefix \o <<"->">> \o target

\* is_unrendered_template, and the placeholders of _UNRESOLVABLE, as labels
Templates == {"{{}}", "${}"}
Unresolvable == {"${}"}

\* ContractClaim.id: never a line
ClaimId(claim) ==
    <<claim.repo, claim.kind, claim.direction, claim.scope, claim.name, claim.path, claim.subject>>

\* ContractClaim.matchable
Matchable(claim) ==
    /\ claim.provenance \notin {"test", "vendored", "spec"}
    /\ claim.kind = "topic" => claim.name # <<>>
    /\ Unresolvable \cap ({claim.scope} \cup Range(claim.name)) = {}

Rejected(statement) ==
    /\ statement.kind \in {"svcname", "image"}
    /\ Templates \cap Range(IF statement.hint # <<>> THEN statement.hint ELSE statement.name) # {}

\* add_claim: the provenance is stamped here, and of one identity the first claim is kept
AddClaim(repo, path, claims, statement) ==
    LET claim == [statement EXCEPT !.provenance = IF @ = "" THEN Class(path, FALSE) ELSE @]
                 @@ [repo |-> repo, path |-> path, node |-> TRUE] IN
    IF Rejected(statement) \/ \E i \in DOMAIN claims : ClaimId(claims[i]) = ClaimId(claim)
    THEN claims ELSE Append(claims, [matchable |-> Matchable(claim)] @@ claim)
===================================================================================
