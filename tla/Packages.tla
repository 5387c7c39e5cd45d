-------------------------------- MODULE Packages --------------------------------
(***************************************************************************)
(* The packages that manifests, lockfiles and bills of materials name      *)
(* (parsers/dependency_parser.py, services/ingest_deps.py): under which    *)
(* coordinate a repository depends on each, and publishes its own.         *)
(*                                                                         *)
(* A name is its segments: the scope and the name of an npm package, the   *)
(* group and the artifact of a Maven one, the path of a Go module; so may  *)
(* a namespace be, which some names have within them.  A repository's URL  *)
(* ("git") is <<>> if an entry has none.  Scopes, licences and how a       *)
(* version is spelled are left out.                                        *)
(***************************************************************************)
EXTENDS Statements

Dep(type, ecosystem, entry) ==
    [type |-> type, ecosystem |-> ecosystem, name |-> entry.name, namespace |-> Get(entry, "namespace", <<>>),
     version |-> entry.version, git |-> Get(entry, "git", <<>>), resolved |-> FALSE]
Locked(dep) == [dep EXCEPT !.resolved = TRUE]
Deps(type, entries) == [i \in DOMAIN entries |-> Dep(type, type, entries[i])]
LockedDeps(type, entries) == [i \in DOMAIN entries |-> Locked(Dep(type, type, entries[i]))]

\* Of entries of one name and version the first
Distinct(deps) == FirstBy(deps, LAMBDA d : <<d.name, d.version>>)

------------------------------------------------------------------------------
(* npm                                                                     *)

\* parse_package_json
PackageJson(file) ==
    Each(<<"dependencies", "devDependencies", "peerDependencies", "optionalDependencies">>,
         LAMBDA section : Deps("npm", Get(file, section, <<>>)))

\* parse_package_lock: neither the root, nor links, nor a workspace's own directories; the
\* first version of the format nests what an entry has of its own
RECURSIVE Nested(_)
Nested(entries) == Each(entries, LAMBDA e : <<e>> \o Nested(Get(e, "dependencies", <<>>)))
PackageLock(file) ==
    Distinct(LockedDeps("npm",
        IF file.version = 1 THEN Nested(file.dependencies)
        ELSE SelectSeq(file.packages, LAMBDA e : e.installed /\ ~e.link)))

\* parse_pnpm_lock and parse_yarn_lock: an entry without a version is none
PnpmLock(file) == Distinct(LockedDeps("npm", SelectSeq(file.packages, LAMBDA e : e.version # "")))
YarnLock(file) == Distinct(LockedDeps("npm", SelectSeq(file.entries, LAMBDA e : e.version # "")))

------------------------------------------------------------------------------
(* Python: a requirement is [form, name, version, git], its form that of a *)
(* name, of a URL with a name before it, of a URL alone, or of an option   *)

\* parse_requirements_txt: a name may not have a URL behind it
Requirements(file) == Deps("pypi", SelectSeq(file.lines, LAMBDA r : r.form \in {"named", "url"}))
\* parse_pyproject_toml: there it may; then the sections of Poetry
Pyproject(file) ==
    Deps("pypi", SelectSeq(file.dependencies \o file.optional, LAMBDA r : r.form \in {"named", "direct"}))
    \o Deps("pypi", SelectSeq(FlattenSeq(file.poetry), LAMBDA r : r.name # <<"python">>))
PoetryLock(file) == LockedDeps("pypi", SelectSeq(file.packages, LAMBDA e : e.name # <<>>))

------------------------------------------------------------------------------
(* Java: a POM [parent, properties, group, artifact, dependencies], a      *)
(* parent or a dependency [group, artifact, version]; "${}" followed by a  *)
(* name is a property, which properties say the value of                   *)

\* _analyze_pom: a project is of its parent's group unless it has one
PomGroup(pom) == IF pom.group # "" THEN pom.group ELSE pom.parent.group
Properties(pom) == pom.properties @@ ("${project.groupId}" :> PomGroup(pom))
\* _resolve_pom_value
PomValue(pom, value) ==
    FoldLeft(LAMBDA v, i : IF v \in DOMAIN Properties(pom) THEN Properties(pom)[v] ELSE v, value, <<1, 2, 3, 4, 5>>)

\* parse_pom_xml, _walk_pom_deps: what is managed is named too
Pom(file) ==
    LET named == SelectSeq(file.dependencies, LAMBDA d : d.group # "" /\ d.artifact # "")
        Maven(group, id, number) ==
            Dep("maven", "maven", [name |-> <<group, id>>, namespace |-> <<group>>, version |-> number]) IN
    If(file.parent.group # "" /\ file.parent.artifact # "",
       <<Maven(file.parent.group, file.parent.artifact, file.parent.version)>>)
    \o [i \in DOMAIN named |-> Maven(PomValue(file, named[i].group), PomValue(file, named[i].artifact),
                                     PomValue(file, named[i].version))]

\* parse_build_gradle: an entry [form, name, version] in the order of the file.  The version
\* of a string's coordinates is part of its name; a project has no ecosystem, and a catalog's
\* entry is named as it is referred to.
Gradle(file) ==
    LET Text(e) == IF e.version = "" THEN e.name ELSE e.name \o <<e.version>>
        Says(e) ==
            IF e.form = "project" THEN Dep("gradle", "", e)
            ELSE IF e.form = "catalog" THEN Dep("gradle-catalog-ref", "maven", e)
            ELSE [Dep("gradle", "maven", e) EXCEPT !.name = Text(e), !.namespace = <<e.name[1]>>]
        said == SelectSeq(file.entries, LAMBDA e : e.form \in {"string", "platform"} => Len(e.name) > 1) IN
    [i \in DOMAIN said |-> Says(said[i])]
\* parse_gradle_versions_catalog
Catalog(file) == Deps("maven", SelectSeq(file.libraries, LAMBDA l : l.name # <<>>))

------------------------------------------------------------------------------
(* Go, .NET, Ruby, PHP, Rust and Bazel                                     *)

\* parse_go_mod: what replaces a module has the place of its repository
GoMod(file) ==
    [i \in DOMAIN file.entries |->
        LET e == file.entries[i] IN
        [Dep("go", "golang", e) EXCEPT !.git = IF e.form = "replace" THEN e.to ELSE <<>>]]
\* parse_go_sum: a module's line, not that of its go.mod
GoSum(file) ==
    LET modules == SelectSeq(file.lines, LAMBDA l : ~l.gomod) IN
    Distinct([i \in DOMAIN modules |-> Locked(Dep("go", "golang", modules[i]))])

\* parse_csproj: a project it refers to has no ecosystem
Csproj(file) ==
    LET said == SelectSeq(file.items, LAMBDA e : e.name # <<>>) IN
    [i \in DOMAIN said |-> Dep("nuget", IF said[i].project THEN "" ELSE "nuget", said[i])]
\* parse_directory_packages_props
PackagesProps(file) == Deps("nuget", SelectSeq(file.items, LAMBDA e : e.name # <<>>))

\* parse_gemfile, parse_gemfile_lock: the gems of a repository are of its section
Gemfile(file) == Deps("gem", file.gems)
GemfileLock(file) ==
    LET known == SelectSeq(file.sections, LAMBDA s : s.section \in {"GEM", "GIT", "PATH"}) IN
    Each(known, LAMBDA s :
         [i \in DOMAIN s.specs |->
             [Locked(Dep("gem", "gem", s.specs[i])) EXCEPT !.git = IF s.section = "GIT" THEN s.remote ELSE <<>>]])

\* parse_composer_json: a platform is no package, and a vendor is in the name and before it
Composer(file) ==
    LET packages == SelectSeq(file.require \o file.requireDev, LAMBDA e : ~e.platform) IN
    [i \in DOMAIN packages |->
        [Dep("composer", "composer", packages[i]) EXCEPT
            !.namespace = IF Len(packages[i].name) > 1 THEN <<packages[i].name[1]>> ELSE <<>>]]

\* parse_cargo_toml, parse_cargo_lock: a crate of the same workspace has no ecosystem
CargoToml(file) ==
    LET entries == file.dependencies \o file.devDependencies \o file.buildDependencies IN
    [i \in DOMAIN entries |->
        LET e == entries[i] IN
        Dep("cargo", IF Get(e, "path", FALSE) /\ Get(e, "git", <<>>) = <<>> THEN "" ELSE "cargo", e)]
CargoLock(file) == LockedDeps("cargo", SelectSeq(file.packages, LAMBDA e : e.name # <<>>))

\* parse_bazel_module: the modules, then the repositories; neither has an ecosystem
Bazel(file) ==
    LET named == SelectSeq(file.modules \o file.repositories, LAMBDA e : e.name # <<>>) IN
    [i \in DOMAIN named |-> Dep("bazel", "", named[i])]

------------------------------------------------------------------------------
(* Bills of materials: a component [described, group, name, version, purl],*)
(* a purl [ecosystem, namespace, name, version]                            *)

\* _sbom_join_name, parse_sbom: what a CycloneDX component does not say its purl does; an
\* SPDX package has its group from the purl, and the root it describes is none
Sbom(file) ==
    LET cyclone == file.bom = "CycloneDX"
        NameOf(c) == First(<<c.name>> \o If(cyclone, <<c.purl.name>>))
        Spaced(c) == First(If(cyclone, <<c.group>>) \o <<c.purl.namespace>>)
        Joined(c) == IF c.purl.ecosystem \in {"maven", "npm"} /\ Len(NameOf(c)) = 1 THEN Spaced(c) \o NameOf(c) ELSE NameOf(c)
        named == SelectSeq(file.components, LAMBDA c : NameOf(c) # <<>> /\ (cyclone \/ ~c.described)) IN
    [i \in DOMAIN named |->
        Locked(Dep("sbom", named[i].purl.ecosystem,
                   [name |-> Joined(named[i]), namespace |-> Spaced(named[i]), version |-> named[i].version]))]

------------------------------------------------------------------------------
(* What a repository publishes: [ecosystem, namespace, name, private]      *)

Publication(ecosystem, namespace, name, private) ==
    If(name # <<>>, <<[ecosystem |-> ecosystem, namespace |-> namespace, name |-> name, private |-> private]>>)

\* parse_publish_identity: a Gradle build's is not known, and a C# project has its file's
\* name if it has no other
Published(file) ==
    IF file.format = "pom.xml"
    THEN If(file.artifact # "",
            Publication("maven", <<PomValue(file, PomGroup(file))>>, <<file.artifact>>, FALSE))
    ELSE IF file.format = "package.json" THEN Publication("npm", <<>>, file.name, file.private)
    ELSE IF file.format = "pyproject.toml" THEN Publication("pypi", <<>>, First(<<file.name, file.poetryName>>), FALSE)
    ELSE IF file.format = "go.mod" THEN Publication("golang", <<>>, file.module, FALSE)
    ELSE IF file.format = "cargo.toml" THEN Publication("cargo", <<>>, file.name, file.private)
    ELSE IF file.format = "csproj"
    THEN Publication("nuget", <<>>, First(<<file.packageId, file.assembly, file.stem>>), ~file.packable)
    ELSE If(file.format = "gemspec", Publication("gem", <<>>, file.name, FALSE))

\* parse_dependency_file: which manifest each parser is for
Dependencies(file) ==
    CASE file.format = "package.json" -> PackageJson(file)
      [] file.format = "package-lock.json" -> PackageLock(file)
      [] file.format = "pnpm-lock.yaml" -> PnpmLock(file)
      [] file.format = "yarn.lock" -> YarnLock(file)
      [] file.format = "requirements.txt" -> Requirements(file)
      [] file.format = "pyproject.toml" -> Pyproject(file)
      [] file.format = "poetry.lock" -> PoetryLock(file)
      [] file.format = "pom.xml" -> Pom(file)
      [] file.format = "build.gradle" -> Gradle(file)
      [] file.format = "libs.versions.toml" -> Catalog(file)
      [] file.format = "go.mod" -> GoMod(file)
      [] file.format = "go.sum" -> GoSum(file)
      [] file.format = "csproj" -> Csproj(file)
      [] file.format = "directory.packages.props" -> PackagesProps(file)
      [] file.format = "gemfile" -> Gemfile(file)
      [] file.format = "gemfile.lock" -> GemfileLock(file)
      [] file.format = "composer.json" -> Composer(file)
      [] file.format = "cargo.toml" -> CargoToml(file)
      [] file.format = "cargo.lock" -> CargoLock(file)
      [] file.format = "bazel" -> Bazel(file)
      [] file.format = "sbom" -> Sbom(file)
      [] OTHER -> <<>>

------------------------------------------------------------------------------
(* The claims' keys                                                        *)

\* _TYPE_ECOSYSTEMS: the ecosystem of an entry that has none
TypeEcosystem == [gradle |-> "maven", nuget |-> "nuget", cargo |-> "cargo"]
Ecosystem(dep) == IF dep.ecosystem # "" THEN dep.ecosystem ELSE Get(TypeEcosystem, dep.type, "")

\* _coordinate_key: of these three a name of several segments has its namespace within it
CoordinateName(ecosystem, namespace, name) ==
    IF ecosystem \in {"maven", "npm", "golang"} /\ Len(name) > 1 THEN name ELSE namespace \o name

\* emit_dependency_claims: what a lockfile or a bill of materials says counts if the package
\* is one's own, or has a repository
DependencyStatements(file) ==
    LET Name(d) == CoordinateName(Ecosystem(d), d.namespace, d.name)
        Counts(d) == /\ Ecosystem(d) # "" /\ d.name # <<>>
                     /\ d.resolved => d.git # <<>> \/ <<Ecosystem(d), Name(d)>> \in InternalLibs
        said == SelectSeq(Dependencies(file), Counts) IN
    [i \in DOMAIN said |->
        LET d == said[i] IN
        About(<<"dep", d.type, d.version>>,
           With([git_url |-> d.git, resolved |-> d.resolved],
                Say("lib", "consumes", Ecosystem(d), Name(d))))]

\* emit_publish_claims
PublishStatements(file) ==
    Each(Published(file), LAMBDA p :
         <<About(<<"publish", p.ecosystem>>,
              With([private |-> p.private],
                   Say("lib", "provides", p.ecosystem, CoordinateName(p.ecosystem, p.namespace, p.name))))>>)
===============================================================================
