-------------------------------- MODULE Boot --------------------------------
(***************************************************************************)
(* The persistent RDF store across boots: AntennaContext::new_with_ttl and *)
(* replace_pipeline of src/src/lib.rs, the graphs of src/src/store.rs, and *)
(* the queries by which src/src/dag.rs reads the DAG back.                 *)
(*                                                                         *)
(* A graph is a set of triples.  Each operation of RdfStore commits on its *)
(* own, and a boot may end after any of them: the process dies, or an      *)
(* operation fails and antenna_create returns null.                        *)
(***************************************************************************)
EXTENDS Naturals

CONSTANTS
    Subjects, Objects,
    Versions,      \* pipeline files
    Good,          \* those that parse
    Pipelines,     \* per version: its triples
    Builds,        \* antenna binaries that have booted on the store
    PeerScripting, \* per build: the cargo feature
    Backends,      \* per build: backend types that create_backend knows
    Parts,         \* files in DESIGN_BUNDLE
    Bundle,        \* per build and part: its triples
    Resolver,      \* per build: the triples of the theme resolver
    Emoji, Seed,   \* triples of the emoji catalog and of the radio's seed
    Docs,          \* documents written while the antenna runs, sets of triples
    MaxBoots,      \* bound on the boots of a behaviour
    None

Predicates == {"type", "source", "body", "backend", "other"}
Triples == Subjects \X Predicates \X Objects

Typed(s, class) == <<s, "type", class>>

\* No triple of a script, or of its source, without the type that
\* replace_pipeline looks for.
WellTyped(graph) ==
    /\ \A s \in Subjects, x \in Objects :
        <<s, "source", x>> \in graph => Typed(s, "ScriptNode") \in graph
    /\ \A s \in Subjects, x \in Objects :
        <<s, "body", x>> \in graph => Typed(s, "ScriptSource") \in graph

\* Triples that say nothing about scripts.
Plain(graph) ==
    \A s \in Subjects :
        /\ Typed(s, "ScriptNode") \notin graph /\ Typed(s, "ScriptSource") \notin graph
        /\ \A x \in Objects : <<s, "source", x>> \notin graph /\ <<s, "body", x>> \notin graph

\* SCRIPT_NODES_PATTERN: the solutions for ?node and ?body.
Rows(graph) ==
    {r \in Subjects \X Objects :
        /\ Typed(r[1], "ScriptNode") \in graph
        /\ \E s \in Subjects : <<r[1], "source", s>> \in graph /\ <<s, "body", r[2]>> \in graph}

\* query_semantic_routers, and whether create_backend has what they ask for.
Routers(graph) ==
    {s \in Subjects : Typed(s, "SemanticRouter") \in graph /\ \E x \in Objects : <<s, "backend", x>> \in graph}
Constructible(graph, types) ==
    \A s \in Routers(graph), x \in Objects : <<s, "backend", x>> \in graph => x \in types

ASSUME BootAssumption ==
    /\ Subjects \subseteq Objects
    /\ Good \subseteq Versions /\ None \notin Versions
    /\ Parts \in Nat /\ MaxBoots \in Nat
    /\ Pipelines \in [Versions -> SUBSET Triples]
    /\ PeerScripting \in [Builds -> BOOLEAN] /\ Backends \in [Builds -> SUBSET Objects]
    /\ Bundle \in [Builds -> [1..Parts -> SUBSET Triples]]
    /\ Resolver \in [Builds -> SUBSET Triples]
    /\ Docs \subseteq SUBSET Triples
\* Pipelines give their sources a type, as the ones in examples/ do, and each
\* node one body; the catalog and the seed say nothing about scripts.
ASSUME ScriptAssumption ==
    /\ \A v \in Versions : WellTyped(Pipelines[v])
    /\ \A v \in Versions : \A r, q \in Rows(Pipelines[v]) : r[1] = q[1] => r = q
    /\ Emoji \subseteq Triples /\ Plain(Emoji) /\ Seed \subseteq Triples /\ Plain(Seed)

\* The same of the documents written while the antenna runs.  Nothing in the
\* code asks it of them: where a property needs it, the property's comment and
\* its theorem say so.
DocsAreTyped == \A doc \in Docs : WellTyped(doc)

VARIABLES
    default,  \* the default graph
    trusted,  \* <urn:resonator:trusted-pipeline>
    theme,    \* <urn:design:theme>
    pc,       \* where new_with_ttl is; "off" and "running" outside it
    build, given, \* the binary booting and the pipeline it was given
    part,     \* files of the bundle loaded
    scripts, routers, \* what Dag::load found
    boots,
    written   \* history: triples written while an antenna ran

graphs == <<default, trusted, theme>>
run == <<build, given, scripts, routers, boots, written>>
vars == <<graphs, pc, part, run>>

Init ==
    /\ default = {} /\ trusted = {} /\ theme = {} /\ pc = "off"
    /\ build \in Builds /\ given = None /\ part = 0
    /\ scripts = {} /\ routers = {} /\ boots = 0 /\ written = {}

Goto(from, to) == pc = from /\ pc' = to
-----------------------------------------------------------------------------
(* new_with_ttl *)

Open ==
    /\ Goto("off", "clearTheme") /\ boots < MaxBoots /\ boots' = boots + 1
    /\ build' \in Builds /\ given' \in Versions \cup {None}
    /\ part' = 0 /\ scripts' = {} /\ routers' = {}
    /\ UNCHANGED <<graphs, written>>

\* Faulty variant: the graph is only ever added to.
ClearThemeSkipped ==
    /\ Goto("clearTheme", "bundle")
    /\ UNCHANGED <<graphs, part, run>>

ClearTheme ==
    /\ Goto("clearTheme", "bundle") /\ theme' = {}
    /\ UNCHANGED <<default, trusted, part, run>>

LoadBundle ==
    /\ pc = "bundle" /\ part < Parts /\ part' = part + 1
    /\ theme' = theme \cup Bundle[build][part + 1]
    /\ UNCHANGED <<default, trusted, pc, run>>

LoadResolver ==
    /\ Goto("bundle", "emoji") /\ part = Parts
    /\ theme' = theme \cup Resolver[build]
    /\ UNCHANGED <<default, trusted, part, run>>

InsertEmoji ==
    /\ Goto("emoji", IF given = None THEN "seed" ELSE "resetNodes")
    /\ default' = default \cup Emoji
    /\ UNCHANGED <<trusted, theme, part, run>>

\* DELETE WHERE { ?s a class ; ?p ?o }
Without(graph, class) == {t \in graph : Typed(t[1], class) \notin graph}

\* Faulty variant: the whole default graph goes.
ResetNodesAll ==
    /\ Goto("resetNodes", "resetSources") /\ default' = {}
    /\ UNCHANGED <<trusted, theme, part, run>>

ResetNodes ==
    /\ Goto("resetNodes", "resetSources") /\ default' = Without(default, "ScriptNode")
    /\ UNCHANGED <<trusted, theme, part, run>>

\* Faulty variant: only the nodes are reset.
ResetSourcesSkipped ==
    /\ Goto("resetSources", "insert")
    /\ UNCHANGED <<graphs, part, run>>

ResetSources ==
    /\ Goto("resetSources", "insert") /\ default' = Without(default, "ScriptSource")
    /\ UNCHANGED <<trusted, theme, part, run>>

\* A pipeline that does not parse is found out only here.
InsertPipeline ==
    /\ Goto("insert", "clearTrusted") /\ given \in Good
    /\ default' = default \cup Pipelines[given]
    /\ UNCHANGED <<trusted, theme, part, run>>

\* Faulty variant: the mirror is only ever added to.
ClearTrustedSkipped ==
    /\ Goto("clearTrusted", "insertTrusted")
    /\ UNCHANGED <<graphs, part, run>>

ClearTrusted ==
    /\ Goto("clearTrusted", "insertTrusted") /\ trusted' = {}
    /\ UNCHANGED <<default, theme, part, run>>

InsertTrusted ==
    /\ Goto("insertTrusted", "seed") /\ trusted' = trusted \cup Pipelines[given]
    /\ UNCHANGED <<default, theme, part, run>>

InsertSeed ==
    /\ Goto("seed", "dag")
    /\ \E ttl \in {{}, Seed} : default' = default \cup ttl
    /\ UNCHANGED <<trusted, theme, part, run>>

\* query_script_nodes keeps, for each node, the body of the first solution,
\* in no particular order; query_semantic_routers reads the default graph.  One
\* router without a backend and the boot fails.
LoadDag ==
    LET rows == Rows(IF PeerScripting[build] THEN default ELSE trusted)
        nodes == {r[1] : r \in rows}
    IN  /\ Goto("dag", "running") /\ Constructible(default, Backends[build])
        /\ \E first \in [nodes -> rows] :
            /\ \A n \in nodes : first[n][1] = n
            /\ scripts' = {first[n] : n \in nodes}
        /\ routers' = Routers(default)
        /\ UNCHANGED <<graphs, part, build, given, boots, written>>
-----------------------------------------------------------------------------
\* insert_with_dag, for what a peer, the radio or a script sends.
Write(doc) ==
    /\ pc = "running"
    /\ default' = default \cup doc
    /\ written' = written \cup doc
    /\ UNCHANGED <<trusted, theme, pc, part, build, given, scripts, routers, boots>>

\* The process ends, or an operation fails and with it antenna_create.
Stop ==
    /\ pc # "off" /\ pc' = "off" /\ scripts' = {} /\ routers' = {}
    /\ UNCHANGED <<graphs, part, build, given, boots, written>>

Next ==
    \/ Open \/ ClearTheme \/ LoadBundle \/ LoadResolver \/ InsertEmoji
    \/ ResetNodes \/ ResetSources \/ InsertPipeline \/ ClearTrusted \/ InsertTrusted
    \/ InsertSeed \/ LoadDag \/ Stop \/ \E doc \in Docs : Write(doc)

Spec == Init /\ [][Next]_vars
-----------------------------------------------------------------------------
Places ==
    {"off", "clearTheme", "bundle", "emoji", "resetNodes", "resetSources", "insert",
     "clearTrusted", "insertTrusted", "seed", "dag", "running"}

TypeOK ==
    /\ default \subseteq Triples /\ trusted \subseteq Triples /\ theme \subseteq Triples
    /\ pc \in Places /\ part \in 0..Parts
    /\ build \in Builds /\ given \in Versions \cup {None}
    /\ scripts \subseteq Subjects \X Objects /\ routers \subseteq Subjects
    /\ boots \in 0..MaxBoots /\ written \subseteq Triples

\* "pipeline.ttl-as-single-source-of-truth" (replace_pipeline): an antenna that
\* was given a pipeline runs its scripts with its bodies and no others, however
\* earlier boots on the same store ended, and whatever was written in between
\* as far as DocsAreTyped: a body written about a subject without a type
\* outlives the two DELETEs, and joins the pipeline that types the subject.  A
\* build without peer-scripting reads the mirror and needs no such condition.
LoadedIsGiven ==
    pc = "running" /\ given # None => scripts = Rows(Pipelines[given])

\* A build without peer-scripting runs scripts of one pipeline it was given, in
\* this boot or an earlier one, and never of two.
BundleOnly ==
    pc = "running" /\ ~PeerScripting[build] =>
        scripts = {} \/ \E v \in Good : scripts = Rows(Pipelines[v])

\* The first n files of the bundle.
Files(n) == UNION {Bundle[build][i] : i \in 1..n}

\* The theme graph of a running antenna is that of its own build, complete and
\* without what other builds left there.
ThemeIsOfBuild == pc = "running" => theme = Files(Parts) \cup Resolver[build]

\* Subjects that a pipeline or a document declares to be a script or a source.
ScriptSubject(s) ==
    \E graph \in {Pipelines[v] : v \in Versions} \cup Docs :
        Typed(s, "ScriptNode") \in graph \/ Typed(s, "ScriptSource") \in graph

\* "keeps radio-authored RDF (drafts, peer-cache, design bundle) intact"
\* (replace_pipeline): what was written about anything but a script is there at
\* every point of every later boot.
RadioDataKept == \A t \in written : ~ScriptSubject(t[1]) => t \in default

\* The single source of truth again, for semantic routers.
RoutersAreGiven ==
    pc = "running" /\ given # None =>
        routers = Routers(Pipelines[given])

\* And once more: a pipeline whose routers the build has the backends for boots,
\* whatever pipelines the store has seen.
GivenPipelineBoots ==
    pc = "dag" /\ given # None /\ Constructible(Pipelines[given], Backends[build])
        => Constructible(default, Backends[build])

-----------------------------------------------------------------------------
(* The inductive invariant behind these properties: what the boot that is  *)
(* under way can rely on, whatever the boots before it left behind.        *)

DefaultGraph ==
    /\ DocsAreTyped => WellTyped(default)
    /\ \A s \in Subjects :
        Typed(s, "ScriptNode") \in default \/ Typed(s, "ScriptSource") \in default
            => ScriptSubject(s)

\* replace_pipeline: the graph before, between and after its three steps.
Replacing ==
    /\ pc \in {"resetNodes", "resetSources", "insert", "clearTrusted", "insertTrusted"}
        => given # None
    /\ pc = "resetSources" => \A s \in Subjects : Typed(s, "ScriptNode") \notin default
    /\ pc = "insert" /\ DocsAreTyped => Plain(default)
    /\ pc \in {"clearTrusted", "insertTrusted", "seed", "dag"} /\ given # None
        => given \in Good /\ (DocsAreTyped => Rows(default) = Rows(Pipelines[given]))

\* The mirror is empty or one whole pipeline, in the end the one given.
Mirror ==
    /\ trusted = {} \/ \E v \in Good : trusted = Pipelines[v]
    /\ pc = "insertTrusted" => trusted = {}
    /\ pc \in {"seed", "dag"} /\ given # None => trusted = Pipelines[given]

Theme ==
    /\ pc = "clearTheme" => part = 0
    /\ pc = "bundle" => theme = Files(part)
    /\ pc \notin {"off", "clearTheme", "bundle"} => theme = Files(Parts) \cup Resolver[build]

\* Every step of a boot leaves the store as the next one needs it.
BootInv ==
    /\ TypeOK /\ DefaultGraph /\ Replacing /\ Mirror /\ Theme
    /\ RadioDataKept /\ BundleOnly
    /\ DocsAreTyped \/ ~PeerScripting[build] => LoadedIsGiven
=============================================================================
