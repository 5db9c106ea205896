---------------------------- MODULE Boot_proofs ----------------------------
(***************************************************************************)
(* For every set of pipelines and builds that meets ScriptAssumption, for  *)
(* all documents, and however many boots there were: a build without       *)
(* peer-scripting runs the scripts of one pipeline, in the end the one it  *)
(* was given, an antenna shows the theme of its own build and keeps what   *)
(* was written about anything but scripts.  That a build with              *)
(* peer-scripting, too, runs the scripts of the pipeline it was given      *)
(* takes DocsAreTyped.                                                     *)
(***************************************************************************)
EXTENDS Boot, TLAPS

-----------------------------------------------------------------------------
(* Graphs. *)

\* A graph that says nothing about scripts adds no script to another.
LEMMA RowsOfUnion ==
    ASSUME NEW G, NEW H, Plain(H)
    PROVE  Rows(G \cup H) = Rows(G)
<1>1. \A s \in Subjects : Typed(s, "ScriptNode") \in G \cup H <=> Typed(s, "ScriptNode") \in G
  BY DEF Plain
<1>2. \A s \in Subjects, x \in Objects : <<s, "source", x>> \in G \cup H <=> <<s, "source", x>> \in G
  BY DEF Plain
<1>3. \A s \in Subjects, x \in Objects : <<s, "body", x>> \in G \cup H <=> <<s, "body", x>> \in G
  BY DEF Plain
<1>4. ASSUME NEW r \in Subjects \X Objects
      PROVE  (/\ Typed(r[1], "ScriptNode") \in G \cup H
              /\ \E s \in Subjects :
                  <<r[1], "source", s>> \in G \cup H /\ <<s, "body", r[2]>> \in G \cup H)
             <=> (/\ Typed(r[1], "ScriptNode") \in G
                  /\ \E s \in Subjects : <<r[1], "source", s>> \in G /\ <<s, "body", r[2]>> \in G)
  <2>1. r[1] \in Subjects /\ r[2] \in Objects
    OBVIOUS
  <2>2. \A s \in Subjects : s \in Objects
    BY BootAssumption
  <2> QED BY <1>1, <1>2, <1>3, <2>1, <2>2, Zenon
<1> QED BY <1>4, Zenon DEF Rows

\* The empty graph has no scripts.
LEMMA RowsOfEmpty == Rows({}) = {}
  BY DEF Rows

\* Two graphs without untyped script triples have none together.
LEMMA WellTypedUnion ==
    ASSUME NEW G, NEW H, WellTyped(G), WellTyped(H)
    PROVE  WellTyped(G \cup H)
  BY DEF WellTyped

\* A graph that says nothing about scripts is well typed.
LEMMA PlainIsWellTyped ==
    ASSUME NEW G, Plain(G)
    PROVE  WellTyped(G)
  BY DEF Plain, WellTyped

\* DELETE WHERE takes the subjects of the class away, and only those.
LEMMA WithoutFacts ==
    ASSUME NEW G \in SUBSET Triples, NEW class
    PROVE  /\ Without(G, class) \subseteq G
           /\ \A s \in Subjects : Typed(s, class) \notin Without(G, class)
           /\ \A s \in Subjects : \A p \in Predicates : \A x \in Objects :
                <<s, p, x>> \in G /\ Typed(s, class) \notin G => <<s, p, x>> \in Without(G, class)
           /\ \A s \in Subjects : \A p \in Predicates : \A x \in Objects :
                <<s, p, x>> \in Without(G, class) => Typed(s, class) \notin G
  BY DEF Without, Typed

\* A set of pairs with one second component for each first one is what the
\* choice of a solution per node gives (or_insert_with).
LEMMA FirstRows ==
    ASSUME NEW rows, \A r, q \in rows : r[1] = q[1] => r = q,
           NEW nodes, nodes = {r[1] : r \in rows},
           NEW first \in [nodes -> rows], \A n \in nodes : first[n][1] = n
    PROVE  {first[n] : n \in nodes} = rows
<1>1. ASSUME NEW r \in rows PROVE \E n \in nodes : r = first[n]
  <2>1. r[1] \in nodes
    OBVIOUS
  <2>2. first[r[1]] \in rows /\ first[r[1]][1] = r[1]
    BY <2>1
  <2>3. r = first[r[1]]
    BY <2>2
  <2> QED BY <2>1, <2>3
<1>2. \A n \in nodes : first[n] \in rows
  OBVIOUS
<1> QED BY <1>1, <1>2

\* What a pipeline declares, a script subject is.
LEMMA PipelineSubjects ==
    ASSUME NEW v \in Versions, NEW s,
           Typed(s, "ScriptNode") \in Pipelines[v] \/ Typed(s, "ScriptSource") \in Pipelines[v]
    PROVE  ScriptSubject(s)
  BY Zenon DEF ScriptSubject

\* The same for a document.
LEMMA DocSubjects ==
    ASSUME NEW doc \in Docs, NEW s,
           Typed(s, "ScriptNode") \in doc \/ Typed(s, "ScriptSource") \in doc
    PROVE  ScriptSubject(s)
  BY Zenon DEF ScriptSubject

\* A pipeline that is given has triples and no untyped script triples.
LEMMA GivenPipeline ==
    ASSUME given \in Good
    PROVE  /\ given \in Versions /\ Pipelines[given] \subseteq Triples
           /\ WellTyped(Pipelines[given])
  BY BootAssumption, ScriptAssumption

-----------------------------------------------------------------------------
(* The default graph grows by pipelines, documents and what is plain, and   *)
(* shrinks by the two DELETEs.                                             *)

\* Adding a graph whose scripts are known keeps the default graph in shape.
LEMMA DefaultGrows ==
    ASSUME TypeOK, DefaultGraph, RadioDataKept,
           NEW H \in SUBSET Triples, DocsAreTyped => WellTyped(H),
           \A s \in Subjects :
                Typed(s, "ScriptNode") \in H \/ Typed(s, "ScriptSource") \in H => ScriptSubject(s),
           default' = default \cup H, written' \in {written, written \cup H}
    PROVE  DefaultGraph' /\ RadioDataKept'
<1>1. DocsAreTyped => WellTyped(default')
  BY WellTypedUnion DEF DefaultGraph
<1>2. \A s \in Subjects :
        Typed(s, "ScriptNode") \in default' \/ Typed(s, "ScriptSource") \in default'
            => ScriptSubject(s)
  BY DEF DefaultGraph
<1>3. RadioDataKept'
  BY DEF RadioDataKept, ScriptSubject, Typed
<1> QED BY <1>1, <1>2, <1>3 DEF DefaultGraph, WellTyped, ScriptSubject, Typed

\* So does the DELETE of either class.
LEMMA DefaultShrinks ==
    ASSUME TypeOK, DefaultGraph, RadioDataKept,
           NEW class \in {"ScriptNode", "ScriptSource"},
           default' = Without(default, class), UNCHANGED written
    PROVE  DefaultGraph' /\ RadioDataKept'
<1>1. default \in SUBSET Triples /\ written \in SUBSET Triples
  BY DEF TypeOK
<1>2. /\ default' \subseteq default
      /\ \A s \in Subjects : \A p \in Predicates : \A x \in Objects :
            <<s, p, x>> \in default /\ Typed(s, class) \notin default => <<s, p, x>> \in default'
      /\ \A s \in Subjects : \A p \in Predicates : \A x \in Objects :
            <<s, p, x>> \in default' => Typed(s, class) \notin default
  BY <1>1, WithoutFacts
<1>3. \A s \in Subjects : \A other : Typed(s, other) \in default => other \in Objects
  BY <1>1 DEF Triples, Typed
<1>4. ASSUME DocsAreTyped, NEW s \in Subjects, NEW x \in Objects, <<s, "source", x>> \in default'
      PROVE  Typed(s, "ScriptNode") \in default'
  <2>1. Typed(s, "ScriptNode") \in default /\ Typed(s, class) \notin default
    BY <1>2, <1>4 DEF DefaultGraph, WellTyped, Predicates
  <2> QED BY <1>2, <1>3, <2>1 DEF Predicates, Typed
<1>5. ASSUME DocsAreTyped, NEW s \in Subjects, NEW x \in Objects, <<s, "body", x>> \in default'
      PROVE  Typed(s, "ScriptSource") \in default'
  <2>1. Typed(s, "ScriptSource") \in default /\ Typed(s, class) \notin default
    BY <1>2, <1>5 DEF DefaultGraph, WellTyped, Predicates
  <2> QED BY <1>2, <1>3, <2>1 DEF Predicates, Typed
<1>6. DefaultGraph'
  BY <1>2, <1>4, <1>5 DEF DefaultGraph, WellTyped, ScriptSubject, Typed
<1>7. ASSUME NEW t \in written, ~ScriptSubject(t[1]) PROVE t \in default'
  <2>1. t \in default
    BY <1>7 DEF RadioDataKept
  <2>2. PICK s \in Subjects, p \in Predicates, x \in Objects : t = <<s, p, x>>
    BY <1>1, <2>1 DEF Triples
  <2>3. Typed(s, class) \notin default
    BY <1>7, <2>2 DEF DefaultGraph
  <2> QED BY <1>2, <2>1, <2>2, <2>3
<1> QED BY <1>6, <1>7 DEF RadioDataKept, ScriptSubject, Typed

-----------------------------------------------------------------------------
(* The steps of a boot. *)

\* A store that has just been opened for the first time.
LEMMA InitBootInv == Init => BootInv
<1> SUFFICES ASSUME Init PROVE BootInv
  OBVIOUS
<1>1. TypeOK
  BY BootAssumption DEF Init, TypeOK, Places
<1>2. DefaultGraph
  BY DEF Init, DefaultGraph, WellTyped
<1>3. Replacing /\ Mirror /\ Theme /\ RadioDataKept /\ LoadedIsGiven /\ BundleOnly
  BY DEF Init, Replacing, Mirror, Theme, RadioDataKept, LoadedIsGiven, BundleOnly
<1> QED BY <1>1, <1>2, <1>3 DEF BootInv

\* Opening the store begins a boot and changes no graph.
LEMMA OpenStep ==
    ASSUME BootInv, Open
    PROVE  BootInv'
<1> USE DEF BootInv, Open, Goto, graphs
<1>1. TypeOK'
  <2>1. MaxBoots \in Nat /\ Parts \in Nat
    BY BootAssumption
  <2> QED BY <2>1 DEF TypeOK, Places
<1>2. DefaultGraph' /\ RadioDataKept'
  BY DEF DefaultGraph, RadioDataKept, WellTyped, ScriptSubject, Typed
<1>3. Replacing' /\ Mirror' /\ Theme' /\ LoadedIsGiven' /\ BundleOnly'
  BY DEF Replacing, Mirror, Theme, LoadedIsGiven, BundleOnly
<1> QED BY <1>1, <1>2, <1>3

\* clear_graph and the loading of the bundle build the theme part by part.
LEMMA ThemeStep ==
    ASSUME BootInv, ClearTheme \/ LoadBundle \/ LoadResolver
    PROVE  BootInv'
<1> USE DEF BootInv, Goto, run
<1>1. UNCHANGED <<default, trusted, run>>
  BY DEF ClearTheme, LoadBundle, LoadResolver
<1>2. DefaultGraph' /\ RadioDataKept'
  BY <1>1 DEF DefaultGraph, RadioDataKept, WellTyped, ScriptSubject, Typed
<1>3. pc' \in {"bundle", "emoji"}
  BY DEF ClearTheme, LoadBundle, LoadResolver
<1>4. Replacing' /\ Mirror' /\ LoadedIsGiven' /\ BundleOnly'
  BY <1>1, <1>3 DEF Replacing, Mirror, LoadedIsGiven, BundleOnly
<1>5. part \in 0..Parts /\ build \in Builds /\ Parts \in Nat
  BY BootAssumption DEF TypeOK
<1>6. CASE ClearTheme
  <2>1. TypeOK'
    BY <1>6 DEF ClearTheme, TypeOK, Places
  <2>2. Files(0) = {}
    BY DEF Files
  <2>3. Theme'
    BY <1>6, <2>2 DEF ClearTheme, Theme, Files
  <2> QED BY <1>2, <1>4, <2>1, <2>3
<1>7. CASE LoadBundle
  <2>1. Bundle[build][part + 1] \subseteq Triples
    BY <1>5, <1>7, BootAssumption DEF LoadBundle
  <2>2. TypeOK'
    BY <1>5, <1>7, <2>1 DEF LoadBundle, TypeOK, Places
  <2>3. 1..(part + 1) = 1..part \cup {part + 1}
    BY <1>5
  <2>4. Files(part + 1) = Files(part) \cup Bundle[build][part + 1]
    BY <2>3 DEF Files
  <2>5. Theme'
    BY <1>7, <2>4 DEF LoadBundle, Theme, Files
  <2> QED BY <1>2, <1>4, <2>2, <2>5
<1>8. CASE LoadResolver
  <2>1. Resolver[build] \subseteq Triples
    BY <1>5, BootAssumption
  <2>2. TypeOK'
    BY <1>8, <2>1 DEF LoadResolver, TypeOK, Places
  <2>3. Theme'
    BY <1>8 DEF LoadResolver, Theme, Files
  <2> QED BY <1>2, <1>4, <2>2, <2>3
<1> QED BY <1>6, <1>7, <1>8

\* The catalog and the seed say nothing about scripts.
LEMMA PlainInsertStep ==
    ASSUME BootInv, InsertEmoji \/ InsertSeed
    PROVE  BootInv'
<1> USE DEF BootInv, Goto, run
<1>1. PICK H \in {{}, Emoji, Seed} : default' = default \cup H
  BY DEF InsertEmoji, InsertSeed
<1>2. H \in SUBSET Triples /\ Plain(H)
  <2>1. Plain({})
    BY DEF Plain
  <2> QED BY <1>1, <2>1, ScriptAssumption
<1>3. UNCHANGED <<trusted, theme, part, run>>
  BY DEF InsertEmoji, InsertSeed
<1>4. pc' \in {"seed", "resetNodes", "dag"}
  BY DEF InsertEmoji, InsertSeed
<1>5. TypeOK'
  BY <1>1, <1>2, <1>3, <1>4 DEF TypeOK, Places
<1>6. DefaultGraph' /\ RadioDataKept'
  <2>1. WellTyped(H)
    BY <1>2, PlainIsWellTyped
  <2>2. \A s \in Subjects : Typed(s, "ScriptNode") \notin H /\ Typed(s, "ScriptSource") \notin H
    BY <1>2 DEF Plain
  <2> QED BY <1>1, <1>2, <1>3, <2>1, <2>2, DefaultGrows
<1>7. Rows(default') = Rows(default)
  BY <1>1, <1>2, RowsOfUnion
<1>8. Replacing'
  <2>1. CASE InsertEmoji
    BY <1>3, <2>1 DEF InsertEmoji, Replacing
  <2>2. CASE InsertSeed
    <3>1. Rows(default)' = Rows(default)
      BY <1>7 DEF Rows, Typed
    <3> QED BY <1>3, <2>2, <3>1 DEF InsertSeed, Replacing, Rows, Typed
  <2> QED BY <2>1, <2>2
<1>9. Mirror'
  BY <1>3 DEF InsertEmoji, InsertSeed, Mirror
<1>10. Theme'
  BY <1>3 DEF InsertEmoji, InsertSeed, Theme, Files
<1>11. LoadedIsGiven' /\ BundleOnly'
  BY <1>3, <1>4 DEF LoadedIsGiven, BundleOnly
<1> QED BY <1>5, <1>6, <1>8, <1>9, <1>10, <1>11

\* The two DELETEs leave nothing about scripts in the default graph.
LEMMA ResetStep ==
    ASSUME BootInv, ResetNodes \/ ResetSources
    PROVE  BootInv'
<1> USE DEF BootInv, Goto, run
<1>1. PICK class \in {"ScriptNode", "ScriptSource"} : default' = Without(default, class)
  BY DEF ResetNodes, ResetSources
<1>2. UNCHANGED <<trusted, theme, part, run>>
  BY DEF ResetNodes, ResetSources
<1>3. default \in SUBSET Triples
  BY DEF TypeOK
<1>4. TypeOK'
  <2>1. default' \subseteq Triples
    BY <1>1, <1>3, WithoutFacts
  <2> QED BY <1>2, <2>1 DEF ResetNodes, ResetSources, TypeOK, Places
<1>5. DefaultGraph' /\ RadioDataKept'
  BY <1>1, <1>2, DefaultShrinks
<1>6. Replacing'
  <2>1. CASE ResetNodes
    <3>1. \A s \in Subjects : Typed(s, "ScriptNode") \notin default'
      BY <1>3, <2>1, WithoutFacts DEF ResetNodes
    <3> QED BY <1>2, <2>1, <3>1 DEF ResetNodes, Replacing, Typed
  <2>2. CASE ResetSources
    <3>1. default' \subseteq default
          /\ \A s \in Subjects : Typed(s, "ScriptSource") \notin default'
      BY <1>3, <2>2, WithoutFacts DEF ResetSources
    <3>2. \A s \in Subjects : Typed(s, "ScriptNode") \notin default
      BY <2>2 DEF ResetSources, Replacing
    <3>3. DocsAreTyped => Plain(default)'
      BY <1>5, <3>1, <3>2 DEF DefaultGraph, WellTyped, Plain, Typed
    <3> QED BY <1>2, <2>2, <3>3 DEF ResetSources, Replacing
  <2> QED BY <2>1, <2>2
<1>7. Mirror' /\ Theme' /\ LoadedIsGiven' /\ BundleOnly'
  BY <1>2 DEF ResetNodes, ResetSources, Mirror, Theme, Files, LoadedIsGiven, BundleOnly
<1> QED BY <1>4, <1>5, <1>6, <1>7

\* After the insert the scripts of the default graph are those of the pipeline.
LEMMA InsertPipelineStep ==
    ASSUME BootInv, InsertPipeline
    PROVE  BootInv'
<1> USE DEF BootInv, Goto, run, InsertPipeline
<1>1. /\ given \in Versions /\ Pipelines[given] \subseteq Triples
      /\ WellTyped(Pipelines[given])
  BY GivenPipeline
<1>2. TypeOK'
  BY <1>1 DEF TypeOK, Places
<1>3. DefaultGraph' /\ RadioDataKept'
  <2>1. \A s \in Subjects :
          Typed(s, "ScriptNode") \in Pipelines[given] \/ Typed(s, "ScriptSource") \in Pipelines[given]
            => ScriptSubject(s)
    BY <1>1, PipelineSubjects
  <2> QED BY <1>1, <2>1, DefaultGrows
<1>4. Replacing'
  <2>1. DocsAreTyped => Plain(default)
    BY DEF Replacing
  <2>2. default' = Pipelines[given] \cup default
    OBVIOUS
  <2>3. DocsAreTyped => Rows(default') = Rows(Pipelines[given])
    BY <2>1, <2>2, RowsOfUnion
  <2>4. DocsAreTyped => Rows(default)' = Rows(Pipelines[given])
    BY <2>3 DEF Rows, Typed
  <2> QED BY <2>4 DEF Replacing, Rows, Typed
<1>5. Mirror' /\ Theme' /\ LoadedIsGiven' /\ BundleOnly'
  BY DEF Mirror, Theme, Files, LoadedIsGiven, BundleOnly
<1> QED BY <1>2, <1>3, <1>4, <1>5

\* The mirror is emptied and then holds the pipeline given.
LEMMA TrustedStep ==
    ASSUME BootInv, ClearTrusted \/ InsertTrusted
    PROVE  BootInv'
<1> USE DEF BootInv, Goto, run
<1>1. UNCHANGED <<default, theme, part, run>>
  BY DEF ClearTrusted, InsertTrusted
<1>2. given \in Good
  BY DEF ClearTrusted, InsertTrusted, Replacing
<1>3. Pipelines[given] \subseteq Triples
  BY <1>2, GivenPipeline
<1>4. TypeOK'
  BY <1>1, <1>3 DEF ClearTrusted, InsertTrusted, TypeOK, Places
<1>5. DefaultGraph' /\ RadioDataKept'
  BY <1>1 DEF DefaultGraph, RadioDataKept, WellTyped, ScriptSubject, Typed
<1>6. Replacing'
  BY <1>1 DEF ClearTrusted, InsertTrusted, Replacing, Rows, Typed
<1>7. Mirror'
  BY <1>1, <1>2 DEF ClearTrusted, InsertTrusted, Mirror
<1>8. Theme' /\ LoadedIsGiven' /\ BundleOnly'
  BY <1>1 DEF ClearTrusted, InsertTrusted, Theme, Files, LoadedIsGiven, BundleOnly
<1> QED BY <1>4, <1>5, <1>6, <1>7, <1>8

\* Dag::load finds the scripts of the pipeline given, in either graph.
LEMMA LoadDagStep ==
    ASSUME BootInv, LoadDag
    PROVE  BootInv'
<1> DEFINE rows == Rows(IF PeerScripting[build] THEN default ELSE trusted)
           nodes == {r[1] : r \in rows}
<1>1. PICK first \in [nodes -> rows] :
        /\ \A n \in nodes : first[n][1] = n
        /\ scripts' = {first[n] : n \in nodes}
  BY Zenon DEF LoadDag
<1>2. /\ pc = "dag" /\ pc' = "running" /\ UNCHANGED <<graphs, part, build, given, boots, written>>
      /\ routers' \subseteq Subjects
  BY DEF LoadDag, Goto, Routers
<1>3. rows \subseteq Subjects \X Objects
  BY DEF Rows
<1>4. TypeOK'
  <2>1. \A n \in nodes : first[n] \in rows
    OBVIOUS
  <2>2. scripts' \subseteq Subjects \X Objects
    BY <1>1, <1>3, <2>1
  <2> HIDE DEF rows, nodes
  <2> QED BY <1>2, <2>2 DEF BootInv, TypeOK, Places, graphs
<1>5. ASSUME NEW v \in Good, rows = Rows(Pipelines[v]) PROVE scripts' = Rows(Pipelines[v])
  <2>1. \A r, q \in rows : r[1] = q[1] => r = q
    BY <1>5, BootAssumption, ScriptAssumption
  <2> HIDE DEF rows
  <2> QED BY <1>1, <1>5, <2>1, FirstRows
<1>6. (DocsAreTyped \/ ~PeerScripting[build] => LoadedIsGiven)'
  <2> SUFFICES ASSUME given # None, DocsAreTyped \/ ~PeerScripting[build]
               PROVE  scripts' = Rows(Pipelines[given])
    BY <1>2 DEF LoadedIsGiven, Rows, Typed
  <2>1. /\ given \in Good /\ trusted = Pipelines[given]
        /\ DocsAreTyped => Rows(default) = Rows(Pipelines[given])
    BY <1>2 DEF BootInv, Replacing, Mirror
  <2>2. rows = Rows(Pipelines[given])
    BY <2>1
  <2> QED BY <1>5, <2>1, <2>2
<1>7. BundleOnly'
  <2> SUFFICES ASSUME ~PeerScripting[build]
               PROVE  scripts' = {} \/ \E v \in Good : scripts' = Rows(Pipelines[v])
    BY <1>2 DEF BundleOnly, Rows, Typed
  <2>1. rows = Rows(trusted)
    OBVIOUS
  <2>2. CASE trusted = {}
    <3>1. rows = {}
      BY <2>1, <2>2, RowsOfEmpty
    <3> HIDE DEF rows
    <3> QED BY <1>1, <3>1
  <2>3. ASSUME NEW v \in Good, trusted = Pipelines[v] PROVE scripts' = Rows(Pipelines[v])
    BY <1>5, <2>1, <2>3
  <2> QED BY <2>2, <2>3 DEF BootInv, Mirror
<1>8. DefaultGraph' /\ RadioDataKept'
  BY <1>2 DEF BootInv, graphs, DefaultGraph, RadioDataKept, WellTyped, ScriptSubject, Typed
<1>9. Replacing' /\ Mirror' /\ Theme'
  BY <1>2 DEF BootInv, graphs, Replacing, Mirror, Theme, Files
<1> QED BY <1>4, <1>6, <1>7, <1>8, <1>9 DEF BootInv

\* What is written while the antenna runs does not change what it runs.
LEMMA WriteStep ==
    ASSUME BootInv, NEW doc \in Docs, Write(doc)
    PROVE  BootInv'
<1> USE DEF BootInv, Write
<1>1. doc \in SUBSET Triples /\ (DocsAreTyped => WellTyped(doc))
  BY BootAssumption DEF DocsAreTyped
<1>2. TypeOK'
  BY <1>1 DEF TypeOK, Places
<1>3. DefaultGraph' /\ RadioDataKept'
  <2>1. \A s \in Subjects :
          Typed(s, "ScriptNode") \in doc \/ Typed(s, "ScriptSource") \in doc => ScriptSubject(s)
    BY DocSubjects
  <2> QED BY <1>1, <2>1, DefaultGrows
<1>4. Replacing' /\ Mirror' /\ Theme'
  BY DEF Replacing, Mirror, Theme, Files
<1>5. (DocsAreTyped \/ ~PeerScripting[build] => LoadedIsGiven)' /\ BundleOnly'
  BY DEF LoadedIsGiven, BundleOnly, Rows, Typed
<1> QED BY <1>2, <1>3, <1>4, <1>5

\* A boot or a run that ends leaves the graphs as they are.
LEMMA StopStep ==
    ASSUME BootInv, Stop
    PROVE  BootInv'
<1> USE DEF BootInv, Stop, graphs
<1>1. TypeOK'
  BY DEF TypeOK, Places
<1>2. DefaultGraph' /\ RadioDataKept'
  BY DEF DefaultGraph, RadioDataKept, WellTyped, ScriptSubject, Typed
<1>3. Replacing' /\ Mirror' /\ Theme' /\ LoadedIsGiven' /\ BundleOnly'
  BY DEF Replacing, Mirror, Theme, LoadedIsGiven, BundleOnly
<1> QED BY <1>1, <1>2, <1>3

\* Every step of a boot, of a running antenna and of its end.
LEMMA NextBootInv ==
    ASSUME BootInv, [Next]_vars
    PROVE  BootInv'
<1>1. CASE UNCHANGED vars
  <2> USE <1>1 DEF vars, graphs, run, BootInv
  <2>1. TypeOK'
    BY DEF TypeOK
  <2>2. DefaultGraph' /\ RadioDataKept'
    BY DEF DefaultGraph, RadioDataKept, WellTyped, ScriptSubject, Typed
  <2>3. Replacing'
    BY DEF Replacing, Plain, Rows, Typed
  <2>4. Mirror' /\ Theme'
    BY DEF Mirror, Theme, Files
  <2>5. (DocsAreTyped \/ ~PeerScripting[build] => LoadedIsGiven)' /\ BundleOnly'
    BY DEF LoadedIsGiven, BundleOnly, Rows, Typed
  <2> QED BY <2>1, <2>2, <2>3, <2>4, <2>5
<1>2. CASE Next
  BY <1>2, OpenStep, ThemeStep, PlainInsertStep, ResetStep, InsertPipelineStep, TrustedStep,
     LoadDagStep, WriteStep, StopStep DEF Next
<1> QED BY <1>1, <1>2

\* The store between any two operations of any boot is as BootInv says.
THEOREM BootInvariant == Spec => []BootInv
<1>1. Init => BootInv
  BY InitBootInv
<1>2. BootInv /\ [Next]_vars => BootInv'
  BY NextBootInv
<1> QED BY <1>1, <1>2, PTL DEF Spec

\* Type correctness of the boot.
THEOREM BootTypeCorrect == Spec => []TypeOK
<1>1. BootInv => TypeOK
  BY DEF BootInv
<1> QED BY <1>1, BootInvariant, PTL

\* replace_pipeline makes pipeline.ttl the single source of truth for scripts,
\* where no document is written that has a script's source or body without its
\* type: the two DELETEs go by the types.
THEOREM LoadedIsGivenHolds == DocsAreTyped /\ Spec => []LoadedIsGiven
<1>1. DocsAreTyped /\ BootInv => LoadedIsGiven
  BY DEF BootInv
<1>2. ASSUME DocsAreTyped PROVE Spec => []LoadedIsGiven
  <2>1. BootInv => LoadedIsGiven
    BY <1>1, <1>2
  <2> QED BY <2>1, BootInvariant, PTL
<1> QED BY <1>2

\* And for all documents in a build without peer-scripting, whose scripts come
\* from the mirror that only replace_pipeline writes.
THEOREM GatedLoadsGiven == Spec => [](~PeerScripting[build] => LoadedIsGiven)
<1>1. BootInv => (~PeerScripting[build] => LoadedIsGiven)
  BY DEF BootInv
<1> QED BY <1>1, BootInvariant, PTL

\* A build without peer-scripting runs the scripts of one bundled pipeline.
THEOREM BundleOnlyHolds == Spec => []BundleOnly
<1>1. BootInv => BundleOnly
  BY DEF BootInv
<1> QED BY <1>1, BootInvariant, PTL

\* The theme graph of a running antenna is that of its own build.
THEOREM ThemeIsOfBuildHolds == Spec => []ThemeIsOfBuild
<1>1. BootInv => ThemeIsOfBuild
  BY DEF BootInv, Theme, ThemeIsOfBuild
<1> QED BY <1>1, BootInvariant, PTL

\* replace_pipeline keeps what was written about anything but scripts.
THEOREM RadioDataKeptHolds == Spec => []RadioDataKept
<1>1. BootInv => RadioDataKept
  BY DEF BootInv
<1> QED BY <1>1, BootInvariant, PTL
=============================================================================
