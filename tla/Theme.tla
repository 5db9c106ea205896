-------------------------------- MODULE Theme --------------------------------
(***************************************************************************)
(* The theme resolver: resolve_active_theme of src/src/theme.rs and the    *)
(* three CONSTRUCT queries of src/spin/theme_resolver.spin.ttl that it     *)
(* runs.                                                                   *)
(*                                                                         *)
(* A theme extends at most one other and gives values to items: it binds   *)
(* roles, has tokens with a name, and may set the stroke width.  The       *)
(* resolver flattens the chain of the active theme, one SELECT a step; the *)
(* value of an item that the nearest theme of the chain gives it wins.     *)
(***************************************************************************)
EXTENDS Naturals, Sequences, FiniteSets, SequencesExt

CONSTANTS
    Themes,
    Items,    \* three sets, one for each resolver query: the roles, the
              \* names of tokens, and the stroke width
    Givable,  \* bound on which theme may give which item
    None

AllItems == UNION {Items[q] : q \in 1..3}

ASSUME ThemeAssumption ==
    /\ IsFiniteSet(Themes) /\ None \notin Themes
    /\ DOMAIN Items = 1..3 /\ IsFiniteSet(AllItems) /\ Givable \subseteq Themes \X AllItems
    /\ \A p, q \in 1..3 : p # q => Items[p] \intersect Items[q] = {}
    /\ "ResolvedTheme" \notin AllItems

VARIABLES
    extends,   \* design:extends, in the theme graph
    gives,     \* bindsRole, hasToken and strokeWidth: the theme and the item
    active,    \* themes with design:active true
    hasTheme,  \* the values of radio:hasTheme, in the default graph
    rpc,       \* the resolver: "idle", "walk", "construct", "done" or "failed"
    chain,     \* ancestor_chain_values so far
    query,     \* the resolver query that is next
    bundle     \* the triples constructed so far

graph == <<extends, gives, active, hasTheme>>
resolver == <<rpc, chain, query, bundle>>

ThemeTypeOK ==
    /\ extends \in [Themes -> Themes \union {None}]
    /\ gives \subseteq Givable
    /\ active \subseteq Themes /\ hasTheme \subseteq Themes
    /\ rpc \in {"idle", "walk", "construct", "done", "failed"}
    /\ chain \in Seq(Themes) /\ query \in 1..4
    /\ bundle \in Seq(Themes \X (AllItems \union {"ResolvedTheme"}))

ThemeInit ==
    /\ extends \in [Themes -> Themes \union {None}]
    /\ gives \in SUBSET Givable
    /\ active \in {{}} \union {{t} : t \in Themes} /\ hasTheme = {}
    /\ rpc = "idle" /\ chain = <<>> /\ query = 1 /\ bundle = <<>>

-----------------------------------------------------------------------------
\* The first solution of a query is any of its solutions.
active_theme_iri == IF hasTheme # {} THEN hasTheme ELSE active

Resolve ==
    /\ rpc = "idle"
    /\ \/ /\ active_theme_iri = {}
          /\ rpc' = "done" /\ UNCHANGED chain
       \/ /\ rpc' = "walk"
          /\ \E t \in active_theme_iri : chain' = <<t>>
    /\ UNCHANGED <<query, bundle>>

\* Mutation: the walk does not look for a repeat.
WalkOn ==
    LET p == extends[Last(chain)]
    IN  /\ rpc = "walk"
        /\ IF p # None THEN chain' = Append(chain, p) /\ UNCHANGED rpc
           ELSE rpc' = "construct" /\ UNCHANGED chain
        /\ UNCHANGED <<query, bundle>>

Walk ==
    LET p == extends[Last(chain)]
    IN  /\ rpc = "walk"
        /\ IF p # None /\ p \notin Range(chain)
           THEN chain' = Append(chain, p) /\ UNCHANGED rpc
           ELSE rpc' = "construct" /\ UNCHANGED chain
        /\ UNCHANGED <<query, bundle>>

\* Mutation: the least derived theme wins.
SolutionsLast(q) ==
    {v \in Themes \X Items[q] : \E d \in DOMAIN chain :
        /\ v[1] = chain[d] /\ v \in gives
        /\ \A e \in (d + 1)..Len(chain) : <<chain[e], v[2]>> \notin gives}

\* The solutions of a query over the table (?ancestor ?depth): the filter drops
\* an item that a theme of smaller depth also gives.
Solutions(q) ==
    {v \in Themes \X Items[q] : \E d \in DOMAIN chain :
        /\ v[1] = chain[d] /\ v \in gives
        /\ \A e \in 1..(d - 1) : <<chain[e], v[2]>> \notin gives}

\* The triples it constructs, in some order; the first query also names the
\* theme, once.
Construct ==
    /\ rpc = "construct" /\ query <= 3
    /\ LET named == IF query = 1 /\ Solutions(1) # {} THEN <<<<chain[1], "ResolvedTheme">>>> ELSE <<>>
       IN  bundle' = bundle \o named \o SetToSeq(Solutions(query))
    /\ query' = query + 1
    /\ rpc' = IF query = 3 THEN "done" ELSE "construct"
    /\ UNCHANGED chain

\* The store fails, or a query of the resolver is missing from the theme graph.
ResolveFails ==
    /\ rpc \in {"idle", "walk", "construct"}
    /\ rpc' = "failed"
    /\ UNCHANGED <<chain, query, bundle>>

\* The caller has the result.
Resolved == rpc' = "idle" /\ chain' = <<>> /\ query' = 1 /\ bundle' = <<>>

-----------------------------------------------------------------------------
\* What inheritance means, without depths: the themes met on the way up from t
\* when the way is not followed past the themes of stop.
Met(t, stop) ==
    {x \in Themes : \A S \in SUBSET Themes :
        (t \in S /\ \A y \in S \ stop : extends[y] # None => extends[y] \in S) => x \in S}

\* Theme t is where theme `of` takes item i from.
InheritsFrom(of, i, t) ==
    /\ t \in Met(of, {}) /\ <<t, i>> \in gives
    /\ \A u \in Met(of, {t}) \ {t} : <<u, i>> \notin gives

\* What the resolver returns holds each item that the active theme or an
\* ancestor gives, once, with the value of the nearest of them: for every shape
\* of the extends relation, chains that end in a cycle included.
BundleIsInherited ==
    rpc = "done" =>
        /\ IsInjective(bundle)
        /\ {v \in Range(bundle) : v[2] # "ResolvedTheme"} =
            IF chain = <<>> THEN {}
            ELSE {v \in Themes \X AllItems : InheritsFrom(chain[1], v[2], v[1])}
        /\ chain # <<>> => chain[1] \in active_theme_iri

\* The walk ends, also where the extends relation is cyclic: a step that does
\* not end it adds a theme to the chain, and there is room for no more than
\* there are themes.
WalkIsBounded == Len(chain) <= Cardinality(Themes)
=============================================================================
