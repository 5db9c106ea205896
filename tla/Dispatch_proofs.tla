--------------------------- MODULE Dispatch_proofs ---------------------------
(***************************************************************************)
(* What is proved of modules Dispatch and Theme: the resolver computes     *)
(* inheritance and ends, a block list is broadcast to its end if it is     *)
(* signed and not at all otherwise, and a theme's marker comes last.  The  *)
(* induction over the chain of themes is the walk's own: the invariant     *)
(* Reached says of each theme of the chain so far that the way up meets    *)
(* it, and grows by one theme a step.                                      *)
(***************************************************************************)
EXTENDS Dispatch, FiniteSetTheorems, SequenceTheorems, TLAPS

\* An enumeration of a finite set holds each of its elements once.
LEMMA Enumerates ==
    ASSUME NEW S, IsFiniteSet(S)
    PROVE  /\ SetToSeq(S) \in Seq(S)
           /\ IsInjective(SetToSeq(S))
           /\ Range(SetToSeq(S)) = S
<1>n. Cardinality(S) \in Nat /\ ExistsBijection(1..Cardinality(S), S)
  BY FS_CardinalityType
<1>f. PICK f \in [1..Cardinality(S) -> S] : IsInjective(f)
  BY <1>n, Zenon DEF ExistsBijection, Bijection, Injection, IsInjective
<1>1. PICK n \in Nat : n = Cardinality(S)  BY <1>n
<1>2. PICK s : s = SetToSeq(S)  OBVIOUS
<1>3. s \in [1..n -> S] /\ IsInjective(s)
  BY <1>f, <1>1, <1>2, Zenon DEF SetToSeq
<1>4. s \in Seq(S)
  BY <1>3
<1>5. s \in Injection(1..n, S)
  BY <1>3, Zenon DEF Injection, IsInjective
<1>6. Cardinality(1..n) = n
  BY FS_Interval, n \in Int
<1>7. s \in Surjection(1..n, S)
  BY <1>5, <1>6, <1>1, FS_Injection
<1>8. Range(s) = S
  BY <1>7, <1>3 DEF Surjection, Range
<1> QED  BY <1>2, <1>3, <1>4, <1>8

\* Two sequences without repetition that share no element, one after the other.
LEMMA JoinInjective ==
    ASSUME NEW X, NEW s \in Seq(X), NEW t \in Seq(X),
           IsInjective(s), IsInjective(t), Range(s) \intersect Range(t) = {}
    PROVE  /\ s \o t \in Seq(X)
           /\ IsInjective(s \o t)
           /\ Range(s \o t) = Range(s) \union Range(t)
<1>1. PICK u : u = s \o t  OBVIOUS
<1>2. /\ u \in Seq(X) /\ Len(u) = Len(s) + Len(t) /\ Len(s) \in Nat /\ Len(t) \in Nat
      /\ DOMAIN u = 1..Len(u) /\ DOMAIN s = 1..Len(s) /\ DOMAIN t = 1..Len(t)
      /\ \A i \in 1..Len(s) : u[i] = s[i]
      /\ \A i \in 1..Len(t) : u[Len(s) + i] = t[i]
  BY <1>1
<1>3. \A i \in DOMAIN u : i \in DOMAIN s \/ (i - Len(s) \in DOMAIN t /\ u[i] = t[i - Len(s)])
  BY <1>2
<1>4. IsInjective(u)
  <2> SUFFICES ASSUME NEW a \in DOMAIN u, NEW b \in DOMAIN u, u[a] = u[b]
               PROVE  a = b
    BY DEF IsInjective
  <2>1. CASE a \in DOMAIN s /\ b \in DOMAIN s  BY <2>1, <1>2 DEF IsInjective
  <2>2. CASE a \in DOMAIN s /\ b \notin DOMAIN s
    <3>1. s[a] = t[b - Len(s)] /\ b - Len(s) \in DOMAIN t  BY <2>2, <1>2, <1>3
    <3>2. s[a] \in Range(s) /\ s[a] \in Range(t)  BY <3>1, <2>2 DEF Range
    <3> QED  BY <3>2
  <2>3. CASE a \notin DOMAIN s /\ b \in DOMAIN s
    <3>1. s[b] = t[a - Len(s)] /\ a - Len(s) \in DOMAIN t  BY <2>3, <1>2, <1>3
    <3>2. s[b] \in Range(s) /\ s[b] \in Range(t)  BY <3>1, <2>3 DEF Range
    <3> QED  BY <3>2
  <2>4. CASE a \notin DOMAIN s /\ b \notin DOMAIN s
    <3>1. a - Len(s) = b - Len(s)  BY <2>4, <1>3 DEF IsInjective
    <3> QED  BY <3>1, <1>2
  <2> QED  BY <2>1, <2>2, <2>3, <2>4
<1>5. Range(u) \subseteq Range(s) \union Range(t)
  BY <1>2, <1>3 DEF Range
<1>6. Range(s) \subseteq Range(u)
  BY <1>2 DEF Range
<1>7. Range(t) \subseteq Range(u)
  <2>1. \A i \in DOMAIN t : Len(s) + i \in DOMAIN u  BY <1>2
  <2> QED  BY <2>1, <1>2 DEF Range
<1> QED  BY <1>1, <1>2, <1>4, <1>5, <1>6, <1>7

-----------------------------------------------------------------------------
(* The resolver.  Depths in the chain against the way up: the chain is a     *)
(* path without repetition, each theme of it is met on the way up as long as *)
(* the way is not stopped before, and the walk ends where there is nothing   *)
(* new to meet.                                                              *)

Linked == \A d \in 1..(Len(chain) - 1) : extends[chain[d]] = chain[d + 1]
Reached ==
    \A stop \in SUBSET Themes : \A d \in DOMAIN chain :
        (\A e \in 1..(d - 1) : chain[e] \notin stop) => chain[d] \in Met(chain[1], stop)
Climbed == Linked /\ IsInjective(chain) /\ Reached
Ended == chain # <<>> /\ (extends[Last(chain)] = None \/ extends[Last(chain)] \in Range(chain))

\* A theme is met on the way up from itself, and then the theme it extends.
LEMMA MetStart ==
    ASSUME NEW t \in Themes, NEW stop
    PROVE  t \in Met(t, stop)
BY DEF Met

\* Where the way up is not stopped it goes on to the theme extended.
LEMMA MetStep ==
    ASSUME NEW t, NEW stop, NEW x \in Met(t, stop), x \notin stop,
           extends[x] # None, extends[x] \in Themes
    PROVE  extends[x] \in Met(t, stop)
BY DEF Met

\* A set that the way up does not leave holds every theme that is met.
LEMMA MetLeast ==
    ASSUME NEW t, NEW stop, NEW S \in SUBSET Themes, t \in S,
           \A y \in S \ stop : extends[y] # None => extends[y] \in S
    PROVE  Met(t, stop) \subseteq S
BY DEF Met

\* One step of the walk.
LEMMA ClimbStep ==
    ASSUME ThemeTypeOK, Climbed, chain # <<>>, NEW p, p = extends[Last(chain)],
           p # None, p \notin Range(chain), chain' = Append(chain, p), extends' = extends
    PROVE  Climbed' /\ chain'[1] = chain[1] /\ chain' # <<>>
<1>c. chain \in Seq(Themes) /\ extends \in [Themes -> Themes \union {None}]  BY DEF ThemeTypeOK
<1>l. Len(chain) \in Nat \ {0} /\ DOMAIN chain = 1..Len(chain)
  BY <1>c, EmptySeq, LenProperties
<1>p. p \in Themes /\ Last(chain) \in Themes /\ Last(chain) = chain[Len(chain)]
  BY <1>c, <1>l, ElementOfSeq DEF Last
<1>1. PICK c : c = Append(chain, p)  OBVIOUS
<1>2. /\ c \in Seq(Themes) /\ c # <<>> /\ Len(c) = Len(chain) + 1 /\ c[Len(chain) + 1] = p
      /\ \A i \in 1..Len(chain) : c[i] = chain[i]
  BY <1>1, <1>c, <1>p, AppendProperties
<1>3. DOMAIN c = 1..(Len(chain) + 1)  BY <1>2, LenProperties
<1>4. \A d \in 1..(Len(c) - 1) : extends[c[d]] = c[d + 1]
  <2> SUFFICES ASSUME NEW d \in 1..Len(chain) PROVE extends[c[d]] = c[d + 1]
    BY <1>2, <1>l
  <2>1. CASE d = Len(chain)  BY <2>1, <1>2, <1>l, <1>p
  <2>2. CASE d < Len(chain)
    <3>1. d \in 1..(Len(chain) - 1) /\ d \in 1..Len(chain) /\ d + 1 \in 1..Len(chain)  BY <2>2, <1>l
    <3> QED  BY <3>1, <1>2 DEF Climbed, Linked
  <2>3. \A n \in Nat : \A i \in 1..n : i = n \/ i < n  OBVIOUS
  <2>4. Len(chain) \in Nat  BY <1>l
  <2> QED  BY <2>1, <2>2, <2>3, <2>4
<1>5. IsInjective(c)
  <2>1. \A i \in 1..Len(chain) : chain[i] # p  BY <1>l DEF Range
  <2> QED  BY <2>1, <1>2, <1>3, <1>l DEF IsInjective, Climbed
<1>6. c[1] = chain[1]  BY <1>2, <1>l
<1>7. ASSUME NEW stop \in SUBSET Themes, NEW d \in DOMAIN c, \A e \in 1..(d - 1) : c[e] \notin stop
      PROVE  c[d] \in Met(c[1], stop)
  <2>1. CASE d \in 1..Len(chain)
    <3>1. \A e \in 1..(d - 1) : chain[e] \notin stop  BY <2>1, <1>7, <1>2, <1>l
    <3>2. chain[d] \in Met(chain[1], stop)  BY <3>1, <2>1, <1>l DEF Climbed, Reached
    <3> QED  BY <3>2, <2>1, <1>2, <1>6
  <2>2. CASE d = Len(chain) + 1
    <3>1. \A e \in 1..(Len(chain) - 1) : chain[e] \notin stop  BY <2>2, <1>7, <1>2, <1>l
    <3>2. Len(chain) \in DOMAIN chain  BY <1>l
    <3>3. Last(chain) \in Met(chain[1], stop)  BY <3>1, <3>2, <1>p DEF Climbed, Reached
    <3>4. Last(chain) \notin stop  BY <2>2, <1>7, <1>2, <1>l, <1>p
    <3>5. p \in Met(chain[1], stop)  BY <3>3, <3>4, <1>p, MetStep
    <3> QED  BY <3>5, <2>2, <1>2, <1>6
  <2> QED  BY <2>1, <2>2, <1>3, <1>l
<1>8. \A stop : Met(c[1], stop) = Met(c[1], stop)'
  BY Zenon DEF Met
<1>9. Reached'
  BY <1>1, <1>7, <1>8 DEF Reached
<1> QED  BY <1>1, <1>2, <1>4, <1>5, <1>6, <1>9 DEF Climbed, Linked

\* At the end of the walk the themes met are those of the chain, and those met
\* before a theme are the ones of smaller depth.
LEMMA ChainIsMet ==
    ASSUME ThemeTypeOK, Climbed, Ended
    PROVE  /\ Met(chain[1], {}) = Range(chain)
           /\ \A d \in DOMAIN chain :
                Met(chain[1], {chain[d]}) = {chain[e] : e \in 1..d}
<1>c. chain \in Seq(Themes) /\ extends \in [Themes -> Themes \union {None}]  BY DEF ThemeTypeOK
<1>l. Len(chain) \in Nat \ {0} /\ DOMAIN chain = 1..Len(chain)
  BY <1>c, EmptySeq, LenProperties DEF Ended
<1>e. \A d \in 1..Len(chain) : chain[d] \in Themes  BY <1>c, ElementOfSeq
<1>1. Range(chain) \subseteq Met(chain[1], {})
  <2>1. \A d \in DOMAIN chain : chain[d] \in Met(chain[1], {})  BY DEF Climbed, Reached
  <2> QED  BY <2>1 DEF Range
<1>2. Met(chain[1], {}) \subseteq Range(chain)
  <2>1. Range(chain) \in SUBSET Themes /\ chain[1] \in Range(chain)  BY <1>l, <1>e DEF Range
  <2>2. ASSUME NEW y \in Range(chain), extends[y] # None
        PROVE  extends[y] \in Range(chain)
    <3>1. PICK d \in 1..Len(chain) : y = chain[d]  BY <1>l DEF Range
    <3>2. CASE d = Len(chain)  BY <3>1, <3>2, <2>2 DEF Ended, Last
    <3>3. CASE d < Len(chain)
      <4>1. d \in 1..(Len(chain) - 1) /\ d + 1 \in DOMAIN chain  BY <3>3, <1>l
      <4> QED  BY <4>1, <3>1 DEF Climbed, Linked, Range
    <3>4. d = Len(chain) \/ d < Len(chain)
      <4>1. Len(chain) \in Nat  BY <1>l
      <4> QED  BY <4>1
    <3> QED  BY <3>2, <3>3, <3>4
  <2> QED  BY <2>1, <2>2, MetLeast
<1>3. ASSUME NEW d \in DOMAIN chain
      PROVE  Met(chain[1], {chain[d]}) = {chain[e] : e \in 1..d}
  <2>1. PICK S : S = {chain[e] : e \in 1..d}  OBVIOUS
  <2>2. d \in 1..Len(chain) /\ \A e \in 1..d : e \in DOMAIN chain  BY <1>l
  <2>3. S \subseteq Met(chain[1], {chain[d]})
    <3> SUFFICES ASSUME NEW e \in 1..d PROVE chain[e] \in Met(chain[1], {chain[d]})
      BY <2>1
    <3>1. \A f \in 1..(e - 1) : f \in DOMAIN chain /\ f # d  BY <2>2
    <3>2. \A f \in 1..(e - 1) : chain[f] \notin {chain[d]}  BY <3>1 DEF Climbed, IsInjective
    <3>3. {chain[d]} \in SUBSET Themes /\ e \in DOMAIN chain  BY <2>2, <1>e
    <3> QED  BY <3>2, <3>3 DEF Climbed, Reached
  <2>4. S \in SUBSET Themes /\ chain[1] \in S
    <3>1. 1 \in 1..d  BY <2>2
    <3> QED  BY <3>1, <2>1, <2>2, <1>e, <1>l
  <2>5. ASSUME NEW y \in S \ {chain[d]}
        PROVE  extends[y] \in S
    <3>1. PICK e \in 1..d : y = chain[e]  BY <2>1
    <3>2. e # d  BY <3>1, <2>5
    <3>3. e \in 1..(Len(chain) - 1) /\ e + 1 \in 1..d  BY <3>2, <2>2, <1>l
    <3> QED  BY <3>1, <3>3, <2>1 DEF Climbed, Linked
  <2>6. Met(chain[1], {chain[d]}) \subseteq S  BY <2>4, <2>5, MetLeast
  <2> QED  BY <2>1, <2>3, <2>6
<1> QED  BY <1>1, <1>2, <1>3

\* The solutions of the three queries are what the theme at the foot of the
\* chain inherits.
LEMMA Inherited ==
    ASSUME ThemeTypeOK, Climbed, Ended
    PROVE  \A v \in Themes \X AllItems :
               InheritsFrom(chain[1], v[2], v[1]) <=> \E q \in 1..3 : v \in Solutions(q)
<1> SUFFICES ASSUME NEW v \in Themes \X AllItems
             PROVE  InheritsFrom(chain[1], v[2], v[1]) <=> \E q \in 1..3 : v \in Solutions(q)
  OBVIOUS
<1>c. chain \in Seq(Themes)  BY DEF ThemeTypeOK
<1>l. Len(chain) \in Nat /\ DOMAIN chain = 1..Len(chain)  BY <1>c, LenProperties
<1>v. v = <<v[1], v[2]>>  OBVIOUS
<1>q. \E q \in 1..3 : v \in Themes \X Items[q]  BY DEF AllItems
<1>1. ASSUME NEW d \in DOMAIN chain, v[1] = chain[d]
      PROVE  Met(chain[1], {v[1]}) \ {v[1]} = {chain[e] : e \in 1..(d - 1)}
  <2>1. Met(chain[1], {v[1]}) = {chain[e] : e \in 1..d}  BY <1>1, ChainIsMet
  <2>2. \A e \in 1..(d - 1) : e \in DOMAIN chain /\ e # d /\ e \in 1..d  BY <1>l
  <2>3. \A e \in 1..(d - 1) : chain[e] # v[1]  BY <1>1, <2>2 DEF Climbed, IsInjective
  <2>4. \A e \in 1..d : e = d \/ e \in 1..(d - 1)  BY <1>l
  <2> QED  BY <2>1, <2>2, <2>3, <2>4, <1>1
<1>2. ASSUME InheritsFrom(chain[1], v[2], v[1])
      PROVE  \E q \in 1..3 : v \in Solutions(q)
  <2>1. PICK d \in DOMAIN chain : v[1] = chain[d]  BY <1>2, ChainIsMet DEF InheritsFrom, Range
  <2>2. \A e \in 1..(d - 1) : <<chain[e], v[2]>> \notin gives
    BY <2>1, <1>1, <1>2 DEF InheritsFrom
  <2>3. v \in gives  BY <1>2, <1>v DEF InheritsFrom
  <2> QED  BY <1>q, <2>1, <2>2, <2>3 DEF Solutions
<1>3. ASSUME NEW q \in 1..3, v \in Solutions(q)
      PROVE  InheritsFrom(chain[1], v[2], v[1])
  <2>1. PICK d \in DOMAIN chain :
          /\ v[1] = chain[d] /\ v \in gives
          /\ \A e \in 1..(d - 1) : <<chain[e], v[2]>> \notin gives
    BY <1>3 DEF Solutions
  <2>2. v[1] \in Met(chain[1], {})  BY <2>1, ChainIsMet DEF Range
  <2>3. \A u \in Met(chain[1], {v[1]}) \ {v[1]} : <<u, v[2]>> \notin gives  BY <2>1, <1>1
  <2> QED  BY <2>1, <2>2, <2>3, <1>v DEF InheritsFrom
<1> QED  BY <1>2, <1>3

\* What has been constructed: the solutions of the queries that have run, each
\* once, and the name of the theme.
Built ==
    /\ IsInjective(bundle)
    /\ \A v \in Range(bundle) : v[2] = "ResolvedTheme" \/ \E p \in 1..(query - 1) : v \in Solutions(p)
    /\ \A p \in 1..(query - 1) : Solutions(p) \subseteq Range(bundle)
    /\ query = 1 => bundle = <<>>

ResolverInv ==
    /\ ThemeTypeOK
    /\ Climbed
    /\ Built
    /\ rpc = "idle" => chain = <<>> /\ query = 1
    /\ rpc = "walk" => chain # <<>> /\ query = 1
    /\ rpc = "construct" => Ended /\ query <= 3
    /\ rpc = "done" => \/ chain = <<>> /\ active_theme_iri = {} /\ query = 1
                       \/ Ended /\ query = 4
    /\ chain # <<>> => chain[1] \in active_theme_iri

\* Between two calls of resolve_active_theme there is no chain.
LEMMA EmptyChain ==
    ASSUME chain = <<>>, query = 1, bundle = <<>>
    PROVE  Climbed /\ Built
<1>1. Len(chain) = 0 /\ DOMAIN chain = {} /\ DOMAIN bundle = {}  OBVIOUS
<1>2. Linked /\ Reached /\ IsInjective(chain) /\ IsInjective(bundle)
  BY <1>1 DEF Linked, Reached, IsInjective
<1>3. Range(bundle) = {}  BY <1>1 DEF Range
<1> QED  BY <1>2, <1>3 DEF Climbed, Built

\* The parts that only read the graph and the chain.
LEMMA ChainKept ==
    ASSUME UNCHANGED <<extends, gives, chain>>
    PROVE  /\ Climbed' = Climbed /\ Ended' = Ended
           /\ \A q : Solutions(q)' = Solutions(q)
           /\ \A of, i, t : InheritsFrom(of, i, t)' = InheritsFrom(of, i, t)
<1>1. \A t, stop : Met(t, stop)' = Met(t, stop)  BY DEF Met
<1>2. Reached' = Reached
  BY <1>1 DEF Reached
<1>3. Climbed' = Climbed  BY <1>2 DEF Climbed, Linked
<1>4. Ended' = Ended  BY DEF Ended
<1>5. \A q : Solutions(q)' = Solutions(q)  BY DEF Solutions
<1>6. \A of, i, t : InheritsFrom(of, i, t)' = InheritsFrom(of, i, t)  BY <1>1 DEF InheritsFrom
<1> QED  BY <1>3, <1>4, <1>5, <1>6

\* The theme is chosen.
LEMMA ResolveStep ==
    ASSUME ResolverInv, Resolve, UNCHANGED graph
    PROVE  ResolverInv'
<1>g. UNCHANGED <<extends, gives, active, hasTheme>> /\ active_theme_iri' = active_theme_iri
  BY DEF graph, active_theme_iri
<1>b. chain = <<>> /\ query = 1 /\ bundle = <<>> /\ query' = 1 /\ bundle' = <<>>
  BY DEF ResolverInv, Resolve, Built
<1>1. CASE active_theme_iri = {} /\ rpc' = "done" /\ UNCHANGED chain
  <2>1. Climbed' /\ Built'
    <3>1. chain' = <<>>  BY <1>1, <1>b
    <3> QED  BY <3>1, <1>b, EmptyChain, ChainKept, <1>1, <1>g DEF Built
  <2>2. ThemeTypeOK'  BY <1>1, <1>g, <1>b DEF ResolverInv, ThemeTypeOK
  <2> QED  BY <2>1, <2>2, <1>1, <1>b, <1>g DEF ResolverInv
<1>2. ASSUME NEW t \in active_theme_iri, rpc' = "walk", chain' = <<t>>
      PROVE  ResolverInv'
  <2>1. t \in Themes  BY DEF ResolverInv, ThemeTypeOK, active_theme_iri
  <2>2. chain' \in Seq(Themes) /\ chain' # <<>> /\ Len(chain') = 1 /\ DOMAIN chain' = {1} /\ chain'[1] = t
    BY <1>2, <2>1
  <2>3. ThemeTypeOK'  BY <1>2, <2>2, <1>g, <1>b DEF ResolverInv, ThemeTypeOK
  <2>4. Linked' /\ IsInjective(chain')  BY <2>2 DEF Linked, IsInjective
  <2>5. Reached'
    <3>1. \A stop : t \in Met(t, stop)'  BY <2>1 DEF Met
    <3> QED  BY <3>1, <2>2 DEF Reached
  <2>6. Built'
    <3>1. Range(bundle') = {} /\ IsInjective(bundle')  BY <1>b DEF Range, IsInjective
    <3> QED  BY <3>1, <1>b DEF Built
  <2> QED  BY <2>2, <2>3, <2>4, <2>5, <2>6, <1>2, <1>b, <1>g DEF ResolverInv, Climbed
<1> QED  BY <1>1, <1>2 DEF Resolve

\* The walk adds a theme, or ends at the root or at one it has seen.
LEMMA WalkStep ==
    ASSUME ResolverInv, Walk, UNCHANGED graph
    PROVE  ResolverInv'
<1>g. UNCHANGED <<extends, gives, active, hasTheme>> /\ active_theme_iri' = active_theme_iri
  BY DEF graph, active_theme_iri
<1>b. /\ chain # <<>> /\ query = 1 /\ bundle = <<>> /\ query' = 1 /\ bundle' = <<>>
      /\ chain[1] \in active_theme_iri /\ rpc = "walk"
  BY DEF ResolverInv, Walk, Built
<1>t. ThemeTypeOK /\ chain \in Seq(Themes)  BY DEF ResolverInv, ThemeTypeOK
<1>u. Built'
  <2>1. Range(bundle') = {} /\ IsInjective(bundle')  BY <1>b DEF Range, IsInjective
  <2> QED  BY <2>1, <1>b DEF Built
<1>p. PICK p : p = extends[Last(chain)]  OBVIOUS
<1>1. CASE p # None /\ p \notin Range(chain)
  <2>1. chain' = Append(chain, p) /\ rpc' = "walk"  BY <1>1, <1>p, <1>b DEF Walk
  <2>2. Climbed' /\ chain'[1] = chain[1] /\ chain' # <<>>
    BY <1>1, <1>p, <1>b, <1>t, <1>g, <2>1, ClimbStep DEF ResolverInv
  <2>3. Len(chain) \in 1..Len(chain) /\ Last(chain) \in Themes
    BY <1>t, <1>b, EmptySeq, LenProperties, ElementOfSeq DEF Last
  <2>4. p \in Themes  BY <2>3, <1>p, <1>1, <1>t DEF ThemeTypeOK
  <2>5. chain' \in Seq(Themes)  BY <2>1, <2>4, <1>t, AppendProperties
  <2>6. ThemeTypeOK'  BY <2>5, <2>1, <1>g, <1>b, <1>t DEF ThemeTypeOK
  <2> QED  BY <2>1, <2>2, <2>6, <1>u, <1>b, <1>g DEF ResolverInv
<1>2. CASE ~(p # None /\ p \notin Range(chain))
  <2>1. rpc' = "construct" /\ chain' = chain  BY <1>2, <1>p DEF Walk
  <2>2. Climbed' /\ Ended'  BY <2>1, <1>g, <1>b, <1>2, <1>p, ChainKept DEF ResolverInv, Ended
  <2>3. ThemeTypeOK'  BY <2>1, <1>g, <1>b, <1>t DEF ThemeTypeOK
  <2> QED  BY <2>1, <2>2, <2>3, <1>u, <1>b, <1>g DEF ResolverInv
<1> QED  BY <1>1, <1>2

\* The items of a query are its own, and none of them names the theme.
LEMMA SolutionFacts ==
    ASSUME NEW q \in 1..3
    PROVE  /\ Solutions(q) \subseteq Themes \X AllItems /\ IsFiniteSet(Solutions(q))
           /\ \A v \in Solutions(q) : v[2] # "ResolvedTheme"
           /\ \A p \in 1..3 : p # q => Solutions(p) \intersect Solutions(q) = {}
<1>1. Items[q] \subseteq AllItems  BY DEF AllItems
<1>2. Solutions(q) \subseteq Themes \X AllItems  BY <1>1 DEF Solutions
<1>3. IsFiniteSet(Themes \X AllItems)  BY ThemeAssumption, FS_Product
<1>4. IsFiniteSet(Solutions(q))  BY <1>2, <1>3, FS_Subset
<1>5. \A v \in Solutions(q) : v[2] # "ResolvedTheme"  BY <1>2, ThemeAssumption
<1>6. ASSUME NEW p \in 1..3, p # q, NEW v \in Solutions(p), v \in Solutions(q)
      PROVE  FALSE
  <2>1. v[2] \in Items[p] /\ v[2] \in Items[q]  BY <1>6 DEF Solutions
  <2> QED  BY <2>1, <1>6, ThemeAssumption
<1> QED  BY <1>2, <1>4, <1>5, <1>6

\* A CONSTRUCT adds the solutions of its query, which no other query has.
LEMMA ConstructStep ==
    ASSUME ResolverInv, Construct, UNCHANGED graph
    PROVE  ResolverInv'
<1>g. UNCHANGED <<extends, gives, active, hasTheme>> /\ active_theme_iri' = active_theme_iri
  BY DEF graph, active_theme_iri
<1>b. /\ chain' = chain /\ Ended /\ chain # <<>> /\ rpc = "construct"
      /\ query \in 1..3 /\ query' = query + 1 /\ (rpc' = IF query = 3 THEN "done" ELSE "construct")
  BY DEF ResolverInv, Construct, ThemeTypeOK, Ended
<1>t. ThemeTypeOK /\ chain \in Seq(Themes)  BY DEF ResolverInv, ThemeTypeOK
<1>x. PICK X : X = Themes \X (AllItems \union {"ResolvedTheme"})  OBVIOUS
<1>0. bundle \in Seq(X) /\ IsInjective(bundle)  BY <1>x, <1>t DEF ThemeTypeOK, ResolverInv, Built
<1>n. PICK named : named = IF query = 1 /\ Solutions(1) # {} THEN <<<<chain[1], "ResolvedTheme">>>> ELSE <<>>
  OBVIOUS
<1>s. PICK found : found = SetToSeq(Solutions(query))  OBVIOUS
<1>1. chain[1] \in Themes
  BY <1>b, <1>t, EmptySeq, LenProperties, ElementOfSeq
<1>2. /\ named \in Seq(X) /\ IsInjective(named)
      /\ Range(named) \subseteq {<<chain[1], "ResolvedTheme">>}
      /\ Range(bundle) \intersect Range(named) = {}
  <2>1. CASE query = 1 /\ Solutions(1) # {}
    <3>1. named = <<<<chain[1], "ResolvedTheme">>>>  BY <2>1, <1>n
    <3>2. <<chain[1], "ResolvedTheme">> \in X  BY <1>1, <1>x
    <3>3. named \in Seq(X) /\ DOMAIN named = {1}  BY <3>1, <3>2
    <3>4. bundle = <<>>  BY <2>1 DEF ResolverInv, Built
    <3>5. Range(bundle) = {}  BY <3>4 DEF Range
    <3> QED  BY <3>1, <3>3, <3>5 DEF IsInjective, Range
  <2>2. CASE ~(query = 1 /\ Solutions(1) # {})
    <3>1. named = <<>>  BY <2>2, <1>n
    <3>2. DOMAIN named = {} /\ named \in Seq(X)  BY <3>1
    <3> QED  BY <3>2 DEF IsInjective, Range
  <2> QED  BY <2>1, <2>2
<1>3. /\ found \in Seq(X) /\ IsInjective(found) /\ Range(found) = Solutions(query)
  <2>1. found \in Seq(Solutions(query)) /\ IsInjective(found) /\ Range(found) = Solutions(query)
    BY <1>b, <1>s, SolutionFacts, Enumerates
  <2>2. Solutions(query) \subseteq X  BY <1>b, <1>x, SolutionFacts
  <2> QED  BY <2>1, <2>2, SeqMonotonic
<1>4. /\ bundle \o named \in Seq(X) /\ IsInjective(bundle \o named)
      /\ Range(bundle \o named) = Range(bundle) \union Range(named)
  BY <1>0, <1>2, JoinInjective
<1>5. Range(bundle \o named) \intersect Range(found) = {}
  <2> SUFFICES ASSUME NEW v \in Range(bundle) \union Range(named), v \in Solutions(query)
               PROVE  FALSE
    BY <1>3, <1>4
  <2>1. v[2] # "ResolvedTheme"  BY <1>b, SolutionFacts
  <2>2. v \in Range(bundle)  BY <2>1, <1>2
  <2>3. PICK p \in 1..(query - 1) : v \in Solutions(p)  BY <2>1, <2>2 DEF ResolverInv, Built
  <2>4. p \in 1..3 /\ p # query  BY <1>b
  <2> QED  BY <2>3, <2>4, <1>b, SolutionFacts
<1>6. /\ bundle' \in Seq(X) /\ IsInjective(bundle')
      /\ Range(bundle') = Range(bundle) \union Range(named) \union Solutions(query)
  <2>1. bundle' = (bundle \o named) \o found  BY <1>n, <1>s DEF Construct
  <2>2. PICK front \in Seq(X) : front = bundle \o named  BY <1>4
  <2>3. IsInjective(front) /\ Range(front) \intersect Range(found) = {}  BY <2>2, <1>4, <1>5
  <2>4. /\ front \o found \in Seq(X) /\ IsInjective(front \o found)
        /\ Range(front \o found) = Range(front) \union Range(found)
    BY <2>3, <1>3, JoinInjective
  <2> QED  BY <2>1, <2>2, <2>4, <1>3, <1>4
<1>7. \A q : Solutions(q)' = Solutions(q)  BY <1>g, <1>b, ChainKept
<1>8. Built'
  <2>1. query' - 1 = query /\ query' # 1  BY <1>b
  <2>2. ASSUME NEW v \in Range(bundle')
        PROVE  v[2] = "ResolvedTheme" \/ \E p \in 1..query : v \in Solutions(p)
    <3>1. CASE v \in Range(bundle)
      <4>1. \A p \in 1..(query - 1) : p \in 1..query  BY <1>b
      <4> QED  BY <3>1, <4>1 DEF ResolverInv, Built
    <3>2. CASE v \in Range(named)
      BY <3>2, <1>2
    <3>3. CASE v \in Solutions(query)
      <4>1. query \in 1..query  BY <1>b
      <4> QED  BY <3>3, <4>1
    <3> QED  BY <3>1, <3>2, <3>3, <1>6
  <2>3. ASSUME NEW p \in 1..query
        PROVE  Solutions(p) \subseteq Range(bundle')
    <3>1. p = query \/ p \in 1..(query - 1)  BY <1>b
    <3> QED  BY <3>1, <1>6 DEF ResolverInv, Built
  <2> QED  BY <2>1, <2>2, <2>3, <1>6, <1>7 DEF Built
<1>9. ThemeTypeOK'
  BY <1>6, <1>x, <1>g, <1>b, <1>t DEF ThemeTypeOK
<1>10. Climbed' /\ Ended'  BY <1>g, <1>b, ChainKept DEF ResolverInv
<1> QED  BY <1>8, <1>9, <1>10, <1>g, <1>b DEF ResolverInv

\* A query that fails leaves no bundle.
LEMMA FailsStep ==
    ASSUME ResolverInv, ResolveFails, UNCHANGED graph
    PROVE  ResolverInv'
<1>g. UNCHANGED <<extends, gives, active, hasTheme>> /\ active_theme_iri' = active_theme_iri
  BY DEF graph, active_theme_iri
<1>b. rpc' = "failed" /\ UNCHANGED <<chain, query, bundle>>  BY DEF ResolveFails
<1>1. Climbed' /\ Built'
  <2>1. Climbed' /\ \A q : Solutions(q)' = Solutions(q)  BY <1>g, <1>b, ChainKept DEF ResolverInv
  <2> QED  BY <2>1, <1>b DEF ResolverInv, Built
<1>2. ThemeTypeOK'  BY <1>g, <1>b DEF ResolverInv, ThemeTypeOK
<1> QED  BY <1>1, <1>2, <1>g, <1>b DEF ResolverInv

\* The caller takes the result, or an update changes which theme is active
\* while the resolver is at rest.
LEMMA RestStep ==
    ASSUME ResolverInv, rpc' = "idle", chain' = <<>>, query' = 1, bundle' = <<>>,
           extends' = extends, gives' = gives, active' \subseteq Themes, hasTheme' \subseteq Themes
    PROVE  ResolverInv'
<1>1. Climbed' /\ Built'
  <2>1. Len(chain') = 0 /\ DOMAIN chain' = {} /\ DOMAIN bundle' = {}  OBVIOUS
  <2>2. Linked' /\ Reached' /\ IsInjective(chain') /\ IsInjective(bundle')
    BY <2>1 DEF Linked, Reached, IsInjective
  <2>3. Range(bundle') = {}  BY <2>1 DEF Range
  <2> QED  BY <2>2, <2>3 DEF Climbed, Built
<1>2. chain' \in Seq(Themes) /\ bundle' \in Seq(Themes \X (AllItems \union {"ResolvedTheme"}))
  BY EmptySeq
<1>3. ThemeTypeOK'  BY <1>2 DEF ResolverInv, ThemeTypeOK
<1> QED  BY <1>1, <1>3 DEF ResolverInv

\* What the resolver has at the end is what the theme inherits.
LEMMA WholeBundle ==
    ASSUME ResolverInv, rpc = "done"
    PROVE  /\ BundleIsInherited
           /\ \/ bundle = <<>> /\ active_theme_iri = {}
              \/ \E t \in active_theme_iri :
                    {v \in Range(bundle) : v[2] # "ResolvedTheme"} =
                        {v \in Themes \X AllItems : InheritsFrom(t, v[2], v[1])}
<1>1. CASE chain = <<>> /\ active_theme_iri = {} /\ query = 1
  <2>1. bundle = <<>> /\ Range(bundle) = {}
    <3>1. bundle = <<>>  BY <1>1 DEF ResolverInv, Built
    <3> QED  BY <3>1 DEF Range
  <2> QED  BY <2>1, <1>1 DEF BundleIsInherited, ResolverInv, Built
<1>2. CASE Ended /\ query = 4
  <2>1. chain # <<>> /\ chain[1] \in active_theme_iri /\ IsInjective(bundle)
    BY <1>2 DEF Ended, ResolverInv, Built
  <2>2. 1..(query - 1) = 1..3  BY <1>2
  <2>3. \A v \in Themes \X AllItems :
            InheritsFrom(chain[1], v[2], v[1]) <=> \E q \in 1..3 : v \in Solutions(q)
    BY <1>2, Inherited DEF ResolverInv
  <2>4. ASSUME NEW v \in Range(bundle), v[2] # "ResolvedTheme"
        PROVE  v \in Themes \X AllItems /\ InheritsFrom(chain[1], v[2], v[1])
    <3>1. PICK q \in 1..3 : v \in Solutions(q)  BY <2>4, <2>2 DEF ResolverInv, Built
    <3> QED  BY <3>1, <2>3, SolutionFacts
  <2>5. ASSUME NEW v \in Themes \X AllItems, InheritsFrom(chain[1], v[2], v[1])
        PROVE  v \in Range(bundle) /\ v[2] # "ResolvedTheme"
    <3>1. PICK q \in 1..3 : v \in Solutions(q)  BY <2>5, <2>3
    <3> QED  BY <3>1, <2>2, SolutionFacts DEF ResolverInv, Built
  <2>6. {v \in Range(bundle) : v[2] # "ResolvedTheme"} =
            {v \in Themes \X AllItems : InheritsFrom(chain[1], v[2], v[1])}
    BY <2>4, <2>5
  <2> QED  BY <2>1, <2>6 DEF BundleIsInherited
<1> QED  BY <1>1, <1>2 DEF ResolverInv

-----------------------------------------------------------------------------
(* The handlers.  What a handler has done and what it has still to do are    *)
(* together the answer to its line.                                          *)

HandlerType ==
    /\ line = None \/ line \in Lines
    /\ log \in Seq(AllSteps)
    /\ steps = None \/ steps \in Seq(AllSteps)
    /\ line = None => steps = None
    /\ steps = None => log = <<>>

\* The resolver runs for a line that is not answered yet, and a line that is
\* not answered has left the graph alone.
Turn ==
    rpc # "idle" => /\ line # None /\ line.kind = "design" /\ line.form = "ResolveActiveTheme"
                    /\ steps = None
Free(list, kind) == \A i \in DOMAIN list : list[i].doc.kind # kind

\* The entries offered and the entries still to insert are those of the list.
Trusted == line.sig = "pinned" /\ line.payload # None
Remaining(entries) ==
    LET k == Cardinality(Offers)
    IN  /\ k + Len(steps) = Len(entries)
        /\ \A i \in 1..Len(steps) : steps[i] = Step("insert", Doc("BlocklistApply", entries[k + i]))
InOrder(entries) ==
    \A i \in Offers : /\ Cardinality(UpTo(Offers, i)) <= Len(entries)
                            /\ log[i].doc.about = entries[Cardinality(UpTo(Offers, i))]
ListProgress ==
    line # None /\ line.kind = "list" /\ steps # None =>
        /\ Trusted => Remaining(parse_entries(line.payload)) /\ InOrder(parse_entries(line.payload))
        /\ ~Trusted => /\ Offers = {} /\ Free(steps, "BlocklistApply")
                       /\ steps = <<>> => log # <<>>

HandlerInv == ResolverInv /\ HandlerType /\ Turn /\ ListProgress

\* Where OUT takes everything, a resolved theme and its marker are sent from the
\* graph that selected it, and nothing else answers with a marker.
Whole(values) ==
    \/ values = <<>> /\ active_theme_iri = {}
    \/ \E t \in active_theme_iri :
            {v \in Range(values) : v[2] # "ResolvedTheme"} =
                {v \in Themes \X AllItems : InheritsFrom(t, v[2], v[1])}
Values == Themes \X (AllItems \union {"ResolvedTheme"})
Item(values, i) ==
    Step("out", IF i <= Len(values) THEN Doc("triple", values[i])
                ELSE Doc("ThemeBundleComplete", Len(values)))
Sending(values) ==
    /\ Len(log) + Len(steps) = Len(values) + 1
    /\ \A i \in 1..Len(log) : log[i] = Item(values, i)
    /\ \A i \in 1..Len(steps) : steps[i] = Item(values, Len(log) + i)
MarkerInv ==
    steps # None =>
        \/ Free(log, "ThemeBundleComplete") /\ Free(steps, "ThemeBundleComplete")
        \/ /\ line.kind = "design"
           /\ \E values \in Seq(Values) : Whole(values) /\ Sending(values)

\* The documents that handlers make.
LEMMA DocIsDocument ==
    \A kind \in Kinds : \A about \in {None} \union Nat \union Entries \union Values :
        /\ Doc(kind, about) \in Documents
        /\ Doc(kind, about).kind = kind /\ Doc(kind, about).about = about
BY DEF Doc, Documents, Values

\* The answer of a handler that refuses: one antenna:Error.
LEMMA RefusedFacts ==
    /\ Refused \in Seq(AllSteps) /\ Refused # None /\ Len(Refused) = 1 /\ DOMAIN Refused = {1}
    /\ Refused[1] = Step("out", Error) /\ Refused[1].doc.kind = "Error" /\ Refused[1].op = "out"
<1>1. Step("out", Error) \in AllSteps
  <2>1. Error \in Documents  BY DocIsDocument DEF Error, Kinds
  <2> QED  BY <2>1 DEF Step, AllSteps, Ops
<1>2. PICK s \in AllSteps : s = Step("out", Error)  BY <1>1
<1>3. Refused = <<s>>  BY <1>2 DEF Refused, Outs
<1>4. s.doc.kind = "Error" /\ s.op = "out"  BY <1>2 DEF Step, Error, Doc
<1>5. Refused \in Seq(AllSteps) /\ Len(Refused) = 1 /\ DOMAIN Refused = {1} /\ Refused[1] = s
  BY <1>3
<1> QED  BY <1>2, <1>4, <1>5, HandlerAssumption

\* The fields of a step.
LEMMA StepFacts ==
    \A o, d : Step(o, d).op = o /\ Step(o, d).doc = d
BY DEF Step

\* One step of a handler: the document of the first step moves from what is to
\* be done to what is done, once for each effect.
LEMMA DoneFacts ==
    ASSUME HandlerType, steps # None, steps # <<>>, NEW ops \in Seq(Ops), Done(ops)
    PROVE  /\ log' \in Seq(AllSteps) /\ steps' \in Seq(AllSteps) /\ steps' # None
           /\ Len(log) \in Nat /\ Len(ops) \in Nat /\ Len(steps) \in Nat \ {0} /\ steps \in Seq(AllSteps)
           /\ Len(log') = Len(log) + Len(ops) /\ Len(steps') = Len(steps) - 1
           /\ DOMAIN log = 1..Len(log) /\ DOMAIN log' = 1..Len(log') /\ DOMAIN steps' = 1..Len(steps')
           /\ DOMAIN steps = 1..Len(steps) /\ 1 \in DOMAIN steps /\ steps[1] \in AllSteps
           /\ \A i \in 1..Len(log) : log'[i] = log[i]
           /\ \A i \in 1..Len(ops) : log'[Len(log) + i] = Step(ops[i], steps[1].doc)
           /\ \A i \in 1..Len(steps') : steps'[i] = steps[i + 1] /\ i + 1 \in DOMAIN steps
           /\ UNCHANGED <<graph, resolver, line>>
<1>s. steps \in Seq(AllSteps) /\ log \in Seq(AllSteps)  BY DEF HandlerType
<1>1. /\ Len(steps) \in Nat \ {0} /\ DOMAIN steps = 1..Len(steps) /\ 1 \in DOMAIN steps
      /\ Head(steps) = steps[1] /\ steps[1] \in AllSteps
  BY <1>s
<1>2. /\ steps' \in Seq(AllSteps) /\ Len(steps') = Len(steps) - 1 /\ DOMAIN steps' = 1..Len(steps')
      /\ \A i \in 1..Len(steps') : steps'[i] = steps[i + 1] /\ i + 1 \in DOMAIN steps
  <2>1. PICK rest : rest = Tail(steps)  OBVIOUS
  <2>2. rest \in Seq(AllSteps) /\ Len(rest) = Len(steps) - 1
    BY <2>1, <1>s, HeadTailProperties
  <2>3. \A i \in 1..Len(rest) : rest[i] = steps[i + 1]
    BY <2>1, <1>s, HeadTailProperties
  <2> QED  BY <2>1, <2>2, <2>3, <1>1, LenProperties DEF Done
<1>3. PICK more : more = [i \in DOMAIN ops |-> Step(ops[i], steps[1].doc)]  OBVIOUS
<1>4. /\ more \in Seq(AllSteps) /\ Len(more) = Len(ops) /\ Len(ops) \in Nat
      /\ \A i \in 1..Len(ops) : more[i] = Step(ops[i], steps[1].doc)
  <2>1. DOMAIN ops = 1..Len(ops) /\ Len(ops) \in Nat /\ \A i \in 1..Len(ops) : ops[i] \in Ops  OBVIOUS
  <2>2. steps[1].doc \in Documents  BY <1>1 DEF AllSteps
  <2>3. \A o \in Ops : Step(o, steps[1].doc) \in AllSteps  BY <2>2 DEF Step, AllSteps
  <2>4. more \in [1..Len(ops) -> AllSteps]  BY <2>1, <2>3, <1>3
  <2>5. PICK n \in Nat : n = Len(ops)  BY <2>1
  <2>6. more \in [1..n -> AllSteps]  BY <2>4, <2>5
  <2>7. more \in Seq(AllSteps) /\ Len(more) = n  BY <2>6
  <2> QED  BY <2>1, <2>5, <2>7, <1>3
<1>5. log' = log \o more  BY <1>1, <1>3 DEF Done
<1>6. /\ log' \in Seq(AllSteps) /\ Len(log') = Len(log) + Len(more) /\ Len(log) \in Nat
      /\ DOMAIN log = 1..Len(log) /\ DOMAIN log' = 1..Len(log')
      /\ \A i \in 1..Len(log) : log'[i] = log[i]
      /\ \A i \in 1..Len(more) : log'[Len(log) + i] = more[i]
  <2>1. PICK both : both = log \o more  OBVIOUS
  <2>2. both \in Seq(AllSteps) /\ Len(both) = Len(log) + Len(more)  BY <2>1, <1>4, <1>s, ConcatProperties
  <2>3. \A i \in 1..(Len(log) + Len(more)) : both[i] = IF i <= Len(log) THEN log[i] ELSE more[i - Len(log)]
    BY <2>1, <1>4, <1>s, ConcatProperties
  <2>4. Len(log) \in Nat /\ DOMAIN log = 1..Len(log) /\ DOMAIN both = 1..Len(both) /\ Len(more) \in Nat
    BY <2>2, <1>4, <1>s, LenProperties
  <2>5. \A i \in 1..Len(log) : both[i] = log[i]  BY <2>3, <2>4
  <2>6. \A i \in 1..Len(more) : both[Len(log) + i] = more[i]
    <3> SUFFICES ASSUME NEW i \in 1..Len(more) PROVE both[Len(log) + i] = more[i]
      OBVIOUS
    <3>1. /\ Len(log) + i \in 1..(Len(log) + Len(more)) /\ ~(Len(log) + i <= Len(log))
          /\ (Len(log) + i) - Len(log) = i
      BY <2>4
    <3> QED  BY <3>1, <2>3
  <2> QED  BY <2>1, <2>2, <2>4, <2>5, <2>6, <1>5
<1>7. steps' # None  BY <1>2, HandlerAssumption
<1> QED  BY <1>s, <1>1, <1>2, <1>4, <1>6, <1>7 DEF Done

\* Steps of the handlers leave the resolver alone.
LEMMA ResolverKept ==
    ASSUME ResolverInv, UNCHANGED <<graph, resolver>>
    PROVE  ResolverInv'
<1>1. UNCHANGED <<extends, gives, active, hasTheme, rpc, chain, query, bundle>>
  BY DEF graph, resolver
<1>2. Climbed' /\ (Ended' <=> Ended) /\ \A q : Solutions(q)' = Solutions(q)
  BY <1>1, ChainKept DEF ResolverInv
<1>3. active_theme_iri' = active_theme_iri  BY <1>1 DEF active_theme_iri
<1>4. ThemeTypeOK'  BY <1>1 DEF ResolverInv, ThemeTypeOK
<1>5. Built'  BY <1>1, <1>2 DEF ResolverInv, Built
<1> QED  BY <1>1, <1>2, <1>3, <1>4, <1>5 DEF ResolverInv

\* The places of a log are finitely many.
LEMMA PlacesFinite ==
    ASSUME log \in Seq(AllSteps)
    PROVE  /\ Offers \subseteq 1..Len(log) /\ IsFiniteSet(Offers)
           /\ Cardinality(Offers) \in Nat
<1>1. Len(log) \in Nat /\ DOMAIN log = 1..Len(log)  BY LenProperties
<1>2. Offers \subseteq 1..Len(log)  BY <1>1 DEF Offers
<1>3. IsFiniteSet(1..Len(log))  BY <1>1, FS_Interval
<1>4. IsFiniteSet(Offers)  BY <1>2, <1>3, FS_Subset
<1> QED  BY <1>2, <1>4, FS_CardinalityType

\* An entry of a list that is inserted is the next one that is offered.
LEMMA NextOffered ==
    ASSUME HandlerType, steps # None, steps # <<>>, NEW ops \in Seq(Ops), Done(ops), Len(ops) > 0,
           \A i \in 2..Len(ops) : ops[i] \notin Shown
    PROVE  Offers' = IF ops[1] \in Shown /\ steps[1].doc.kind = "BlocklistApply"
                           THEN Offers \union {Len(log) + 1} ELSE Offers
<1>1. /\ Len(log) \in Nat /\ Len(ops) \in Nat /\ Len(log') = Len(log) + Len(ops)
      /\ DOMAIN log = 1..Len(log) /\ DOMAIN log' = 1..Len(log')
      /\ \A i \in 1..Len(log) : log'[i] = log[i]
      /\ \A i \in 1..Len(ops) : log'[Len(log) + i] = Step(ops[i], steps[1].doc)
  BY DoneFacts
<1>2. ASSUME NEW j \in 1..Len(log)
      PROVE  j \in Offers' <=> j \in Offers
  BY <1>1 DEF Offers
<1>3. ASSUME NEW i \in 1..Len(ops)
      PROVE  /\ Len(log) + i \in DOMAIN log'
             /\ Len(log) + i \in Offers' <=> ops[i] \in Shown /\ steps[1].doc.kind = "BlocklistApply"
  <2>1. Len(log) + i \in DOMAIN log'  BY <1>1
  <2>2. log'[Len(log) + i].op = ops[i] /\ log'[Len(log) + i].doc = steps[1].doc  BY <1>1, StepFacts
  <2> QED  BY <2>1, <2>2 DEF Offers
<1>4. \A i \in 1..Len(ops) : i = 1 \/ i \in 2..Len(ops)  BY <1>1
<1>5. 1 \in 1..Len(ops)  BY <1>1
<1>6. \A j \in DOMAIN log' : j \in 1..Len(log) \/ \E i \in 1..Len(ops) : j = Len(log) + i
  <2> SUFFICES ASSUME NEW j \in DOMAIN log', j \notin 1..Len(log)
               PROVE  \E i \in 1..Len(ops) : j = Len(log) + i
    OBVIOUS
  <2>1. j - Len(log) \in 1..Len(ops) /\ j = Len(log) + (j - Len(log))  BY <1>1
  <2> QED  BY <2>1
<1>7. Offers \subseteq 1..Len(log) /\ Offers' \subseteq DOMAIN log'  BY <1>1 DEF Offers
<1>8. \A j \in Offers' :
        j \in Offers \/ (j = Len(log) + 1 /\ ops[1] \in Shown /\ steps[1].doc.kind = "BlocklistApply")
  BY <1>2, <1>3, <1>4, <1>6, <1>7
<1>9. Offers \subseteq Offers'  BY <1>2, <1>7
<1>10. Len(log) + 1 \in Offers' <=> ops[1] \in Shown /\ steps[1].doc.kind = "BlocklistApply"
  BY <1>3, <1>5
<1>11. Len(log) + 1 \notin Offers  BY <1>1, <1>7
<1>12. CASE ops[1] \in Shown /\ steps[1].doc.kind = "BlocklistApply"
  BY <1>8, <1>9, <1>10, <1>12
<1>13. CASE ~(ops[1] \in Shown /\ steps[1].doc.kind = "BlocklistApply")
  BY <1>8, <1>9, <1>13
<1> QED  BY <1>12, <1>13

\* The effects of one step of each kind: an insertion is broadcast to the
\* scripts first and once, what is sent has one effect.
Effects(ops) ==
    /\ Len(ops) > 0
    /\ steps[1].op = "out" => Len(ops) = 1
    /\ ops[1] \in Shown <=> steps[1].op = "insert"
    /\ \A i \in 2..Len(ops) : ops[i] \notin Shown

\* A step of a handler counts an entry offered when its insert begins.
LEMMA ListStep ==
    ASSUME HandlerInv, steps # None, steps # <<>>, NEW ops \in Seq(Ops), Done(ops), Effects(ops)
    PROVE  ListProgress'
<1>t. HandlerType /\ ListProgress  BY DEF HandlerInv
<1>l. log \in Seq(AllSteps)  BY <1>t DEF HandlerType
<1>d. /\ log' \in Seq(AllSteps) /\ steps' \in Seq(AllSteps) /\ steps' # None
      /\ Len(log) \in Nat /\ Len(ops) \in Nat /\ Len(steps) \in Nat \ {0} /\ steps \in Seq(AllSteps)
      /\ Len(log') = Len(log) + Len(ops) /\ Len(steps') = Len(steps) - 1
      /\ DOMAIN log = 1..Len(log) /\ DOMAIN log' = 1..Len(log') /\ DOMAIN steps' = 1..Len(steps')
      /\ 1 \in DOMAIN steps /\ DOMAIN steps = 1..Len(steps)
      /\ \A i \in 1..Len(log) : log'[i] = log[i]
      /\ \A i \in 1..Len(ops) : log'[Len(log) + i] = Step(ops[i], steps[1].doc)
      /\ \A i \in 1..Len(steps') : steps'[i] = steps[i + 1] /\ i + 1 \in DOMAIN steps
      /\ line' = line
  BY <1>t, DoneFacts
<1>a. Offers' = IF ops[1] \in Shown /\ steps[1].doc.kind = "BlocklistApply"
                      THEN Offers \union {Len(log) + 1} ELSE Offers
  BY <1>t, NextOffered DEF Effects
<1>f. /\ Offers \subseteq 1..Len(log) /\ IsFiniteSet(Offers)
      /\ Cardinality(Offers) \in Nat
  BY <1>l, PlacesFinite
<1> SUFFICES ASSUME line # None, line.kind = "list"
             PROVE  /\ Trusted => Remaining(parse_entries(line.payload))' /\ InOrder(parse_entries(line.payload))'
                    /\ ~Trusted => /\ Offers' = {} /\ Free(steps', "BlocklistApply")
                                   /\ steps' = <<>> => log' # <<>>
  BY <1>d DEF ListProgress, Trusted
<1>1. ASSUME Trusted
      PROVE  Remaining(parse_entries(line.payload))' /\ InOrder(parse_entries(line.payload))'
  <2>e. PICK entries : entries = parse_entries(line.payload)  OBVIOUS
  <2>k. PICK k \in Nat : k = Cardinality(Offers)  BY <1>f
  <2>1. /\ k + Len(steps) = Len(entries)
        /\ \A i \in 1..Len(steps) : steps[i] = Step("insert", Doc("BlocklistApply", entries[k + i]))
        /\ \A i \in Offers : /\ Cardinality(UpTo(Offers, i)) <= Len(entries)
                                   /\ log[i].doc.about = entries[Cardinality(UpTo(Offers, i))]
    BY <1>1, <1>t, <2>e, <2>k DEF ListProgress, Remaining, InOrder
  <2>2. steps[1] = Step("insert", Doc("BlocklistApply", entries[k + 1]))  BY <2>1, <1>d
  <2>3. steps[1].op = "insert" /\ steps[1].doc.kind = "BlocklistApply" /\ steps[1].doc.about = entries[k + 1]
    BY <2>2 DEF Step, Doc
  <2>4. Offers' = Offers \union {Len(log) + 1} /\ Len(log) + 1 \notin Offers
    BY <2>3, <1>a, <1>f, <1>d DEF Effects
  <2>5. Cardinality(Offers') = k + 1
    BY <2>4, <2>k, <1>f, FS_AddElement
  <2>6. Remaining(entries)'
    <3>0. \A n \in Nat : (k + 1) + (n - 1) = k + n  OBVIOUS
    <3>1. (k + 1) + Len(steps') = Len(entries)  BY <3>0, <2>1, <1>d
    <3>2. ASSUME NEW i \in 1..Len(steps')
          PROVE  steps'[i] = Step("insert", Doc("BlocklistApply", entries[(k + 1) + i]))
      <4>1. i + 1 \in 1..Len(steps) /\ k + (i + 1) = (k + 1) + i  BY <1>d
      <4> QED  BY <4>1, <2>1, <1>d
    <3> QED  BY <3>1, <3>2, <2>5 DEF Remaining
  <2>7. ASSUME NEW i \in Offers'
        PROVE  /\ Cardinality(UpTo(Offers', i)) <= Len(entries)
               /\ log'[i].doc.about = entries[Cardinality(UpTo(Offers', i))]
    <3>1. CASE i \in Offers
      <4>1. i \in 1..Len(log) /\ ~(Len(log) + 1 <= i)  BY <3>1, <1>f, <1>d
      <4>2. UpTo(Offers', i) = UpTo(Offers, i)  BY <4>1, <2>4 DEF UpTo
      <4> QED  BY <4>1, <4>2, <2>1, <1>d, <3>1
    <3>2. CASE i = Len(log) + 1
      <4>1. \A j \in Offers' : j <= i  BY <3>2, <2>4, <1>f, <1>d
      <4>2. UpTo(Offers', i) = Offers'  BY <4>1 DEF UpTo
      <4>3. 1 \in 1..Len(ops)  BY <1>d DEF Effects
      <4>4. log'[i].doc = steps[1].doc  BY <4>3, <3>2, <1>d, StepFacts
      <4>5. k + 1 <= Len(entries)  BY <2>1, <1>d
      <4> QED  BY <4>2, <4>4, <4>5, <2>3, <2>5
    <3> QED  BY <3>1, <3>2, <2>4
  <2>8. InOrder(entries)'  BY <2>7 DEF InOrder, UpTo
  <2> QED  BY <2>e, <2>6, <2>8, <1>d DEF Remaining, InOrder
<1>2. ASSUME ~Trusted
      PROVE  /\ Offers' = {} /\ Free(steps', "BlocklistApply")
             /\ steps' = <<>> => log' # <<>>
  <2>1. Offers = {} /\ Free(steps, "BlocklistApply")  BY <1>2, <1>t DEF ListProgress
  <2>2. steps[1].doc.kind # "BlocklistApply"  BY <2>1, <1>d DEF Free
  <2>3. Offers' = {}  BY <2>1, <2>2, <1>a
  <2>4. Free(steps', "BlocklistApply")  BY <2>1, <1>d DEF Free
  <2>5. Len(log') # 0  BY <1>d DEF Effects
  <2>6. log' # <<>>  BY <2>5
  <2> QED  BY <2>3, <2>4, <2>6
<1> QED  BY <1>1, <1>2

\* A step of a handler keeps the invariant.
LEMMA DoneStep ==
    ASSUME HandlerInv, steps # None, steps # <<>>, NEW ops \in Seq(Ops), Done(ops), Effects(ops)
    PROVE  HandlerInv'
<1>t. HandlerType  BY DEF HandlerInv
<1>1. ListProgress'  BY ListStep
<1>2. /\ log' \in Seq(AllSteps) /\ steps' \in Seq(AllSteps) /\ steps' # None
      /\ UNCHANGED <<graph, resolver, line>>
  BY <1>t, DoneFacts
<1>3. ResolverInv'  BY <1>2, ResolverKept DEF HandlerInv
<1>4. HandlerType'  BY <1>2, <1>t DEF HandlerType
<1>5. rpc' = rpc  BY <1>2 DEF resolver
<1>6. Turn'  BY <1>2, <1>5 DEF HandlerInv, Turn
<1> QED  BY <1>1, <1>3, <1>4, <1>6 DEF HandlerInv

\* The three actions that take a step of a handler.
LEMMA EffectsOfSteps ==
    ASSUME HandlerType, SendOut \/ Keep \/ insert_with_dag
    PROVE  /\ steps # None /\ steps # <<>>
           /\ \E ops \in Seq(Ops) : /\ Done(ops) /\ Effects(ops)
                                    /\ SendOut /\ ~Lossy => ops = <<"out">>
                                    /\ steps[1].op = "out" => SendOut
<1>p. ASSUME NEW op, Pending(op)
      PROVE  steps # None /\ steps # <<>> /\ steps[1].op = op
  BY <1>p DEF Pending, HandlerType
<1>o. ASSUME NEW shown \in Shown, NEW told \in Told, NEW echo \in Sent
      PROVE  /\ <<echo>> \in Seq(Ops) /\ <<"stored">> \in Seq(Ops) /\ <<"failed">> \in Seq(Ops)
             /\ <<shown, "stored", told, echo>> \in Seq(Ops)
             /\ <<shown, "unparsed">> \in Seq(Ops) /\ <<shown, "failed">> \in Seq(Ops)
  <2>1. shown \in Ops /\ told \in Ops /\ echo \in Ops  BY DEF Ops, Shown, Told, Sent
  <2>2. "stored" \in Ops /\ "failed" \in Ops /\ "unparsed" \in Ops  BY DEF Ops
  <2> QED  BY <2>1, <2>2
<1>n. "before" \in Shown /\ "after" \in Told /\ "out" \in Sent  BY DEF Shown, Told, Sent
<1>1. CASE SendOut
  <2>1. steps # None /\ steps # <<>> /\ steps[1].op = "out"  BY <1>1, <1>p DEF SendOut
  <2>2. PICK echo \in Sent : Done(<<echo>>)  BY <1>1 DEF SendOut
  <2>3. Effects(<<echo>>)
    <3>1. echo \notin Shown  BY DEF Sent, Shown
    <3> QED  BY <3>1, <2>1 DEF Effects
  <2>4. ~Lossy => echo = "out"  BY DEF Sent
  <2> QED  BY <1>1, <1>n, <1>o, <2>1, <2>2, <2>3, <2>4
<1>2. CASE Keep
  <2>1. steps # None /\ steps # <<>> /\ steps[1].op = "keep"  BY <1>2, <1>p DEF Keep
  <2>2. Effects(<<"stored">>) /\ Effects(<<"failed">>)  BY <2>1 DEF Effects, Shown
  <2>3. ~SendOut  BY <2>1, <1>p DEF SendOut
  <2> QED  BY <1>2, <1>n, <1>o, <2>1, <2>2, <2>3 DEF Keep
<1>3. CASE insert_with_dag
  <2>1. steps # None /\ steps # <<>> /\ steps[1].op = "insert"  BY <1>3, <1>p DEF insert_with_dag
  <2>2. ~SendOut  BY <2>1, <1>p DEF SendOut
  <2>3. ASSUME NEW shown \in Shown, NEW told \in Told, NEW echo \in Sent
        PROVE  Effects(<<shown, "stored", told, echo>>)
    <3>1. PICK ops : ops = <<shown, "stored", told, echo>>  OBVIOUS
    <3>2. Len(ops) = 4 /\ ops[1] = shown /\ ops[2] = "stored" /\ ops[3] = told /\ ops[4] = echo  BY <3>1
    <3>3. ops[2] \notin Shown /\ ops[3] \notin Shown /\ ops[4] \notin Shown  BY <3>2 DEF Shown, Told, Sent
    <3>4. \A i \in 2..4 : i = 2 \/ i = 3 \/ i = 4  OBVIOUS
    <3>5. Effects(ops)  BY <3>2, <3>3, <3>4, <2>1 DEF Effects
    <3> QED  BY <3>1, <3>5
  <2>4. ASSUME NEW shown \in Shown, NEW other \in {"unparsed", "failed"}
        PROVE  Effects(<<shown, other>>)
    <3>1. other \notin Shown  BY DEF Shown
    <3>2. PICK ops : ops = <<shown, other>>  OBVIOUS
    <3>3. Len(ops) = 2 /\ ops[1] = shown /\ ops[2] = other  BY <3>2
    <3>4. \A i \in 2..2 : i = 2  OBVIOUS
    <3>5. Effects(ops)  BY <3>1, <3>3, <3>4, <2>1 DEF Effects
    <3> QED  BY <3>2, <3>5
  <2>5. PICK ops \in Seq(Ops) : Done(ops) /\ Effects(ops)
    <3>1. PICK shown \in Shown :
            \/ \E told \in Told, echo \in Sent : Done(<<shown, "stored", told, echo>>)
            \/ Done(<<shown, "unparsed">>) \/ Done(<<shown, "failed">>)
      BY <1>3 DEF insert_with_dag
    <3>2. CASE \E told \in Told, echo \in Sent : Done(<<shown, "stored", told, echo>>)
      BY <3>2, <2>3, <1>o
    <3>3. CASE Done(<<shown, "unparsed">>) \/ Done(<<shown, "failed">>)
      BY <3>3, <2>4, <1>o, <1>n
    <3> QED  BY <3>1, <3>2, <3>3
  <2> QED  BY <2>1, <2>2, <2>5
<1> QED  BY <1>1, <1>2, <1>3

\* A handler's answer to a line.
ListAnswer(list) ==
    /\ Trusted => LET entries == parse_entries(line.payload)
                  IN  /\ Len(list) = Len(entries)
                      /\ \A i \in 1..Len(list) : list[i] = Step("insert", Doc("BlocklistApply", entries[i]))
    /\ ~Trusted => Free(list, "BlocklistApply") /\ list # <<>>

\* So does the start of a handler, whatever it is going to answer.
LEMMA AnswerStep ==
    ASSUME HandlerInv, line # None, steps = None, NEW list \in Seq(AllSteps), Answers(list),
           ResolverInv', rpc' = "idle",
           line.kind = "list" => ListAnswer(list)
    PROVE  HandlerInv'
<1>1. /\ steps' = list /\ steps' # None /\ line' = line /\ log' = log
      /\ log = <<>> /\ line \in Lines
  BY HandlerAssumption DEF Answers, HandlerInv, HandlerType
<1>2. HandlerType'  BY <1>1 DEF HandlerType, HandlerInv
<1>3. Turn'  BY <1>1 DEF Turn
<1>4. DOMAIN log' = {} /\ log' = <<>>  BY <1>1
<1>6. ListProgress'
  <2> SUFFICES ASSUME line.kind = "list" PROVE ListProgress'
    BY <1>1 DEF ListProgress
  <2>1. ListAnswer(list)  OBVIOUS
  <2>2. Offers' = {} /\ Cardinality(Offers') = 0  BY <1>4, FS_EmptySet DEF Offers
  <2>3. ASSUME Trusted
        PROVE  Remaining(parse_entries(line.payload))' /\ InOrder(parse_entries(line.payload))'
    <3>1. PICK entries : entries = parse_entries(line.payload)  OBVIOUS
    <3>2. /\ Len(list) = Len(entries)
          /\ \A i \in 1..Len(list) : list[i] = Step("insert", Doc("BlocklistApply", entries[i]))
      BY <2>1, <2>3, <3>1 DEF ListAnswer
    <3>3. Len(list) \in Nat /\ 0 + Len(list) = Len(list) /\ \A i \in 1..Len(list) : 0 + i = i
      BY LenProperties
    <3>4. Remaining(entries)'  BY <3>2, <3>3, <2>2, <1>1 DEF Remaining
    <3>5. InOrder(entries)'  BY <2>2 DEF InOrder
    <3> QED  BY <3>1, <3>4, <3>5, <1>1 DEF Remaining, InOrder
  <2>4. ASSUME ~Trusted
        PROVE  /\ Offers' = {} /\ Free(steps', "BlocklistApply")
               /\ steps' = <<>> => log' # <<>>
    BY <2>1, <2>2, <2>4, <1>1 DEF ListAnswer
  <2>5. Trusted' <=> Trusted  BY <1>1 DEF Trusted
  <2>6. line'.payload = line.payload  BY <1>1
  <2> QED  BY <2>3, <2>4, <2>5, <2>6 DEF ListProgress
<1> QED  BY <1>2, <1>3, <1>6 DEF HandlerInv

\* A handler may answer with nothing.
LEMMA EmptyAnswer ==
    <<>> \in Seq(AllSteps) /\ \A kind : Free(<<>>, kind)
BY EmptySeq DEF Free

\* A line is stripped of its directives and inserted.
LEMMA InsertAnswer ==
    ASSUME NEW l \in Data
    PROVE  /\ <<Step("insert", Strip(l))>> \in Seq(AllSteps)
           /\ \A kind \in Kinds : Free(<<Step("insert", Strip(l))>>, kind)
<1>1. Strip(l) \in Documents /\ Strip(l).kind = "data"  BY DEF Strip, Data, Documents
<1>2. PICK s : s = Step("insert", Strip(l))  OBVIOUS
<1>3. s \in AllSteps /\ s.doc.kind = "data"  BY <1>1, <1>2, StepFacts DEF Step, AllSteps, Ops
<1>4. \A kind \in Kinds : kind # "data"  BY DEF Kinds
<1>5. <<s>> \in Seq(AllSteps) /\ \A kind \in Kinds : Free(<<s>>, kind)  BY <1>3, <1>4 DEF Free
<1> QED  BY <1>2, <1>5

\* Documents that are sent one after the other.
LEMMA OutsFacts ==
    ASSUME NEW docs \in Seq(Documents)
    PROVE  /\ Outs(docs) \in Seq(AllSteps) /\ Len(Outs(docs)) = Len(docs)
           /\ \A i \in 1..Len(docs) : Outs(docs)[i] = Step("out", docs[i])
<1>1. PICK n \in Nat : n = Len(docs)  OBVIOUS
<1>2. DOMAIN docs = 1..n /\ \A i \in 1..n : docs[i] \in Documents  BY <1>1
<1>3. \A d \in Documents : Step("out", d) \in AllSteps  BY DEF Step, AllSteps, Ops
<1>4. PICK list : list = Outs(docs)  OBVIOUS
<1>5. list = [i \in 1..n |-> Step("out", docs[i])]  BY <1>4, <1>2 DEF Outs
<1>6. list \in [1..n -> AllSteps]  BY <1>5, <1>2, <1>3
<1>7. list \in Seq(AllSteps) /\ Len(list) = n  BY <1>6
<1> QED  BY <1>1, <1>4, <1>5, <1>7

\* The rows of a query are documents of one kind.
LEMMA RowFacts ==
    ASSUME NEW kind \in Kinds, NEW rows \in Rows(Doc(kind, None))
    PROVE  rows \in Seq(Documents) /\ \A i \in DOMAIN rows : rows[i].kind = kind
<1>1. PICK d \in Documents : d = Doc(kind, None) /\ d.kind = kind  BY DocIsDocument
<1>2. PICK n \in 0..MaxRows : rows = [i \in 1..n |-> d]  BY <1>1 DEF Rows
<1>3. n \in Nat  BY DispatchAssumption
<1>4. rows \in [1..n -> Documents]  BY <1>2
<1> QED  BY <1>1, <1>2, <1>3, <1>4

\* What a CONSTRUCT sends and inserts are its solutions.
LEMMA KeptFacts ==
    ASSUME NEW docs \in Seq(Documents)
    PROVE  /\ SentAndKept(docs) \in Seq(AllSteps)
           /\ \A i \in DOMAIN SentAndKept(docs) : \E j \in DOMAIN docs : SentAndKept(docs)[i].doc = docs[j]
<1>1. PICK n \in Nat : n = Len(docs)  OBVIOUS
<1>2. DOMAIN docs = 1..n /\ \A i \in 1..n : docs[i] \in Documents  BY <1>1
<1>3. \A i \in 1..(2 * n) : (i + 1) \div 2 \in 1..n  BY Z3
<1>4. \A d \in Documents : Step("out", d) \in AllSteps /\ Step("keep", d) \in AllSteps  BY DEF Step, AllSteps, Ops
<1>5. PICK list : list = SentAndKept(docs)  OBVIOUS
<1>6. list = [i \in 1..(2 * n) |-> Step(IF i % 2 = 1 THEN "out" ELSE "keep", docs[(i + 1) \div 2])]
  BY <1>5, <1>1 DEF SentAndKept
<1>7. ASSUME NEW i \in 1..(2 * n)
      PROVE  list[i] \in AllSteps /\ \E j \in DOMAIN docs : list[i].doc = docs[j]
  <2>1. PICK j \in 1..n : j = (i + 1) \div 2  BY <1>3
  <2>2. list[i] = Step("out", docs[j]) \/ list[i] = Step("keep", docs[j])  BY <2>1, <1>6
  <2> QED  BY <2>1, <2>2, <1>2, <1>4, StepFacts
<1>8. PICK m \in Nat : m = 2 * n  OBVIOUS
<1>9. list \in [1..m -> AllSteps]  BY <1>6, <1>7, <1>8
<1>10. list \in Seq(AllSteps) /\ DOMAIN list = 1..m  BY <1>9
<1> QED  BY <1>5, <1>7, <1>8, <1>10

\* The answer with a resolved theme: its triples, then the marker.
LEMMA BundleFacts ==
    ASSUME ThemeTypeOK
    PROVE  /\ Bundle \in Seq(AllSteps) /\ Len(Bundle) = Len(bundle) + 1
           /\ \A i \in 1..Len(Bundle) : Bundle[i] = Item(bundle, i)
           /\ bundle \in Seq(Values) /\ Len(bundle) \in Nat
<1>1. bundle \in Seq(Values)  BY DEF ThemeTypeOK, Values
<1>2. PICK n \in Nat : n = Len(bundle)  BY <1>1
<1>3. DOMAIN bundle = 1..n /\ \A i \in 1..n : bundle[i] \in Values  BY <1>1, <1>2
<1>4. PICK triples : triples = [i \in 1..n |-> Doc("triple", bundle[i])]  OBVIOUS
<1>5. \A i \in 1..n : Doc("triple", bundle[i]) \in Documents /\ Doc("triple", bundle[i]).kind = "triple"
  BY <1>3, DocIsDocument DEF Kinds
<1>6. triples \in Seq(Documents) /\ Len(triples) = n
  <2>1. triples \in [1..n -> Documents]  BY <1>4, <1>5
  <2> QED  BY <2>1
<1>7. PICK m \in Documents : m = Doc("ThemeBundleComplete", n) /\ m.kind = "ThemeBundleComplete"
  BY DocIsDocument DEF Kinds
<1>8. PICK docs : docs = triples \o <<m>>  OBVIOUS
<1>9. /\ docs \in Seq(Documents) /\ Len(docs) = n + 1 /\ docs[n + 1] = m
      /\ \A i \in 1..n : docs[i] = Doc("triple", bundle[i])
  <2>1. docs = Append(triples, m)  BY <1>6, <1>8, AppendIsConcat
  <2> QED  BY <2>1, <1>4, <1>6, AppendProperties
<1>10. Bundle = Outs(docs)  BY <1>2, <1>3, <1>4, <1>7, <1>8 DEF Bundle
<1>11. PICK list : list = Bundle  OBVIOUS
<1>12. /\ list \in Seq(AllSteps) /\ Len(list) = n + 1
       /\ \A i \in 1..(n + 1) : list[i] = Step("out", docs[i])
  BY <1>9, <1>10, <1>11, OutsFacts
<1>13. ASSUME NEW i \in 1..(n + 1)
       PROVE  list[i] = Item(bundle, i)
  <2>1. CASE i <= n
    <3>1. i \in 1..n  BY <2>1
    <3>2. docs[i] = Doc("triple", bundle[i]) /\ docs[i].kind = "triple"  BY <3>1, <1>9, <1>5
    <3> QED  BY <3>2, <2>1, <1>2, <1>12, StepFacts DEF Item
  <2>2. CASE ~(i <= n)
    <3>1. i = n + 1  BY <2>2
    <3>2. docs[i] = Doc("ThemeBundleComplete", n) /\ docs[i].kind = "ThemeBundleComplete"  BY <3>1, <1>9, <1>7
    <3> QED  BY <3>2, <2>2, <1>2, <1>12, StepFacts DEF Item
  <2> QED  BY <2>1, <2>2
<1> QED  BY <1>1, <1>2, <1>11, <1>12, <1>13

\* The answers of the handlers, none of which but the last holds a marker.
LEMMA PlainAnswers ==
    ASSUME HandlerInv,
           \/ Ignored \/ InsertLine \/ handle_spin \/ handle_update \/ design_other
           \/ handle_subscribe_blocklist
    PROVE  \E list \in Seq(AllSteps) :
             /\ line # None /\ steps = None /\ Answers(list) /\ UNCHANGED resolver
             /\ graph' = graph \/ (handle_update /\ line.text /\ Applied)
             /\ Free(list, "ThemeBundleComplete")
             /\ line.kind = "list" => ListAnswer(list)
<1>l. line # None => line \in Lines  BY DEF HandlerInv, HandlerType
<1>r. Refused \in Seq(AllSteps) /\ Free(Refused, "ThemeBundleComplete") /\ Free(Refused, "BlocklistApply")
      /\ Refused # <<>>
  <2>1. PICK r : r = Refused  OBVIOUS
  <2>2. r \in Seq(AllSteps) /\ Len(r) = 1 /\ DOMAIN r = {1} /\ r[1].doc.kind = "Error"  BY <2>1, RefusedFacts
  <2>3. r # <<>>  BY <2>2, EmptySeq
  <2> QED  BY <2>1, <2>2, <2>3 DEF Free
<1>k. "Error" \in Kinds /\ "ThemeBundleComplete" \in Kinds /\ "BlocklistApply" \in Kinds /\ "Result" \in Kinds
      /\ "AskResult" \in Kinds /\ "triple" \in Kinds /\ "BlocklistRejected" \in Kinds
  BY DEF Kinds
<1>1. CASE Ignored
  BY <1>1, EmptyAnswer DEF Ignored, Routed
<1>2. CASE InsertLine
  <2>1. line \in Data
    BY <1>2, <1>l DEF InsertLine, Routed, Lines, Questions, Updates, Designs, Subscriptions
  <2> QED  BY <2>1, <1>2, <1>k, InsertAnswer DEF InsertLine, Routed
<1>3. CASE handle_spin
  <2>0. Routed("spin") /\ UNCHANGED <<graph, resolver>>  BY <1>3 DEF handle_spin
  <2>1. line # None /\ steps = None /\ line.kind # "list"  BY <2>0 DEF Routed
  <2>2. ASSUME NEW rows \in Rows(Doc("Result", None)), Answers(Outs(rows))
        PROVE  \E list \in Seq(AllSteps) : /\ Answers(list) /\ Free(list, "ThemeBundleComplete")
    <3>1. rows \in Seq(Documents) /\ \A i \in DOMAIN rows : rows[i].kind = "Result"  BY <1>k, RowFacts
    <3>2. PICK list : list = Outs(rows)  OBVIOUS
    <3>3. list \in Seq(AllSteps) /\ Len(list) = Len(rows) /\ \A i \in 1..Len(rows) : list[i].doc = rows[i]
      BY <3>1, <3>2, OutsFacts, StepFacts
    <3>4. Free(list, "ThemeBundleComplete")  BY <3>1, <3>3, LenProperties DEF Free
    <3> QED  BY <3>2, <3>3, <3>4, <2>2
  <2>3. ASSUME Answers(Outs(<<Doc("AskResult", None)>>))
        PROVE  \E list \in Seq(AllSteps) : /\ Answers(list) /\ Free(list, "ThemeBundleComplete")
    <3>1. PICK d \in Documents : d = Doc("AskResult", None) /\ d.kind = "AskResult"  BY <1>k, DocIsDocument
    <3>2. PICK docs : docs = <<d>>  OBVIOUS
    <3>x. docs \in Seq(Documents) /\ Len(docs) = 1 /\ docs[1] = d  BY <3>2
    <3>3. PICK list : list = Outs(docs)  OBVIOUS
    <3>4. list \in Seq(AllSteps) /\ Len(list) = 1 /\ list[1].doc = d
      <4>1. list \in Seq(AllSteps) /\ Len(list) = 1 /\ list[1] = Step("out", docs[1])
        BY <3>x, <3>3, OutsFacts
      <4> QED  BY <4>1, <3>x, StepFacts
    <3>5. Free(list, "ThemeBundleComplete")  BY <3>1, <3>4 DEF Free
    <3> QED  BY <3>1, <3>2, <3>3, <3>4, <3>5, <2>3
  <2>4. ASSUME NEW rows \in Rows(Doc("triple", None)), Answers(SentAndKept(rows))
        PROVE  \E list \in Seq(AllSteps) : /\ Answers(list) /\ Free(list, "ThemeBundleComplete")
    <3>1. rows \in Seq(Documents) /\ \A i \in DOMAIN rows : rows[i].kind = "triple"  BY <1>k, RowFacts
    <3>2. PICK list : list = SentAndKept(rows)  OBVIOUS
    <3>3. list \in Seq(AllSteps) /\ \A i \in DOMAIN list : list[i].doc.kind = "triple"
      BY <3>1, <3>2, KeptFacts
    <3>4. Free(list, "ThemeBundleComplete")  BY <3>3 DEF Free
    <3> QED  BY <3>2, <3>3, <3>4, <2>4
  <2>5. \/ \E list \in Seq(AllSteps) : Answers(list) /\ Free(list, "ThemeBundleComplete")
        \/ Answers(Refused)
    BY <1>3, <2>2, <2>3, <2>4 DEF handle_spin
  <2> QED  BY <2>0, <2>1, <2>5, <1>r
<1>4. CASE handle_update
  <2>1. line # None /\ steps = None /\ line.kind = "update"  BY <1>4 DEF handle_update, Routed
  <2> QED  BY <1>4, <2>1, <1>r, EmptyAnswer DEF handle_update
<1>5. CASE design_other
  BY <1>5, <1>r DEF design_other, Routed
<1>6. CASE handle_subscribe_blocklist
  <2>0. Routed("list") /\ UNCHANGED <<graph, resolver>>  BY <1>6 DEF handle_subscribe_blocklist
  <2>1. line # None /\ steps = None /\ line.kind = "list"  BY <2>0 DEF Routed
  <2>2. line \in Subscriptions
    BY <2>1, <1>l DEF Lines, Data, Questions, Updates, Designs
  <2>3. CASE line.payload = None
    <3>1. Answers(Refused) /\ ~Trusted  BY <2>3, <1>6 DEF handle_subscribe_blocklist, Trusted
    <3> QED  BY <3>1, <2>0, <2>1, <1>r DEF ListAnswer
  <2>4. CASE line.payload # None /\ line.sig = "pinned"
    <3>1. line.payload \in Lists  BY <2>4, <2>2 DEF Subscriptions
    <3>2. PICK entries \in Seq(Entries) : entries = parse_entries(line.payload) /\ entries # None
      BY <3>1, HandlerAssumption
    <3>3. PICK n \in Nat : n = Len(entries)  OBVIOUS
    <3>4. DOMAIN entries = 1..n /\ \A i \in 1..n : entries[i] \in Entries  BY <3>3
    <3>5. PICK docs : docs = [i \in 1..n |-> Doc("BlocklistApply", entries[i])]  OBVIOUS
    <3>6. PICK list : list = [i \in 1..n |-> Step("insert", docs[i])]  OBVIOUS
    <3>7. Answers(list)
      <4>1. verify_signed_blocklist(line.payload, line.sig) = entries
        BY <2>4, <3>2 DEF verify_signed_blocklist
      <4>2. DOMAIN docs = 1..n  BY <3>5
      <4> QED  BY <4>1, <4>2, <2>4, <3>2, <3>4, <3>5, <3>6, <1>6 DEF handle_subscribe_blocklist
    <3>8. ASSUME NEW i \in 1..n
          PROVE  /\ list[i] = Step("insert", Doc("BlocklistApply", entries[i]))
                 /\ list[i] \in AllSteps /\ list[i].doc.kind = "BlocklistApply"
      <4>1. PICK d \in Documents : d = Doc("BlocklistApply", entries[i]) /\ d.kind = "BlocklistApply"
        BY <3>4, <1>k, DocIsDocument
      <4>2. list[i] = Step("insert", d)  BY <4>1, <3>5, <3>6
      <4>3. Step("insert", d) \in AllSteps  BY DEF Step, AllSteps, Ops
      <4> QED  BY <4>1, <4>2, <4>3, StepFacts
    <3>9. list \in Seq(AllSteps) /\ Len(list) = n /\ DOMAIN list = 1..n
      <4>1. list \in [1..n -> AllSteps]  BY <3>6, <3>8
      <4> QED  BY <4>1
    <3>10. Free(list, "ThemeBundleComplete")  BY <3>8, <3>9 DEF Free
    <3>11. ListAnswer(list)  BY <3>2, <3>3, <3>8, <3>9, <2>4 DEF ListAnswer, Trusted
    <3> QED  BY <3>7, <3>9, <3>10, <3>11, <2>0, <2>1
  <2>5. CASE line.payload # None /\ line.sig # "pinned"
    <3>1. PICK d \in Documents : d = Doc("BlocklistRejected", None) /\ d.kind = "BlocklistRejected"
      BY <1>k, DocIsDocument
    <3>2. PICK docs : docs = <<d>>  OBVIOUS
    <3>3. PICK list : list = [i \in DOMAIN docs |-> Step("insert", docs[i])]  OBVIOUS
    <3>4. Answers(list)
      <4>1. verify_signed_blocklist(line.payload, line.sig) = None
        BY <2>5 DEF verify_signed_blocklist
      <4> QED  BY <4>1, <2>5, <3>1, <3>2, <3>3, <1>6 DEF handle_subscribe_blocklist
    <3>5. Step("insert", d) \in AllSteps /\ Step("insert", d).doc = d  BY DEF Step, AllSteps, Ops
    <3>6. PICK s \in AllSteps : s = Step("insert", d) /\ s.doc.kind = "BlocklistRejected"  BY <3>5, <3>1
    <3>7. list = <<s>>  BY <3>2, <3>3, <3>6
    <3>8. list \in Seq(AllSteps) /\ DOMAIN list = {1} /\ list[1] = s /\ list # <<>>  BY <3>7
    <3>9. Free(list, "ThemeBundleComplete") /\ Free(list, "BlocklistApply")
      BY <3>6, <3>8 DEF Free
    <3>10. ListAnswer(list)  BY <3>8, <3>9, <2>5 DEF ListAnswer, Trusted
    <3> QED  BY <3>4, <3>8, <3>9, <3>10, <2>0, <2>1
  <2> QED  BY <2>3, <2>4, <2>5
<1> QED  BY <1>1, <1>2, <1>3, <1>4, <1>5, <1>6

\* An update is applied while the resolver is at rest, and selects themes.
LEMMA AppliedStep ==
    ASSUME HandlerInv, handle_update, Applied, UNCHANGED resolver
    PROVE  ResolverInv'
<1>1. line # None /\ line.kind = "update" /\ steps = None  BY DEF handle_update, Routed
<1>2. rpc = "idle" /\ ResolverInv  BY <1>1 DEF HandlerInv, Turn
<1>3. chain = <<>> /\ query = 1 /\ bundle = <<>>  BY <1>2 DEF ResolverInv, Built
<1>4. line \in Updates
  BY <1>1 DEF HandlerInv, HandlerType, Lines, Data, Questions, Designs, Subscriptions
<1>5. line.sets \in {"active", "swap", "add"} => line.to \in Themes
  BY <1>4, DispatchAssumption DEF Updates
<1>6. active \subseteq Themes /\ hasTheme \subseteq Themes  BY <1>2 DEF ResolverInv, ThemeTypeOK
<1>7. active' \subseteq Themes  BY <1>5, <1>6 DEF Applied
<1>8. hasTheme' \subseteq Themes
  <2>1. \/ hasTheme' = hasTheme \/ hasTheme' = {}
        \/ line.sets \in {"swap", "add"} /\ hasTheme' \subseteq hasTheme \union {line.to}
    BY DEF Applied
  <2> QED  BY <2>1, <1>5, <1>6
<1>9. extends' = extends /\ gives' = gives  BY DEF Applied
<1>10. rpc' = rpc /\ chain' = chain /\ query' = query /\ bundle' = bundle  BY DEF resolver
<1> QED  BY <1>2, <1>3, <1>7, <1>8, <1>9, <1>10, RestStep

\* Before the first line.
LEMMA HandlerInitial == Init => HandlerInv
<1> SUFFICES ASSUME Init PROVE HandlerInv
  OBVIOUS
<1>1. /\ extends \in [Themes -> Themes \union {None}] /\ gives \subseteq Givable
      /\ active \subseteq Themes /\ hasTheme = {}
      /\ rpc = "idle" /\ chain = <<>> /\ query = 1 /\ bundle = <<>>
      /\ line = None /\ steps = None /\ log = <<>>
  <2>1. active \in {{}} \union {{t} : t \in Themes}  BY DEF Init, ThemeInit
  <2>2. active \subseteq Themes  BY <2>1
  <2> QED  BY <2>2 DEF Init, ThemeInit
<1>2. Climbed /\ Built  BY <1>1, EmptyChain
<1>3. chain \in Seq(Themes) /\ bundle \in Seq(Themes \X (AllItems \union {"ResolvedTheme"})) /\ log \in Seq(AllSteps)
  BY <1>1, EmptySeq
<1>4. ThemeTypeOK  BY <1>1, <1>3 DEF ThemeTypeOK
<1>5. ResolverInv  BY <1>1, <1>2, <1>4 DEF ResolverInv
<1>6. HandlerType /\ Turn /\ ListProgress
  BY <1>1, <1>3 DEF HandlerType, Turn, ListProgress
<1> QED  BY <1>5, <1>6 DEF HandlerInv

\* Every step of dispatch keeps the invariant, one case per handler.
LEMMA HandlerNext == HandlerInv /\ [Next]_vars => HandlerInv'
<1> SUFFICES ASSUME HandlerInv, [Next]_vars PROVE HandlerInv'
  OBVIOUS
<1>t. HandlerType /\ ResolverInv  BY DEF HandlerInv
<1>1. CASE TakeLine
  <2>1. /\ line = None /\ steps = None /\ log = <<>> /\ rpc = "idle"
        /\ line' \in Lines /\ UNCHANGED <<graph, resolver, steps, log>>
    BY <1>1 DEF TakeLine, HandlerInv, HandlerType, Turn
  <2>2. ResolverInv'  BY <2>1, <1>t, ResolverKept
  <2>3. HandlerType'  BY <2>1, <1>t DEF HandlerType
  <2>4. rpc' = "idle"  BY <2>1 DEF resolver
  <2>5. Turn' /\ ListProgress'
    BY <2>1, <2>4 DEF Turn, ListProgress
  <2> QED  BY <2>2, <2>3, <2>5 DEF HandlerInv
<1>2. CASE \/ Ignored \/ InsertLine \/ handle_spin \/ handle_update \/ design_other
           \/ handle_subscribe_blocklist
  <2>1. PICK list \in Seq(AllSteps) :
             /\ line # None /\ steps = None /\ Answers(list) /\ UNCHANGED resolver
             /\ graph' = graph \/ (handle_update /\ line.text /\ Applied)
             /\ line.kind = "list" => ListAnswer(list)
    BY <1>2, PlainAnswers
  <2>2. ResolverInv'
    <3>1. CASE graph' = graph  BY <3>1, <2>1, <1>t, ResolverKept
    <3>2. CASE handle_update /\ Applied  BY <3>2, <2>1, AppliedStep
    <3> QED  BY <3>1, <3>2, <2>1
  <2>3. rpc = "idle"
    <3>1. line.kind # "design" \/ line.form = "Unknown"
      BY <1>2 DEF Ignored, InsertLine, handle_spin, handle_update, handle_subscribe_blocklist, design_other, Routed
    <3> QED  BY <3>1 DEF HandlerInv, Turn
  <2>4. rpc' = "idle"  BY <2>1, <2>3 DEF resolver
  <2> QED  BY <2>1, <2>2, <2>4, AnswerStep
<1>3. CASE resolve_active_theme
  <2>1. /\ line # None /\ line.kind = "design" /\ line.form = "ResolveActiveTheme" /\ steps = None
        /\ UNCHANGED <<graph, line, steps, log>>
    BY <1>3 DEF resolve_active_theme, Routed
  <2>2. ResolverInv'
    BY <1>3, <1>t, <2>1, ResolveStep, WalkStep, ConstructStep, FailsStep DEF resolve_active_theme
  <2>3. HandlerType'  BY <2>1, <1>t DEF HandlerType
  <2>4. Turn' /\ ListProgress'
    BY <2>1 DEF HandlerInv, Turn, ListProgress
  <2> QED  BY <2>2, <2>3, <2>4 DEF HandlerInv
<1>4. CASE design_resolved
  <2>1. /\ line # None /\ line.kind = "design" /\ steps = None /\ graph' = graph
        /\ Answers(IF rpc = "done" THEN Bundle ELSE Refused)
        /\ rpc' = "idle" /\ chain' = <<>> /\ query' = 1 /\ bundle' = <<>>
    BY <1>4 DEF design_resolved, Routed, Resolved
  <2>2. ResolverInv'
    <3>1. extends' = extends /\ gives' = gives /\ active' = active /\ hasTheme' = hasTheme  BY <2>1 DEF graph
    <3>2. active \subseteq Themes /\ hasTheme \subseteq Themes  BY <1>t DEF ResolverInv, ThemeTypeOK
    <3> QED  BY <3>1, <3>2, <2>1, <1>t, RestStep
  <2>3. PICK list \in Seq(AllSteps) : Answers(list)
    <3>1. ThemeTypeOK  BY <1>t DEF ResolverInv
    <3> QED  BY <3>1, <2>1, BundleFacts, RefusedFacts
  <2> QED  BY <2>1, <2>2, <2>3, AnswerStep
<1>5. CASE SendOut \/ Keep \/ insert_with_dag
  BY <1>5, <1>t, EffectsOfSteps, DoneStep
<1>6. CASE LineDone
  <2>1. line' = None /\ steps' = None /\ log' = <<>> /\ UNCHANGED <<graph, resolver>> /\ steps = <<>>
    BY <1>6 DEF LineDone
  <2>2. ResolverInv'  BY <2>1, <1>t, ResolverKept
  <2>3. log' \in Seq(AllSteps) /\ steps # None  BY <2>1, EmptySeq, HandlerAssumption
  <2>4. HandlerType'  BY <2>1, <2>3 DEF HandlerType
  <2>5. rpc' = rpc  BY <2>1 DEF resolver
  <2>6. Turn' /\ ListProgress'
    BY <2>1, <2>3, <2>5 DEF HandlerInv, Turn, ListProgress
  <2> QED  BY <2>2, <2>4, <2>6 DEF HandlerInv
<1>7. CASE UNCHANGED vars
  <2>1. UNCHANGED <<graph, resolver, line, steps, log>>  BY <1>7 DEF vars
  <2>2. ResolverInv'  BY <2>1, <1>t, ResolverKept
  <2>3. rpc' = rpc  BY <2>1 DEF resolver
  <2>4. HandlerType' /\ Turn'  BY <2>1, <2>3 DEF HandlerInv, HandlerType, Turn
  <2>6. ListProgress'
    BY <2>1 DEF HandlerInv, ListProgress, Trusted, Remaining, InOrder, Offers, UpTo, Free
  <2> QED  BY <2>2, <2>4, <2>6 DEF HandlerInv
<1> QED  BY <1>1, <1>2, <1>3, <1>4, <1>5, <1>6, <1>7 DEF Next

-----------------------------------------------------------------------------
(* The theorems *)

\* The invariant of the handlers and the resolver, for any themes and lists,
\* whether OUT loses documents or not (dispatch.rs, theme.rs, blocklist.rs).
THEOREM HandlerInvariant == Spec => []HandlerInv
BY HandlerInitial, HandlerNext, PTL DEF Spec

\* resolve_active_theme returns what the active theme inherits, each item once
\* and from the nearest theme that gives it, whatever the extends relation.
THEOREM ThemeIsInherited == Spec => []BundleIsInherited
<1>1. HandlerInv => BundleIsInherited
  BY WholeBundle DEF HandlerInv, BundleIsInherited
<1> QED  BY <1>1, HandlerInvariant, PTL

\* ancestor_chain_values ends whatever the extends relation: each theme is in
\* the chain at most once, so that the walk has at most as many steps as there
\* are themes, cycles or not.
THEOREM WalkEnds == Spec => []WalkIsBounded
<1>1. ResolverInv => WalkIsBounded
  <2> SUFFICES ASSUME ResolverInv PROVE Len(chain) <= Cardinality(Themes)
    BY DEF WalkIsBounded
  <2>1. chain \in Seq(Themes) /\ IsInjective(chain)  BY DEF ResolverInv, ThemeTypeOK, Climbed
  <2>2. PICK n \in Nat : n = Len(chain)  BY <2>1
  <2>3. chain \in [1..n -> Themes]  BY <2>1, <2>2
  <2>4. chain \in Injection(1..n, Themes)  BY <2>1, <2>3, Zenon DEF Injection, IsInjective
  <2>5. IsFiniteSet(Themes)  BY ThemeAssumption
  <2>6. Cardinality(1..n) <= Cardinality(Themes)  BY <2>4, <2>5, FS_Injection
  <2>7. Cardinality(1..n) = n  BY FS_Interval, n \in Int
  <2> QED  BY <2>2, <2>6, <2>7
<1>2. HandlerInv => WalkIsBounded  BY <1>1 DEF HandlerInv
<1> QED  BY <1>2, HandlerInvariant, PTL

\* handle_subscribe_blocklist broadcasts the entries of a list, in order and all
\* of them, if verify_signed_blocklist accepts it, and none of them otherwise:
\* a full inbox or a failing store does not end or reorder the list.  (Whether
\* a script gets what is broadcast is not said: Dag::broadcast ignores it.)
THEOREM ListsAreOffered == Spec => []ListIsOfferedIfSigned
<1>1. HandlerInv => ListIsOfferedIfSigned
  <2> SUFFICES ASSUME HandlerInv, line # None, line.kind = "list"
               PROVE  ListIsOfferedIfSigned
    BY DEF ListIsOfferedIfSigned
  <2>n. <<>> # None  BY EmptySeq, HandlerAssumption
  <2>l. log \in Seq(AllSteps)  BY DEF HandlerInv, HandlerType
  <2>1. CASE steps = None
    <3>1. log = <<>>  BY <2>1 DEF HandlerInv, HandlerType
    <3>2. Offers = {} /\ steps # <<>>  BY <3>1, <2>1, <2>n DEF Offers
    <3> QED  BY <3>2 DEF ListIsOfferedIfSigned
  <2>2. CASE steps # None /\ Trusted
    <3>1. PICK entries : entries = parse_entries(line.payload)  OBVIOUS
    <3>2. Remaining(entries) /\ InOrder(entries)  BY <2>2, <3>1 DEF HandlerInv, ListProgress
    <3>3. steps = <<>> => Cardinality(Offers) = Len(entries)
      <4> SUFFICES ASSUME steps = <<>> PROVE Cardinality(Offers) = Len(entries)
        OBVIOUS
      <4>1. Len(steps) = 0  OBVIOUS
      <4>2. Cardinality(Offers) \in Nat  BY <2>l, PlacesFinite
      <4>3. Cardinality(Offers) + 0 = Len(entries)  BY <4>1, <3>2 DEF Remaining
      <4> QED  BY <4>2, <4>3
    <3> QED  BY <3>1, <3>2, <3>3, <2>2 DEF ListIsOfferedIfSigned, Trusted, InOrder
  <2>3. CASE steps # None /\ ~Trusted
    BY <2>3 DEF ListIsOfferedIfSigned, Trusted, HandlerInv, ListProgress
  <2> QED  BY <2>1, <2>2, <2>3
<1> QED  BY <1>1, HandlerInvariant, PTL

\* The marker: what is sent of a resolved theme.
LEMMA WholeKept ==
    ASSUME UNCHANGED graph, NEW values
    PROVE  Whole(values)' = Whole(values)
<1>1. UNCHANGED <<extends, gives, active, hasTheme>>  BY DEF graph
<1>2. active_theme_iri' = active_theme_iri  BY <1>1 DEF active_theme_iri
<1>3. \A of, i, t : InheritsFrom(of, i, t)' = InheritsFrom(of, i, t)
  <2>1. \A t, stop : Met(t, stop)' = Met(t, stop)  BY <1>1 DEF Met
  <2> QED  BY <2>1, <1>1 DEF InheritsFrom
<1> QED  BY <1>2, <1>3 DEF Whole

\* Nothing is lost on the way out: a step of a handler keeps the place of the
\* marker.
LEMMA MarkerStep ==
    ASSUME HandlerInv, MarkerInv, ~Lossy, steps # None, steps # <<>>,
           NEW ops \in Seq(Ops), Done(ops), Effects(ops),
           SendOut => ops = <<"out">>, steps[1].op = "out" => SendOut
    PROVE  MarkerInv'
<1>t. HandlerType  BY DEF HandlerInv
<1>d. /\ Len(log) \in Nat /\ Len(ops) \in Nat /\ Len(steps) \in Nat \ {0} /\ steps \in Seq(AllSteps)
      /\ Len(log') = Len(log) + Len(ops) /\ Len(steps') = Len(steps) - 1
      /\ DOMAIN log = 1..Len(log) /\ DOMAIN log' = 1..Len(log') /\ DOMAIN steps' = 1..Len(steps')
      /\ 1 \in DOMAIN steps /\ DOMAIN steps = 1..Len(steps)
      /\ \A i \in 1..Len(log) : log'[i] = log[i]
      /\ \A i \in 1..Len(ops) : log'[Len(log) + i] = Step(ops[i], steps[1].doc)
      /\ \A i \in 1..Len(steps') : steps'[i] = steps[i + 1] /\ i + 1 \in DOMAIN steps
      /\ graph' = graph /\ line' = line
  BY <1>t, DoneFacts
<1>1. CASE Free(log, "ThemeBundleComplete") /\ Free(steps, "ThemeBundleComplete")
  <2>1. Free(steps', "ThemeBundleComplete")  BY <1>1, <1>d DEF Free
  <2>2. Free(log', "ThemeBundleComplete")
    <3> SUFFICES ASSUME NEW j \in 1..Len(log') PROVE log'[j].doc.kind # "ThemeBundleComplete"
      BY <1>d DEF Free
    <3>1. CASE j \in 1..Len(log)  BY <3>1, <1>1, <1>d DEF Free
    <3>2. CASE j \notin 1..Len(log)
      <4>1. j - Len(log) \in 1..Len(ops) /\ j = Len(log) + (j - Len(log))  BY <3>2, <1>d
      <4>2. PICK i \in 1..Len(ops) : j = Len(log) + i  BY <4>1
      <4>3. log'[j].doc = steps[1].doc  BY <4>2, <1>d, StepFacts
      <4> QED  BY <4>3, <1>1, <1>d DEF Free
    <3> QED  BY <3>1, <3>2
  <2> QED  BY <2>1, <2>2 DEF MarkerInv
<1>2. ASSUME line.kind = "design", NEW values \in Seq(Values), Whole(values), Sending(values)
      PROVE  MarkerInv'
  <2>1. Whole(values)'  BY <1>2, <1>d, WholeKept
  <2>2. steps[1] = Item(values, Len(log) + 1)  BY <1>2, <1>d DEF Sending
  <2>3. steps[1].op = "out" /\ steps[1] = Step("out", steps[1].doc)  BY <2>2, StepFacts DEF Item
  <2>4. Len(ops) = 1 /\ ops[1] = "out"  BY <2>3
  <2>5. Len(log') = Len(log) + 1 /\ log'[Len(log) + 1] = Item(values, Len(log) + 1)
    <3>1. 1 \in 1..Len(ops)  BY <2>4
    <3> QED  BY <3>1, <2>2, <2>3, <2>4, <1>d
  <2>6. Len(log') + Len(steps') = Len(values) + 1
    <3>1. \A m, n \in Nat : (m + 1) + (n - 1) = m + n  OBVIOUS
    <3> QED  BY <3>1, <2>5, <1>2, <1>d DEF Sending
  <2>7. ASSUME NEW i \in 1..Len(log') PROVE log'[i] = Item(values, i)
    <3>1. i \in 1..Len(log) \/ i = Len(log) + 1  BY <2>5, <1>d
    <3> QED  BY <3>1, <2>5, <1>2, <1>d DEF Sending
  <2>8. ASSUME NEW i \in 1..Len(steps') PROVE steps'[i] = Item(values, Len(log') + i)
    <3>1. i + 1 \in 1..Len(steps) /\ Len(log) + (i + 1) = (Len(log) + 1) + i  BY <1>d
    <3>2. steps[i + 1] = Item(values, Len(log) + (i + 1))  BY <3>1, <1>2 DEF Sending
    <3> QED  BY <3>1, <3>2, <2>5, <1>d
  <2>9. Sending(values)'  BY <2>6, <2>7, <2>8 DEF Sending, Item
  <2> QED  BY <2>1, <2>9, <1>2, <1>d DEF MarkerInv
<1> QED  BY <1>1, <1>2 DEF MarkerInv

\* Every step keeps it.
LEMMA MarkerNext == HandlerInv /\ MarkerInv /\ ~Lossy /\ [Next]_vars => MarkerInv'
<1> SUFFICES ASSUME HandlerInv, MarkerInv, ~Lossy, [Next]_vars PROVE MarkerInv'
  OBVIOUS
<1>t. HandlerType /\ ResolverInv  BY DEF HandlerInv
<1>1. CASE TakeLine \/ resolve_active_theme \/ LineDone
  <2>1. steps' = None
    BY <1>1, <1>t DEF TakeLine, resolve_active_theme, Routed, LineDone, HandlerType
  <2> QED  BY <2>1 DEF MarkerInv
<1>2. CASE \/ Ignored \/ InsertLine \/ handle_spin \/ handle_update \/ design_other
           \/ handle_subscribe_blocklist
  <2>1. PICK list \in Seq(AllSteps) :
             /\ steps = None /\ Answers(list) /\ Free(list, "ThemeBundleComplete")
    BY <1>2, PlainAnswers
  <2>2. steps' = list /\ log' = <<>>  BY <2>1, <1>t DEF Answers, HandlerType
  <2>3. Free(log', "ThemeBundleComplete")  BY <2>2 DEF Free
  <2> QED  BY <2>1, <2>2, <2>3 DEF MarkerInv
<1>3. CASE design_resolved
  <2>1. /\ line # None /\ line.kind = "design" /\ steps = None /\ graph' = graph
        /\ Answers(IF rpc = "done" THEN Bundle ELSE Refused)
    BY <1>3 DEF design_resolved, Routed
  <2>2. line' = line /\ log' = <<>> /\ Len(log') = 0  BY <2>1, <1>t DEF Answers, HandlerType
  <2>3. CASE rpc = "done"
    <3>1. ThemeTypeOK  BY <1>t DEF ResolverInv
    <3>2. PICK values \in Seq(Values) : values = bundle  BY <3>1, BundleFacts
    <3>3. Whole(values)  BY <3>2, <2>3, <1>t, WholeBundle DEF Whole
    <3>4. Whole(values)'  BY <3>3, <2>1, WholeKept
    <3>5. steps' = Bundle  BY <2>1, <2>3 DEF Answers
    <3>6. /\ Len(steps') = Len(values) + 1 /\ Len(values) \in Nat
          /\ \A i \in 1..Len(steps') : steps'[i] = Item(values, i)
      BY <3>1, <3>2, <3>5, BundleFacts
    <3>7. 0 + Len(steps') = Len(values) + 1 /\ \A i \in 1..Len(steps') : 0 + i = i  BY <3>6
    <3>8. Sending(values)'  BY <3>6, <3>7, <2>2 DEF Sending, Item
    <3> QED  BY <3>4, <3>8, <2>1, <2>2 DEF MarkerInv
  <2>4. CASE rpc # "done"
    <3>1. PICK r : r = Refused  OBVIOUS
    <3>2. steps' = r /\ DOMAIN r = {1} /\ r[1].doc.kind = "Error"  BY <3>1, <2>1, <2>4, RefusedFacts DEF Answers
    <3>3. Free(steps', "ThemeBundleComplete") /\ Free(log', "ThemeBundleComplete")  BY <3>2, <2>2 DEF Free
    <3> QED  BY <3>3 DEF MarkerInv
  <2> QED  BY <2>3, <2>4
<1>4. CASE SendOut \/ Keep \/ insert_with_dag
  BY <1>4, <1>t, EffectsOfSteps, MarkerStep
<1>5. CASE UNCHANGED vars
  <2>1. UNCHANGED <<graph, line, steps, log>>  BY <1>5 DEF vars
  <2>2. \A values : Whole(values)' = Whole(values)  BY <2>1, WholeKept
  <2>3. \A values : Sending(values)' = Sending(values)  BY <2>1 DEF Sending, Item
  <2> QED  BY <2>1, <2>2, <2>3 DEF MarkerInv, Free
<1> QED  BY <1>1, <1>2, <1>3, <1>4, <1>5 DEF Next

\* Where OUT takes everything that is sent, ThemeBundleComplete comes after the
\* whole theme that the store selects and counts its triples: the client that
\* swaps at the marker has no more and no less (handle_design).
THEOREM MarkerIsLast == ~Lossy /\ Spec => []MarkerFollowsBundle
<1>1. HandlerInv /\ MarkerInv => MarkerFollowsBundle
  <2> SUFFICES ASSUME HandlerInv, MarkerInv, NEW n \in OnOut, log[n].doc.kind = "ThemeBundleComplete"
               PROVE  /\ log[n].doc.about = Cardinality(UpTo(OnOut, n)) - 1
                      /\ LET values == {log[i].doc.about : i \in UpTo(OnOut, n) \ {n}}
                         IN  \/ values = {} /\ active_theme_iri = {}
                             \/ \E t \in active_theme_iri :
                                  {v \in values : v[2] # "ResolvedTheme"} =
                                      {v \in Themes \X AllItems : InheritsFrom(t, v[2], v[1])}
    BY DEF MarkerFollowsBundle
  <2>l. log \in Seq(AllSteps) /\ Len(log) \in Nat /\ DOMAIN log = 1..Len(log)  BY DEF HandlerInv, HandlerType
  <2>n. n \in 1..Len(log)  BY <2>l DEF OnOut
  <2>s. steps # None
    <3>1. log # <<>>  BY <2>l, <2>n
    <3> QED  BY <3>1 DEF HandlerInv, HandlerType
  <2>1. ~Free(log, "ThemeBundleComplete")  BY <2>n, <2>l DEF Free
  <2>2. PICK values \in Seq(Values) : Whole(values) /\ Sending(values)  BY <2>1, <2>s DEF MarkerInv
  <2>3. PICK m \in Nat : m = Len(values) /\ DOMAIN values = 1..m  OBVIOUS
  <2>4. Len(log) <= m + 1
    <3>1. Len(steps) \in Nat  BY <2>s DEF HandlerInv, HandlerType
    <3> QED  BY <3>1, <2>2, <2>3, <2>l DEF Sending
  <2>5. \A i \in 1..Len(log) : log[i] = Item(values, i)  BY <2>2 DEF Sending
  <2>6. \A i \in 1..Len(log) : /\ log[i].op = "out"
                               /\ i <= m => log[i].doc = Doc("triple", values[i])
                               /\ ~(i <= m) => log[i].doc = Doc("ThemeBundleComplete", m)
    BY <2>5, <2>3, StepFacts DEF Item
  <2>7. \A about : Doc("triple", about).kind # "ThemeBundleComplete"  BY DEF Doc
  <2>8. n = m + 1 /\ log[n].doc = Doc("ThemeBundleComplete", m)
    <3>1. ~(n <= m)  BY <2>6, <2>7, <2>n
    <3> QED  BY <3>1, <2>4, <2>6, <2>n, <2>l
  <2>9. OnOut = 1..Len(log)  BY <2>6, <2>l DEF OnOut
  <2>10. UpTo(OnOut, n) = 1..n  BY <2>9, <2>n, <2>l DEF UpTo
  <2>11. Cardinality(UpTo(OnOut, n)) = n  BY <2>10, <2>n, <2>l, FS_Interval
  <2>12. log[n].doc.about = m  BY <2>8 DEF Doc
  <2>13. UpTo(OnOut, n) \ {n} = 1..m  BY <2>10, <2>8
  <2>14. \A i \in 1..m : log[i].doc.about = values[i]
    <3> SUFFICES ASSUME NEW i \in 1..m PROVE log[i].doc.about = values[i]
      OBVIOUS
    <3>1. i \in 1..Len(log) /\ i <= m  BY <2>8, <2>n, <2>l
    <3>2. log[i].doc = Doc("triple", values[i])  BY <3>1, <2>6
    <3> QED  BY <3>2 DEF Doc
  <2>15. {log[i].doc.about : i \in UpTo(OnOut, n) \ {n}} = Range(values)
    BY <2>3, <2>13, <2>14 DEF Range
  <2>16. values = <<>> => Range(values) = {}  BY DEF Range
  <2>17. m = Cardinality(UpTo(OnOut, n)) - 1  BY <2>8, <2>11
  <2> QED  BY <2>2, <2>12, <2>15, <2>16, <2>17 DEF Whole
<1>2. Init => MarkerInv  BY DEF Init, MarkerInv
<1>3. ASSUME ~Lossy PROVE Spec => []MarkerFollowsBundle
  <2>1. HandlerInv /\ MarkerInv /\ [Next]_vars => MarkerInv'  BY <1>3, MarkerNext
  <2> QED  BY <1>1, <1>2, <2>1, HandlerInvariant, PTL DEF Spec
<1> QED  BY <1>3
=============================================================================
