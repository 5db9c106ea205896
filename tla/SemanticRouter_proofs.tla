------------------------ MODULE SemanticRouter_proofs ------------------------
(***************************************************************************)
(* For every set of routers, backends, inbox and ring sizes: a router      *)
(* never fires on a document twice, emits at most one document for a       *)
(* firing, and that document was made from the pair it fired on, whatever  *)
(* the host answers late or never and whatever the shared rings lose or    *)
(* give twice.                                                             *)
(***************************************************************************)
EXTENDS SemanticRouter, TLAPS

Pairs == [of : Routers, docs : [Sides -> Nat]]

RouterType ==
    /\ pc \in [Routers -> {"none", "poll", "latch", "drain", "call", "await", "resp"}]
    /\ made \in [Routers -> [Sides -> Nat]]
    /\ inbox \in [Routers -> [Sides -> Seq(Nat)]]
    /\ slot \in [Routers -> [Sides -> Nat]]
    /\ fired \in [Routers -> [Sides -> Nat]]
    /\ reqId \in [Routers -> Nat] /\ nextId \in Nat
    /\ reqs \in Seq([id : Nat, pair : Pairs])
    /\ host \subseteq [id : Nat, pair : Pairs]
    /\ resps \in Seq([id : Nat, pair : Pairs, outcome : Outcomes])
    /\ emits \in Seq([on : Pairs, kind : {"answer", "Error"}, from : Pairs])

-----------------------------------------------------------------------------
(* Documents carry the number they were broadcast with, or are empty. *)

Ordered(q) == \A i, j \in DOMAIN q : i < j => q[j] = Empty \/ q[i] < q[j]
UpTo(q, d) == \A i \in DOMAIN q : q[i] <= d
Newer(q, d) == \A i \in DOMAIN q : q[i] = Empty \/ d < q[i]

\* Between the firing and the end of the call the slots hold the pair fired on.
Calling(r) == pc[r] \in {"call", "await", "resp"}

\* What waits in an inbox is newer than what is latched, and what is latched is
\* newer than what the router has fired on.
FreshSide(r, s) ==
    /\ Ordered(inbox[r][s]) /\ UpTo(inbox[r][s], made[r][s])
    /\ Newer(inbox[r][s], slot[r][s]) /\ Newer(inbox[r][s], fired[r][s])
    /\ slot[r][s] <= made[r][s] /\ fired[r][s] <= made[r][s]
    /\ IF Calling(r) THEN slot[r][s] # Empty /\ slot[r][s] = fired[r][s]
                     ELSE slot[r][s] = Empty \/ fired[r][s] < slot[r][s]
Fresh == \A r \in Routers, s \in Sides : FreshSide(r, s)

\* The requests on their way to the host, with the host, and on their way back.
Carried ==
    {<<reqs[i].id, reqs[i].pair>> : i \in DOMAIN reqs}
        \union {<<q.id, q.pair>> : q \in host}
        \union {<<resps[i].id, resps[i].pair>> : i \in DOMAIN resps}

\* An id is given once, and one that a router waits for stands for its pair.
IdsAreUnique ==
    \A c \in Carried :
        /\ c[1] < nextId
        /\ \A r \in Routers : pc[r] \in {"await", "resp"} /\ reqId[r] = c[1] => c[2] = Pair(r)
IdsAreGiven == \A r \in Routers : pc[r] \in {"await", "resp"} => reqId[r] < nextId

\* What a router has emitted is for a firing that is over.
EmitsArePast ==
    \A i \in DOMAIN emits :
        LET r == emits[i].on.of
        IN  IF Calling(r) THEN emits[i].on.docs["a"] < fired[r]["a"]
                          ELSE emits[i].on.docs["a"] <= fired[r]["a"]

RouterInv ==
    /\ RouterType /\ Fresh /\ IdsAreUnique /\ IdsAreGiven
    /\ AnswerIsForPair /\ EmitsArePast /\ OneEmitPerFiring

-----------------------------------------------------------------------------
(* Facts about an inbox. *)

\* A longer sequence, and one without its head, element by element.
LEMMA AppendFacts ==
    ASSUME NEW S, NEW q \in Seq(S), NEW d \in S
    PROVE  /\ Append(q, d) \in Seq(S) /\ Len(q) \in Nat
           /\ DOMAIN Append(q, d) = 1..(Len(q) + 1) /\ DOMAIN q = 1..Len(q)
           /\ \A i \in 1..Len(q) : Append(q, d)[i] = q[i] /\ q[i] \in S
           /\ Append(q, d)[Len(q) + 1] = d
  OBVIOUS

\* Taking the first element of a queue.
LEMMA TailFacts ==
    ASSUME NEW S, NEW q \in Seq(S), q # <<>>
    PROVE  /\ Tail(q) \in Seq(S) /\ Len(q) \in Nat \ {0}
           /\ DOMAIN Tail(q) = 1..(Len(q) - 1) /\ DOMAIN q = 1..Len(q)
           /\ \A i \in 1..(Len(q) - 1) : Tail(q)[i] = q[i + 1]
           /\ \A i \in 1..Len(q) : q[i] \in S
           /\ Head(q) = q[1] /\ Head(q) \in S
  OBVIOUS

\* What is in a queue.
LEMMA ElementFacts ==
    ASSUME NEW S, NEW q \in Seq(S)
    PROVE  \A i \in DOMAIN q : q[i] \in S
  OBVIOUS

\* A document that is broadcast keeps the inbox in order.
LEMMA AppendDoc ==
    ASSUME NEW q \in Seq(Nat), NEW m \in Nat, NEW d \in {Empty, m + 1}, Ordered(q), UpTo(q, m)
    PROVE  /\ Append(q, d) \in Seq(Nat)
           /\ Ordered(Append(q, d)) /\ UpTo(Append(q, d), m + 1)
           /\ \A x \in Nat : x <= m /\ Newer(q, x) => Newer(Append(q, d), x)
<1>1. d \in Nat
  BY DEF Empty
<1>2. PICK p : p = Append(q, d)
  OBVIOUS
<1>3. /\ p \in Seq(Nat) /\ Len(q) \in Nat
      /\ DOMAIN p = 1..(Len(q) + 1) /\ DOMAIN q = 1..Len(q)
      /\ \A i \in 1..Len(q) : p[i] = q[i] /\ q[i] \in Nat
      /\ p[Len(q) + 1] = d
  BY <1>1, <1>2, AppendFacts
<1>4. Ordered(p)
  <2> SUFFICES ASSUME NEW i \in 1..(Len(q) + 1), NEW j \in 1..(Len(q) + 1), i < j
               PROVE  p[j] = Empty \/ p[i] < p[j]
    BY <1>3 DEF Ordered
  <2>1. i \in 1..Len(q)
    BY <1>3
  <2>2. CASE j = Len(q) + 1
    <3>1. q[i] <= m
      BY <1>3, <2>1 DEF UpTo
    <3> QED BY <1>3, <2>1, <2>2, <3>1
  <2>3. CASE j \in 1..Len(q)
    BY <1>3, <2>1, <2>3 DEF Ordered
  <2>4. j = Len(q) + 1 \/ j \in 1..Len(q)
    <3>1. Len(q) \in Nat
      BY <1>3
    <3> QED BY <3>1
  <2> QED BY <2>2, <2>3, <2>4, <1>3
<1>5. UpTo(p, m + 1)
  <2> SUFFICES ASSUME NEW i \in 1..(Len(q) + 1) PROVE p[i] <= m + 1
    BY <1>3 DEF UpTo
  <2>1. CASE i = Len(q) + 1
    BY <1>3, <2>1 DEF Empty
  <2>2. CASE i \in 1..Len(q)
    <3>1. p[i] = q[i] /\ q[i] \in Nat /\ q[i] <= m
      BY <1>3, <2>2 DEF UpTo
    <3> QED BY <3>1
  <2> QED BY <1>3, <2>1, <2>2
<1>6. \A x \in Nat : x <= m /\ Newer(q, x) => Newer(p, x)
  <2> SUFFICES ASSUME NEW x \in Nat, x <= m, Newer(q, x), NEW i \in 1..(Len(q) + 1)
               PROVE  p[i] = Empty \/ x < p[i]
    BY <1>3 DEF Newer
  <2>1. CASE i = Len(q) + 1
    BY <1>3, <2>1 DEF Empty
  <2>2. CASE i \in 1..Len(q)
    BY <1>3, <2>2 DEF Newer
  <2> QED BY <1>3, <2>1, <2>2
<1> QED BY <1>2, <1>3, <1>4, <1>5, <1>6

\* A document that is taken from the inbox is older than those that stay.
LEMMA TakeDoc ==
    ASSUME NEW q \in Seq(Nat), q # <<>>, NEW m \in Nat, Ordered(q), UpTo(q, m)
    PROVE  /\ Tail(q) \in Seq(Nat) /\ Head(q) \in Nat /\ Head(q) <= m
           /\ Ordered(Tail(q)) /\ UpTo(Tail(q), m) /\ Newer(Tail(q), Head(q))
           /\ \A x \in Nat : Newer(q, x) => Newer(Tail(q), x) /\ (Head(q) = Empty \/ x < Head(q))
<1>1. PICK p, n : p = Tail(q) /\ n = Len(q)
  OBVIOUS
<1>2. /\ p \in Seq(Nat) /\ n \in Nat \ {0} /\ DOMAIN p = 1..(n - 1) /\ DOMAIN q = 1..n
      /\ \A i \in 1..(n - 1) : p[i] = q[i + 1]
      /\ \A i \in 1..n : q[i] \in Nat
      /\ Head(q) = q[1]
  BY <1>1, TailFacts
<1>3. \A i \in 1..(n - 1) : i + 1 \in 1..n /\ 1 \in 1..n
  BY <1>2
<1>4. Ordered(p)
  <2> SUFFICES ASSUME NEW i \in 1..(n - 1), NEW j \in 1..(n - 1), i < j
               PROVE  p[j] = Empty \/ p[i] < p[j]
    BY <1>2 DEF Ordered
  <2>1. i + 1 < j + 1
    BY <1>2
  <2> QED BY <1>2, <1>3, <2>1 DEF Ordered
<1>5. UpTo(p, m) /\ Head(q) <= m
  <2>1. \A i \in 1..(n - 1) : p[i] <= m
    BY <1>2, <1>3 DEF UpTo
  <2>2. q[1] <= m
    BY <1>2 DEF UpTo
  <2> QED BY <1>2, <2>1, <2>2 DEF UpTo
<1>6. Newer(p, Head(q))
  <2> SUFFICES ASSUME NEW i \in 1..(n - 1) PROVE p[i] = Empty \/ q[1] < p[i]
    BY <1>2 DEF Newer
  <2>1. 1 < i + 1
    BY <1>2
  <2> QED BY <1>2, <1>3, <2>1 DEF Ordered
<1>7. \A x \in Nat : Newer(q, x) => Newer(p, x) /\ (Head(q) = Empty \/ x < Head(q))
  <2> SUFFICES ASSUME NEW x \in Nat, Newer(q, x)
               PROVE  Newer(p, x) /\ (q[1] = Empty \/ x < q[1])
    BY <1>2
  <2>1. \A i \in 1..(n - 1) : p[i] = Empty \/ x < p[i]
    BY <1>2, <1>3 DEF Newer
  <2>2. 1 \in DOMAIN q
    BY <1>2
  <2>3. q[1] = Empty \/ x < q[1]
    BY <2>2 DEF Newer
  <2> QED BY <1>2, <2>1, <2>3 DEF Newer
<1> QED BY <1>1, <1>2, <1>4, <1>5, <1>6, <1>7

-----------------------------------------------------------------------------
(* What a step does to the calls and to what is emitted. *)

\* However complete ends, the call is over and the slots are cleared, with at
\* most one document, or it is made a second time.
LEMMA ReturnedFacts ==
    ASSUME NEW r \in Routers, NEW outcome, NEW pair, Returned(r, outcome, pair)
    PROVE  \/ /\ slot' = [slot EXCEPT ![r] = NoPair] /\ pc' = [pc EXCEPT ![r] = "poll"]
              /\ \/ emits' = emits
                 \/ \E kind \in {"answer", "Error"} : emits' = Emit(r, kind, pair)
           \/ pc' = [pc EXCEPT ![r] = "call"] /\ UNCHANGED <<slot, emits>>
  BY DEF Returned, Finished

\* The steps that leave the documents and the phase of every router alone.
Keeps ==
    /\ UNCHANGED <<made, inbox, slot, fired, emits>>
    /\ \A r \in Routers : Calling(r)' <=> Calling(r)

\* A document is latched, or thrown away because it is empty.
Latches(r, s) ==
    /\ ~Calling(r) /\ inbox[r][s] # <<>>
    /\ inbox' = [inbox EXCEPT ![r][s] = Tail(@)]
    /\ slot' = [slot EXCEPT ![r][s] = IF Head(inbox[r][s]) = Empty THEN @ ELSE Head(inbox[r][s])]
    /\ UNCHANGED <<pc, made, fired, emits>>

Fires(r) ==
    /\ pc[r] = "latch" /\ \A s \in Sides : slot[r][s] # Empty
    /\ pc' = [pc EXCEPT ![r] = "call"] /\ fired' = [fired EXCEPT ![r] = slot[r]]
    /\ UNCHANGED <<made, inbox, slot, emits>>

\* A call ends, with at most one document, made from the pair in the slots.
Ends(r) ==
    /\ Calling(r)
    /\ slot' = [slot EXCEPT ![r] = NoPair] /\ pc' = [pc EXCEPT ![r] = "poll"]
    /\ emits' = emits \/ \E kind \in {"answer", "Error"} : emits' = Emit(r, kind, Pair(r))
    /\ UNCHANGED <<made, inbox, fired>>

\* An answer that a router takes for its own was made from its pair.
LEMMA MineIsForPair ==
    ASSUME RouterType, IdsAreUnique, NEW r \in Routers, pc[r] = "resp", resps # <<>>,
           Mine(r, Head(resps))
    PROVE  Head(resps).pair = Pair(r)
<1>1. 1 \in DOMAIN resps /\ Head(resps) = resps[1]
  BY TailFacts DEF RouterType
<1>2. <<resps[1].id, resps[1].pair>> \in Carried
  BY <1>1 DEF Carried
<1> QED BY <1>1, <1>2, Zenon DEF IdsAreUnique, Mine

\* Every step is of one of these kinds.
LEMMA StepKinds ==
    ASSUME RouterType, IdsAreUnique, [Next]_vars
    PROVE  \/ Keeps
           \/ \E r \in Routers, s \in Sides : Arrives(r, s) \/ Latches(r, s)
           \/ \E r \in Routers : Fires(r) \/ Ends(r)
<1>1. CASE UNCHANGED vars \/ HostReads \/ HostAnswers
  BY <1>1 DEF vars, HostReads, HostAnswers, loading, inputs, latches, calls, bridge, Keeps, Calling
<1>2. ASSUME NEW r \in Routers, NEW s \in Sides, Arrives(r, s)
      PROVE  \E q \in Routers, t \in Sides : Arrives(q, t) \/ Latches(q, t)
  BY <1>2
<1>3. ASSUME NEW r \in Routers, LoadRouter(r) \/ Poll(r) \/ ConsumeClock(r) \/ Ask(r) \/ Wake(r)
      PROVE  Keeps
  BY <1>3 DEF LoadRouter, Poll, ConsumeClock, Ask, Wake, loading, inputs, latches, calls, bridge,
       Keeps, Calling, RouterType
<1>4. ASSUME NEW r \in Routers, Latch(r)
      PROVE  Keeps \/ \E s \in Sides : Latches(r, s)
  <2>1. Side(r) \in Sides
    BY DEF Side, Sides
  <2>2. CASE inbox[r][Side(r)] # <<>>
    BY <1>4, <2>1, <2>2 DEF Latch, Latches, Calling
  <2>3. CASE inbox[r][Side(r)] = <<>>
    BY <1>4, <2>3 DEF Latch, Keeps, Calling, RouterType
  <2> QED BY <2>2, <2>3
<1>5. ASSUME NEW r \in Routers, Fire(r)
      PROVE  Keeps \/ Fires(r)
  BY <1>5 DEF Fire, Fires, Keeps, Calling, RouterType, inputs
<1>6. ASSUME NEW r \in Routers, NEW outcome, Calling(r), Returned(r, outcome, Pair(r)),
             UNCHANGED <<made, inbox, fired>>
      PROVE  Keeps \/ Ends(r)
  <2>1. CASE pc' = [pc EXCEPT ![r] = "call"] /\ UNCHANGED <<slot, emits>>
    BY <1>6, <2>1 DEF Keeps, Calling, RouterType
  <2>2. CASE /\ slot' = [slot EXCEPT ![r] = NoPair] /\ pc' = [pc EXCEPT ![r] = "poll"]
             /\ \/ emits' = emits
                \/ \E kind \in {"answer", "Error"} : emits' = Emit(r, kind, Pair(r))
    BY <1>6, <2>2, Zenon DEF Ends
  <2> QED BY <1>6, <2>1, <2>2, ReturnedFacts
<1>7. ASSUME NEW r \in Routers, WebComplete(r) \/ Deadline(r)
      PROVE  Keeps \/ Ends(r)
  <2>1. Calling(r) /\ UNCHANGED <<made, inbox, fired>>
        /\ \E outcome : Returned(r, outcome, Pair(r))
    BY <1>7 DEF WebComplete, Deadline, Calling, inputs
  <2> QED BY <1>6, <2>1
<1>8. ASSUME NEW r \in Routers, TakeResponse(r)
      PROVE  Keeps \/ Ends(r)
  <2>1. Calling(r) /\ pc[r] = "resp" /\ UNCHANGED <<made, inbox, fired>>
    BY <1>8 DEF TakeResponse, Calling, inputs
  <2>2. CASE resps # <<>> /\ Mine(r, Head(resps))
    <3>1. Returned(r, Head(resps).outcome, Head(resps).pair)
      BY <1>8, <2>2 DEF TakeResponse
    <3>2. Head(resps).pair = Pair(r)
      BY <2>1, <2>2, MineIsForPair
    <3> QED BY <1>6, <2>1, <3>1, <3>2
  <2>3. CASE resps = <<>>
    BY <1>8, <2>1, <2>3 DEF TakeResponse, Keeps, Calling, RouterType
  <2>4. CASE resps # <<>> /\ ~Mine(r, Head(resps))
    BY <1>8, <2>1, <2>4 DEF TakeResponse, Keeps, Calling
  <2> QED BY <2>2, <2>3, <2>4
<1> QED BY <1>1, <1>2, <1>3, <1>4, <1>5, <1>7, <1>8 DEF Next, Thread

-----------------------------------------------------------------------------
(* Documents are fresh. *)

\* What does not change stays fresh.
LEMMA FreshFrame ==
    ASSUME NEW r \in Routers, NEW s \in Sides, FreshSide(r, s),
           inbox'[r][s] = inbox[r][s], made'[r][s] = made[r][s], slot'[r][s] = slot[r][s],
           fired'[r][s] = fired[r][s], Calling(r)' <=> Calling(r)
    PROVE  FreshSide(r, s)'
  BY DEF FreshSide

\* Every step keeps inboxes and latched documents newer than what was fired on.
LEMMA FreshNext ==
    ASSUME RouterType, RouterType', IdsAreUnique, Fresh, [Next]_vars
    PROVE  Fresh'
<1> SUFFICES ASSUME NEW r \in Routers, NEW s \in Sides
             PROVE  FreshSide(r, s)'
  BY DEF Fresh
<1>1. FreshSide(r, s) /\ inbox[r][s] \in Seq(Nat) /\ made[r][s] \in Nat /\ slot[r][s] \in Nat
      /\ fired[r][s] \in Nat
  BY DEF Fresh, RouterType
<1>2. CASE Keeps
  BY <1>1, <1>2, FreshFrame DEF Keeps
<1>3. ASSUME NEW q \in Routers, NEW t \in Sides, Arrives(q, t) PROVE FreshSide(r, s)'
  <2>1. UNCHANGED <<slot, fired, pc>> /\ (Calling(r)' <=> Calling(r))
    BY <1>3 DEF Arrives, latches, Calling
  <2>2. PICK d \in {Empty, made[q][t] + 1} :
           /\ made' = [made EXCEPT ![q][t] = @ + 1]
           /\ inbox' \in {inbox, [inbox EXCEPT ![q][t] = Append(@, d)]}
    BY <1>3, Zenon DEF Arrives
  <2>3. CASE q # r \/ t # s
    <3>1. inbox'[r][s] = inbox[r][s] /\ made'[r][s] = made[r][s]
      <4>1. CASE q # r
        BY <2>2, <4>1 DEF RouterType
      <4>2. CASE q = r /\ t # s
        <5>1. made[r] \in [Sides -> Nat] /\ inbox[r] \in [Sides -> Seq(Nat)]
          BY DEF RouterType
        <5>2. made'[r] = [made[r] EXCEPT ![t] = @ + 1]
              /\ inbox'[r] \in {inbox[r], [inbox[r] EXCEPT ![t] = Append(@, d)]}
          BY <2>2, <4>2 DEF RouterType
        <5> QED BY <4>2, <5>1, <5>2
      <4> QED BY <2>3, <4>1, <4>2
    <3> QED BY <1>1, <2>1, <3>1, FreshFrame
  <2>4. CASE q = r /\ t = s
    <3>1. /\ d \in {Empty, made[r][s] + 1} /\ made'[r][s] = made[r][s] + 1
          /\ inbox'[r][s] \in {inbox[r][s], Append(inbox[r][s], d)}
      <4>1. made[r] \in [Sides -> Nat] /\ inbox[r] \in [Sides -> Seq(Nat)]
        BY DEF RouterType
      <4>2. made'[r] = [made[r] EXCEPT ![s] = @ + 1]
            /\ inbox'[r] \in {inbox[r], [inbox[r] EXCEPT ![s] = Append(@, d)]}
        BY <2>2, <2>4, ZenonT(30) DEF RouterType
      <4>3. d \in {Empty, made[r][s] + 1}
        BY <2>2, <2>4
      <4> QED BY <4>1, <4>2, <4>3
    <3>2. Ordered(inbox'[r][s]) /\ UpTo(inbox'[r][s], made'[r][s])
          /\ Newer(inbox'[r][s], slot[r][s]) /\ Newer(inbox'[r][s], fired[r][s])
      <4>1. CASE inbox'[r][s] = Append(inbox[r][s], d)
        BY <1>1, <3>1, <4>1, AppendDoc DEF FreshSide
      <4>2. CASE inbox'[r][s] = inbox[r][s]
        <5>1. \A i \in DOMAIN inbox[r][s] : inbox[r][s][i] \in Nat /\ inbox[r][s][i] <= made[r][s]
          BY <1>1 DEF FreshSide, UpTo
        <5>2. UpTo(inbox[r][s], made[r][s] + 1)
          BY <1>1, <5>1 DEF UpTo
        <5> QED BY <1>1, <3>1, <4>2, <5>2 DEF FreshSide
      <4> QED BY <3>1, <4>1, <4>2
    <3> QED BY <1>1, <2>1, <3>1, <3>2 DEF FreshSide
  <2> QED BY <2>3, <2>4
<1>4. ASSUME NEW q \in Routers, NEW t \in Sides, Latches(q, t) PROVE FreshSide(r, s)'
  <2>1. UNCHANGED <<made, fired, pc>> /\ (Calling(r)' <=> Calling(r))
    BY <1>4 DEF Latches, Calling
  <2>2. CASE <<q, t>> # <<r, s>>
    <3>1. inbox'[r][s] = inbox[r][s] /\ slot'[r][s] = slot[r][s]
      <4>1. inbox \in [Routers -> [Sides -> Seq(Nat)]] /\ slot \in [Routers -> [Sides -> Nat]]
        BY DEF RouterType
      <4>2. inbox'[r][s] = inbox[r][s]
        BY <1>4, <2>2, <4>1 DEF Latches
      <4>3. slot'[r][s] = slot[r][s]
        BY <1>4, <2>2, <4>1 DEF Latches
      <4> QED BY <4>2, <4>3
    <3> QED BY <1>1, <2>1, <3>1, FreshFrame
  <2>3. CASE <<q, t>> = <<r, s>>
    <3>1. /\ inbox[r][s] # <<>> /\ ~Calling(r) /\ inbox'[r][s] = Tail(inbox[r][s])
          /\ slot'[r][s] = IF Head(inbox[r][s]) = Empty THEN slot[r][s] ELSE Head(inbox[r][s])
      BY <1>4, <2>3 DEF Latches, RouterType
    <3> QED BY <1>1, <2>1, <3>1, TakeDoc DEF FreshSide
  <2> QED BY <2>2, <2>3
<1>5. ASSUME NEW q \in Routers, Fires(q) PROVE FreshSide(r, s)'
  <2>1. CASE q # r
    BY <1>1, <1>5, <2>1, FreshFrame DEF Fires, Calling, RouterType
  <2>2. CASE q = r
    BY <1>1, <1>5, <2>2 DEF Fires, Calling, RouterType, FreshSide
  <2> QED BY <2>1, <2>2
<1>6. ASSUME NEW q \in Routers, Ends(q) PROVE FreshSide(r, s)'
  <2>1. CASE q # r
    BY <1>1, <1>6, <2>1, FreshFrame DEF Ends, Calling, RouterType
  <2>2. CASE q = r
    <3>1. slot'[r][s] = Empty /\ ~Calling(r)' /\ UNCHANGED <<made, inbox, fired>>
      BY <1>6, <2>2 DEF Ends, Calling, RouterType, NoPair
    <3>2. Newer(inbox[r][s], Empty)
      BY <1>1 DEF Newer, Empty
    <3> QED BY <1>1, <3>1, <3>2 DEF FreshSide, Empty
  <2> QED BY <2>1, <2>2
<1> QED BY <1>2, <1>3, <1>4, <1>5, <1>6, StepKinds

-----------------------------------------------------------------------------
(* Types. *)

\* Type correctness, one case per kind of step.
LEMMA TypeNext ==
    ASSUME RouterType, [Next]_vars
    PROVE  RouterType'
<1> DEFINE Requests == [id : Nat, pair : Pairs]
           Responses == [id : Nat, pair : Pairs, outcome : Outcomes]
           Emitted == [on : Pairs, kind : {"answer", "Error"}, from : Pairs]
<1>1. \A r \in Routers : Pair(r) \in Pairs
  BY DEF RouterType, Pair, Pairs
<1>2. CASE UNCHANGED vars
  BY <1>2 DEF RouterType, vars, inputs, latches, calls, bridge
<1>3. CASE HostReads
  <2>1. Head(reqs) \in Requests /\ Tail(reqs) \in Seq(Requests)
    BY <1>3, TailFacts DEF HostReads, RouterType
  <2> QED BY <1>3, <2>1 DEF HostReads, RouterType, inputs, latches, calls
<1>4. CASE HostAnswers
  <2>1. PICK q \in host, outcome \in Outcomes :
           /\ resps' = Append(resps, [id |-> q.id, pair |-> q.pair, outcome |-> outcome])
           /\ host' = host \ {q}
    BY <1>4 DEF HostAnswers
  <2>2. q \in Requests
    BY DEF RouterType
  <2>3. [id |-> q.id, pair |-> q.pair, outcome |-> outcome] \in Responses
    BY <2>2
  <2>4. resps' \in Seq(Responses)
    BY <2>1, <2>3 DEF RouterType
  <2> QED BY <1>4, <2>1, <2>4 DEF HostAnswers, RouterType, inputs, latches, calls
<1>5. ASSUME NEW r \in Routers, NEW s \in Sides, Arrives(r, s) PROVE RouterType'
  <2>1. PICK d \in {Empty, made[r][s] + 1} :
           /\ made' = [made EXCEPT ![r][s] = @ + 1]
           /\ inbox' \in {inbox, [inbox EXCEPT ![r][s] = Append(@, d)]}
    BY <1>5, Zenon DEF Arrives
  <2>2. d \in Nat /\ made[r] \in [Sides -> Nat] /\ inbox[r] \in [Sides -> Seq(Nat)]
    BY DEF RouterType, Empty
  <2>3. made' \in [Routers -> [Sides -> Nat]]
    BY <2>1, <2>2 DEF RouterType
  <2>4. Append(inbox[r][s], d) \in Seq(Nat)
    BY <2>2
  <2>5. inbox' \in [Routers -> [Sides -> Seq(Nat)]]
    <3>1. CASE inbox' = [inbox EXCEPT ![r][s] = Append(@, d)]
      <4>1. [inbox[r] EXCEPT ![s] = Append(inbox[r][s], d)] \in [Sides -> Seq(Nat)]
        BY <2>2, <2>4
      <4> QED BY <3>1, <4>1 DEF RouterType
    <3> QED BY <2>1, <3>1 DEF RouterType
  <2> QED BY <1>5, <2>3, <2>5 DEF Arrives, RouterType, latches, calls, bridge
<1>6. ASSUME NEW r \in Routers, LoadRouter(r) \/ Poll(r) \/ ConsumeClock(r) \/ Fire(r) \/ Wake(r)
      PROVE  RouterType'
  BY <1>6 DEF LoadRouter, Poll, ConsumeClock, Fire, Wake, RouterType, inputs, latches, calls, bridge
<1>7. ASSUME NEW r \in Routers, Latch(r) PROVE RouterType'
  <2>1. Side(r) \in Sides
    BY DEF Side, Sides
  <2>2. CASE inbox[r][Side(r)] = <<>>
    BY <1>7, <2>2 DEF Latch, RouterType, calls, bridge
  <2>3. CASE inbox[r][Side(r)] # <<>>
    <3>1. inbox[r][Side(r)] \in Seq(Nat) /\ inbox[r] \in [Sides -> Seq(Nat)]
          /\ slot[r] \in [Sides -> Nat]
      BY <2>1 DEF RouterType
    <3>2. Head(inbox[r][Side(r)]) \in Nat /\ Tail(inbox[r][Side(r)]) \in Seq(Nat)
      BY <2>3, <3>1, TailFacts
    <3>3. /\ inbox' = [inbox EXCEPT ![r][Side(r)] = Tail(@)]
          /\ slot' = [slot EXCEPT ![r][Side(r)] =
                IF Head(inbox[r][Side(r)]) = Empty THEN @ ELSE Head(inbox[r][Side(r)])]
      BY <1>7, <2>3 DEF Latch
    <3>4. inbox' \in [Routers -> [Sides -> Seq(Nat)]]
      BY <2>1, <3>1, <3>2, <3>3 DEF RouterType
    <3>5. slot' \in [Routers -> [Sides -> Nat]]
      BY <2>1, <3>1, <3>2, <3>3 DEF RouterType
    <3> QED BY <1>7, <2>3, <3>4, <3>5 DEF Latch, RouterType, calls, bridge
  <2> QED BY <2>2, <2>3
<1>8. ASSUME NEW r \in Routers, Ask(r) PROVE RouterType'
  <2>1. [id |-> nextId, pair |-> Pair(r)] \in Requests
    BY <1>1 DEF RouterType
  <2>2. reqs' \in {reqs, Append(reqs, [id |-> nextId, pair |-> Pair(r)])}
    BY <1>8 DEF Ask
  <2>3. reqs' \in Seq(Requests)
    <3>1. reqs \in Seq(Requests)
      BY DEF RouterType
    <3>2. Append(reqs, [id |-> nextId, pair |-> Pair(r)]) \in Seq(Requests)
      BY <2>1, <3>1, AppendFacts, Zenon
    <3> QED BY <2>2, <3>1, <3>2, Zenon
  <2> QED BY <1>8, <2>3, SMTT(30) DEF Ask, RouterType, inputs, latches
<1>9. ASSUME NEW r \in Routers, NEW outcome, NEW pair \in Pairs, Returned(r, outcome, pair)
      PROVE  /\ pc' \in [Routers -> {"none", "poll", "latch", "drain", "call", "await", "resp"}]
             /\ slot' \in [Routers -> [Sides -> Nat]]
             /\ emits' \in Seq(Emitted)
  <2>1. NoPair \in [Sides -> Nat]
    BY DEF NoPair, Empty
  <2>2. ASSUME NEW kind \in {"answer", "Error"} PROVE Emit(r, kind, pair) \in Seq(Emitted)
    <3>1. [on |-> Pair(r), kind |-> kind, from |-> pair] \in Emitted
      BY <1>1
    <3> QED BY <3>1 DEF Emit, RouterType
  <2> QED BY <1>9, <2>1, <2>2, ReturnedFacts, ZenonT(30) DEF RouterType
<1>10. ASSUME NEW r \in Routers, WebComplete(r) \/ Deadline(r) PROVE RouterType'
  <2>1. \E outcome : Returned(r, outcome, Pair(r))
    BY <1>10 DEF WebComplete, Deadline
  <2> QED BY <1>1, <1>9, <1>10, <2>1 DEF WebComplete, Deadline, RouterType, inputs, bridge
<1>11. ASSUME NEW r \in Routers, TakeResponse(r) PROVE RouterType'
  <2>1. CASE resps = <<>>
    BY <1>11, <2>1 DEF TakeResponse, RouterType, inputs
  <2>2. CASE resps # <<>>
    <3>1. Head(resps) \in Responses /\ Tail(resps) \in Seq(Responses)
      BY <2>2, TailFacts DEF RouterType
    <3>2. resps' \in {resps, Tail(resps)}
      BY <1>11, <2>2 DEF TakeResponse
    <3>3. resps' \in Seq(Responses)
      BY <3>1, <3>2 DEF RouterType
    <3>4. CASE Mine(r, Head(resps))
      <4>1. Returned(r, Head(resps).outcome, Head(resps).pair) /\ Head(resps).pair \in Pairs
        BY <1>11, <2>2, <3>1, <3>4 DEF TakeResponse
      <4> QED BY <1>9, <1>11, <3>3, <4>1 DEF TakeResponse, RouterType, inputs
    <3>5. CASE ~Mine(r, Head(resps))
      BY <1>11, <2>2, <3>3, <3>5 DEF TakeResponse, RouterType, inputs
    <3> QED BY <3>4, <3>5
  <2> QED BY <2>1, <2>2
<1> QED BY <1>2, <1>3, <1>4, <1>5, <1>6, <1>7, <1>8, <1>10, <1>11 DEF Next, Thread

-----------------------------------------------------------------------------
(* Requests and their ids. *)

\* A step that adds no request and disturbs no router that waits.
LEMMA IdsFrame ==
    ASSUME IdsAreUnique, IdsAreGiven, Carried' \subseteq Carried, nextId' = nextId,
           \A r \in Routers : pc'[r] \in {"await", "resp"} =>
                /\ pc[r] \in {"await", "resp"}
                /\ slot'[r] = slot[r] /\ reqId'[r] = reqId[r]
    PROVE  IdsAreUnique' /\ IdsAreGiven'
<1>1. \A r \in Routers : pc'[r] \in {"await", "resp"} => Pair(r)' = Pair(r)
  BY DEF Pair
<1> QED BY <1>1 DEF IdsAreUnique, IdsAreGiven

\* Reading a ring and answering move requests, and make none.
LEMMA CarriedMoves ==
    ASSUME RouterType,
           \/ UNCHANGED bridge
           \/ HostReads \/ HostAnswers
           \/ UNCHANGED <<reqs, host>> /\ resps # <<>> /\ resps' = Tail(resps)
    PROVE  Carried' \subseteq Carried
<1>1. CASE UNCHANGED bridge
  BY <1>1 DEF bridge, Carried
<1>2. CASE HostReads
  <2>1. /\ DOMAIN Tail(reqs) = 1..(Len(reqs) - 1) /\ DOMAIN reqs = 1..Len(reqs)
        /\ Len(reqs) \in Nat \ {0} /\ Head(reqs) = reqs[1]
        /\ \A i \in 1..(Len(reqs) - 1) : Tail(reqs)[i] = reqs[i + 1]
    BY <1>2, TailFacts DEF HostReads, RouterType
  <2>2. 1 \in DOMAIN reqs /\ \A i \in 1..(Len(reqs) - 1) : i + 1 \in DOMAIN reqs
    BY <2>1
  <2>3. reqs' = Tail(reqs) /\ host' = host \union {reqs[1]} /\ resps' = resps
    BY <1>2, <2>1 DEF HostReads
  <2> QED BY <2>1, <2>2, <2>3 DEF Carried
<1>3. CASE HostAnswers
  <2>1. PICK q \in host, outcome \in Outcomes :
           /\ resps' = Append(resps, [id |-> q.id, pair |-> q.pair, outcome |-> outcome])
           /\ host' = host \ {q} /\ reqs' = reqs
    BY <1>3 DEF HostAnswers
  <2>2. q \in [id : Nat, pair : Pairs]
    BY DEF RouterType
  <2>3. PICK a \in [id : Nat, pair : Pairs, outcome : Outcomes] :
           a = [id |-> q.id, pair |-> q.pair, outcome |-> outcome]
    BY <2>2
  <2>4. /\ DOMAIN resps' = 1..(Len(resps) + 1) /\ DOMAIN resps = 1..Len(resps)
        /\ Len(resps) \in Nat
        /\ \A i \in 1..Len(resps) : resps'[i] = resps[i]
        /\ resps'[Len(resps) + 1] = a
    BY <2>1, <2>3, AppendFacts DEF RouterType
  <2>5. \A i \in DOMAIN resps' : i \in DOMAIN resps \/ i = Len(resps) + 1
    <3>1. \A n \in Nat : \A i \in 1..(n + 1) : i \in 1..n \/ i = n + 1
      OBVIOUS
    <3> QED BY <2>4, <3>1, Zenon
  <2>6. a.id = q.id /\ a.pair = q.pair
    BY <2>3
  <2> QED BY <2>1, <2>4, <2>5, <2>6, ZenonT(30) DEF Carried
<1>4. CASE UNCHANGED <<reqs, host>> /\ resps # <<>> /\ resps' = Tail(resps)
  <2>1. /\ DOMAIN Tail(resps) = 1..(Len(resps) - 1) /\ DOMAIN resps = 1..Len(resps)
        /\ Len(resps) \in Nat \ {0}
        /\ \A i \in 1..(Len(resps) - 1) : Tail(resps)[i] = resps[i + 1]
    BY <1>4, TailFacts DEF RouterType
  <2>2. \A i \in 1..(Len(resps) - 1) : i + 1 \in DOMAIN resps
    BY <2>1
  <2> QED BY <1>4, <2>1, <2>2 DEF Carried
<1> QED BY <1>1, <1>2, <1>3, <1>4

\* A request gets an id that nobody has seen.
LEMMA AskIds ==
    ASSUME RouterType, IdsAreUnique, IdsAreGiven, NEW r \in Routers, Ask(r)
    PROVE  IdsAreUnique' /\ IdsAreGiven'
<1>1. /\ nextId' = nextId + 1 /\ reqId' = [reqId EXCEPT ![r] = nextId]
      /\ pc' = [pc EXCEPT ![r] = "await"] /\ UNCHANGED <<slot, host, resps>>
      /\ reqs' \in {reqs, Append(reqs, [id |-> nextId, pair |-> Pair(r)])}
  BY DEF Ask, latches
<1>2. [id |-> nextId, pair |-> Pair(r)] \in [id : Nat, pair : Pairs]
  BY DEF RouterType, Pair, Pairs
<1>3. Carried' \subseteq Carried \union {<<nextId, Pair(r)>>}
  <2>1. CASE reqs' = reqs
    BY <1>1, <2>1 DEF Carried
  <2>2. CASE reqs' = Append(reqs, [id |-> nextId, pair |-> Pair(r)])
    <3>1. PICK a \in [id : Nat, pair : Pairs] : a = [id |-> nextId, pair |-> Pair(r)]
      BY <1>2
    <3>2. /\ DOMAIN reqs' = 1..(Len(reqs) + 1) /\ DOMAIN reqs = 1..Len(reqs) /\ Len(reqs) \in Nat
          /\ \A i \in 1..Len(reqs) : reqs'[i] = reqs[i]
          /\ reqs'[Len(reqs) + 1] = a
      BY <2>2, <3>1, AppendFacts DEF RouterType
    <3>3. \A i \in DOMAIN reqs' : i \in DOMAIN reqs \/ i = Len(reqs) + 1
      BY <3>2
    <3>4. a.id = nextId /\ a.pair = Pair(r)
      BY <3>1
    <3> QED BY <1>1, <3>2, <3>3, <3>4 DEF Carried
  <2> QED BY <1>1, <2>1, <2>2
<1>4. \A c \in Carried : c[1] \in Nat
  <2>1. \A i \in DOMAIN reqs : reqs[i].id \in Nat
    <3>1. \A i \in DOMAIN reqs : reqs[i] \in [id : Nat, pair : Pairs]
      BY ElementFacts DEF RouterType
    <3> QED BY <3>1
  <2>2. \A i \in DOMAIN resps : resps[i].id \in Nat
    <3>1. \A i \in DOMAIN resps : resps[i] \in [id : Nat, pair : Pairs, outcome : Outcomes]
      BY ElementFacts DEF RouterType
    <3> QED BY <3>1
  <2>3. \A q \in host : q.id \in Nat
    BY DEF RouterType
  <2> QED BY <2>1, <2>2, <2>3 DEF Carried
<1>5. nextId \in Nat /\ reqId \in [Routers -> Nat]
      /\ pc \in [Routers -> {"none", "poll", "latch", "drain", "call", "await", "resp"}]
  BY DEF RouterType
<1>6. \A q \in Routers : Pair(q)' = Pair(q)
  BY <1>1 DEF Pair
<1>7. IdsAreGiven'
  BY <1>1, <1>5 DEF IdsAreGiven
<1>8. ASSUME NEW c \in Carried'
      PROVE  /\ c[1] < nextId'
             /\ \A q \in Routers : pc'[q] \in {"await", "resp"} /\ reqId'[q] = c[1] => c[2] = Pair(q)
  <2>1. CASE c \in Carried
    <3>1. c[1] < nextId /\ c[1] \in Nat
      BY <1>4, <2>1 DEF IdsAreUnique
    <3>2. ASSUME NEW q \in Routers, pc'[q] \in {"await", "resp"}, reqId'[q] = c[1]
          PROVE  c[2] = Pair(q)
      <4>1. q # r
        BY <1>1, <1>5, <3>1, <3>2
      <4>2. pc[q] \in {"await", "resp"} /\ reqId[q] = c[1]
        BY <1>1, <1>5, <3>2, <4>1
      <4> QED BY <2>1, <4>2 DEF IdsAreUnique
    <3> QED BY <1>1, <1>5, <3>1, <3>2
  <2>2. CASE c = <<nextId, Pair(r)>>
    <3>1. c[1] = nextId /\ c[2] = Pair(r)
      BY <2>2
    <3>2. ASSUME NEW q \in Routers, pc'[q] \in {"await", "resp"}, reqId'[q] = nextId
          PROVE  q = r
      BY <1>1, <1>5, <3>2 DEF IdsAreGiven
    <3> QED BY <1>1, <1>5, <3>1, <3>2
  <2> QED BY <1>3, <2>1, <2>2
<1> QED BY <1>6, <1>7, <1>8 DEF IdsAreUnique

\* Every step keeps ids unique: only Ask gives one, and it counts on.
LEMMA IdsNext ==
    ASSUME RouterType, IdsAreUnique, IdsAreGiven, [Next]_vars
    PROVE  IdsAreUnique' /\ IdsAreGiven'
<1>1. CASE UNCHANGED vars \/ HostReads \/ HostAnswers
  <2>1. UNCHANGED <<pc, slot, reqId, nextId>>
    BY <1>1 DEF vars, HostReads, HostAnswers, latches, calls
  <2>2. Carried' \subseteq Carried
    BY <1>1, CarriedMoves DEF vars
  <2> QED BY <2>1, <2>2, IdsFrame
<1>2. ASSUME NEW r \in Routers, NEW s \in Sides, Arrives(r, s) PROVE IdsAreUnique' /\ IdsAreGiven'
  <2>1. UNCHANGED <<pc, slot, reqId, nextId, bridge>>
    BY <1>2 DEF Arrives, latches, calls
  <2> QED BY <2>1, CarriedMoves, IdsFrame
<1>3. ASSUME NEW r \in Routers,
             LoadRouter(r) \/ Poll(r) \/ ConsumeClock(r) \/ Fire(r) \/ Wake(r)
      PROVE  IdsAreUnique' /\ IdsAreGiven'
  <2>1. UNCHANGED <<slot, reqId, nextId, bridge>>
        /\ \A q \in Routers : pc'[q] \in {"await", "resp"} => pc[q] \in {"await", "resp"}
    BY <1>3 DEF LoadRouter, Poll, ConsumeClock, Fire, Wake, latches, calls, RouterType
  <2> QED BY <2>1, CarriedMoves, IdsFrame
<1>4. ASSUME NEW r \in Routers, Latch(r) PROVE IdsAreUnique' /\ IdsAreGiven'
  <2>1. UNCHANGED <<reqId, nextId, bridge>>
    BY <1>4 DEF Latch, calls
  <2>2. \A q \in Routers : pc'[q] \in {"await", "resp"} =>
            pc[q] \in {"await", "resp"} /\ slot'[q] = slot[q]
    BY <1>4 DEF Latch, RouterType
  <2> QED BY <2>1, <2>2, CarriedMoves, IdsFrame
<1>5. ASSUME NEW r \in Routers, NEW outcome, NEW pair, Returned(r, outcome, pair)
      PROVE  \A q \in Routers : pc'[q] \in {"await", "resp"} =>
                pc[q] \in {"await", "resp"} /\ slot'[q] = slot[q]
  BY <1>5, ReturnedFacts DEF RouterType
<1>6. ASSUME NEW r \in Routers, WebComplete(r) \/ Deadline(r) PROVE IdsAreUnique' /\ IdsAreGiven'
  <2>1. UNCHANGED <<reqId, nextId, bridge>> /\ \E outcome : Returned(r, outcome, Pair(r))
    BY <1>6 DEF WebComplete, Deadline
  <2> QED BY <1>5, <2>1, CarriedMoves, IdsFrame
<1>7. ASSUME NEW r \in Routers, TakeResponse(r) PROVE IdsAreUnique' /\ IdsAreGiven'
  <2>1. UNCHANGED <<reqId, nextId, reqs, host>> /\ pc[r] = "resp"
    BY <1>7 DEF TakeResponse
  <2>2. Carried' \subseteq Carried
    <3>1. resps' = resps \/ (resps # <<>> /\ resps' = Tail(resps))
      BY <1>7 DEF TakeResponse
    <3> QED BY <2>1, <3>1, CarriedMoves DEF bridge
  <2>3. \A q \in Routers : pc'[q] \in {"await", "resp"} =>
            pc[q] \in {"await", "resp"} /\ slot'[q] = slot[q]
    <3>1. CASE resps # <<>> /\ Mine(r, Head(resps))
      BY <1>5, <1>7, <3>1 DEF TakeResponse
    <3>2. CASE ~(resps # <<>> /\ Mine(r, Head(resps)))
      BY <1>7, <3>2 DEF TakeResponse, RouterType
    <3> QED BY <3>1, <3>2
  <2> QED BY <2>1, <2>2, <2>3, IdsFrame
<1> QED BY <1>1, <1>2, <1>3, <1>4, <1>6, <1>7, AskIds DEF Next, Thread

-----------------------------------------------------------------------------
(* What is emitted. *)

\* Every step keeps emits right: only a router that ends its call emits.
LEMMA EmitsNext ==
    ASSUME RouterType, IdsAreUnique, Fresh, AnswerIsForPair, EmitsArePast, OneEmitPerFiring,
           [Next]_vars
    PROVE  AnswerIsForPair' /\ EmitsArePast' /\ OneEmitPerFiring'
<1>1. \A i \in DOMAIN emits :
        /\ emits[i].on.of \in Routers /\ emits[i].on.docs["a"] \in Nat
        /\ fired[emits[i].on.of]["a"] \in Nat /\ slot[emits[i].on.of]["a"] \in Nat
  <2>1. \A i \in DOMAIN emits :
            emits[i] \in [on : Pairs, kind : {"answer", "Error"}, from : Pairs]
    BY ElementFacts DEF RouterType
  <2>2. \A i \in DOMAIN emits : emits[i].on \in [of : Routers, docs : [Sides -> Nat]]
    BY <2>1 DEF Pairs
  <2>3. "a" \in Sides
    BY DEF Sides
  <2>4. fired \in [Routers -> [Sides -> Nat]] /\ slot \in [Routers -> [Sides -> Nat]]
    BY DEF RouterType
  <2> QED BY <2>2, <2>3, <2>4
<1>2. CASE Keeps
  BY <1>1, <1>2 DEF Keeps, AnswerIsForPair, EmitsArePast, OneEmitPerFiring
<1>3. CASE \E r \in Routers, s \in Sides : Arrives(r, s) \/ Latches(r, s)
  <2>1. UNCHANGED <<pc, fired, emits>>
    BY <1>3 DEF Arrives, Latches, latches
  <2> QED BY <2>1 DEF AnswerIsForPair, EmitsArePast, OneEmitPerFiring, Calling
<1>4. ASSUME NEW r \in Routers, Fires(r)
      PROVE  AnswerIsForPair' /\ EmitsArePast' /\ OneEmitPerFiring'
  <2>1. fired[r]["a"] < slot[r]["a"] /\ ~Calling(r)
    BY <1>4 DEF Fires, Fresh, FreshSide, Calling, Sides
  <2>2. EmitsArePast'
    <3> SUFFICES ASSUME NEW i \in DOMAIN emits, NEW q, q = emits[i].on.of
                 PROVE  IF Calling(q)' THEN emits[i].on.docs["a"] < fired'[q]["a"]
                                       ELSE emits[i].on.docs["a"] <= fired'[q]["a"]
      BY <1>4 DEF Fires, EmitsArePast
    <3>1. q \in Routers /\ emits[i].on.docs["a"] \in Nat /\ fired[q]["a"] \in Nat
          /\ slot[q]["a"] \in Nat
      BY <1>1
    <3>2. IF Calling(q) THEN emits[i].on.docs["a"] < fired[q]["a"]
                        ELSE emits[i].on.docs["a"] <= fired[q]["a"]
      BY DEF EmitsArePast
    <3>3. CASE q = r
      <4>1. fired'[q] = slot[q] /\ Calling(q)'
        BY <1>4, <3>1, <3>3 DEF Fires, Calling, RouterType
      <4> QED BY <2>1, <3>1, <3>2, <3>3, <4>1
    <3>4. CASE q # r
      <4>1. fired'[q] = fired[q] /\ (Calling(q)' <=> Calling(q))
        BY <1>4, <3>1, <3>4 DEF Fires, Calling, RouterType
      <4> QED BY <3>2, <4>1
    <3> QED BY <3>3, <3>4
  <2> QED BY <1>4, <2>2 DEF Fires, AnswerIsForPair, OneEmitPerFiring
<1>5. ASSUME NEW r \in Routers, Ends(r)
      PROVE  AnswerIsForPair' /\ EmitsArePast' /\ OneEmitPerFiring'
  <2>1. Calling(r) /\ slot[r]["a"] = fired[r]["a"] /\ fired' = fired
    BY <1>5 DEF Ends, Fresh, FreshSide, Sides
  <2>2. \A q \in Routers : q # r => (Calling(q)' <=> Calling(q))
    BY <1>5 DEF Ends, Calling, RouterType
  <2>3. ~Calling(r)'
    BY <1>5 DEF Ends, Calling, RouterType
  <2>4. ASSUME NEW i \in DOMAIN emits, NEW q, q = emits[i].on.of
        PROVE  /\ IF Calling(q)' THEN emits[i].on.docs["a"] < fired'[q]["a"]
                                 ELSE emits[i].on.docs["a"] <= fired'[q]["a"]
               /\ q = r => emits[i].on.docs["a"] < fired[r]["a"]
    <3>1. q \in Routers /\ emits[i].on.docs["a"] \in Nat /\ fired[q]["a"] \in Nat
      BY <1>1, <2>4
    <3>2. IF Calling(q) THEN emits[i].on.docs["a"] < fired[q]["a"]
                        ELSE emits[i].on.docs["a"] <= fired[q]["a"]
      BY <2>4 DEF EmitsArePast
    <3> QED BY <2>1, <2>2, <2>3, <3>1, <3>2
  <2>5. CASE emits' = emits
    BY <2>4, <2>5 DEF AnswerIsForPair, EmitsArePast, OneEmitPerFiring
  <2>6. ASSUME NEW kind \in {"answer", "Error"}, emits' = Emit(r, kind, Pair(r))
        PROVE  AnswerIsForPair' /\ EmitsArePast' /\ OneEmitPerFiring'
    <3>1. PICK e \in [on : Pairs, kind : {"answer", "Error"}, from : Pairs] :
             e = [on |-> Pair(r), kind |-> kind, from |-> Pair(r)]
      BY DEF RouterType, Pair, Pairs
    <3>2. e.on = Pair(r) /\ e.from = Pair(r) /\ e.on.of = r /\ e.on.docs = slot[r]
      BY <3>1 DEF Pair
    <3>3. PICK n \in Nat :
             /\ DOMAIN emits' = 1..(n + 1) /\ DOMAIN emits = 1..n
             /\ \A i \in 1..n : emits'[i] = emits[i]
             /\ emits'[n + 1] = e
      BY <2>6, <3>1, AppendFacts DEF Emit, RouterType
    <3>4. \A i \in DOMAIN emits' : i \in DOMAIN emits \/ i = n + 1
      BY <3>3
    <3>5. \A i \in DOMAIN emits : emits'[i] = emits[i] /\ emits[i].on # e.on
      <4>1. ASSUME NEW i \in DOMAIN emits, emits[i].on = e.on PROVE FALSE
        <5>1. emits[i].on.of = r /\ emits[i].on.docs["a"] = fired[r]["a"]
          BY <2>1, <3>2, <4>1
        <5>2. fired[r]["a"] \in Nat /\ emits[i].on.docs["a"] < fired[r]["a"]
          BY <1>1, <2>4, <5>1
        <5> QED BY <5>1, <5>2
      <4> QED BY <3>3, <4>1
    <3>6. AnswerIsForPair'
      BY <3>2, <3>3, <3>4, <3>5 DEF AnswerIsForPair
    <3>7. OneEmitPerFiring'
      BY <3>3, <3>4, <3>5 DEF OneEmitPerFiring
    <3>8. EmitsArePast'
      <4>1. fired[r]["a"] \in Nat
        BY DEF RouterType, Sides
      <4>2. IF Calling(r)' THEN e.on.docs["a"] < fired'[r]["a"] ELSE e.on.docs["a"] <= fired'[r]["a"]
        BY <2>1, <2>3, <3>2, <4>1
      <4>3. ASSUME NEW i \in DOMAIN emits', NEW q, q = emits'[i].on.of
            PROVE  IF Calling(q)' THEN emits'[i].on.docs["a"] < fired'[q]["a"]
                                  ELSE emits'[i].on.docs["a"] <= fired'[q]["a"]
        <5>1. CASE i \in DOMAIN emits
          BY <2>4, <3>5, <4>3, <5>1
        <5>2. CASE i = n + 1
          BY <3>2, <3>3, <4>2, <4>3, <5>2
        <5> QED BY <3>4, <5>1, <5>2
      <4> QED BY <4>3 DEF EmitsArePast
    <3> QED BY <3>6, <3>7, <3>8
  <2> QED BY <1>5, <2>5, <2>6 DEF Ends
<1> QED BY <1>2, <1>3, <1>4, <1>5, StepKinds

-----------------------------------------------------------------------------
(* The invariant of all behaviours, and what it says. *)

\* Before any document.
LEMMA RouterInit == Init => RouterInv
<1> SUFFICES ASSUME Init PROVE RouterInv
  OBVIOUS
<1>1. RouterType
  BY DEF Init, RouterType, NoPair, Empty
<1>2. Fresh
  BY DEF Init, Fresh, FreshSide, Ordered, UpTo, Newer, Calling, NoPair, Empty
<1>3. IdsAreUnique /\ IdsAreGiven
  BY DEF Init, IdsAreUnique, IdsAreGiven, Carried
<1>4. AnswerIsForPair /\ EmitsArePast /\ OneEmitPerFiring
  BY DEF Init, AnswerIsForPair, EmitsArePast, OneEmitPerFiring
<1> QED BY <1>1, <1>2, <1>3, <1>4 DEF RouterInv

\* Whatever arrives, whoever answers and whichever thread runs.
THEOREM RouterInvariant == Spec => []RouterInv
<1>1. RouterInv /\ [Next]_vars => RouterInv'
  BY TypeNext, FreshNext, IdsNext, EmitsNext DEF RouterInv
<1> QED BY <1>1, RouterInit, PTL DEF Spec

\* What a router emits was made from the pair it fired on: an answer to an
\* earlier request, or to another router's, is never taken for the answer.
THEOREM AnswersMatch == Spec => []AnswerIsForPair
  BY RouterInvariant, PTL DEF RouterInv

\* A firing ends in at most one emitted document.
THEOREM OneDocumentPerFiring == Spec => []OneEmitPerFiring
  BY RouterInvariant, PTL DEF RouterInv

\* A router never fires on a document it has fired on before.
THEOREM FiresOnlyOnFresh == Spec => FiresOnFresh
<1>1. ASSUME RouterInv, [Next]_vars, NEW r \in Routers, NEW s \in Sides,
             fired'[r] # fired[r] \/ (pc[r] = "latch" /\ pc'[r] = "call")
      PROVE  fired'[r][s] > fired[r][s]
  <2>1. RouterType /\ Fresh /\ IdsAreUnique
    BY <1>1 DEF RouterInv
  <2>2. Fires(r)
    <3>1. ~Keeps
      BY <1>1 DEF Keeps, Calling
    <3>2. ASSUME NEW q \in Routers, NEW t \in Sides, Arrives(q, t) \/ Latches(q, t) PROVE FALSE
      BY <1>1, <3>2 DEF Arrives, Latches, latches
    <3>3. ASSUME NEW q \in Routers, Ends(q) PROVE FALSE
      BY <1>1, <2>1, <3>3 DEF Ends, RouterType
    <3>4. ASSUME NEW q \in Routers, Fires(q) PROVE q = r
      BY <1>1, <2>1, <3>4 DEF Fires, RouterType
    <3> QED BY <1>1, <2>1, <3>1, <3>2, <3>3, <3>4, StepKinds
  <2>3. fired'[r] = slot[r] /\ slot[r][s] # Empty /\ ~Calling(r)
    BY <2>1, <2>2 DEF Fires, Calling, RouterType
  <2>4. fired[r][s] < slot[r][s] /\ fired[r][s] \in Nat /\ slot[r][s] \in Nat
    BY <2>1, <2>3 DEF Fresh, FreshSide, RouterType
  <2> QED BY <2>3, <2>4
<1>2. RouterInv /\ [Next]_vars =>
        [\A r \in Routers, s \in Sides :
            fired'[r] # fired[r] \/ (pc[r] = "latch" /\ pc'[r] = "call")
                => fired'[r][s] > fired[r][s]]_vars
  BY <1>1
<1> QED BY <1>2, RouterInvariant, PTL DEF Spec, FiresOnFresh
==============================================================================
