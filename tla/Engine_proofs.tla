--------------------------- MODULE Engine_proofs ---------------------------
(***************************************************************************)
(* For every pipeline of script nodes, inbox size and number of documents: *)
(* each source is dispatched in its order, each document once and none     *)
(* left out; an answer of store.query is to the script's last question and *)
(* includes the document it runs on; and afterInsert brings what is in the *)
(* store, where no carrier event is refused by it.                         *)
(***************************************************************************)
EXTENDS Engine, SequenceTheorems, TLAPS

Docs == [src : Sources \cup {"clock"}, n : Nat, kind : Kinds \cup {"clock"}]

\* The documents that scripts have been given or have in an inbox.
Busy(n) == node[n] \in {"running", "asking"}
Waiting(n, doc) == \E ch \in Ins[n] : \E i \in 1..Len(inbox[n][ch]) : doc = inbox[n][ch][i]
Visible(n, doc) == Waiting(n, doc) \/ (Busy(n) /\ doc = trigger[n])

\* A document that is in the store, or that the worker is about to insert
\* before it looks at a question again.
Settled(doc) ==
    \/ doc \in store
    \/ pc \in {"before", "insert"} /\ doc = cur
    \/ \E i \in 1..Len(batch) : doc = batch[i]

EngineType ==
    /\ pc \in {"sleep", "iterate", "events", "input", "before", "insert", "after", "queries",
               "emits", "dispatch", "ended"}
    /\ route \in Nat \ {0} /\ store \subseteq Docs
    /\ made \in [Sources -> Nat] /\ taken \in [Sources -> Nat] /\ asked \in [NodeSet -> Nat]
    /\ node \in [NodeSet -> {"starting", "polling", "running", "asking", "finished"}]
    /\ evq \in Seq(Docs) /\ inq \in Seq(Docs) /\ batch \in Seq(Docs)
    /\ emits \in [NodeSet -> Seq(Docs)]
    /\ DOMAIN inbox = NodeSet /\ DOMAIN trigger = NodeSet
    /\ DOMAIN resp = NodeSet /\ DOMAIN answer = NodeSet
    /\ \A n \in NodeSet : inbox[n] \in [Ins[n] -> Seq(Docs)] /\ (Busy(n) => trigger[n] \in Docs)

\* Where the worker is while documents it has collected are not yet dispatched.
Placed ==
    /\ pc \in {"before", "insert", "after"} => /\ cur \in Docs /\ ret \in {"events", "input", "dispatch"}
                                               /\ cur.src = "carrier" => cur.kind \in EventKinds
    /\ batch # <<>> => \/ pc \in {"emits", "dispatch"}
                       \/ pc \in {"before", "insert", "after"} /\ ret = "dispatch"

\* What a source has produced and dispatch has not taken, numbered on.
InLine(queue, s) ==
    /\ taken[s] + Len(queue) = made[s]
    /\ \A i \in 1..Len(queue) : queue[i].src = s /\ queue[i].n = taken[s] + i
Emitted ==
    \A n \in NodeSet :
        /\ taken[n] + Len(emits[n]) <= made[n]
        /\ \A i \in 1..Len(emits[n]) : emits[n][i].src = n /\ emits[n][i].n = (made[n] - Len(emits[n])) + i
Collected ==
    /\ \A i \in 1..Len(batch) :
        /\ batch[i].src \in NodeSet
        /\ taken[batch[i].src] < batch[i].n /\ batch[i].n <= made[batch[i].src] - Len(emits[batch[i].src])
    /\ \A i, j \in 1..Len(batch) : i < j /\ batch[i].src = batch[j].src => batch[i].n < batch[j].n
    /\ \A n \in NodeSet : \A k \in (taken[n] + 1)..(made[n] - Len(emits[n])) :
        \E i \in 1..Len(batch) : batch[i].src = n /\ batch[i].n = k
Numbered ==
    /\ InLine(inq, "in") /\ InLine(evq, "carrier") /\ Emitted /\ Collected
    /\ \A i \in 1..Len(evq) : evq[i].kind \in EventKinds

\* What scripts see is settled, and what they are told includes it.
Seen == \A n \in NodeSet : \A doc \in Docs : Visible(n, doc) /\ doc.kind = "raw" => Settled(doc)
Told ==
    \A n \in NodeSet :
        /\ resp[n] # None => node[n] = "asking" /\ resp[n].question = asked[n]
        /\ answer[n] # None => Busy(n) /\ answer[n].question = asked[n]
        /\ resp[n] # None /\ trigger[n].kind = "raw" => trigger[n] \in resp[n].rows
        /\ answer[n] # None /\ trigger[n].kind = "raw" => trigger[n] \in answer[n].rows

\* What the insert has accepted is in the store when afterInsert is due.
Inserted == pc = "after" /\ cur.kind = "raw" => cur \in store

EngineInv == EngineType /\ Placed /\ Numbered /\ Inserted /\ Seen /\ Told

\* Where the carrier's events are well-formed and no script emits to the
\* channel itself, afterInsert brings what is in the store.
WellFormed == "bad" \notin EventKinds /\ \A n \in NodeSet : "afterInsert" \notin Outs[n]

AfterInsertInv ==
    /\ AfterInsertMeansStored
    /\ pc = "after" => cur \in store

-----------------------------------------------------------------------------
(* Documents and queues *)

\* The fields of a document.
LEMMA DocIsDoc ==
    ASSUME NEW s \in Sources \cup {"clock"}, NEW k \in Nat, NEW kind \in Kinds \cup {"clock"}
    PROVE  /\ Doc(s, k, kind) \in Docs
           /\ Doc(s, k, kind).src = s /\ Doc(s, k, kind).n = k /\ Doc(s, k, kind).kind = kind
BY DEF Doc, Docs

\* antenna:clock is broadcast a document that never enters the store.
LEMMA ClockIsDoc == ClockTick \in Docs /\ ClockTick.kind # "raw"
<1>1. ClockTick \in Docs  BY DEF ClockTick, Doc, Docs
<1>2. ClockTick.kind = "clock"  BY DEF ClockTick, Doc
<1> QED  BY <1>1, <1>2

\* Taking the first document, and adding one.
LEMMA TailFacts ==
    ASSUME NEW q \in Seq(Docs), q # <<>>
    PROVE  /\ Head(q) \in Docs /\ Head(q) = q[1] /\ Len(q) \in Nat \ {0}
           /\ Tail(q) \in Seq(Docs) /\ Len(Tail(q)) = Len(q) - 1
           /\ \A i \in 1..Len(Tail(q)) : Tail(q)[i] = q[i + 1] /\ i + 1 \in 1..Len(q)
           /\ \A i \in 1..Len(q) : i = 1 \/ (i - 1 \in 1..Len(Tail(q)) /\ Tail(q)[i - 1] = q[i])
<1>1. PICK t : t = Tail(q)  OBVIOUS
<1>2. Head(q) \in Docs /\ Head(q) = q[1] /\ Len(q) \in Nat \ {0}  OBVIOUS
<1>3. t \in Seq(Docs) /\ Len(t) = Len(q) - 1  BY <1>1, HeadTailProperties
<1>4. \A i \in 1..Len(t) : t[i] = q[i + 1]  BY <1>1, HeadTailProperties
<1>5. \A i \in 1..Len(t) : i + 1 \in 1..Len(q)  BY <1>2, <1>3
<1>6. \A i \in 1..Len(q) : i = 1 \/ (i - 1 \in 1..Len(t) /\ (i - 1) + 1 = i)  BY <1>2, <1>3
<1>7. \A i \in 1..Len(q) : i = 1 \/ (i - 1 \in 1..Len(t) /\ t[i - 1] = q[i])  BY <1>4, <1>6
<1> QED  BY <1>1, <1>2, <1>3, <1>4, <1>5, <1>7

\* Adding a document.
LEMMA AppendFacts ==
    ASSUME NEW q \in Seq(Docs), NEW d \in Docs
    PROVE  /\ Append(q, d) \in Seq(Docs) /\ Len(q) \in Nat /\ Len(Append(q, d)) = Len(q) + 1
           /\ Append(q, d) # <<>> /\ Append(q, d)[Len(q) + 1] = d
           /\ \A i \in 1..Len(q) : Append(q, d)[i] = q[i] /\ i \in 1..(Len(q) + 1)
           /\ \A i \in 1..(Len(q) + 1) : i = Len(q) + 1 \/ i \in 1..Len(q)
<1>1. Len(q) \in Nat  OBVIOUS
<1>2. /\ Append(q, d) \in Seq(Docs) /\ Len(Append(q, d)) = Len(q) + 1
      /\ Append(q, d) # <<>> /\ Append(q, d)[Len(q) + 1] = d
      /\ \A i \in 1..Len(q) : Append(q, d)[i] = q[i]
  BY AppendProperties
<1>3. \A i \in 1..Len(q) : i \in 1..(Len(q) + 1)  BY <1>1
<1>4. \A i \in 1..(Len(q) + 1) : i = Len(q) + 1 \/ i \in 1..Len(q)  BY <1>1
<1> QED  BY <1>1, <1>2, <1>3, <1>4

\* A broadcast leaves inboxes of documents, with nothing new but its own.
LEMMA BroadcastFacts ==
    ASSUME EngineType, NEW chans, NEW d \in Docs, Broadcast(chans, d)
    PROVE  /\ DOMAIN inbox' = NodeSet
           /\ \A n \in NodeSet : inbox'[n] \in [Ins[n] -> Seq(Docs)]
           /\ \A n \in NodeSet : \A ch \in Ins[n] :
                \/ inbox'[n][ch] = inbox[n][ch]
                \/ ch \in chans /\ inbox'[n][ch] = Append(inbox[n][ch], d)
<1>1. \A n \in NodeSet : \A ch \in Ins[n] : inbox[n][ch] \in Seq(Docs)  BY DEF EngineType
<1>2. inbox' = [n \in NodeSet |-> [ch \in Ins[n] |->
        IF ch \in chans /\ Len(inbox[n][ch]) < InboxCap
        THEN Append(inbox[n][ch], d) ELSE inbox[n][ch]]]
  BY DEF Broadcast, Delivered
<1>3. ASSUME NEW n \in NodeSet
      PROVE  inbox'[n] = [ch \in Ins[n] |->
                IF ch \in chans /\ Len(inbox[n][ch]) < InboxCap
                THEN Append(inbox[n][ch], d) ELSE inbox[n][ch]]
  BY <1>2
<1>4. ASSUME NEW n \in NodeSet, NEW ch \in Ins[n]
      PROVE  /\ inbox'[n][ch] \in Seq(Docs)
             /\ \/ inbox'[n][ch] = inbox[n][ch]
                \/ ch \in chans /\ inbox'[n][ch] = Append(inbox[n][ch], d)
  <2>1. inbox'[n][ch] = IF ch \in chans /\ Len(inbox[n][ch]) < InboxCap
                        THEN Append(inbox[n][ch], d) ELSE inbox[n][ch]
    BY <1>3, ZenonT(30)
  <2>2. inbox[n][ch] \in Seq(Docs) /\ Append(inbox[n][ch], d) \in Seq(Docs)  BY <1>1, AppendFacts
  <2> QED  BY <2>1, <2>2
<1>5. \A n \in NodeSet : inbox'[n] \in [Ins[n] -> Seq(Docs)]
  BY <1>3, <1>4
<1> QED  BY <1>2, <1>4, <1>5

\* The parts of the state that most steps leave alone.
LEMMA TypeKept ==
    ASSUME EngineType,
           UNCHANGED <<store, made, taken, asked, node, evq, inq, batch, emits, inbox, trigger>>,
           UNCHANGED <<DOMAIN resp, DOMAIN answer>>,
           pc' \in {"sleep", "iterate", "events", "input", "before", "insert", "after", "queries",
                    "emits", "dispatch", "ended"},
           route' \in Nat \ {0}
    PROVE  EngineType'
BY DEF EngineType, Busy

-----------------------------------------------------------------------------
(* Type correctness *)

\* A new context.
LEMMA TypeInitial == Init => EngineType
<1> SUFFICES ASSUME Init PROVE EngineType
  OBVIOUS
<1>1. <<>> \in Seq(Docs)  BY EmptySeq
<1>2. \A n \in NodeSet : inbox[n] \in [Ins[n] -> Seq(Docs)]  BY <1>1 DEF Init
<1> QED  BY <1>1, <1>2 DEF Init, EngineType, Busy

\* Type correctness, one case per step of the tick and of a script.
LEMMA TypeNext == EngineType /\ Placed /\ Numbered /\ [Next]_vars => EngineType'
<1> SUFFICES ASSUME EngineType, Placed, Numbered, [Next]_vars PROVE EngineType'
  OBVIOUS
<1> USE DEF workVars, input, nodeVars
<1>s. "in" \in Sources /\ "carrier" \in Sources /\ NodeSet \subseteq Sources  BY DEF Sources
<1>k. LineKinds \subseteq Kinds /\ EventKinds \subseteq Kinds /\ EmitKinds \subseteq Kinds  BY EngineAssumption
<1>1. CASE Clock
  <2>1. /\ DOMAIN inbox' = NodeSet
        /\ \A n \in NodeSet : inbox'[n] \in [Ins[n] -> Seq(Docs)]
    BY <1>1, ClockIsDoc, BroadcastFacts DEF Clock
  <2> QED  BY <1>1, <2>1 DEF Clock, EngineType, Busy
<1>2. CASE Iterate
  <2>1. CASE UNCHANGED <<evq, made>>  BY <1>2, <2>1, TypeKept DEF Iterate, EngineType
  <2>2. ASSUME NEW k \in EventKinds, evq' = Append(evq, Event(k)),
               made' = [made EXCEPT !["carrier"] = @ + 1]
        PROVE  EngineType'
    <3>1. made["carrier"] + 1 \in Nat  BY <1>s DEF EngineType
    <3>2. Event(k) \in Docs  BY <3>1, <1>s, <1>k, DocIsDoc DEF Event
    <3>3. evq' \in Seq(Docs)  BY <3>2, <2>2, AppendFacts DEF EngineType
    <3>4. made' \in [Sources -> Nat]  BY <3>1, <2>2 DEF EngineType
    <3> QED  BY <1>2, <3>3, <3>4 DEF Iterate, EngineType, Busy
  <2> QED  BY <1>2, <2>1, <2>2 DEF Iterate
<1>3. CASE IterateFails \/ RunEnds  BY <1>3, TypeKept DEF IterateFails, RunEnds, EngineType
<1>4. CASE TakeEvent
  <2>1. Head(evq) \in Docs /\ Tail(evq) \in Seq(Docs)  BY <1>4, TailFacts DEF TakeEvent, EngineType
  <2>2. taken' \in [Sources -> Nat]
    <3>1. Head(evq).n \in Nat  BY <2>1 DEF Docs
    <3> QED  BY <3>1, <1>4 DEF TakeEvent, Enter, EngineType
  <2> QED  BY <1>4, <2>1, <2>2 DEF TakeEvent, EngineType, Busy
<1>5. CASE EventsDone  BY <1>5, TypeKept DEF EventsDone, EngineType
<1>6. CASE TakeLine
  <2>1. Head(inq) \in Docs /\ Tail(inq) \in Seq(Docs)  BY <1>6, TailFacts DEF TakeLine, EngineType
  <2>2. taken' \in [Sources -> Nat]
    <3>1. Head(inq).n \in Nat  BY <2>1 DEF Docs
    <3> QED  BY <3>1, <1>6 DEF TakeLine, Dispatch, Enter, EngineType
  <2>3. pc' \in {"before", "input"}  BY <1>6 DEF TakeLine, Dispatch
  <2> QED  BY <1>6, <2>1, <2>2, <2>3 DEF TakeLine, EngineType, Busy
<1>7. CASE InputDone  BY <1>7, TypeKept DEF InputDone, EngineType
<1>8. CASE Before
  <2>1. cur \in Docs  BY <1>8 DEF Before, Placed
  <2>2. /\ DOMAIN inbox' = NodeSet
        /\ \A n \in NodeSet : inbox'[n] \in [Ins[n] -> Seq(Docs)]
    BY <1>8, <2>1, BroadcastFacts DEF Before
  <2> QED  BY <1>8, <2>2 DEF Before, EngineType, Busy
<1>9. CASE Insert
  <2>1. cur \in Docs /\ ret \in {"events", "input", "dispatch"}  BY <1>9 DEF Insert, Placed
  <2> QED  BY <1>9, <2>1 DEF Insert, EngineType, Busy
<1>10. CASE After
  <2>1. cur \in Docs /\ ret \in {"events", "input", "dispatch"}  BY <1>10 DEF After, Placed
  <2>2. /\ DOMAIN inbox' = NodeSet
        /\ \A n \in NodeSet : inbox'[n] \in [Ins[n] -> Seq(Docs)]
    BY <1>10, <2>1, BroadcastFacts DEF After
  <2> QED  BY <1>10, <2>1, <2>2 DEF After, EngineType, Busy
<1>11. CASE AnswerQuery
  <2>1. DOMAIN resp' = NodeSet  BY <1>11 DEF AnswerQuery, EngineType
  <2> QED  BY <1>11, <2>1, TypeKept DEF AnswerQuery, EngineType
<1>12. CASE QueriesDone  BY <1>12, TypeKept DEF QueriesDone, EngineType
<1>13. CASE PumpEmit
  <2>1. PICK n : n = Nodes[route]  OBVIOUS
  <2>2. n \in NodeSet
    <3>1. route \in 1..Len(Nodes)  BY <1>13, EngineAssumption DEF PumpEmit, EngineType
    <3> QED  BY <3>1, <2>1, EngineAssumption DEF NodeSet
  <2>3. emits[n] \in Seq(Docs) /\ emits[n] # <<>>  BY <1>13, <2>1, <2>2 DEF PumpEmit, EngineType
  <2>4. Head(emits[n]) \in Docs /\ Tail(emits[n]) \in Seq(Docs)  BY <2>3, TailFacts
  <2>5. emits' = [emits EXCEPT ![n] = Tail(emits[n])] /\ batch' = Append(batch, Head(emits[n]))
        /\ Broadcast(Outs[n], Head(emits[n]))
    BY <1>13, <2>1 DEF PumpEmit
  <2>6. emits' \in [NodeSet -> Seq(Docs)]  BY <2>4, <2>5 DEF EngineType
  <2>7. batch' \in Seq(Docs)  BY <2>4, <2>5, AppendFacts DEF EngineType
  <2>8. /\ DOMAIN inbox' = NodeSet
        /\ \A m \in NodeSet : inbox'[m] \in [Ins[m] -> Seq(Docs)]
    BY <2>4, <2>5, BroadcastFacts
  <2> QED  BY <1>13, <2>6, <2>7, <2>8 DEF PumpEmit, EngineType, Busy
<1>14. CASE PumpNext
  <2>1. route' \in Nat \ {0} /\ pc' \in {"emits", "dispatch"}  BY <1>14 DEF PumpNext, EngineType
  <2> QED  BY <1>14, <2>1, TypeKept DEF PumpNext, EngineType
<1>15. CASE DispatchEmit
  <2>1. Head(batch) \in Docs /\ Tail(batch) \in Seq(Docs)  BY <1>15, TailFacts DEF DispatchEmit, EngineType
  <2>2. taken' \in [Sources -> Nat]
    <3>1. Head(batch).n \in Nat  BY <2>1 DEF Docs
    <3> QED  BY <3>1, <1>15 DEF DispatchEmit, Dispatch, Enter, EngineType
  <2>3. pc' \in {"before", "dispatch"}  BY <1>15 DEF DispatchEmit, Dispatch
  <2> QED  BY <1>15, <2>1, <2>2, <2>3 DEF DispatchEmit, EngineType, Busy
<1>16. CASE HealthCheck  BY <1>16, TypeKept DEF HealthCheck, EngineType
<1>17. CASE Line
  <2>1. PICK k \in LineKinds : inq' = Append(inq, Doc("in", made["in"] + 1, k))  BY <1>17 DEF Line
  <2>2. made["in"] + 1 \in Nat  BY <1>s DEF EngineType
  <2>3. Doc("in", made["in"] + 1, k) \in Docs  BY <2>2, <1>s, <1>k, DocIsDoc
  <2>4. inq' \in Seq(Docs)  BY <2>1, <2>3, AppendFacts DEF EngineType
  <2>5. made' \in [Sources -> Nat]  BY <2>2, <1>17 DEF Line, EngineType
  <2> QED  BY <1>17, <2>4, <2>5 DEF Line, EngineType, Busy
<1>18. CASE Eof  BY <1>18, TypeKept DEF Eof, EngineType
<1>19. ASSUME NEW n \in NodeSet, Node(n) \/ NodeTimesOut(n)
       PROVE  EngineType'
  <2>1. CASE NodeStarts(n)
    <3>1. /\ node' \in [NodeSet -> {"starting", "polling", "running", "asking", "finished"}]
          /\ \A m \in NodeSet : node'[m] = node[m] \/ node'[m] \in {"polling", "finished"}
      BY <2>1 DEF NodeStarts, EngineType
    <3> QED  BY <2>1, <3>1 DEF NodeStarts, EngineType, Busy
  <2>2. ASSUME NEW ch \in Ins[n], NodeRecv(n, ch) PROVE EngineType'
    <3>1. inbox[n] \in [Ins[n] -> Seq(Docs)] /\ inbox[n][ch] \in Seq(Docs) /\ inbox[n][ch] # <<>>
      BY <2>2 DEF NodeRecv, EngineType
    <3>2. Head(inbox[n][ch]) \in Docs /\ Tail(inbox[n][ch]) \in Seq(Docs)  BY <3>1, TailFacts
    <3>3. inbox' = [inbox EXCEPT ![n] = [inbox[n] EXCEPT ![ch] = Tail(inbox[n][ch])]]
      BY <2>2 DEF NodeRecv
    <3>4. DOMAIN inbox' = NodeSet /\ \A m \in NodeSet : inbox'[m] \in [Ins[m] -> Seq(Docs)]
      BY <3>1, <3>2, <3>3 DEF EngineType
    <3>5. DOMAIN trigger' = NodeSet /\ trigger'[n] \in Docs
          /\ \A m \in NodeSet : m # n => trigger'[m] = trigger[m] /\ node'[m] = node[m]
      BY <2>2, <3>2 DEF NodeRecv, EngineType
    <3>6. node' \in [NodeSet -> {"starting", "polling", "running", "asking", "finished"}]
      BY <2>2 DEF NodeRecv, EngineType
    <3> QED  BY <2>2, <3>4, <3>5, <3>6 DEF NodeRecv, EngineType, Busy
  <2>3. CASE NodeEmits(n)
    <3>1. PICK k \in EmitKinds : emits' = [emits EXCEPT ![n] = Append(emits[n], Doc(n, made[n] + 1, k))]
      BY <2>3 DEF NodeEmits
    <3>2. made[n] + 1 \in Nat /\ emits[n] \in Seq(Docs)  BY <1>s DEF EngineType
    <3>3. Doc(n, made[n] + 1, k) \in Docs  BY <3>2, <1>s, <1>k, DocIsDoc
    <3>4. Append(emits[n], Doc(n, made[n] + 1, k)) \in Seq(Docs)  BY <3>2, <3>3, AppendFacts
    <3>5. emits' \in [NodeSet -> Seq(Docs)]  BY <3>1, <3>4 DEF EngineType
    <3>6. made' \in [Sources -> Nat]  BY <2>3, <3>2 DEF NodeEmits, EngineType
    <3> QED  BY <2>3, <3>5, <3>6 DEF NodeEmits, EngineType, Busy
  <2>4. CASE NodeAsks(n)
    <3>1. /\ node' \in [NodeSet -> {"starting", "polling", "running", "asking", "finished"}]
          /\ asked' \in [NodeSet -> Nat] /\ DOMAIN resp' = NodeSet /\ DOMAIN answer' = NodeSet
          /\ \A m \in NodeSet : Busy(m)' => Busy(m)
      BY <2>4 DEF NodeAsks, EngineType, Busy
    <3> QED  BY <2>4, <3>1 DEF NodeAsks, EngineType
  <2>5. CASE NodeAnswered(n)
    <3>1. /\ node' \in [NodeSet -> {"starting", "polling", "running", "asking", "finished"}]
          /\ DOMAIN resp' = NodeSet /\ DOMAIN answer' = NodeSet
          /\ \A m \in NodeSet : Busy(m)' => Busy(m)
      BY <2>5 DEF NodeAnswered, EngineType, Busy
    <3> QED  BY <2>5, <3>1 DEF NodeAnswered, EngineType
  <2>6. CASE NodeReturns(n)
    <3>1. /\ node' \in [NodeSet -> {"starting", "polling", "running", "asking", "finished"}]
          /\ DOMAIN trigger' = NodeSet /\ DOMAIN answer' = NodeSet
          /\ \A m \in NodeSet : Busy(m)' => Busy(m) /\ trigger'[m] = trigger[m]
      BY <2>6 DEF NodeReturns, EngineType, Busy
    <3> QED  BY <2>6, <3>1 DEF NodeReturns, EngineType
  <2>7. CASE NodeTimesOut(n)
    <3>1. /\ node' \in [NodeSet -> {"starting", "polling", "running", "asking", "finished"}]
          /\ \A m \in NodeSet : Busy(m)' => Busy(m)
      BY <2>7 DEF NodeTimesOut, EngineType, Busy
    <3> QED  BY <2>7, <3>1 DEF NodeTimesOut, EngineType
  <2> QED  BY <1>19, <2>1, <2>2, <2>3, <2>4, <2>5, <2>6, <2>7 DEF Node
<1>20. CASE UNCHANGED vars  BY <1>20 DEF vars, EngineType, Busy
<1> QED
  BY <1>1, <1>2, <1>3, <1>4, <1>5, <1>6, <1>7, <1>8, <1>9, <1>10, <1>11, <1>12, <1>13, <1>14,
     <1>15, <1>16, <1>17, <1>18, <1>19, <1>20 DEF Next, Tick, Exited

-----------------------------------------------------------------------------
(* The worker's place *)

\* What the worker has in hand agrees with where it is in tick.
LEMMA PlacedNext == EngineType /\ Placed /\ Numbered /\ [Next]_vars => Placed'
<1> SUFFICES ASSUME EngineType, Placed, Numbered, [Next]_vars PROVE Placed'
  OBVIOUS
<1> USE DEF workVars, input, nodeVars
<1>1. CASE UNCHANGED workVars  BY <1>1 DEF Placed
<1>2. CASE Clock \/ Iterate \/ IterateFails \/ RunEnds \/ EventsDone \/ InputDone \/ QueriesDone
  BY <1>2 DEF Clock, Iterate, IterateFails, RunEnds, EventsDone, InputDone, QueriesDone, Placed
<1>3. CASE TakeEvent
  <2>1. evq \in Seq(Docs) /\ evq # <<>>  BY <1>3 DEF TakeEvent, EngineType
  <2>2. Head(evq) \in Docs /\ Head(evq) = evq[1] /\ 1 \in 1..Len(evq)  BY <2>1, TailFacts
  <2>3. Head(evq).kind \in EventKinds  BY <2>2 DEF Numbered
  <2>4. /\ cur' = Head(evq) /\ ret' = "events" /\ pc' = "before" /\ batch' = batch /\ batch = <<>>
    BY <1>3 DEF TakeEvent, Enter, Placed
  <2> QED  BY <2>2, <2>3, <2>4 DEF Placed
<1>4. CASE TakeLine
  <2>1. inq \in Seq(Docs) /\ inq # <<>>  BY <1>4 DEF TakeLine, EngineType
  <2>2. Head(inq) \in Docs /\ Head(inq) = inq[1] /\ 1 \in 1..Len(inq)  BY <2>1, TailFacts
  <2>3. Head(inq).src = "in"  BY <2>2 DEF Numbered, InLine
  <2>4. /\ cur' = Head(inq) /\ ret' = "input" /\ pc' \in {"before", "input"} /\ batch' = batch /\ batch = <<>>
    BY <1>4 DEF TakeLine, Dispatch, Enter, Placed
  <2> QED  BY <2>2, <2>3, <2>4 DEF Placed
<1>5. CASE Before \/ Insert \/ After
  BY <1>5 DEF Before, Insert, After, Placed
<1>6. CASE PumpEmit \/ PumpNext \/ HealthCheck
  BY <1>6 DEF PumpEmit, PumpNext, HealthCheck, Placed
<1>7. CASE DispatchEmit
  <2>1. batch \in Seq(Docs) /\ batch # <<>>  BY <1>7 DEF DispatchEmit, EngineType
  <2>2. Head(batch) \in Docs /\ Head(batch) = batch[1] /\ 1 \in 1..Len(batch)  BY <2>1, TailFacts
  <2>3. Head(batch).src \in NodeSet  BY <2>2 DEF Numbered, Collected
  <2>4. Head(batch).src # "carrier"  BY <2>3, EngineAssumption
  <2>5. cur' = Head(batch) /\ ret' = "dispatch" /\ pc' \in {"before", "dispatch"}
    BY <1>7 DEF DispatchEmit, Dispatch, Enter
  <2> QED  BY <2>2, <2>4, <2>5 DEF Placed
<1>8. ASSUME NEW n \in NodeSet, Node(n) \/ NodeTimesOut(n) PROVE UNCHANGED workVars
  BY <1>8 DEF Node, NodeTimesOut, NodeStarts, NodeRecv, NodeEmits, NodeAsks, NodeAnswered, NodeReturns
<1>9. CASE AnswerQuery \/ Line \/ Eof \/ UNCHANGED vars
  BY <1>1, <1>9 DEF AnswerQuery, Line, Eof, vars
<1> QED
  BY <1>1, <1>2, <1>3, <1>4, <1>5, <1>6, <1>7, <1>8, <1>9 DEF Next, Tick, Exited

-----------------------------------------------------------------------------
(* The order of what sources produce *)

\* Taking the first line or event of a queue.
LEMMA InLineTail ==
    ASSUME NEW s \in Sources, NEW q \in Seq(Docs), q # <<>>, InLine(q, s), EngineType,
           NEW r, r = Tail(q),
           made' = made, taken' = [taken EXCEPT ![Head(q).src] = Head(q).n]
    PROVE  InLine(r, s)' /\ taken' = [taken EXCEPT ![s] = taken[s] + 1]
<1>1. /\ Head(q) = q[1] /\ Len(q) \in Nat \ {0} /\ 1 \in 1..Len(q)
      /\ Len(r) = Len(q) - 1
      /\ \A i \in 1..Len(r) : r[i] = q[i + 1] /\ i + 1 \in 1..Len(q)
  BY TailFacts
<1>2. Head(q).src = s /\ Head(q).n = taken[s] + 1  BY <1>1 DEF InLine
<1>3. taken' = [taken EXCEPT ![s] = taken[s] + 1]  BY <1>2
<1>4. taken[s] \in Nat /\ taken'[s] = taken[s] + 1 /\ made[s] \in Nat  BY <1>3 DEF EngineType
<1>5. taken[s] + Len(q) = made[s]  BY DEF InLine
<1>6. taken'[s] + Len(r) = made'[s]  BY <1>1, <1>4, <1>5
<1>7. ASSUME NEW i \in 1..Len(r)
      PROVE  r[i].src = s /\ r[i].n = taken'[s] + i
  <2>1. q[i + 1].src = s /\ q[i + 1].n = taken[s] + (i + 1)  BY <1>1 DEF InLine
  <2>2. taken[s] + (i + 1) = (taken[s] + 1) + i  BY <1>4
  <2> QED  BY <2>1, <2>2, <1>1, <1>4
<1>8. InLine(r, s)'  BY <1>6, <1>7 DEF InLine
<1> QED  BY <1>3, <1>8

\* Adding one.
LEMMA InLineAppend ==
    ASSUME NEW s \in Sources, NEW q \in Seq(Docs), InLine(q, s), EngineType,
           NEW kind \in Kinds, NEW r, r = Append(q, Doc(s, made[s] + 1, kind)),
           made' = [made EXCEPT ![s] = @ + 1], taken' = taken
    PROVE  InLine(r, s)'
<1>1. made[s] + 1 \in Nat /\ taken[s] \in Nat /\ made[s] \in Nat /\ made'[s] = made[s] + 1
  BY DEF EngineType
<1>2. PICK d : d = Doc(s, made[s] + 1, kind)  OBVIOUS
<1>3. d \in Docs /\ d.src = s /\ d.n = made[s] + 1  BY <1>1, <1>2, DocIsDoc
<1>4. /\ Len(q) \in Nat /\ Len(r) = Len(q) + 1 /\ r[Len(q) + 1] = d
      /\ \A i \in 1..Len(q) : r[i] = q[i]
      /\ \A i \in 1..(Len(q) + 1) : i = Len(q) + 1 \/ i \in 1..Len(q)
  BY <1>2, <1>3, AppendFacts
<1>5. taken[s] + Len(q) = made[s]  BY DEF InLine
<1>6. taken[s] + (Len(q) + 1) = made[s] + 1  BY <1>1, <1>4, <1>5
<1>7. ASSUME NEW i \in 1..Len(r) PROVE r[i].src = s /\ r[i].n = taken[s] + i
  <2>1. CASE i \in 1..Len(q)  BY <2>1, <1>4 DEF InLine
  <2>2. CASE i = Len(q) + 1  BY <2>2, <1>3, <1>4, <1>6
  <2> QED  BY <2>1, <2>2, <1>4
<1> QED  BY <1>1, <1>4, <1>6, <1>7 DEF InLine

\* A source that made and had taken nothing meanwhile is where it was.
LEMMA InLineKept ==
    ASSUME NEW s, NEW q, InLine(q, s), made'[s] = made[s], taken'[s] = taken[s]
    PROVE  InLine(q, s)'
BY DEF InLine

\* Steps that touch neither the emits nor what is collected.
LEMMA EmittedKept ==
    ASSUME Emitted, Collected, emits' = emits, batch' = batch,
           \A n \in NodeSet : made'[n] = made[n] /\ taken'[n] = taken[n]
    PROVE  Emitted' /\ Collected'
BY DEF Emitted, Collected

\* A script emits: one more document behind those it emitted before.
LEMMA EmitStep ==
    ASSUME EngineType, Emitted, Collected, NEW n \in NodeSet, NodeEmits(n)
    PROVE  Emitted' /\ Collected'
<1>1. PICK k \in EmitKinds : emits' = [emits EXCEPT ![n] = Append(emits[n], Doc(n, made[n] + 1, k))]
  BY DEF NodeEmits
<1>2. n \in Sources /\ k \in Kinds  BY EngineAssumption DEF Sources
<1>3. /\ made' = [made EXCEPT ![n] = @ + 1] /\ taken' = taken /\ batch' = batch
      /\ made[n] \in Nat /\ taken[n] \in Nat /\ emits[n] \in Seq(Docs)
  BY <1>2 DEF NodeEmits, EngineType, workVars
<1>4. /\ made'[n] = made[n] + 1 /\ \A m \in NodeSet : m # n => made'[m] = made[m] /\ emits'[m] = emits[m]
  BY <1>1, <1>2, <1>3 DEF EngineType, Sources
<1>5. PICK d : d = Doc(n, made[n] + 1, k)  OBVIOUS
<1>6. d \in Docs /\ d.src = n /\ d.n = made[n] + 1  BY <1>2, <1>3, <1>5, DocIsDoc
<1>7. PICK q : q = emits'[n]  OBVIOUS
<1>8. q = Append(emits[n], d)  BY <1>1, <1>5, <1>7 DEF EngineType
<1>9. /\ Len(emits[n]) \in Nat /\ Len(q) = Len(emits[n]) + 1 /\ q[Len(emits[n]) + 1] = d
      /\ \A i \in 1..Len(emits[n]) : q[i] = emits[n][i]
      /\ \A i \in 1..(Len(emits[n]) + 1) : i = Len(emits[n]) + 1 \/ i \in 1..Len(emits[n])
  BY <1>3, <1>6, <1>8, AppendFacts
<1>10. made'[n] - Len(q) = made[n] - Len(emits[n])
  <2>1. Len(emits[n]) \in Nat /\ Len(q) = Len(emits[n]) + 1  BY <1>9
  <2>2. made[n] \in Nat /\ made'[n] = made[n] + 1  BY <1>3, <1>4
  <2> QED  BY <2>1, <2>2
<1>11. \A m \in NodeSet : made'[m] - Len(emits'[m]) = made[m] - Len(emits[m])  BY <1>4, <1>7, <1>10
<1>12. Collected'
  <2>1. \A i \in 1..Len(batch) :
          /\ batch[i].src \in NodeSet /\ taken[batch[i].src] < batch[i].n
          /\ batch[i].n <= made'[batch[i].src] - Len(emits'[batch[i].src])
    BY <1>11 DEF Collected
  <2>2. \A m \in NodeSet : \A j \in (taken[m] + 1)..(made'[m] - Len(emits'[m])) :
          \E i \in 1..Len(batch) : batch[i].src = m /\ batch[i].n = j
    BY <1>11 DEF Collected
  <2>3. \A i, j \in 1..Len(batch) : i < j /\ batch[i].src = batch[j].src => batch[i].n < batch[j].n
    BY DEF Collected
  <2> QED  BY <1>3, <2>1, <2>2, <2>3 DEF Collected
<1>13. ASSUME NEW m \in NodeSet
       PROVE  /\ taken[m] + Len(emits'[m]) <= made'[m]
              /\ \A i \in 1..Len(emits'[m]) :
                    emits'[m][i].src = m /\ emits'[m][i].n = (made'[m] - Len(emits'[m])) + i
  <2>1. CASE m # n  BY <2>1, <1>4 DEF Emitted
  <2>2. CASE m = n
    <3>1. taken[n] + Len(emits[n]) <= made[n]  BY DEF Emitted
    <3>2. taken[n] + Len(q) <= made'[n]  BY <3>1, <1>3, <1>4, <1>9
    <3>3. ASSUME NEW i \in 1..Len(q)
          PROVE  q[i].src = n /\ q[i].n = (made'[n] - Len(q)) + i
      <4>1. CASE i \in 1..Len(emits[n])  BY <4>1, <1>9, <1>10 DEF Emitted
      <4>2. CASE i = Len(emits[n]) + 1
        <5>1. (made[n] - Len(emits[n])) + (Len(emits[n]) + 1) = made[n] + 1  BY <1>3, <1>9
        <5> QED  BY <4>2, <5>1, <1>6, <1>9, <1>10
      <4> QED  BY <4>1, <4>2, <1>9
    <3> QED  BY <3>2, <3>3, <2>2, <1>7
  <2> QED  BY <2>1, <2>2
<1> QED  BY <1>3, <1>12, <1>13 DEF Emitted

\* pump_emits moves the first document of a node to the end of what it has
\* collected.
LEMMA PumpStep ==
    ASSUME EngineType, Emitted, Collected, PumpEmit
    PROVE  Emitted' /\ Collected'
<1>1. PICK n : n = Nodes[route]  OBVIOUS
<1>2. n \in NodeSet
  <2>1. route \in 1..Len(Nodes)  BY EngineAssumption DEF PumpEmit, EngineType
  <2> QED  BY <2>1, <1>1, EngineAssumption DEF NodeSet
<1>3. emits[n] \in Seq(Docs) /\ emits[n] # <<>> /\ batch \in Seq(Docs)
      /\ made[n] \in Nat /\ taken[n] \in Nat
      /\ UNCHANGED <<made, taken>>
  BY <1>1, <1>2 DEF PumpEmit, EngineType, Sources
<1>4. PICK q, d : q = Tail(emits[n]) /\ d = Head(emits[n])  OBVIOUS
<1>5. /\ d \in Docs /\ d = emits[n][1] /\ Len(emits[n]) \in Nat \ {0} /\ Len(q) = Len(emits[n]) - 1
      /\ \A i \in 1..Len(q) : q[i] = emits[n][i + 1] /\ i + 1 \in 1..Len(emits[n])
      /\ 1 \in 1..Len(emits[n])
  BY <1>3, <1>4, TailFacts
<1>6. PICK b : b = Append(batch, d)  OBVIOUS
<1>7. /\ Len(batch) \in Nat /\ Len(b) = Len(batch) + 1 /\ b[Len(batch) + 1] = d
      /\ \A i \in 1..Len(batch) : b[i] = batch[i] /\ i \in 1..Len(b)
      /\ \A i \in 1..Len(b) : i = Len(batch) + 1 \/ i \in 1..Len(batch)
      /\ Len(batch) + 1 \in 1..Len(b)
  BY <1>3, <1>5, <1>6, AppendFacts
<1>8. batch' = b /\ emits'[n] = q /\ \A m \in NodeSet : m # n => emits'[m] = emits[m]
  BY <1>1, <1>2, <1>4, <1>6 DEF PumpEmit, EngineType
<1>9. PICK last \in Int : last = made[n] - Len(emits[n])  BY <1>3, <1>5
<1>10. made[n] - Len(q) = last + 1 /\ d.src = n /\ d.n = last + 1 /\ taken[n] <= last
  <2>1. made[n] - Len(q) = last + 1  BY <1>3, <1>5, <1>9
  <2>2. d.src = n /\ d.n = last + 1  BY <1>2, <1>5, <1>9 DEF Emitted
  <2>3. taken[n] + Len(emits[n]) <= made[n]  BY <1>2 DEF Emitted
  <2> QED  BY <2>1, <2>2, <2>3, <1>3, <1>5, <1>9
<1>11. Emitted'
  <2> SUFFICES ASSUME NEW m \in NodeSet
               PROVE  /\ taken[m] + Len(emits'[m]) <= made[m]
                      /\ \A i \in 1..Len(emits'[m]) :
                            emits'[m][i].src = m /\ emits'[m][i].n = (made[m] - Len(emits'[m])) + i
    BY <1>3 DEF Emitted
  <2>1. CASE m # n  BY <2>1, <1>8 DEF Emitted
  <2>2. CASE m = n
    <3>1. taken[n] + Len(q) <= made[n]
      <4>1. taken[n] + Len(emits[n]) <= made[n]  BY <1>2 DEF Emitted
      <4> QED  BY <4>1, <1>3, <1>5
    <3>2. ASSUME NEW i \in 1..Len(q)
          PROVE  q[i].src = n /\ q[i].n = (made[n] - Len(q)) + i
      <4>1. emits[n][i + 1].src = n /\ emits[n][i + 1].n = last + (i + 1)  BY <1>2, <1>5, <1>9 DEF Emitted
      <4>2. last + (i + 1) = (last + 1) + i  BY <1>9
      <4> QED  BY <4>1, <4>2, <1>5, <1>10
    <3> QED  BY <3>1, <3>2, <2>2, <1>8
  <2> QED  BY <2>1, <2>2
<1>12. \A m \in NodeSet : /\ m # n => made[m] - Len(emits'[m]) = made[m] - Len(emits[m])
                          /\ m = n => made[m] - Len(emits'[m]) = last + 1
  BY <1>8, <1>10
<1>13. ASSUME NEW i \in 1..Len(batch)
       PROVE  /\ batch[i].src \in NodeSet /\ batch[i].n \in Nat
              /\ taken[batch[i].src] < batch[i].n
              /\ batch[i].n <= made[batch[i].src] - Len(emits[batch[i].src])
              /\ batch[i].src = n => batch[i].n <= last
  <2>1. batch[i] \in Docs  BY <1>3, ElementOfSeq
  <2>2. batch[i].n \in Nat  BY <2>1 DEF Docs
  <2> QED  BY <2>2, <1>9 DEF Collected
<1>14. ASSUME NEW i \in 1..Len(b)
       PROVE  /\ b[i].src \in NodeSet /\ taken[b[i].src] < b[i].n
              /\ b[i].n <= made[b[i].src] - Len(emits'[b[i].src])
  <2>1. CASE i \in 1..Len(batch)
    <3>1. CASE batch[i].src = n
      <4>1. batch[i].n <= last + 1  BY <2>1, <3>1, <1>9, <1>13
      <4> QED  BY <4>1, <3>1, <2>1, <1>2, <1>7, <1>12, <1>13
    <3>2. CASE batch[i].src # n  BY <3>2, <2>1, <1>7, <1>12, <1>13
    <3> QED  BY <3>1, <3>2
  <2>2. CASE i = Len(batch) + 1
    <3>1. b[i] = d /\ taken[n] < last + 1 /\ last + 1 <= last + 1  BY <2>2, <1>7, <1>9, <1>10, <1>3
    <3> QED  BY <3>1, <1>2, <1>10, <1>12
  <2> QED  BY <2>1, <2>2, <1>7
<1>15. ASSUME NEW i \in 1..Len(b), NEW j \in 1..Len(b), i < j, b[i].src = b[j].src
       PROVE  b[i].n < b[j].n
  <2>1. i \in 1..Len(batch)  BY <1>15, <1>7
  <2>2. CASE j \in 1..Len(batch)  BY <2>1, <2>2, <1>7, <1>15 DEF Collected
  <2>3. CASE j = Len(batch) + 1
    <3>1. b[j] = d /\ batch[i].src = n  BY <2>1, <2>3, <1>7, <1>10, <1>15
    <3>2. batch[i].n <= last /\ batch[i].n \in Nat  BY <3>1, <2>1, <1>13
    <3> QED  BY <3>1, <3>2, <2>1, <1>7, <1>9, <1>10
  <2> QED  BY <2>2, <2>3, <1>7
<1>16. ASSUME NEW m \in NodeSet, NEW k \in (taken[m] + 1)..(made[m] - Len(emits'[m]))
       PROVE  \E i \in 1..Len(b) : b[i].src = m /\ b[i].n = k
  <2>1. ASSUME k \in (taken[m] + 1)..(made[m] - Len(emits[m]))
        PROVE  \E i \in 1..Len(b) : b[i].src = m /\ b[i].n = k
    <3>1. PICK i \in 1..Len(batch) : batch[i].src = m /\ batch[i].n = k  BY <2>1 DEF Collected
    <3> QED  BY <3>1, <1>7
  <2>2. CASE m # n  BY <2>1, <2>2, <1>12
  <2>3. CASE m = n /\ k <= last
    <3>1. taken[n] \in Nat /\ k \in (taken[n] + 1)..(last + 1)  BY <2>3, <1>3, <1>12
    <3>2. k \in (taken[n] + 1)..last  BY <3>1, <2>3, <1>9
    <3> QED  BY <3>2, <2>1, <2>3, <1>9
  <2>4. CASE m = n /\ ~(k <= last)
    <3>1. k \in (taken[n] + 1)..(last + 1)  BY <2>4, <1>12
    <3>2. k = last + 1  BY <3>1, <2>4, <1>3, <1>9
    <3> QED  BY <3>2, <2>4, <1>7, <1>10
  <2> QED  BY <2>2, <2>3, <2>4
<1>17. Collected'
  BY <1>3, <1>8, <1>14, <1>15, <1>16 DEF Collected
<1> QED  BY <1>11, <1>17

\* The first document that was collected is the next one of its node.
LEMMA DispatchStep ==
    ASSUME EngineType, Emitted, Collected, batch # <<>>, batch' = Tail(batch),
           made' = made, emits' = emits, taken' = [taken EXCEPT ![Head(batch).src] = Head(batch).n]
    PROVE  /\ Emitted' /\ Collected'
           /\ \E n \in NodeSet : taken' = [taken EXCEPT ![n] = taken[n] + 1]
<1>1. batch \in Seq(Docs)  BY DEF EngineType
<1>2. PICK b, d : b = Tail(batch) /\ d = Head(batch)  OBVIOUS
<1>3. /\ d \in Docs /\ d = batch[1] /\ Len(batch) \in Nat \ {0} /\ Len(b) = Len(batch) - 1
      /\ \A i \in 1..Len(b) : b[i] = batch[i + 1] /\ i + 1 \in 1..Len(batch)
      /\ \A i \in 1..Len(batch) : i = 1 \/ (i - 1 \in 1..Len(b) /\ b[i - 1] = batch[i])
      /\ 1 \in 1..Len(batch)
  BY <1>1, <1>2, TailFacts
<1>4. PICK n : n = d.src  OBVIOUS
<1>5. /\ n \in NodeSet /\ taken[n] < d.n /\ d.n <= made[n] - Len(emits[n])
  BY <1>3, <1>4 DEF Collected
<1>6. /\ taken[n] \in Nat /\ made[n] \in Nat /\ d.n \in Nat /\ emits[n] \in Seq(Docs) /\ Len(emits[n]) \in Nat
  BY <1>3, <1>5 DEF EngineType, Sources, Docs
<1>7. d.n = taken[n] + 1
  <2>1. taken[n] + 1 \in (taken[n] + 1)..(made[n] - Len(emits[n]))  BY <1>5, <1>6
  <2>2. PICK i \in 1..Len(batch) : batch[i].src = n /\ batch[i].n = taken[n] + 1  BY <2>1, <1>5 DEF Collected
  <2>3. CASE i = 1  BY <2>2, <2>3, <1>3
  <2>4. CASE i # 1
    <3>1. 1 < i  BY <2>4, <1>3
    <3>2. d.n < taken[n] + 1  BY <3>1, <2>2, <1>3, <1>4 DEF Collected
    <3> QED  BY <3>2, <1>5, <1>6
  <2> QED  BY <2>3, <2>4
<1>8. taken' = [taken EXCEPT ![n] = taken[n] + 1]  BY <1>2, <1>4, <1>7
<1>9. taken'[n] = taken[n] + 1 /\ \A m \in NodeSet : m # n => taken'[m] = taken[m]
  BY <1>5, <1>8 DEF EngineType, Sources
<1>10. Emitted'
  <2> SUFFICES ASSUME NEW m \in NodeSet PROVE taken'[m] + Len(emits[m]) <= made[m]
    BY DEF Emitted
  <2>1. CASE m = n  BY <2>1, <1>5, <1>6, <1>7, <1>9
  <2>2. CASE m # n  BY <2>2, <1>9 DEF Emitted
  <2> QED  BY <2>1, <2>2
<1>11. ASSUME NEW i \in 1..Len(b)
       PROVE  /\ b[i].src \in NodeSet /\ taken'[b[i].src] < b[i].n
              /\ b[i].n <= made[b[i].src] - Len(emits[b[i].src])
  <2>1. /\ b[i] = batch[i + 1] /\ i + 1 \in 1..Len(batch) /\ 1 < i + 1  BY <1>3
  <2>2. /\ b[i].src \in NodeSet /\ taken[b[i].src] < b[i].n
        /\ b[i].n <= made[b[i].src] - Len(emits[b[i].src])
    BY <2>1 DEF Collected
  <2>3. CASE b[i].src = n
    <3>1. d.n < b[i].n  BY <2>1, <2>3, <1>3, <1>4 DEF Collected
    <3> QED  BY <3>1, <2>2, <2>3, <1>7, <1>9
  <2>4. CASE b[i].src # n  BY <2>2, <2>4, <1>9
  <2> QED  BY <2>3, <2>4
<1>12. ASSUME NEW i \in 1..Len(b), NEW j \in 1..Len(b), i < j, b[i].src = b[j].src
       PROVE  b[i].n < b[j].n
  <2>1. i + 1 \in 1..Len(batch) /\ j + 1 \in 1..Len(batch) /\ i + 1 < j + 1  BY <1>3, <1>12
  <2> QED  BY <2>1, <1>3, <1>12 DEF Collected
<1>13. ASSUME NEW m \in NodeSet, NEW k \in (taken'[m] + 1)..(made[m] - Len(emits[m]))
       PROVE  \E i \in 1..Len(b) : b[i].src = m /\ b[i].n = k
  <2>1. taken[m] \in Nat /\ taken'[m] \in Nat /\ made[m] - Len(emits[m]) \in Int
    <3>1. taken[m] \in Nat /\ made[m] \in Nat /\ emits[m] \in Seq(Docs)  BY DEF EngineType, Sources
    <3>2. Len(emits[m]) \in Nat  BY <3>1, LenProperties
    <3>3. made[m] - Len(emits[m]) \in Int  BY <3>1, <3>2
    <3>4. taken'[m] \in Nat  BY <3>1, <1>6, <1>9
    <3> QED  BY <3>1, <3>3, <3>4
  <2>2. taken[m] <= taken'[m] /\ (m = n => k # taken[n] + 1)
    <3>1. m # n => taken'[m] = taken[m]  BY <1>9
    <3>2. m = n => taken'[m] = taken[m] + 1  BY <1>9
    <3>3. k > taken'[m] /\ k \in Int  BY <2>1
    <3> QED  BY <3>1, <3>2, <3>3, <2>1
  <2>3. k \in (taken[m] + 1)..(made[m] - Len(emits[m]))  BY <2>1, <2>2
  <2>4. PICK i \in 1..Len(batch) : batch[i].src = m /\ batch[i].n = k  BY <2>3 DEF Collected
  <2>5. i # 1  BY <2>2, <2>4, <1>3, <1>4, <1>7
  <2> QED  BY <2>4, <2>5, <1>3
<1>14. Collected'
  BY <1>2, <1>11, <1>12, <1>13 DEF Collected
<1> QED  BY <1>5, <1>8, <1>10, <1>14

\* One step takes at most the next document of a source.
TakesNext == \A s \in Sources : taken'[s] \in {taken[s], taken[s] + 1}

\* The next document of one source.
LEMMA TakesOne ==
    ASSUME EngineType, NEW s \in Sources, taken' = [taken EXCEPT ![s] = taken[s] + 1]
    PROVE  TakesNext
BY DEF TakesNext, EngineType

\* Every step keeps the numbering, and takes at most the next document of a
\* source.
LEMMA NumberedNext ==
    EngineType /\ Placed /\ Numbered /\ [Next]_vars => Numbered' /\ TakesNext
<1> SUFFICES ASSUME EngineType, Placed, Numbered, [Next]_vars PROVE Numbered' /\ TakesNext
  OBVIOUS
<1> USE DEF workVars, input, nodeVars
<1>s. "in" \in Sources /\ "carrier" \in Sources /\ NodeSet \subseteq Sources /\ "in" # "carrier"
      /\ \A n \in NodeSet : n # "in" /\ n # "carrier"
  BY EngineAssumption DEF Sources
<1>k. LineKinds \subseteq Kinds /\ EventKinds \subseteq Kinds /\ EmitKinds \subseteq Kinds  BY EngineAssumption
<1>t. /\ evq \in Seq(Docs) /\ inq \in Seq(Docs) /\ batch \in Seq(Docs)
      /\ made \in [Sources -> Nat] /\ taken \in [Sources -> Nat]
  BY DEF EngineType
<1>n. InLine(inq, "in") /\ InLine(evq, "carrier") /\ Emitted /\ Collected
      /\ \A i \in 1..Len(evq) : evq[i].kind \in EventKinds
  BY DEF Numbered
<1>u. ASSUME UNCHANGED <<evq, inq, batch, emits, made, taken>> PROVE Numbered' /\ TakesNext
  <2>1. InLine(inq, "in")' /\ InLine(evq, "carrier")'  BY <1>u, <1>n, InLineKept
  <2>2. Emitted' /\ Collected'  BY <1>u, <1>n, EmittedKept
  <2> QED  BY <1>u, <1>n, <2>1, <2>2 DEF Numbered, TakesNext
<1>1. CASE \/ Clock \/ IterateFails \/ RunEnds \/ EventsDone \/ InputDone \/ Before \/ Insert \/ After
           \/ AnswerQuery \/ QueriesDone \/ PumpNext \/ HealthCheck \/ Eof \/ UNCHANGED vars
  BY <1>1, <1>u DEF Clock, IterateFails, RunEnds, EventsDone, InputDone, Before, Insert, After, AnswerQuery,
     QueriesDone, PumpNext, HealthCheck, Eof, vars
<1>2. CASE Iterate
  <2>1. CASE UNCHANGED <<evq, made>>  BY <1>2, <2>1, <1>u DEF Iterate
  <2>2. ASSUME NEW k \in EventKinds, evq' = Append(evq, Event(k)),
               made' = [made EXCEPT !["carrier"] = @ + 1]
        PROVE  Numbered' /\ TakesNext
    <3>1. UNCHANGED <<inq, batch, emits, taken>>  BY <1>2 DEF Iterate
    <3>2. made'["in"] = made["in"] /\ \A n \in NodeSet : made'[n] = made[n]  BY <2>2, <1>s, <1>t
    <3>3. PICK q : q = Append(evq, Doc("carrier", made["carrier"] + 1, k))  OBVIOUS
    <3>4. evq' = q  BY <2>2, <3>3 DEF Event
    <3>5. InLine(q, "carrier")'  BY <1>k, <1>n, <1>s, <1>t, <2>2, <3>1, <3>3, InLineAppend
    <3>6. InLine(evq, "carrier")'  BY <3>4, <3>5 DEF InLine
    <3>7. InLine(inq, "in")'  BY <1>n, <3>1, <3>2, InLineKept
    <3>8. Emitted' /\ Collected'  BY <1>n, <3>1, <3>2, EmittedKept
    <3>9. \A i \in 1..Len(q) : q[i].kind \in EventKinds
      <4>1. made["carrier"] + 1 \in Nat  BY <1>s, <1>t
      <4>2. PICK d \in Docs : d = Doc("carrier", made["carrier"] + 1, k) /\ d.kind = k
        BY <4>1, <1>s, <1>k, DocIsDoc
      <4>3. /\ Len(q) = Len(evq) + 1 /\ q[Len(evq) + 1] = d
            /\ \A i \in 1..Len(evq) : q[i] = evq[i]
            /\ \A i \in 1..(Len(evq) + 1) : i = Len(evq) + 1 \/ i \in 1..Len(evq)
        BY <3>3, <4>2, <1>t, AppendFacts
      <4> QED  BY <4>2, <4>3, <1>n
    <3> QED  BY <3>1, <3>4, <3>6, <3>7, <3>8, <3>9 DEF Numbered, TakesNext
  <2> QED  BY <1>2, <2>1, <2>2 DEF Iterate
<1>3. CASE TakeEvent
  <2>1. /\ evq # <<>> /\ evq' = Tail(evq) /\ UNCHANGED <<inq, batch, emits, made>>
        /\ taken' = [taken EXCEPT ![Head(evq).src] = Head(evq).n]
    BY <1>3 DEF TakeEvent, Enter
  <2>r. PICK r : r = Tail(evq)  OBVIOUS
  <2>2. InLine(r, "carrier")' /\ taken' = [taken EXCEPT !["carrier"] = taken["carrier"] + 1]
    BY <2>r, <2>1, <1>n, <1>s, <1>t, InLineTail
  <2>3. InLine(evq, "carrier")'  BY <2>r, <2>1, <2>2 DEF InLine
  <2>4. taken'["in"] = taken["in"] /\ \A n \in NodeSet : taken'[n] = taken[n]  BY <2>2, <1>s, <1>t
  <2>5. InLine(inq, "in")'  BY <1>n, <2>1, <2>4, InLineKept
  <2>6. Emitted' /\ Collected'  BY <1>n, <2>1, <2>4, EmittedKept
  <2>7. \A i \in 1..Len(evq') : evq'[i].kind \in EventKinds  BY <2>1, <1>n, <1>t, TailFacts
  <2>8. TakesNext  BY <2>2, <1>s, TakesOne
  <2> QED  BY <2>3, <2>5, <2>6, <2>7, <2>8 DEF Numbered
<1>4. CASE TakeLine
  <2>1. /\ inq # <<>> /\ inq' = Tail(inq) /\ UNCHANGED <<evq, batch, emits, made>>
        /\ taken' = [taken EXCEPT ![Head(inq).src] = Head(inq).n]
    BY <1>4 DEF TakeLine, Dispatch, Enter
  <2>r. PICK r : r = Tail(inq)  OBVIOUS
  <2>2. InLine(r, "in")' /\ taken' = [taken EXCEPT !["in"] = taken["in"] + 1]
    BY <2>r, <2>1, <1>n, <1>s, <1>t, InLineTail
  <2>3. InLine(inq, "in")'  BY <2>r, <2>1, <2>2 DEF InLine
  <2>4. taken'["carrier"] = taken["carrier"] /\ \A n \in NodeSet : taken'[n] = taken[n]  BY <2>2, <1>s, <1>t
  <2>5. InLine(evq, "carrier")'  BY <1>n, <2>1, <2>4, InLineKept
  <2>6. Emitted' /\ Collected'  BY <1>n, <2>1, <2>4, EmittedKept
  <2>7. TakesNext  BY <2>2, <1>s, TakesOne
  <2> QED  BY <2>1, <2>3, <2>5, <2>6, <2>7, <1>n DEF Numbered
<1>5. CASE PumpEmit
  <2>1. UNCHANGED <<evq, inq, made, taken>>  BY <1>5 DEF PumpEmit
  <2>2. Emitted' /\ Collected'  BY <1>5, <1>n, PumpStep
  <2>3. InLine(inq, "in")' /\ InLine(evq, "carrier")'  BY <2>1, <1>n, InLineKept
  <2> QED  BY <2>1, <2>2, <2>3, <1>n DEF Numbered, TakesNext
<1>6. CASE DispatchEmit
  <2>1. /\ batch # <<>> /\ batch' = Tail(batch) /\ UNCHANGED <<evq, inq, emits, made>>
        /\ taken' = [taken EXCEPT ![Head(batch).src] = Head(batch).n]
    BY <1>6 DEF DispatchEmit, Dispatch, Enter
  <2>2. Emitted' /\ Collected'  BY <2>1, <1>n, DispatchStep
  <2>3. PICK n \in NodeSet : taken' = [taken EXCEPT ![n] = taken[n] + 1]  BY <2>1, <1>n, DispatchStep
  <2>4. taken'["in"] = taken["in"] /\ taken'["carrier"] = taken["carrier"]  BY <2>3, <1>s, <1>t
  <2>5. InLine(inq, "in")' /\ InLine(evq, "carrier")'  BY <2>1, <2>4, <1>n, InLineKept
  <2>6. TakesNext  BY <2>3, <1>s, TakesOne
  <2> QED  BY <2>1, <2>2, <2>5, <2>6, <1>n DEF Numbered
<1>7. CASE Line
  <2>1. PICK k \in LineKinds : inq' = Append(inq, Doc("in", made["in"] + 1, k))  BY <1>7 DEF Line
  <2>2. made' = [made EXCEPT !["in"] = @ + 1] /\ UNCHANGED <<evq, batch, emits, taken>>  BY <1>7 DEF Line
  <2>3. made'["carrier"] = made["carrier"] /\ \A n \in NodeSet : made'[n] = made[n]  BY <2>2, <1>s, <1>t
  <2>4. InLine(inq, "in")'
    <3>1. PICK q : q = Append(inq, Doc("in", made["in"] + 1, k))  OBVIOUS
    <3>2. InLine(q, "in")'  BY <1>k, <1>n, <1>s, <1>t, <2>2, <3>1, InLineAppend
    <3> QED  BY <2>1, <3>1, <3>2 DEF InLine
  <2>5. InLine(evq, "carrier")'  BY <1>n, <2>2, <2>3, InLineKept
  <2>6. Emitted' /\ Collected'  BY <1>n, <2>2, <2>3, EmittedKept
  <2> QED  BY <2>2, <2>4, <2>5, <2>6, <1>n DEF Numbered, TakesNext
<1>8. ASSUME NEW n \in NodeSet, Node(n) \/ NodeTimesOut(n)
      PROVE  Numbered' /\ TakesNext
  <2>1. CASE NodeEmits(n)
    <3>1. UNCHANGED <<evq, inq, taken>> /\ made' = [made EXCEPT ![n] = @ + 1]  BY <2>1 DEF NodeEmits
    <3>2. made'["in"] = made["in"] /\ made'["carrier"] = made["carrier"]  BY <3>1, <1>s, <1>t
    <3>3. InLine(inq, "in")' /\ InLine(evq, "carrier")'  BY <3>1, <3>2, <1>n, InLineKept
    <3>4. Emitted' /\ Collected'  BY <2>1, <1>n, EmitStep
    <3> QED  BY <3>1, <3>3, <3>4, <1>n DEF Numbered, TakesNext
  <2>2. CASE NodeStarts(n) \/ (\E ch \in Ins[n] : NodeRecv(n, ch)) \/ NodeAsks(n) \/ NodeAnswered(n)
             \/ NodeReturns(n) \/ NodeTimesOut(n)
    <3>1. UNCHANGED <<evq, inq, batch, emits, made, taken>>
      BY <2>2 DEF NodeStarts, NodeRecv, NodeAsks, NodeAnswered, NodeReturns, NodeTimesOut
    <3> QED  BY <3>1, <1>u
  <2> QED  BY <1>8, <2>1, <2>2 DEF Node
<1> QED
  BY <1>1, <1>2, <1>3, <1>4, <1>5, <1>6, <1>7, <1>8 DEF Next, Tick, Exited

-----------------------------------------------------------------------------
(* What scripts have seen *)

\* Between the insert and the broadcast on afterInsert nothing changes.
LEMMA InsertedNext == EngineType /\ Placed /\ Inserted /\ [Next]_vars => Inserted'
<1> SUFFICES ASSUME EngineType, Placed, Inserted, [Next]_vars PROVE Inserted'
  OBVIOUS
<1> USE DEF workVars, input, nodeVars
<1>1. CASE UNCHANGED <<pc, cur, store>>  BY <1>1 DEF Inserted
<1>2. CASE Insert
  <2>1. CASE cur.kind = "bad"  BY <1>2, <2>1 DEF Insert, Inserted
  <2>2. CASE cur.kind # "bad"  BY <1>2, <2>2 DEF Insert, Inserted
  <2> QED  BY <2>1, <2>2
<1>3. CASE pc' # "after"  BY <1>3 DEF Inserted
<1>4. CASE Clock \/ Iterate \/ IterateFails \/ RunEnds \/ TakeEvent \/ EventsDone \/ InputDone \/ Before
           \/ QueriesDone \/ PumpNext \/ HealthCheck
  <2>1. pc' # "after"
    BY <1>4 DEF Clock, Iterate, IterateFails, RunEnds, TakeEvent, EventsDone, InputDone, Before, QueriesDone,
       PumpNext, HealthCheck
  <2> QED  BY <2>1, <1>3
<1>5. CASE TakeLine \/ DispatchEmit \/ After
  <2>1. pc' # "after"
    BY <1>5 DEF TakeLine, DispatchEmit, Dispatch, After, Placed
  <2> QED  BY <2>1, <1>3
<1>6. CASE AnswerQuery \/ PumpEmit \/ Line \/ Eof \/ UNCHANGED vars
  BY <1>1, <1>6 DEF AnswerQuery, PumpEmit, Line, Eof, vars
<1>7. ASSUME NEW n \in NodeSet, Node(n) \/ NodeTimesOut(n) PROVE UNCHANGED <<pc, cur, store>>
  BY <1>7 DEF Node, NodeTimesOut, NodeStarts, NodeRecv, NodeEmits, NodeAsks, NodeAnswered, NodeReturns
<1> QED
  BY <1>1, <1>2, <1>4, <1>5, <1>6, <1>7 DEF Next, Tick, Exited

\* A broadcast shows scripts nothing new but its document.
LEMMA BroadcastShows ==
    ASSUME EngineType, NEW chans, NEW d \in Docs, Broadcast(chans, d), UNCHANGED <<node, trigger>>,
           NEW n \in NodeSet, NEW doc, Visible(n, doc)'
    PROVE  Visible(n, doc) \/ doc = d
<1>1. CASE Waiting(n, doc)'
  <2>1. PICK ch \in Ins[n] : \E i \in 1..Len(inbox'[n][ch]) : doc = inbox'[n][ch][i]
    BY <1>1 DEF Waiting
  <2>2. PICK i \in 1..Len(inbox'[n][ch]) : doc = inbox'[n][ch][i]  BY <2>1
  <2>3. PICK q : q = inbox[n][ch]  OBVIOUS
  <2>4. q \in Seq(Docs)  BY <2>3 DEF EngineType
  <2>5. CASE inbox'[n][ch] = q  BY <2>2, <2>3, <2>5 DEF Visible, Waiting
  <2>6. CASE inbox'[n][ch] = Append(q, d)
    <3>1. i = Len(q) + 1 \/ i \in 1..Len(q)  BY <2>2, <2>4, <2>6, AppendFacts
    <3>2. CASE i = Len(q) + 1  BY <3>2, <2>2, <2>4, <2>6, AppendFacts
    <3>3. CASE i \in 1..Len(q)
      <4>1. doc = q[i]  BY <3>3, <2>2, <2>4, <2>6, AppendFacts
      <4> QED  BY <4>1, <3>3, <2>3 DEF Visible, Waiting
    <3> QED  BY <3>1, <3>2, <3>3
  <2> QED  BY <2>3, <2>5, <2>6, BroadcastFacts
<1>2. CASE Busy(n)' /\ doc = trigger'[n]  BY <1>2 DEF Visible, Busy
<1> QED  BY <1>1, <1>2 DEF Visible

\* What is to be shown of a step: it unsettles nothing, and what scripts see
\* of it they saw before, or it is settled.
LEMMA SeenKept ==
    ASSUME Seen,
           \A doc \in Docs : doc.kind = "raw" /\ Settled(doc) => Settled(doc)',
           \A n \in NodeSet : \A doc \in Docs :
                Visible(n, doc)' /\ doc.kind = "raw" => Visible(n, doc) \/ Settled(doc)'
    PROVE  Seen'
BY DEF Seen

\* A step that leaves the batch alone and does not drop the document in hand.
LEMMA SettledStays ==
    ASSUME store \subseteq store', batch' = batch,
           \/ pc \notin {"before", "insert"}
           \/ pc' = pc /\ cur' = cur
           \/ pc' \in {"before", "insert"} /\ cur' = cur
           \/ cur.kind = "raw" => cur \in store',
           NEW doc, doc.kind = "raw", Settled(doc)
    PROVE  Settled(doc)'
BY DEF Settled

\* A step that leaves inboxes and scripts alone.
LEMMA VisibleStays ==
    ASSUME UNCHANGED <<inbox, node, trigger>>, NEW n, NEW doc, Visible(n, doc)'
    PROVE  Visible(n, doc)
BY DEF Visible, Waiting, Busy

\* Every step keeps what scripts see settled.
LEMMA SeenNext == EngineType /\ Placed /\ Inserted /\ Seen /\ [Next]_vars => Seen'
<1> SUFFICES ASSUME EngineType, Placed, Inserted, Seen, [Next]_vars PROVE Seen'
  OBVIOUS
<1> USE DEF workVars, input, nodeVars
<1>1. CASE \/ Iterate \/ IterateFails \/ RunEnds \/ TakeEvent \/ EventsDone \/ TakeLine \/ InputDone
           \/ QueriesDone \/ PumpNext \/ HealthCheck
  <2>1. /\ store' = store /\ batch' = batch /\ pc \notin {"before", "insert"}
        /\ UNCHANGED <<inbox, node, trigger>>
    BY <1>1 DEF Iterate, IterateFails, RunEnds, TakeEvent, EventsDone, TakeLine, InputDone, QueriesDone,
       PumpNext, HealthCheck
  <2>2. \A doc \in Docs : doc.kind = "raw" /\ Settled(doc) => Settled(doc)'  BY <2>1, SettledStays
  <2>3. \A n \in NodeSet : \A doc : Visible(n, doc)' => Visible(n, doc)  BY <2>1, VisibleStays
  <2> QED  BY <2>2, <2>3, SeenKept
<1>2. CASE AnswerQuery \/ Line \/ Eof \/ UNCHANGED vars
  <2>1. UNCHANGED <<store, batch, pc, cur>> /\ UNCHANGED <<inbox, node, trigger>>
    BY <1>2 DEF AnswerQuery, Line, Eof, vars
  <2>2. \A doc \in Docs : doc.kind = "raw" /\ Settled(doc) => Settled(doc)'  BY <2>1, SettledStays
  <2>3. \A n \in NodeSet : \A doc : Visible(n, doc)' => Visible(n, doc)  BY <2>1, VisibleStays
  <2> QED  BY <2>2, <2>3, SeenKept
<1>3. CASE Clock
  <2>1. /\ store' = store /\ batch' = batch /\ pc \notin {"before", "insert"}
        /\ UNCHANGED <<node, trigger>> /\ Broadcast({"clock"}, ClockTick)
    BY <1>3 DEF Clock
  <2>2. \A doc \in Docs : doc.kind = "raw" /\ Settled(doc) => Settled(doc)'  BY <2>1, SettledStays
  <2>3. PICK d \in Docs : d = ClockTick /\ d.kind # "raw"  BY ClockIsDoc
  <2>4. \A n \in NodeSet : \A doc : Visible(n, doc)' => Visible(n, doc) \/ doc = d
    BY <2>1, <2>3, BroadcastShows
  <2> QED  BY <2>2, <2>3, <2>4, SeenKept
<1>4. CASE Before
  <2>1. /\ pc = "before" /\ pc' = "insert" /\ store' = store /\ batch' = batch /\ cur' = cur
        /\ UNCHANGED <<node, trigger>> /\ Broadcast({"beforeInsert"}, cur)
    BY <1>4 DEF Before
  <2>2. \A doc \in Docs : doc.kind = "raw" /\ Settled(doc) => Settled(doc)'  BY <2>1, SettledStays
  <2>3. PICK d \in Docs : d = cur  BY <2>1 DEF Placed
  <2>4. \A n \in NodeSet : \A doc : Visible(n, doc)' => Visible(n, doc) \/ doc = d
    BY <2>1, <2>3, BroadcastShows
  <2>5. Settled(d)'  BY <2>1, <2>3 DEF Settled
  <2> QED  BY <2>2, <2>4, <2>5, SeenKept
<1>5. CASE Insert
  <2>1. /\ pc = "insert" /\ batch' = batch /\ UNCHANGED <<inbox, node, trigger>>
        /\ store' = IF cur.kind = "bad" THEN store ELSE store \cup {cur}
    BY <1>5 DEF Insert
  <2>2. store \subseteq store' /\ (cur.kind = "raw" => cur \in store')
    <3>1. CASE cur.kind = "bad"  BY <2>1, <3>1
    <3>2. CASE cur.kind # "bad"  BY <2>1, <3>2
    <3> QED  BY <3>1, <3>2
  <2>3. \A doc \in Docs : doc.kind = "raw" /\ Settled(doc) => Settled(doc)'  BY <2>1, <2>2, SettledStays
  <2>4. \A n \in NodeSet : \A doc : Visible(n, doc)' => Visible(n, doc)  BY <2>1, VisibleStays
  <2> QED  BY <2>3, <2>4, SeenKept
<1>6. CASE After
  <2>1. /\ pc = "after" /\ store' = store /\ batch' = batch /\ cur' = cur
        /\ UNCHANGED <<node, trigger>> /\ Broadcast({"afterInsert"}, cur)
    BY <1>6 DEF After
  <2>2. \A doc \in Docs : doc.kind = "raw" /\ Settled(doc) => Settled(doc)'  BY <2>1, SettledStays
  <2>3. PICK d \in Docs : d = cur  BY <2>1 DEF Placed
  <2>4. \A n \in NodeSet : \A doc : Visible(n, doc)' => Visible(n, doc) \/ doc = d
    BY <2>1, <2>3, BroadcastShows
  <2>5. d.kind = "raw" => Settled(d)'  BY <2>1, <2>3 DEF Settled, Inserted
  <2> QED  BY <2>2, <2>4, <2>5, SeenKept
<1>7. CASE PumpEmit
  <2>1. PICK n, e : n = Nodes[route] /\ e = emits[n]  OBVIOUS
  <2>2. n \in NodeSet
    <3>1. route \in 1..Len(Nodes)  BY <1>7, EngineAssumption DEF PumpEmit, EngineType
    <3> QED  BY <3>1, <2>1, EngineAssumption DEF NodeSet
  <2>3. e \in Seq(Docs) /\ e # <<>>  BY <1>7, <2>1, <2>2 DEF PumpEmit, EngineType
  <2>4. PICK d \in Docs : d = Head(e)  BY <2>3, TailFacts
  <2>5. /\ UNCHANGED <<pc, cur, store, node, trigger>> /\ Broadcast(Outs[n], d)
        /\ batch' = Append(batch, d) /\ batch \in Seq(Docs)
    BY <1>7, <2>1, <2>4 DEF PumpEmit, EngineType
  <2>6. PICK b : b = Append(batch, d)  OBVIOUS
  <2>7. /\ Len(b) = Len(batch) + 1 /\ b[Len(batch) + 1] = d /\ Len(batch) \in Nat
        /\ \A i \in 1..Len(batch) : b[i] = batch[i] /\ i \in 1..Len(b)
    BY <2>5, <2>6, AppendFacts
  <2>8. \A doc \in Docs : doc.kind = "raw" /\ Settled(doc) => Settled(doc)'
    BY <2>5, <2>6, <2>7 DEF Settled
  <2>9. Settled(d)'
    <3>1. Len(batch) + 1 \in 1..Len(b)  BY <2>7
    <3>2. \E i \in 1..Len(b) : d = b[i]  BY <3>1, <2>7
    <3> QED  BY <3>2, <2>5, <2>6 DEF Settled
  <2>10. \A m \in NodeSet : \A doc : Visible(m, doc)' => Visible(m, doc) \/ doc = d
    BY <2>5, BroadcastShows
  <2> QED  BY <2>8, <2>9, <2>10, SeenKept
<1>8. CASE DispatchEmit
  <2>1. batch \in Seq(Docs) /\ batch # <<>>  BY <1>8 DEF DispatchEmit, EngineType
  <2>2. PICK b, d : b = Tail(batch) /\ d = Head(batch)  OBVIOUS
  <2>3. /\ batch' = b /\ cur' = d /\ store' = store /\ UNCHANGED <<inbox, node, trigger>>
        /\ pc = "dispatch" /\ pc' = IF d.kind = "command" THEN "dispatch" ELSE "before"
    BY <1>8, <2>2 DEF DispatchEmit, Dispatch, Enter
  <2>4. /\ d = batch[1]
        /\ \A i \in 1..Len(batch) : i = 1 \/ (i - 1 \in 1..Len(b) /\ b[i - 1] = batch[i])
    BY <2>1, <2>2, TailFacts
  <2>5. ASSUME NEW doc \in Docs, doc.kind = "raw", Settled(doc) PROVE Settled(doc)'
    <3>1. CASE doc \in store  BY <3>1, <2>3 DEF Settled
    <3>2. CASE doc = d
      <4>1. pc' = "before"  BY <3>2, <2>3, <2>5
      <4> QED  BY <4>1, <3>2, <2>3 DEF Settled
    <3>3. ASSUME NEW i \in 1..Len(batch), doc = batch[i], doc # d PROVE Settled(doc)'
      <4>1. i - 1 \in 1..Len(b) /\ b[i - 1] = doc  BY <3>3, <2>4
      <4>2. \E j \in 1..Len(b) : doc = b[j]  BY <4>1
      <4> QED  BY <4>2, <2>3 DEF Settled
    <3> QED  BY <3>1, <3>2, <3>3, <2>3, <2>5 DEF Settled
  <2>6. \A n \in NodeSet : \A doc : Visible(n, doc)' => Visible(n, doc)  BY <2>3, VisibleStays
  <2> QED  BY <2>5, <2>6, SeenKept
<1>9. ASSUME NEW n \in NodeSet, Node(n) \/ NodeTimesOut(n) PROVE Seen'
  <2>1. UNCHANGED <<store, batch, pc, cur>>
    BY <1>9 DEF Node, NodeTimesOut, NodeStarts, NodeRecv, NodeEmits, NodeAsks, NodeAnswered, NodeReturns
  <2>2. \A doc \in Docs : doc.kind = "raw" /\ Settled(doc) => Settled(doc)'  BY <2>1, SettledStays
  <2>3. CASE NodeStarts(n) \/ NodeEmits(n) \/ NodeAsks(n) \/ NodeAnswered(n) \/ NodeReturns(n)
             \/ NodeTimesOut(n)
    <3>1. inbox' = inbox
      BY <2>3 DEF NodeStarts, NodeEmits, NodeAsks, NodeAnswered, NodeReturns, NodeTimesOut
    <3>2. \A m \in NodeSet : Busy(m)' => Busy(m) /\ trigger'[m] = trigger[m]
      BY <2>3 DEF NodeStarts, NodeEmits, NodeAsks, NodeAnswered, NodeReturns, NodeTimesOut, Busy, EngineType
    <3>3. \A m \in NodeSet : \A doc : Visible(m, doc)' => Visible(m, doc)
      BY <3>1, <3>2 DEF Visible, Waiting
    <3> QED  BY <3>3, <2>2, SeenKept
  <2>4. ASSUME NEW ch \in Ins[n], NodeRecv(n, ch) PROVE Seen'
    <3>1. PICK q, t : q = inbox[n][ch] /\ t = Tail(q)  OBVIOUS
    <3>2. q \in Seq(Docs) /\ q # <<>> /\ DOMAIN inbox = NodeSet /\ DOMAIN inbox[n] = Ins[n]
      BY <2>4, <3>1 DEF NodeRecv, EngineType
    <3>3. /\ Head(q) = q[1] /\ 1 \in 1..Len(q)
          /\ \A i \in 1..Len(t) : t[i] = q[i + 1] /\ i + 1 \in 1..Len(q)
      BY <3>1, <3>2, TailFacts
    <3>4. inbox' = [inbox EXCEPT ![n] = [inbox[n] EXCEPT ![ch] = t]]  BY <2>4, <3>1 DEF NodeRecv
    <3>5. inbox'[n] = [inbox[n] EXCEPT ![ch] = t]  BY <3>2, <3>4
    <3>6. /\ inbox'[n][ch] = t
          /\ \A m \in NodeSet : \A c \in Ins[m] : m # n \/ c # ch => inbox'[m][c] = inbox[m][c]
      BY <3>2, <3>4, <3>5
    <3>7. ASSUME NEW m \in NodeSet, NEW doc, Waiting(m, doc)' PROVE Waiting(m, doc)
      <4>c. PICK c \in Ins[m] : \E i \in 1..Len(inbox'[m][c]) : doc = inbox'[m][c][i]
        BY <3>7 DEF Waiting
      <4>i. PICK i \in 1..Len(inbox'[m][c]) : doc = inbox'[m][c][i]  BY <4>c
      <4>1. CASE m = n /\ c = ch
        <5>1. doc = q[i + 1] /\ i + 1 \in 1..Len(q)  BY <4>i, <4>1, <3>3, <3>6
        <5> QED  BY <5>1, <4>1, <3>1 DEF Waiting
      <4>2. CASE m # n \/ c # ch  BY <4>i, <4>2, <3>6 DEF Waiting
      <4> QED  BY <4>1, <4>2
    <3>8. /\ trigger'[n] = q[1]
          /\ \A m \in NodeSet : m # n => trigger'[m] = trigger[m] /\ node'[m] = node[m]
      BY <2>4, <3>1, <3>3 DEF NodeRecv, EngineType
    <3>9. Waiting(n, q[1])  BY <3>1, <3>3 DEF Waiting
    <3>10. \A m \in NodeSet : \A doc : Visible(m, doc)' => Visible(m, doc)
      <4> SUFFICES ASSUME NEW m \in NodeSet, NEW doc, Busy(m)', doc = trigger'[m]
                   PROVE  Visible(m, doc)
        BY <3>7 DEF Visible
      <4>1. CASE m = n  BY <4>1, <3>8, <3>9 DEF Visible
      <4>2. CASE m # n  BY <4>2, <3>8 DEF Visible, Busy
      <4> QED  BY <4>1, <4>2
    <3> QED  BY <3>10, <2>2, SeenKept
  <2> QED  BY <1>9, <2>3, <2>4 DEF Node
<1> QED
  BY <1>1, <1>2, <1>3, <1>4, <1>5, <1>6, <1>7, <1>8, <1>9 DEF Next, Tick, Exited

-----------------------------------------------------------------------------
(* What scripts are told *)

\* Steps that touch neither questions nor answers.
LEMMA ToldKept ==
    ASSUME Told, UNCHANGED <<node, trigger, asked, answer, resp>>
    PROVE  Told'
BY DEF Told, Busy

\* Every step keeps what scripts are told true: pump_queries comes when nothing
\* is collected and nothing is half inserted.
LEMMA ToldNext == EngineType /\ Placed /\ Seen /\ Told /\ [Next]_vars => Told'
<1> SUFFICES ASSUME EngineType, Placed, Seen, Told, [Next]_vars PROVE Told'
  OBVIOUS
<1> USE DEF workVars, input, nodeVars
<1>1. CASE \/ Clock \/ Iterate \/ IterateFails \/ RunEnds \/ TakeEvent \/ EventsDone \/ TakeLine \/ InputDone
           \/ Before \/ Insert \/ After \/ QueriesDone \/ PumpEmit \/ PumpNext \/ DispatchEmit
           \/ HealthCheck \/ Line \/ Eof \/ UNCHANGED vars
  BY <1>1, ToldKept DEF Clock, Iterate, IterateFails, RunEnds, TakeEvent, EventsDone, TakeLine, InputDone,
     Before, Insert, After, QueriesDone, PumpEmit, PumpNext, DispatchEmit, HealthCheck, Line, Eof, vars
<1>2. CASE AnswerQuery
  <2>1. batch = <<>> /\ pc \notin {"before", "insert"} /\ UNCHANGED <<node, trigger, asked, answer>>
    BY <1>2 DEF AnswerQuery, Placed
  <2>2. \A n \in NodeSet : Busy(n) /\ trigger[n].kind = "raw" => trigger[n] \in store
    <3> SUFFICES ASSUME NEW n \in NodeSet, Busy(n), trigger[n].kind = "raw" PROVE trigger[n] \in store
      OBVIOUS
    <3>1. trigger[n] \in Docs /\ Visible(n, trigger[n])  BY DEF EngineType, Visible
    <3>2. Settled(trigger[n])  BY <3>1 DEF Seen
    <3>3. Len(batch) = 0  BY <2>1
    <3> QED  BY <3>2, <3>3, <2>1 DEF Settled
  <2>3. PICK n, q : n = Head(qq)[1] /\ q = Head(qq)[2]  OBVIOUS
  <2>4. resp' = IF node[n] = "asking" /\ asked[n] = q
                THEN [resp EXCEPT ![n] = [question |-> q, rows |-> store]] ELSE resp
    BY <1>2, <2>3 DEF AnswerQuery
  <2>5. CASE ~(node[n] = "asking" /\ asked[n] = q)  BY <2>1, <2>4, <2>5, ToldKept
  <2>6. CASE node[n] = "asking" /\ asked[n] = q
    <3>1. PICK a : a = [question |-> q, rows |-> store]  OBVIOUS
    <3>2. a.question = q /\ a.rows = store  BY <3>1
    <3>3. \A m \in NodeSet : resp'[m] = IF m = n THEN a ELSE resp[m]
      BY <2>4, <2>6, <3>1 DEF EngineType
    <3>4. ASSUME NEW m \in NodeSet
          PROVE  /\ resp'[m] # None => node[m] = "asking" /\ resp'[m].question = asked[m]
                 /\ resp'[m] # None /\ trigger[m].kind = "raw" => trigger[m] \in resp'[m].rows
      <4>1. CASE m = n  BY <4>1, <2>2, <2>6, <3>2, <3>3 DEF Busy
      <4>2. CASE m # n  BY <4>2, <3>3 DEF Told
      <4> QED  BY <4>1, <4>2
    <3> QED  BY <3>4, <2>1 DEF Told, Busy
  <2> QED  BY <2>5, <2>6
<1>3. ASSUME NEW n \in NodeSet, Node(n) \/ NodeTimesOut(n) PROVE Told'
  <2>d. /\ DOMAIN resp = NodeSet /\ DOMAIN answer = NodeSet /\ DOMAIN trigger = NodeSet
        /\ DOMAIN node = NodeSet /\ DOMAIN asked = NodeSet
    BY DEF EngineType
  <2>1. CASE NodeEmits(n)  BY <2>1, ToldKept DEF NodeEmits
  <2>2. CASE NodeStarts(n)
    <3>1. resp[n] = None /\ answer[n] = None  BY <2>2 DEF NodeStarts, Told, Busy
    <3> QED  BY <3>1, <2>2, <2>d DEF NodeStarts, Told, Busy
  <2>3. ASSUME NEW ch \in Ins[n], NodeRecv(n, ch) PROVE Told'
    <3>1. resp[n] = None /\ answer[n] = None  BY <2>3 DEF NodeRecv, Told, Busy
    <3> QED  BY <3>1, <2>3, <2>d DEF NodeRecv, Told, Busy
  <2>4. CASE NodeAsks(n)  BY <2>4, <2>d DEF NodeAsks, Told, Busy
  <2>5. CASE NodeAnswered(n)  BY <2>5, <2>d DEF NodeAnswered, Told, Busy
  <2>6. CASE NodeReturns(n)
    <3>1. resp[n] = None  BY <2>6 DEF NodeReturns, Told
    <3> QED  BY <3>1, <2>6, <2>d DEF NodeReturns, Told, Busy
  <2>7. CASE NodeTimesOut(n)  BY <2>7, <2>d DEF NodeTimesOut, Told, Busy
  <2> QED  BY <1>3, <2>1, <2>2, <2>3, <2>4, <2>5, <2>6, <2>7 DEF Node
<1> QED
  BY <1>1, <1>2, <1>3 DEF Next, Tick, Exited

-----------------------------------------------------------------------------
(* The afterInsert channel *)

\* Only the After step brings documents to the channel, and after an insert.
LEMMA AfterInsertNext ==
    WellFormed /\ EngineType /\ Placed /\ AfterInsertInv /\ [Next]_vars => AfterInsertInv'
<1> SUFFICES ASSUME WellFormed, EngineType, Placed, AfterInsertInv, [Next]_vars
             PROVE  AfterInsertInv'
  OBVIOUS
<1> USE DEF workVars, input, nodeVars
<1> DEFINE In == {n \in NodeSet : "afterInsert" \in Ins[n]}
\* It is enough that nothing new but what is stored comes to the channel.
<1>k. ASSUME store \subseteq store', pc' = "after" => cur' \in store',
             \A n \in In : \A i \in 1..Len(inbox'[n]["afterInsert"]) :
                \/ inbox'[n]["afterInsert"][i] \in store'
                \/ \E j \in 1..Len(inbox[n]["afterInsert"]) :
                        inbox'[n]["afterInsert"][i] = inbox[n]["afterInsert"][j]
      PROVE  AfterInsertInv'
  BY <1>k DEF AfterInsertInv, AfterInsertMeansStored
<1>i. ASSUME store \subseteq store', inbox' = inbox, pc' = "after" => cur' \in store'
      PROVE  AfterInsertInv'
  BY <1>i DEF AfterInsertInv, AfterInsertMeansStored
<1>b. ASSUME NEW chans, NEW d \in Docs, Broadcast(chans, d), store' = store, pc' # "after",
             "afterInsert" \notin chans \/ d \in store
      PROVE  AfterInsertInv'
  <2> SUFFICES ASSUME NEW n \in In, NEW i \in 1..Len(inbox'[n]["afterInsert"])
               PROVE  \/ inbox'[n]["afterInsert"][i] \in store
                      \/ \E j \in 1..Len(inbox[n]["afterInsert"]) :
                            inbox'[n]["afterInsert"][i] = inbox[n]["afterInsert"][j]
    BY <1>b, <1>k
  <2>1. PICK q : q = inbox[n]["afterInsert"]  OBVIOUS
  <2>2. q \in Seq(Docs)  BY <2>1 DEF EngineType
  <2>3. \/ inbox'[n]["afterInsert"] = q
        \/ "afterInsert" \in chans /\ inbox'[n]["afterInsert"] = Append(q, d)
    BY <1>b, <2>1, BroadcastFacts
  <2>4. CASE inbox'[n]["afterInsert"] = q  BY <2>1, <2>4
  <2>5. CASE d \in store /\ inbox'[n]["afterInsert"] = Append(q, d)
    BY <2>1, <2>2, <2>5, AppendFacts
  <2> QED  BY <1>b, <2>3, <2>4, <2>5
<1>1. CASE \/ Iterate \/ IterateFails \/ RunEnds \/ TakeEvent \/ EventsDone \/ InputDone \/ QueriesDone
           \/ PumpNext \/ HealthCheck
  BY <1>1, <1>i DEF Iterate, IterateFails, RunEnds, TakeEvent, EventsDone, InputDone, QueriesDone, PumpNext,
     HealthCheck
<1>2. CASE TakeLine \/ DispatchEmit
  BY <1>2, <1>i DEF TakeLine, DispatchEmit, Dispatch
<1>3. CASE AnswerQuery \/ Line \/ Eof \/ UNCHANGED vars
  BY <1>3, <1>i DEF AnswerQuery, Line, Eof, vars, AfterInsertInv
<1>4. CASE Clock
  <2>1. "afterInsert" \notin {"clock"}  OBVIOUS
  <2> QED  BY <1>4, <2>1, <1>b, ClockIsDoc DEF Clock
<1>5. CASE Before
  <2>1. cur \in Docs /\ "afterInsert" \notin {"beforeInsert"}  BY <1>5 DEF Before, Placed
  <2> QED  BY <1>5, <2>1, <1>b DEF Before
<1>6. CASE After
  <2>1. cur \in Docs /\ cur \in store /\ pc' # "after"  BY <1>6 DEF After, Placed, AfterInsertInv
  <2> QED  BY <1>6, <2>1, <1>b DEF After
<1>7. CASE PumpEmit
  <2>1. PICK n, e : n = Nodes[route] /\ e = emits[n]  OBVIOUS
  <2>2. n \in NodeSet
    <3>1. route \in 1..Len(Nodes)  BY <1>7, EngineAssumption DEF PumpEmit, EngineType
    <3> QED  BY <3>1, <2>1, EngineAssumption DEF NodeSet
  <2>3. e \in Seq(Docs) /\ e # <<>>  BY <1>7, <2>1, <2>2 DEF PumpEmit, EngineType
  <2>4. PICK d \in Docs : d = Head(e)  BY <2>3, TailFacts
  <2>5. store' = store /\ pc' # "after" /\ Broadcast(Outs[n], d)  BY <1>7, <2>1, <2>4 DEF PumpEmit
  <2>6. "afterInsert" \notin Outs[n]  BY <2>2 DEF WellFormed
  <2> QED  BY <2>5, <2>6, <1>b
<1>8. CASE Insert
  <2>1. CASE cur.kind # "bad"
    <3>1. store' = store \cup {cur} /\ cur' = cur /\ inbox' = inbox  BY <1>8, <2>1 DEF Insert
    <3> QED  BY <3>1, <1>i
  <2>2. CASE cur.kind = "bad"
    <3>1. cur.src # "carrier"  BY <1>8, <2>2 DEF Insert, Placed, WellFormed
    <3>2. pc' = ret /\ ret # "after" /\ store' = store /\ inbox' = inbox
      BY <1>8, <2>2, <3>1 DEF Insert, Placed
    <3> QED  BY <3>2, <1>i
  <2> QED  BY <2>1, <2>2
<1>9. ASSUME NEW n \in NodeSet, Node(n) \/ NodeTimesOut(n) PROVE AfterInsertInv'
  <2>1. UNCHANGED <<store, pc, cur>>
    BY <1>9 DEF Node, NodeTimesOut, NodeStarts, NodeRecv, NodeEmits, NodeAsks, NodeAnswered, NodeReturns
  <2>2. CASE NodeStarts(n) \/ NodeEmits(n) \/ NodeAsks(n) \/ NodeAnswered(n) \/ NodeReturns(n)
             \/ NodeTimesOut(n)
    <3>1. inbox' = inbox
      BY <2>2 DEF NodeStarts, NodeEmits, NodeAsks, NodeAnswered, NodeReturns, NodeTimesOut
    <3> QED  BY <3>1, <2>1, <1>i DEF AfterInsertInv
  <2>3. ASSUME NEW ch \in Ins[n], NodeRecv(n, ch) PROVE AfterInsertInv'
    <3>1. PICK q, t : q = inbox[n][ch] /\ t = Tail(q)  OBVIOUS
    <3>2. q \in Seq(Docs) /\ q # <<>> /\ DOMAIN inbox = NodeSet /\ DOMAIN inbox[n] = Ins[n]
      BY <2>3, <3>1 DEF NodeRecv, EngineType
    <3>3. \A i \in 1..Len(t) : t[i] = q[i + 1] /\ i + 1 \in 1..Len(q)  BY <3>1, <3>2, TailFacts
    <3>4. inbox' = [inbox EXCEPT ![n] = [inbox[n] EXCEPT ![ch] = t]]  BY <2>3, <3>1 DEF NodeRecv
    <3>5. inbox'[n] = [inbox[n] EXCEPT ![ch] = t]  BY <3>2, <3>4
    <3>6. /\ inbox'[n][ch] = t
          /\ \A m \in NodeSet : \A c \in Ins[m] : m # n \/ c # ch => inbox'[m][c] = inbox[m][c]
      BY <3>2, <3>4, <3>5
    <3>7. ASSUME NEW m \in In, NEW i \in 1..Len(inbox'[m]["afterInsert"])
          PROVE  \E j \in 1..Len(inbox[m]["afterInsert"]) :
                    inbox'[m]["afterInsert"][i] = inbox[m]["afterInsert"][j]
      <4>1. CASE m = n /\ ch = "afterInsert"  BY <4>1, <3>1, <3>3, <3>6
      <4>2. CASE m # n \/ ch # "afterInsert"  BY <4>2, <3>6
      <4> QED  BY <4>1, <4>2
    <3> QED  BY <3>7, <2>1, <1>k DEF AfterInsertInv
  <2> QED  BY <1>9, <2>2, <2>3 DEF Node
<1> QED
  BY <1>1, <1>2, <1>3, <1>4, <1>5, <1>6, <1>7, <1>8, <1>9 DEF Next, Tick, Exited

-----------------------------------------------------------------------------
(* The theorems *)

\* A new context.
LEMMA InvInitial == Init => EngineInv /\ AfterInsertInv
<1> SUFFICES ASSUME Init PROVE EngineInv /\ AfterInsertInv
  OBVIOUS
<1> USE DEF Init
<1>1. EngineType  BY TypeInitial
<1>2. "in" \in Sources /\ "carrier" \in Sources /\ NodeSet \subseteq Sources  BY DEF Sources
<1>e. Len(<<>>) = 0  OBVIOUS
<1>3. Placed /\ Inserted  BY DEF Placed, Inserted
<1>4. InLine(inq, "in") /\ InLine(evq, "carrier")  BY <1>2, <1>e DEF InLine
<1>5. Emitted
  <2> SUFFICES ASSUME NEW n \in NodeSet
               PROVE  taken[n] = 0 /\ made[n] = 0 /\ emits[n] = <<>>
    BY <1>e DEF Emitted
  <2> QED  BY <1>2
<1>6. Collected
  <2>1. \A n \in NodeSet : taken[n] = 0 /\ made[n] = 0 /\ Len(emits[n]) = 0  BY <1>2, <1>e
  <2>2. \A n \in NodeSet : (taken[n] + 1)..(made[n] - Len(emits[n])) = {}  BY <2>1
  <2> QED  BY <2>2, <1>e DEF Collected
<1>7. Numbered  BY <1>4, <1>5, <1>6, <1>e DEF Numbered
<1>8. \A n \in NodeSet : ~Busy(n) /\ \A ch \in Ins[n] : inbox[n][ch] = <<>>  BY DEF Busy
<1>9. Seen /\ AfterInsertMeansStored
  BY <1>8, <1>e DEF Seen, Visible, Waiting, AfterInsertMeansStored
<1>10. Told  BY DEF Told
<1> QED  BY <1>1, <1>3, <1>7, <1>9, <1>10 DEF EngineInv, AfterInsertInv

\* Whatever the pipeline: the worker, its queues and its scripts stay in the
\* states that AntennaContext::tick and the node loops build on.
THEOREM EngineInvariant == Spec => []EngineInv
<1>1. EngineInv /\ [Next]_vars => EngineInv'
  BY TypeNext, PlacedNext, NumberedNext, InsertedNext, SeenNext, ToldNext DEF EngineInv
<1> QED  BY InvInitial, <1>1, PTL DEF Spec

\* What a source has produced (IN lines, carrier events, the emits of a
\* script that pump_emits collects) is dispatched in the order produced, each
\* document once and none left out.
THEOREM SourcesKeepTheirOrder == Spec => HandledInOrder
<1>1. EngineInv /\ [Next]_vars => [\A s \in Sources : taken'[s] \in {taken[s], taken[s] + 1}]_vars
  BY NumberedNext DEF EngineInv, TakesNext
<1> QED  BY <1>1, EngineInvariant, PTL DEF Spec, HandledInOrder

\* pump_queries answers from a store that holds the document a script runs
\* on, wherever the script got it: nothing is collected or half inserted when
\* tick comes to the questions.
THEOREM AnswersIncludeTrigger == Spec => []AnswerSeesTrigger
<1>1. EngineInv => AnswerSeesTrigger  BY DEF EngineInv, Told, AnswerSeesTrigger
<1> QED  BY <1>1, EngineInvariant, PTL

\* The response channel of each js_store_query is its own: an answer is to
\* the script's last question.
THEOREM AnswersAreToLastQuestion == Spec => []AnswerIsForQuestion
<1>1. EngineInv => AnswerIsForQuestion  BY DEF EngineInv, Told, AnswerIsForQuestion
<1> QED  BY <1>1, EngineInvariant, PTL

\* What insert_with_dag broadcasts to antenna:afterInsert is in the store, if
\* no carrier event is refused by it (tick goes on after such a refusal) and
\* no script emits to the channel.
THEOREM AfterInsertIsStored == WellFormed => (Spec => []AfterInsertMeansStored)
<1> SUFFICES ASSUME WellFormed PROVE Spec => []AfterInsertMeansStored
  OBVIOUS
<1>1. EngineInv /\ AfterInsertInv /\ [Next]_vars => AfterInsertInv'
  BY AfterInsertNext DEF EngineInv
<1>2. Spec => []AfterInsertInv  BY InvInitial, <1>1, EngineInvariant, PTL DEF Spec
<1>3. AfterInsertInv => AfterInsertMeansStored  BY DEF AfterInsertInv
<1> QED  BY <1>2, <1>3, PTL

=============================================================================
