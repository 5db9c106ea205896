------------------------------- MODULE Engine -------------------------------
(***************************************************************************)
(* One AntennaContext at work: the tick of src/src/lib.rs, the routing of  *)
(* documents by src/src/dispatch.rs, and the script nodes of               *)
(* src/src/dag.rs and src/src/script_vm.rs, each on a thread of its own.   *)
(*                                                                         *)
(* A document carries its source (the IN transport, the carrier, or the    *)
(* node whose script emitted it), its number there, and what dispatch      *)
(* makes of it: "raw" goes through the DAG into the store, "bad" does too  *)
(* but the store refuses it, "command" is handled without the DAG (SPIN,   *)
(* carrier and design types).  SPIN updates that delete a document again   *)
(* are left out, so what a document's insert promises is seen undisturbed. *)
(*                                                                         *)
(* Inboxes are the FIFOs RingChannel implements; a broadcast to a full one *)
(* drops the document after the bounded retry.                             *)
(***************************************************************************)
EXTENDS Naturals, Sequences, FiniteSets

CONSTANTS
    Nodes,          \* script nodes of the pipeline, as a sequence of routes
    Ins, Outs,      \* per node: the channels it reads and emits to
    Name,           \* per node: the name of its thread, node:<short uri>
    Channels,       \* named channels
    InboxCap,       \* documents an inbox holds
    InputKinds,     \* transports: "ring" (C ABI), "ws" (WebSocket), "pipe" (stdin)
    LineKinds,      \* kinds of IN lines
    EventKinds,     \* kinds of carrier events
    EmitKinds,      \* kinds of documents a script emits
    MaxLines, MaxEvents, MaxEmits, MaxAsks,  \* bounds on each of these
    None

NodeSet == {Nodes[i] : i \in 1..Len(Nodes)}
Kinds == {"raw", "bad", "command"}

ASSUME EngineAssumption ==
    /\ Nodes \in Seq(NodeSet) /\ {"in", "carrier"} \intersect NodeSet = {}
    /\ \A n \in NodeSet : Ins[n] \subseteq Channels /\ Outs[n] \subseteq Channels
    /\ {"clock", "beforeInsert", "afterInsert"} \subseteq Channels
    /\ InputKinds \subseteq {"ring", "ws", "pipe"}
    /\ LineKinds \cup EventKinds \cup EmitKinds \subseteq Kinds
    /\ {MaxLines, MaxEvents, MaxEmits, MaxAsks} \subseteq Nat
    /\ InboxCap \in Nat \ {0}

Sources == {"in", "carrier"} \cup NodeSet
Doc(src, n, kind) == [src |-> src, n |-> n, kind |-> kind]
ClockTick == Doc("clock", 0, "clock")

VARIABLES
    pc,        \* where the worker is in tick
    cur, ret,  \* the document in insert_with_dag, and where tick goes on
    route,     \* pump_emits: the route being drained
    batch,     \* what pump_emits has collected and dispatch has not had yet
    evq, inq,  \* carrier events and IN lines not yet taken
    transport, \* of IN and OUT, and with it whose loop calls tick
    eof,       \* stdin has ended
    store,     \* documents inserted into the store
    inbox,     \* per node and channel
    emits,     \* per node: emit() -> pump_emits
    qq,        \* store.query requests, <<node, question>>
    resp,      \* per node: the response channel of its question
    node,      \* per node: its thread
    trigger,   \* per node: the document its script runs on
    reported,  \* names health_check has returned
    \* history: how many documents each source produced and dispatch has
    \* taken, questions asked, the last answer, nodes reported dead
    made, taken, asked, answer, known

workVars == <<pc, cur, ret, route, batch>>
input == <<transport, eof>>
nodeVars == <<node, trigger, asked, answer>>
vars == <<workVars, evq, inq, input, store, inbox, emits, qq, resp, nodeVars, reported, made, taken, known>>

Init ==
    /\ pc = "sleep" /\ cur = None /\ ret = None /\ route = 1 /\ batch = <<>>
    /\ transport \in InputKinds /\ eof = FALSE
    /\ evq = <<>> /\ inq = <<>> /\ store = {} /\ qq = <<>>
    /\ inbox = [n \in NodeSet |-> [ch \in Ins[n] |-> <<>>]]
    /\ emits = [n \in NodeSet |-> <<>>] /\ resp = [n \in NodeSet |-> None]
    /\ node = [n \in NodeSet |-> "starting"]
    /\ trigger = [n \in NodeSet |-> None]
    /\ reported = {}
    /\ made = [s \in Sources |-> 0] /\ taken = [s \in Sources |-> 0]
    /\ asked = [n \in NodeSet |-> 0] /\ answer = [n \in NodeSet |-> None]
    /\ known = {}
-----------------------------------------------------------------------------
(* Dag::broadcast: every subscriber with room gets the document. *)

Delivered(boxes, chans, doc) ==
    [n \in NodeSet |-> [ch \in Ins[n] |->
        IF ch \in chans /\ Len(boxes[n][ch]) < InboxCap
        THEN Append(boxes[n][ch], doc) ELSE boxes[n][ch]]]

Broadcast(chans, doc) == inbox' = Delivered(inbox, chans, doc)
-----------------------------------------------------------------------------
(* The worker: AntennaContext::tick, once per poll of at most 25 ms. *)

\* The clock broadcast, and carrier_iterate, which may call back with events.
Clock ==
    /\ pc = "sleep" /\ pc' = "iterate"
    /\ Broadcast({"clock"}, ClockTick)
    /\ UNCHANGED <<cur, ret, route, batch, evq, inq, input, store, emits, qq, resp, nodeVars,
                   reported, made, taken, known>>

\* event_to_turtle: every type of event becomes one document.
Event(k) == Doc("carrier", made["carrier"] + 1, k)

Iterate ==
    /\ pc = "iterate" /\ pc' = "events"
    /\ \/ UNCHANGED <<evq, made>>
       \/ /\ made["carrier"] < MaxEvents
          /\ made' = [made EXCEPT !["carrier"] = @ + 1]
          /\ \E k \in EventKinds : evq' = Append(evq, Event(k))
    /\ UNCHANGED <<cur, ret, route, batch, inq, input, store, inbox, emits, qq, resp, nodeVars,
                   reported, taken, known>>

\* carrier_iterate fails: the rest of the tick is skipped.  The worker of the
\* C ABI logs the error and calls tick again.
IterateFails ==
    /\ pc = "iterate" /\ transport = "ring" /\ pc' = "sleep"
    /\ UNCHANGED <<cur, ret, route, batch, evq, inq, input, store, inbox, emits, qq, resp,
                   nodeVars, reported, made, taken, known>>

\* Behind WebSocket and stdin tick is called by AntennaContext::run, which
\* returns the error: main ends with it, whatever is queued.
RunEnds ==
    /\ pc = "iterate" /\ transport # "ring" /\ pc' = "ended"
    /\ UNCHANGED <<cur, ret, route, batch, evq, inq, input, store, inbox, emits, qq, resp,
                   nodeVars, reported, made, taken, known>>

\* Start insert_with_dag, or the events' copy of it, on doc.
Enter(doc, back) ==
    /\ cur' = doc /\ ret' = back
    /\ taken' = [taken EXCEPT ![doc.src] = doc.n]

TakeEvent ==
    /\ pc = "events" /\ evq # <<>>
    /\ evq' = Tail(evq) /\ pc' = "before" /\ Enter(Head(evq), "events")
    /\ UNCHANGED <<route, batch, inq, input, store, inbox, emits, qq, resp, nodeVars, reported,
                   made, known>>

EventsDone ==
    /\ pc = "events" /\ evq = <<>> /\ pc' = "input"
    /\ UNCHANGED <<cur, ret, route, batch, evq, inq, input, store, inbox, emits, qq, resp,
                   nodeVars, reported, made, taken, known>>

\* dispatch by rdf:type: commands never enter the DAG.
Dispatch(doc, back) ==
    /\ Enter(doc, back)
    /\ pc' = IF doc.kind = "command" THEN back ELSE "before"

TakeLine ==
    /\ pc = "input" /\ inq # <<>>
    /\ inq' = Tail(inq) /\ Dispatch(Head(inq), "input")
    /\ UNCHANGED <<route, batch, evq, input, store, inbox, emits, qq, resp, nodeVars, reported,
                   made, known>>

\* Faulty variant: recv waits for the end of the input.
InputDoneAtEof ==
    /\ pc = "input" /\ inq = <<>> /\ eof
    /\ pc' = "queries"
    /\ UNCHANGED <<cur, ret, route, batch, evq, inq, input, store, inbox, emits, qq, resp,
                   nodeVars, reported, made, taken, known>>

\* Faulty variant: a tick goes from its input straight to the emits.
InputDoneSkipsQueries ==
    /\ pc = "input" /\ inq = <<>>
    /\ pc' = "emits" /\ route' = 1
    /\ UNCHANGED <<cur, ret, batch, evq, inq, input, store, inbox, emits, qq, resp, nodeVars,
                   reported, made, taken, known>>

\* AntennaIn::recv returns None: at once for a ring or WebSocket, at the end
\* of stdin for PipeIn, whose read_line blocks until then.
InputDone ==
    /\ pc = "input" /\ inq = <<>> /\ (transport = "pipe" => eof)
    /\ pc' = "queries"
    /\ UNCHANGED <<cur, ret, route, batch, evq, inq, input, store, inbox, emits, qq, resp,
                   nodeVars, reported, made, taken, known>>

Before ==
    /\ pc = "before" /\ pc' = "insert"
    /\ Broadcast({"beforeInsert"}, cur)
    /\ UNCHANGED <<cur, ret, route, batch, evq, inq, input, store, emits, qq, resp, nodeVars,
                   reported, made, taken, known>>

\* Faulty variant: a refused insert does not stop afterInsert.
InsertIgnoresError ==
    /\ pc = "insert" /\ pc' = "after"
    /\ store' = IF cur.kind = "bad" THEN store ELSE store \cup {cur}
    /\ UNCHANGED <<cur, ret, route, batch, evq, inq, input, inbox, emits, qq, resp, nodeVars,
                   reported, made, taken, known>>

\* A refused insert ends dispatch's insert_with_dag; the copy of it in tick
\* that handles carrier events only logs the error.
Insert ==
    /\ pc = "insert"
    /\ store' = IF cur.kind = "bad" THEN store ELSE store \cup {cur}
    /\ pc' = IF cur.kind = "bad" /\ cur.src # "carrier" THEN ret ELSE "after"
    /\ UNCHANGED <<cur, ret, route, batch, evq, inq, input, inbox, emits, qq, resp, nodeVars,
                   reported, made, taken, known>>

After ==
    /\ pc = "after" /\ pc' = ret
    /\ Broadcast({"afterInsert"}, cur)
    /\ UNCHANGED <<cur, ret, route, batch, evq, inq, input, store, emits, qq, resp, nodeVars,
                   reported, made, taken, known>>

\* Faulty variant: questions are answered between the emits as well.
AnswerQueryEarly ==
    /\ pc \in {"queries", "dispatch"} /\ qq # <<>>
    /\ LET n == Head(qq)[1]
           q == Head(qq)[2]
       IN  resp' = IF node[n] = "asking" /\ asked[n] = q
                   THEN [resp EXCEPT ![n] = [question |-> q, rows |-> store]]
                   ELSE resp
    /\ qq' = Tail(qq)
    /\ UNCHANGED <<workVars, evq, inq, input, store, inbox, emits, nodeVars, reported, made,
                   taken, known>>

\* Faulty variant: a script has one response channel for all its questions.
AnswerQueryShared ==
    /\ pc = "queries" /\ qq # <<>>
    /\ LET n == Head(qq)[1]
       IN  resp' = IF node[n] = "asking"
                   THEN [resp EXCEPT ![n] = [question |-> Head(qq)[2], rows |-> store]]
                   ELSE resp
    /\ qq' = Tail(qq)
    /\ UNCHANGED <<workVars, evq, inq, input, store, inbox, emits, nodeVars, reported, made,
                   taken, known>>

\* pump_queries: the answer goes to the channel the question came with, which
\* nobody reads any more when the script has given up on it.
AnswerQuery ==
    /\ pc = "queries" /\ qq # <<>>
    /\ LET n == Head(qq)[1]
           q == Head(qq)[2]
       IN  resp' = IF node[n] = "asking" /\ asked[n] = q
                   THEN [resp EXCEPT ![n] = [question |-> q, rows |-> store]]
                   ELSE resp
    /\ qq' = Tail(qq)
    /\ UNCHANGED <<workVars, evq, inq, input, store, inbox, emits, nodeVars, reported, made,
                   taken, known>>

QueriesDone ==
    /\ pc = "queries" /\ qq = <<>> /\ pc' = "emits" /\ route' = 1
    /\ UNCHANGED <<cur, ret, batch, evq, inq, input, store, inbox, emits, qq, resp, nodeVars,
                   reported, made, taken, known>>

\* Faulty variant: what was collected last is dispatched first.
PumpEmitLifo ==
    /\ pc = "emits" /\ route <= Len(Nodes) /\ emits[Nodes[route]] # <<>>
    /\ LET n == Nodes[route]
       IN  /\ emits' = [emits EXCEPT ![n] = Tail(@)]
           /\ batch' = <<Head(emits[n])>> \o batch
           /\ Broadcast(Outs[n], Head(emits[n]))
    /\ UNCHANGED <<pc, cur, ret, route, evq, inq, input, store, qq, resp, nodeVars, reported,
                   made, taken, known>>

\* pump_emits drains one route after the other.
PumpEmit ==
    /\ pc = "emits" /\ route <= Len(Nodes) /\ emits[Nodes[route]] # <<>>
    /\ LET n == Nodes[route]
       IN  /\ emits' = [emits EXCEPT ![n] = Tail(@)]
           /\ batch' = Append(batch, Head(emits[n]))
           /\ Broadcast(Outs[n], Head(emits[n]))
    /\ UNCHANGED <<pc, cur, ret, route, evq, inq, input, store, qq, resp, nodeVars, reported,
                   made, taken, known>>

\* Faulty variant: the last route is not drained.
PumpNextStopsShort ==
    /\ pc = "emits"
    /\ route <= Len(Nodes) => emits[Nodes[route]] = <<>>
    /\ IF route + 1 < Len(Nodes) THEN route' = route + 1 /\ UNCHANGED pc
                                 ELSE pc' = "dispatch" /\ UNCHANGED route
    /\ UNCHANGED <<cur, ret, batch, evq, inq, input, store, inbox, emits, qq, resp, nodeVars,
                   reported, made, taken, known>>

PumpNext ==
    /\ pc = "emits"
    /\ route <= Len(Nodes) => emits[Nodes[route]] = <<>>
    /\ IF route < Len(Nodes) THEN route' = route + 1 /\ UNCHANGED pc
                             ELSE pc' = "dispatch" /\ UNCHANGED route
    /\ UNCHANGED <<cur, ret, batch, evq, inq, input, store, inbox, emits, qq, resp, nodeVars,
                   reported, made, taken, known>>

DispatchEmit ==
    /\ pc = "dispatch" /\ batch # <<>>
    /\ batch' = Tail(batch) /\ Dispatch(Head(batch), "dispatch")
    /\ UNCHANGED <<route, evq, inq, input, store, inbox, emits, qq, resp, nodeVars, reported,
                   made, known>>

\* Faulty variant: the first death silences the check.
HealthCheckOnce ==
    /\ pc = "dispatch" /\ batch = <<>> /\ pc' = "sleep"
    /\ LET fresh == IF reported # {} THEN {} ELSE {n \in NodeSet : node[n] = "finished"}
       IN  /\ known' = known \cup fresh
           /\ reported' = reported \cup {Name[n] : n \in fresh}
    /\ UNCHANGED <<cur, ret, route, batch, evq, inq, input, store, inbox, emits, qq, resp,
                   nodeVars, made, taken>>

\* health_check goes through the threads in the order of the routes and
\* returns the names of finished ones it has not returned before.
NewlyDead ==
    LET finished == {i \in 1..Len(Nodes) : node[Nodes[i]] = "finished"}
    IN  {i \in finished :
            /\ Name[Nodes[i]] \notin reported
            /\ \A j \in finished : j < i => Name[Nodes[j]] # Name[Nodes[i]]}

\* With it the tick ends.
HealthCheck ==
    /\ pc = "dispatch" /\ batch = <<>> /\ pc' = "sleep"
    /\ known' = known \cup {Nodes[i] : i \in NewlyDead}
    /\ reported' = reported \cup {Name[Nodes[i]] : i \in NewlyDead}
    /\ UNCHANGED <<cur, ret, route, batch, evq, inq, input, store, inbox, emits, qq, resp,
                   nodeVars, made, taken>>
-----------------------------------------------------------------------------
(* Script nodes. *)

\* ScriptVm::new fails when QuickJS gives no runtime or no context.
VmOutcomes == {"vm", "error"}

\* The thread ends at once without a VM, or without a channel to poll.
NodeStarts(n) ==
    /\ node[n] = "starting"
    /\ \E vm \in VmOutcomes :
        node' = [node EXCEPT ![n] =
                    IF vm = "vm" /\ Ins[n] # {} THEN "polling" ELSE "finished"]
    /\ UNCHANGED <<workVars, evq, inq, input, store, inbox, emits, qq, resp, trigger, asked,
                   answer, reported, made, taken, known>>

\* poll reports an inbox and recv takes its first document.
NodeRecv(n, ch) ==
    /\ node[n] = "polling" /\ inbox[n][ch] # <<>>
    /\ node' = [node EXCEPT ![n] = "running"]
    /\ trigger' = [trigger EXCEPT ![n] = Head(inbox[n][ch])]
    /\ inbox' = [inbox EXCEPT ![n][ch] = Tail(@)]
    /\ UNCHANGED <<workVars, evq, inq, input, store, emits, qq, resp, asked, answer, reported,
                   made, taken, known>>

\* js_emit
NodeEmits(n) ==
    /\ node[n] = "running" /\ made[n] < MaxEmits
    /\ made' = [made EXCEPT ![n] = @ + 1]
    /\ \E k \in EmitKinds :
        emits' = [emits EXCEPT ![n] = Append(@, Doc(n, made[n] + 1, k))]
    /\ UNCHANGED <<workVars, evq, inq, input, store, inbox, qq, resp, nodeVars, reported,
                   taken, known>>

\* js_store_query: a response channel of its own for every question.
NodeAsks(n) ==
    /\ node[n] = "running" /\ asked[n] < MaxAsks
    /\ node' = [node EXCEPT ![n] = "asking"]
    /\ asked' = [asked EXCEPT ![n] = @ + 1]
    /\ resp' = [resp EXCEPT ![n] = None]
    /\ answer' = [answer EXCEPT ![n] = None]
    /\ qq' = Append(qq, <<n, asked[n] + 1>>)
    /\ UNCHANGED <<workVars, evq, inq, input, store, inbox, emits, trigger, reported, made,
                   taken, known>>

NodeAnswered(n) ==
    /\ node[n] = "asking" /\ resp[n] # None
    /\ node' = [node EXCEPT ![n] = "running"]
    /\ answer' = [answer EXCEPT ![n] = resp[n]]
    /\ resp' = [resp EXCEPT ![n] = None]
    /\ UNCHANGED <<workVars, evq, inq, input, store, inbox, emits, qq, trigger, asked,
                   reported, made, taken, known>>

\* recv_timeout gives up after 5 s and the script goes on with no rows.
NodeTimesOut(n) ==
    /\ node[n] = "asking" /\ resp[n] = None
    /\ node' = [node EXCEPT ![n] = "running"]
    /\ UNCHANGED <<workVars, evq, inq, input, store, inbox, emits, qq, resp, trigger, asked,
                   answer, reported, made, taken, known>>

\* exec returns, with an error or a caught panic or without.
NodeReturns(n) ==
    /\ node[n] = "running"
    /\ node' = [node EXCEPT ![n] = "polling"]
    /\ trigger' = [trigger EXCEPT ![n] = None]
    /\ answer' = [answer EXCEPT ![n] = None]
    /\ UNCHANGED <<workVars, evq, inq, input, store, inbox, emits, qq, resp, asked, reported,
                   made, taken, known>>
-----------------------------------------------------------------------------
(* The other end of the IN transport. *)

Line ==
    /\ ~eof /\ made["in"] < MaxLines
    /\ made' = [made EXCEPT !["in"] = @ + 1]
    /\ \E k \in LineKinds : inq' = Append(inq, Doc("in", made["in"] + 1, k))
    /\ UNCHANGED <<workVars, evq, input, store, inbox, emits, qq, resp, nodeVars, reported,
                   taken, known>>

Eof ==
    /\ transport = "pipe" /\ ~eof /\ eof' = TRUE
    /\ UNCHANGED <<transport, workVars, evq, inq, store, inbox, emits, qq, resp, nodeVars,
                   reported, made, taken, known>>
-----------------------------------------------------------------------------
Tick ==
    \/ Clock \/ Iterate \/ IterateFails \/ RunEnds \/ TakeEvent \/ EventsDone
    \/ TakeLine \/ InputDone \/ Before \/ Insert \/ After
    \/ AnswerQuery \/ QueriesDone \/ PumpEmit \/ PumpNext \/ DispatchEmit \/ HealthCheck

Node(n) ==
    \/ NodeStarts(n) \/ \E ch \in Ins[n] : NodeRecv(n, ch)
    \/ NodeEmits(n) \/ NodeAsks(n) \/ NodeAnswered(n) \/ NodeReturns(n)

\* A process that has ended is no deadlock.
Exited == pc = "ended" /\ UNCHANGED vars

Next == Tick \/ Line \/ Eof \/ Exited \/ \E n \in NodeSet : Node(n) \/ NodeTimesOut(n)

Spec == Init /\ [][Next]_vars

\* The worker and the node threads run, and carrier_iterate does not fail for
\* ever, which helps a worker that calls it again and not AntennaContext::run.
\* Nothing is asked of the 5 s timeout.
FairSpec ==
    /\ Spec /\ WF_vars(Tick) /\ SF_vars(Iterate)
    /\ \A n \in NodeSet : WF_vars(Node(n))

\* The same when whatever feeds stdin comes to its end.
PipedSpec == FairSpec /\ WF_vars(Eof)
-----------------------------------------------------------------------------
TypeOK ==
    /\ pc \in {"sleep", "iterate", "events", "input", "before", "insert", "after", "queries",
               "emits", "dispatch", "ended"}
    /\ ret \in {None, "events", "input", "dispatch"} /\ route \in 1..(Len(Nodes) + 1)
    /\ \A n \in NodeSet :
        /\ node[n] \in {"starting", "polling", "running", "asking", "finished"}
        /\ \A ch \in Ins[n] : Len(inbox[n][ch]) <= InboxCap
        /\ trigger[n] # None <=> node[n] \in {"running", "asking"}
        /\ resp[n] # None => node[n] = "asking"
    /\ \A s \in Sources : taken[s] <= made[s]

\* What a source produced is handled in the order produced, each document once
\* and none left out.
HandledInOrder == [][\A s \in Sources : taken'[s] \in {taken[s], taken[s] + 1}]_vars

\* A script whose store.query is answered finds the document it runs on among
\* the rows, whichever channel brought it: also the one that fires before the
\* insert, and an OUT channel, which is served before the emit is dispatched.
AnswerSeesTrigger ==
    \A n \in NodeSet :
        answer[n] # None /\ trigger[n].kind = "raw" => trigger[n] \in answer[n].rows

\* A script never takes the late answer to a question it gave up on for the
\* answer to its next one.
AnswerIsForQuestion ==
    \A n \in NodeSet : answer[n] # None => answer[n].question = asked[n]

\* Whatever a script gets from afterInsert is in the store.
AfterInsertMeansStored ==
    \A n \in NodeSet : "afterInsert" \in Ins[n] =>
        \A i \in 1..Len(inbox[n]["afterInsert"]) : inbox[n]["afterInsert"][i] \in store

\* run has returned, which it does not do over a ring.
RunHasEnded == pc = "ended"

\* Every IN line, carrier event and emit is handled in the end, also after ticks
\* that fail before they come to it, as long as the process runs.
EverythingIsHandled ==
    \A s \in Sources : taken[s] < made[s] ~> taken[s] = made[s] \/ RunHasEnded

\* Scripts wait for the worker in store.query and the worker waits for scripts
\* when an inbox is full, but a question is answered without its timeout.
QuestionsAreAnswered ==
    \A n \in NodeSet : node[n] = "asking" ~> node[n] # "asking" \/ RunHasEnded

\* antenna:clock fires again and again.
ClockKeepsTicking == []<><<Clock>>_vars \/ <>RunHasEnded

\* A node whose thread has ended is reported.
DeadAreReported == \A n \in NodeSet : node[n] = "finished" ~> n \in known \/ RunHasEnded

\* What the process has taken in is handled before it ends.
EndLosesNothing == RunHasEnded => \A s \in Sources : taken[s] = made[s]
=============================================================================
