--------------------------- MODULE SemanticRouter ---------------------------
(***************************************************************************)
(* The SemanticRouter threads that Dag::load spawns (src/src/dag.rs) and   *)
(* the LLM backends they call (src/src/llm.rs).                            *)
(*                                                                         *)
(* A router latches the newest document of each of two inputs, asks a      *)
(* language model for a third one, checks that it is Turtle, asks once     *)
(* more when it is not, and emits.  The platform backend asks the host     *)
(* over a ring and waits for the answer on another.  The rings and their   *)
(* clocks are those of RingChannel, here with whole documents and with a   *)
(* clock that works; a push that finds no room is dropped by its caller.   *)
(***************************************************************************)
EXTENDS Naturals, Sequences, FiniteSets, Functions

CONSTANTS
    Routers,
    Types,      \* the values of antenna:backendType in the pipeline
    LlmHttp,    \* the cargo feature
    MaxDocs,    \* per router: bound on the documents sent to an input
    InboxCap,   \* documents that fit into an inbox
    RingCap,    \* documents that fit into a platform ring
    Wired       \* is there a host at the other end of the platform rings?

Sides == {"a", "b"}
Empty == 0      \* the empty document, and the empty slot
Docs == UNION {0..MaxDocs[r] : r \in Routers}
Outcomes == {"valid", "invalid", "error"}
Ids == 1..(2 * SumFunction(MaxDocs))

ASSUME RouterAssumption ==
    /\ IsFiniteSet(Routers)
    /\ MaxDocs \in [Routers -> Nat] /\ InboxCap \in Nat \ {0} /\ RingCap \in Nat \ {0}
    /\ LlmHttp \in BOOLEAN /\ Wired \in BOOLEAN

VARIABLES
    stage,    \* Dag::load: "load", "run" or "failed"
    backend,  \* per router: its antenna:backendType
    pc,       \* per router thread: where it is, "none" before it is spawned
    made,     \* per router and side: documents broadcast so far
    kept,     \* per router and side: the newest that found room, history
    inbox, signal,  \* per router: its two rings, and the sides whose clock is set
    ready,    \* per router: sides that poll reported and that are not latched yet
    slot,     \* per router: slot_a and slot_b
    fired,    \* per router: the last pair it fired on, history
    try,      \* per router: 1 for the first completion, 2 for the retry
    reqId,    \* per router: request_id of the call it waits in
    nextId,   \* COUNTER of simple_id
    reqs, resps,  \* the rings llmRequest and llmResponse
    host,     \* requests the host has read and not answered
    emits     \* what the routers have sent to emit_tx, in order

loading == <<stage, backend>>
inputs == <<made, kept, inbox, signal>>
latches == <<ready, slot, fired>>
calls == <<try, reqId, nextId>>
bridge == <<reqs, resps, host>>
vars == <<loading, inputs, latches, calls, bridge, pc, emits>>

NoPair == [s \in Sides |-> Empty]

TypeOK ==
    /\ stage \in {"load", "run", "failed"}
    /\ backend \in [Routers -> Types]
    /\ pc \in [Routers -> {"none", "poll", "latch", "drain", "call", "await", "resp"}]
    /\ made \in [Routers -> [Sides -> Docs]]
    /\ kept \in [Routers -> [Sides -> Docs]]
    /\ inbox \in [Routers -> [Sides -> Seq(Docs)]]
    /\ signal \in [Routers -> SUBSET Sides] /\ ready \in [Routers -> SUBSET Sides]
    /\ slot \in [Routers -> [Sides -> Docs]]
    /\ fired \in [Routers -> [Sides -> Docs]]
    /\ try \in [Routers -> {1, 2}]
    /\ reqId \in [Routers -> 0..(nextId - 1)] /\ nextId \in Nat \ {0}
    /\ Len(reqs) <= RingCap /\ Len(resps) <= RingCap

Init ==
    /\ stage = "load" /\ backend \in [Routers -> Types]
    /\ pc = [r \in Routers |-> "none"]
    /\ made = [r \in Routers |-> NoPair] /\ kept = [r \in Routers |-> NoPair]
    /\ inbox = [r \in Routers |-> [s \in Sides |-> <<>>]]
    /\ signal = [r \in Routers |-> {}] /\ ready = [r \in Routers |-> {}]
    /\ slot = [r \in Routers |-> NoPair] /\ fired = [r \in Routers |-> NoPair]
    /\ try = [r \in Routers |-> 1]
    /\ reqId = [r \in Routers |-> 0] /\ nextId = 1
    /\ reqs = <<>> /\ resps = <<>> /\ host = {} /\ emits = <<>>

-----------------------------------------------------------------------------
\* Does create_backend return a backend?
CreateBackend(type) ==
    \/ type \in {"ollama", "http"} /\ LlmHttp
    \/ type = "platform"

\* One turn of the loop over the routers, in the order of a HashMap.  With the
\* last one Dag::load returns; an error ends it, and the boot, with the threads
\* spawned so far left running.
LoadRouter(r) ==
    /\ stage = "load" /\ pc[r] = "none"
    /\ IF CreateBackend(backend[r])
       THEN /\ pc' = [pc EXCEPT ![r] = "poll"]
            /\ stage' = IF \A q \in Routers \ {r} : pc[q] # "none" THEN "run" ELSE "load"
       ELSE stage' = "failed" /\ UNCHANGED pc
    /\ UNCHANGED <<backend, inputs, latches, calls, bridge, emits>>

\* Dag::broadcast on inA or inB.  A script may emit an empty document.
Arrives(r, s) ==
    /\ stage = "run" /\ made[r][s] < MaxDocs[r]
    /\ \E d \in {Empty, made[r][s] + 1} :
        /\ made' = [made EXCEPT ![r][s] = @ + 1]
        /\ IF Len(inbox[r][s]) < InboxCap
           THEN /\ inbox' = [inbox EXCEPT ![r][s] = Append(@, d)]
                /\ kept' = [kept EXCEPT ![r][s] = IF d = Empty THEN @ ELSE d]
                /\ signal' = [signal EXCEPT ![r] = @ \union {s}]
           ELSE UNCHANGED <<inbox, kept, signal>>
    /\ UNCHANGED <<loading, latches, calls, bridge, pc, emits>>

-----------------------------------------------------------------------------
\* The router thread.  poll with nothing to report, after 500 ms, leaves every
\* variable as it is: the slots cannot both be full when the thread polls.
Poll(r) ==
    /\ pc[r] = "poll" /\ signal[r] # {}
    /\ ready' = [ready EXCEPT ![r] = signal[r]]
    /\ pc' = [pc EXCEPT ![r] = "latch"]
    /\ UNCHANGED <<loading, inputs, slot, fired, calls, bridge, emits>>

\* The side whose revents the thread looks at next.
Side(r) == IF "a" \in ready[r] THEN "a" ELSE "b"

ConsumeClock(r) ==
    /\ pc[r] = "latch" /\ ready[r] # {}
    /\ signal' = [signal EXCEPT ![r] = @ \ {Side(r)}]
    /\ pc' = [pc EXCEPT ![r] = "drain"]
    /\ UNCHANGED <<loading, made, kept, inbox, latches, calls, bridge, emits>>

\* while let Some(turtle) = reader.recv(): the last document that is not empty
\* stays in the slot.
Latch(r) ==
    LET s == Side(r)
        d == Head(inbox[r][s])
    IN  /\ pc[r] = "drain"
        /\ IF inbox[r][s] # <<>>
           THEN /\ inbox' = [inbox EXCEPT ![r][s] = Tail(@)]
                /\ slot' = [slot EXCEPT ![r][s] = IF d = Empty THEN @ ELSE d]
                /\ UNCHANGED <<pc, ready>>
           ELSE /\ pc' = [pc EXCEPT ![r] = "latch"]
                /\ ready' = [ready EXCEPT ![r] = @ \ {s}]
                /\ UNCHANGED <<inbox, slot>>
        /\ UNCHANGED <<loading, made, kept, signal, fired, calls, bridge, emits>>

Fire(r) ==
    /\ pc[r] = "latch" /\ ready[r] = {}
    /\ IF \A s \in Sides : slot[r][s] # Empty
       THEN /\ pc' = [pc EXCEPT ![r] = "call"]
            /\ fired' = [fired EXCEPT ![r] = slot[r]]
            /\ try' = [try EXCEPT ![r] = 1]
       ELSE pc' = [pc EXCEPT ![r] = "poll"] /\ UNCHANGED <<fired, try>>
    /\ UNCHANGED <<loading, inputs, ready, slot, reqId, nextId, bridge, emits>>

-----------------------------------------------------------------------------
\* What the thread does with the result of complete: validate_turtle, the one
\* retry, and the slots that are cleared however it ends.  The pair of an answer
\* is the pair its prompt was built from, and whose pair that was.
Pair(r) == [of |-> r, docs |-> slot[r]]
Emit(r, kind, pair) == Append(emits, [on |-> Pair(r), kind |-> kind, from |-> pair])

\* Mutation: slot_b is not cleared.
FinishedKeepsB(r) ==
    /\ slot' = [slot EXCEPT ![r]["a"] = Empty]
    /\ pc' = [pc EXCEPT ![r] = "poll"]
    /\ UNCHANGED try

Finished(r) ==
    /\ slot' = [slot EXCEPT ![r] = NoPair]
    /\ pc' = [pc EXCEPT ![r] = "poll"]
    /\ UNCHANGED try

\* Mutation: the first parse error is emitted and the retry made all the same.
ReturnedEarlyError(r, outcome, pair) ==
    \/ outcome = "valid" /\ emits' = Emit(r, "answer", pair) /\ Finished(r)
    \/ outcome = "error" /\ UNCHANGED emits /\ Finished(r)
    \/ /\ outcome = "invalid" /\ try[r] = 1
       /\ emits' = Emit(r, "Error", pair)
       /\ try' = [try EXCEPT ![r] = 2]
       /\ pc' = [pc EXCEPT ![r] = "call"]
       /\ UNCHANGED slot
    \/ outcome = "invalid" /\ try[r] = 2 /\ emits' = Emit(r, "Error", pair) /\ Finished(r)

Returned(r, outcome, pair) ==
    \/ outcome = "valid" /\ emits' = Emit(r, "answer", pair) /\ Finished(r)
    \/ outcome = "error" /\ UNCHANGED emits /\ Finished(r)
    \/ /\ outcome = "invalid" /\ try[r] = 1
       /\ try' = [try EXCEPT ![r] = 2]
       /\ pc' = [pc EXCEPT ![r] = "call"]
       /\ UNCHANGED <<slot, emits>>
    \/ outcome = "invalid" /\ try[r] = 2 /\ emits' = Emit(r, "Error", pair) /\ Finished(r)

\* OllamaBackend and HttpBackend: a post that answers within 120 seconds or
\* fails, and a body whose field may be missing or malformed.
WebComplete(r) ==
    /\ pc[r] = "call" /\ backend[r] \in {"ollama", "http"}
    /\ \E outcome \in Outcomes : Returned(r, outcome, Pair(r))
    /\ UNCHANGED <<loading, inputs, ready, fired, reqId, nextId, bridge>>

\* The platform rings are made for one writer and one reader, and every router
\* with the platform backend gets a writer of one and a reader of the other.  Two
\* that push at once may leave one document, and a head or tail stored last may
\* take back what another has stored: a document popped by two, or once more.
Racing(r, place) == \E q \in Routers \ {r} : backend[q] = "platform" /\ pc[q] = place

\* PlatformBackend: the result of the send is ignored.
Ask(r) ==
    /\ pc[r] = "call" /\ backend[r] = "platform"
    /\ nextId' = nextId + 1
    /\ reqId' = [reqId EXCEPT ![r] = nextId]
    /\ reqs' \in (IF Len(reqs) < RingCap THEN {Append(reqs, [id |-> nextId, pair |-> Pair(r)])} ELSE {reqs})
                 \union (IF Racing(r, "call") THEN {reqs} ELSE {})
    /\ pc' = [pc EXCEPT ![r] = "await"]
    /\ UNCHANGED <<loading, inputs, latches, try, resps, host, emits>>

\* poll on the response ring, and the deadline that is looked at before it.
Wake(r) ==
    /\ pc[r] = "await" /\ resps # <<>>
    /\ pc' = [pc EXCEPT ![r] = "resp"]
    /\ UNCHANGED <<loading, inputs, latches, calls, bridge, emits>>

\* Mutation: the deadline is looked at only after a response has come.
DeadlineAfterResponse(r) ==
    /\ pc[r] = "await" /\ resps # <<>>
    /\ Returned(r, "error", Pair(r))
    /\ UNCHANGED <<loading, inputs, ready, fired, reqId, nextId, bridge>>

Deadline(r) ==
    /\ pc[r] = "await"
    /\ Returned(r, "error", Pair(r))
    /\ UNCHANGED <<loading, inputs, ready, fired, reqId, nextId, bridge>>

\* One recv of the inner loop: an answer without this request's id is thrown
\* away; extract_turtle_completion may find no completion in the right one.
\* Mutation: the next response is taken for the answer.
MineWhatever(r, answer) == answer.id > 0

Mine(r, answer) == answer.id = reqId[r]

TakeResponse(r) ==
    /\ pc[r] = "resp"
    /\ IF resps = <<>>
       THEN pc' = [pc EXCEPT ![r] = "await"] /\ UNCHANGED <<slot, try, emits, resps>>
       ELSE /\ resps' \in {Tail(resps)} \union (IF Racing(r, "resp") THEN {resps} ELSE {})
            /\ IF Mine(r, Head(resps))
               THEN Returned(r, Head(resps).outcome, Head(resps).pair)
               ELSE UNCHANGED <<pc, slot, try, emits>>
    /\ UNCHANGED <<loading, inputs, ready, fired, reqId, nextId, reqs, host>>

-----------------------------------------------------------------------------
\* The host, external: it reads a request, and answers it now, late or never.
HostReads ==
    /\ Wired /\ reqs # <<>>
    /\ host' = host \union {Head(reqs)}
    /\ reqs' = Tail(reqs)
    /\ UNCHANGED <<loading, inputs, latches, calls, resps, pc, emits>>

HostAnswers ==
    /\ Wired /\ Len(resps) < RingCap
    /\ \E q \in host, outcome \in Outcomes :
        /\ resps' = Append(resps, [id |-> q.id, pair |-> q.pair, outcome |-> outcome])
        /\ host' = host \ {q}
    /\ UNCHANGED <<loading, inputs, latches, calls, reqs, pc, emits>>

Thread(r) ==
    \/ Poll(r) \/ ConsumeClock(r) \/ Latch(r) \/ Fire(r)
    \/ WebComplete(r) \/ Ask(r) \/ Wake(r) \/ Deadline(r) \/ TakeResponse(r)

Next ==
    \/ \E r \in Routers : LoadRouter(r) \/ Thread(r)
    \/ \E r \in Routers, s \in Sides : Arrives(r, s)
    \/ HostReads \/ HostAnswers

Spec == Init /\ [][Next]_vars

\* The threads run, and the host, where there is one, reads what it is asked;
\* nobody is obliged to answer, to broadcast or to be quick.
FairSpec ==
    /\ Spec
    /\ \A r \in Routers : WF_vars(Thread(r))
    /\ WF_vars(HostReads)

-----------------------------------------------------------------------------
\* A router never uses a document twice: whenever it fires, both documents are
\* newer than those of its last firing, whatever became of that call (answered,
\* timed out, refused, retried) and whatever arrived while it was blocked in it.
FiresOnFresh ==
    [][\A r \in Routers, s \in Sides :
        fired'[r] # fired[r] \/ (pc[r] = "latch" /\ pc'[r] = "call")
            => fired'[r][s] > fired[r][s]]_vars

\* What a router emits was made from the pair it fired on, although an answer
\* may come after the 120 seconds, when the router already waits for the next.
AnswerIsForPair == \A i \in DOMAIN emits : emits[i].from = emits[i].on

\* At most one document is emitted for a firing: an answer, or the error after
\* the retry, and never an error followed by the answer.
OneEmitPerFiring ==
    \A i, j \in DOMAIN emits :
        emits[i].on = emits[j].on => i = j

\* When both inputs have taken in a document with the i-th number or a newer one,
\* the router fires on one such document, though the backend may never answer,
\* the request ring may be full, and newer documents replace those latched.
PairIsFired ==
    \A r \in Routers, i \in Docs \ {Empty} :
        (stage = "run" /\ \A s \in Sides : kept[r][s] >= i /\ fired[r][s] < i)
            ~> (\E s \in Sides : fired[r][s] >= i)

\* A request that a router has put on the ring is read by the host.
RequestIsRead ==
    \A id \in Ids :
        (\E i \in DOMAIN reqs : reqs[i].id = id) ~> ~(\E i \in DOMAIN reqs : reqs[i].id = id)

\* No router throws away an answer that another one is waiting for.
Awaits(r, id) == pc[r] \in {"await", "resp"} /\ reqId[r] = id
NoAnswerIsStolen ==
    [][\A r, q \in Routers :
        (r # q /\ pc[r] = "resp" /\ pc'[r] = "resp" /\ resps # <<>> /\ resps' # resps)
            => ~Awaits(q, Head(resps).id)]_vars
=============================================================================
