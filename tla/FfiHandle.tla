----------------------------- MODULE FfiHandle -----------------------------
(***************************************************************************)
(* The C ABI of src/src/ffi.rs: the process-global LIVE_HANDLE slot, the   *)
(* worker thread that owns an AntennaContext, poisoning after a panic,     *)
(* rebinding after a Flutter hot restart, and teardown.                    *)
(*                                                                         *)
(* A host is an isolate (or native thread) of the embedding application.   *)
(* A build is one pass of antenna_create through AntennaContext::new; it   *)
(* names the handle, worker, rings and node threads that pass creates.     *)
(* The rings are the FIFOs RingChannel implements: a push either succeeds  *)
(* or, after the bounded retry on a full ring, drops the message.          *)
(***************************************************************************)
EXTENDS Naturals, Sequences, FiniteSets

CONSTANTS
    Hosts,      \* isolates that call the ABI
    MaxBuilds,  \* bound on the builds of a behaviour
    MaxBatches, \* bound on the batches sent
    BatchLines, \* lines of one antenna_send
    MaxRetries, \* bound on the batches sent again
    InCap,      \* lines the IN ring holds
    OutCap,     \* documents the OUT ring holds
    None

ASSUME FfiAssumption ==
    /\ {MaxBuilds, MaxBatches, BatchLines, InCap, OutCap} \subseteq Nat \ {0}
    /\ MaxRetries \in Nat /\ IsFiniteSet(Hosts)
    /\ None \notin 1..MaxBuilds

Builds == 1..MaxBuilds
Lines == (1..MaxBatches) \X (1..BatchLines)

VARIABLES
    slot,       \* LIVE_HANDLE
    carrier,    \* build whose context holds the libjami singleton
    built,      \* builds begun
    pc, held,   \* per host: where it is in the ABI, the handle it owns
    building,   \* per host: the build of its antenna_create
    batch, nth, \* per host: batch being sent and lines of it pushed
    batches, retries, \* batches begun, and begun again
    freed,      \* builds whose handle antenna_destroy has freed
    done, poisoned, \* builds with the flag set
    worker,     \* per build: the worker thread
    nodes,      \* per build: its DAG node threads
    inq, outq,  \* per build: the rings
    accepted,   \* history: lines pushed, per build
    dispatched, \* history: times each line was dispatched
    sawError    \* history: builds whose antenna:Error was drained

hostVars == <<pc, held, building, batch, nth, batches, retries>>
ringVars == <<inq, outq, accepted, dispatched, sawError>>
flagVars == <<freed, done, poisoned>>
vars == <<slot, carrier, built, hostVars, flagVars, worker, nodes, ringVars>>

Init ==
    /\ slot = None /\ carrier = None /\ built = 0
    /\ pc = [h \in Hosts |-> "idle"]
    /\ held = [h \in Hosts |-> None]
    /\ building = [h \in Hosts |-> None]
    /\ batch = [h \in Hosts |-> 0] /\ nth = [h \in Hosts |-> 0]
    /\ batches = 0 /\ retries = 0
    /\ freed = {} /\ done = {} /\ poisoned = {}
    /\ worker = [b \in Builds |-> "none"]
    /\ nodes = [b \in Builds |-> "none"]
    /\ inq = [b \in Builds |-> <<>>]
    /\ outq = [b \in Builds |-> <<>>]
    /\ accepted = [b \in Builds |-> {}]
    /\ dispatched = [l \in Lines |-> 0]
    /\ sawError = {}

Goto(h, l) == pc' = [pc EXCEPT ![h] = l]
-----------------------------------------------------------------------------
(* antenna_create *)

\* Rebind under the lock when a handle is live; build otherwise.  The lock is
\* released before the build, so that calls of several isolates may overlap.
CreateEnter(h) ==
    /\ pc[h] = "idle" /\ held[h] = None
    /\ IF slot # None
       THEN held' = [held EXCEPT ![h] = slot] /\ UNCHANGED pc
       ELSE Goto(h, "build") /\ UNCHANGED held
    /\ UNCHANGED <<slot, carrier, built, building, batch, nth, batches, retries, flagVars,
                   worker, nodes, ringVars>>

\* Null: bad arguments, a store or pipeline that cannot be loaded, or, once
\* the node threads run, rings or a worker thread that cannot be had; then
\* the new context is dropped and the carrier with it.
CreateFails(h) ==
    /\ pc[h] \in {"build", "carrier"}
    /\ Goto(h, "idle")
    /\ UNCHANGED <<slot, carrier, built, held, building, batch, nth, batches, retries,
                   flagVars, worker, nodes, ringVars>>

\* Dag::load spawns the node threads before the carrier is created.  A node
\* thread fails to create its VM or loops for good; nothing waits for either.
LoadDag(h) ==
    /\ pc[h] = "build" /\ built < MaxBuilds
    /\ built' = built + 1
    /\ building' = [building EXCEPT ![h] = built + 1]
    /\ \E s \in {"looping", "exited"} : nodes' = [nodes EXCEPT ![built + 1] = s]
    /\ Goto(h, "carrier")
    /\ UNCHANGED <<slot, carrier, held, batch, nth, batches, retries, flagVars, worker, ringVars>>

\* carrier_new refuses while the singleton is taken; then create is null.
StartCarrier(h) ==
    /\ pc[h] = "carrier"
    /\ IF carrier = None
       THEN /\ carrier' = building[h]
            /\ worker' = [worker EXCEPT ![building[h]] = "loop"]
            /\ Goto(h, "publish")
       ELSE /\ Goto(h, "idle")
            /\ UNCHANGED <<carrier, worker>>
    /\ UNCHANGED <<slot, built, held, building, batch, nth, batches, retries, flagVars, nodes,
                   ringVars>>

CreatePublish(h) ==
    /\ pc[h] = "publish"
    /\ slot' = building[h]
    /\ held' = [held EXCEPT ![h] = building[h]]
    /\ Goto(h, "idle")
    /\ UNCHANGED <<carrier, built, building, batch, nth, batches, retries, flagVars, worker,
                   nodes, ringVars>>

\* A hot restart: the isolate dies and does not call antenna_destroy.
IsolateDies(h) ==
    /\ pc[h] = "idle" /\ held[h] # None
    /\ held' = [held EXCEPT ![h] = None]
    /\ batch' = [batch EXCEPT ![h] = 0]
    /\ UNCHANGED <<slot, carrier, built, pc, building, nth, batches, retries, flagVars,
                   worker, nodes, ringVars>>
-----------------------------------------------------------------------------
(* antenna_send and antenna_drain *)

Usable(h) == pc[h] = "idle" /\ held[h] # None

\* The poison check; a poisoned handle answers -4.
SendCheck(h, b) ==
    /\ Usable(h) /\ held[h] \notin poisoned
    /\ batch' = [batch EXCEPT ![h] = b] /\ nth' = [nth EXCEPT ![h] = 0]
    /\ Goto(h, "push")
    /\ UNCHANGED <<slot, carrier, built, held, building, flagVars, worker, nodes, ringVars>>

SendNext(h) ==
    /\ batches < MaxBatches /\ batches' = batches + 1
    /\ SendCheck(h, batches + 1)
    /\ UNCHANGED retries

\* The caller's answer to -3: the same batch again.
SendRetry(h) ==
    /\ batch[h] # 0 /\ nth[h] < BatchLines
    /\ retries < MaxRetries /\ retries' = retries + 1
    /\ SendCheck(h, batch[h])
    /\ UNCHANGED batches

\* push_turtle_lines: one ring entry per line; -3 as soon as one is refused.
SendLine(h) ==
    LET id == held[h]
        line == <<batch[h], nth[h] + 1>>
    IN  /\ pc[h] = "push" /\ nth[h] < BatchLines
        /\ IF Len(inq[id]) < InCap
           THEN /\ inq' = [inq EXCEPT ![id] = Append(@, line)]
                /\ accepted' = [accepted EXCEPT ![id] = @ \cup {line}]
                /\ nth' = [nth EXCEPT ![h] = @ + 1]
                /\ IF nth[h] + 1 = BatchLines THEN Goto(h, "idle") ELSE UNCHANGED pc
           ELSE /\ Goto(h, "idle")
                /\ UNCHANGED <<inq, accepted, nth>>
        /\ UNCHANGED <<slot, carrier, built, held, building, batch, batches, retries, flagVars,
                       worker, nodes, outq, dispatched, sawError>>

Drain(h) ==
    /\ Usable(h) /\ outq[held[h]] # <<>>
    /\ LET id == held[h]
       IN  /\ outq' = [outq EXCEPT ![id] = Tail(@)]
           /\ sawError' = IF Head(outq[id]) = "error" THEN sawError \cup {id} ELSE sawError
    /\ UNCHANGED <<slot, carrier, built, hostVars, flagVars, worker, nodes, inq,
                   accepted, dispatched>>
-----------------------------------------------------------------------------
(* antenna_destroy *)

DestroyEnter(h) ==
    /\ Usable(h)
    /\ Goto(h, "clear")
    /\ UNCHANGED <<slot, carrier, built, held, building, batch, nth, batches, retries, flagVars,
                   worker, nodes, ringVars>>

\* Faulty variant: the registry keeps naming the handle.
DestroyClearKeepsSlot(h) ==
    /\ pc[h] = "clear"
    /\ Goto(h, "stop")
    /\ UNCHANGED <<slot, carrier, built, held, building, batch, nth, batches, retries,
                   flagVars, worker, nodes, ringVars>>

DestroyClear(h) ==
    /\ pc[h] = "clear"
    /\ slot' = IF slot = held[h] THEN None ELSE slot
    /\ Goto(h, "stop")
    /\ UNCHANGED <<carrier, built, held, building, batch, nth, batches, retries, flagVars,
                   worker, nodes, ringVars>>

\* Faulty variant: the worker is joined but never told to stop.
DestroyStopForgotten(h) ==
    /\ pc[h] = "stop"
    /\ Goto(h, "join")
    /\ UNCHANGED <<slot, carrier, built, held, building, batch, nth, batches, retries,
                   flagVars, worker, nodes, ringVars>>

DestroyStop(h) ==
    /\ pc[h] = "stop"
    /\ done' = done \cup {held[h]}
    /\ Goto(h, "join")
    /\ UNCHANGED <<slot, carrier, built, held, building, batch, nth, batches, retries, freed,
                   poisoned, worker, nodes, ringVars>>

\* Faulty variant: the worker is detached instead of joined.
DestroyJoinDetaches(h) ==
    /\ pc[h] = "join"
    /\ freed' = freed \cup {held[h]}
    /\ held' = [held EXCEPT ![h] = None]
    /\ batch' = [batch EXCEPT ![h] = 0]
    /\ Goto(h, "idle")
    /\ UNCHANGED <<slot, carrier, built, building, nth, batches, retries, done,
                   poisoned, worker, nodes, ringVars>>

\* The join returns when the worker has dropped its context; the box goes.
DestroyJoin(h) ==
    /\ pc[h] = "join" /\ worker[held[h]] = "exited"
    /\ freed' = freed \cup {held[h]}
    /\ held' = [held EXCEPT ![h] = None]
    /\ batch' = [batch EXCEPT ![h] = 0]
    /\ Goto(h, "idle")
    /\ UNCHANGED <<slot, carrier, built, building, nth, batches, retries, done, poisoned,
                   worker, nodes, ringVars>>
-----------------------------------------------------------------------------
(* The worker thread. *)

Work(b, from, to) == worker[b] = from /\ worker' = [worker EXCEPT ![b] = to]

\* ChannelOut::send, which ignores that a full ring drops the document.
Emitted(q, doc) == IF Len(q) < OutCap THEN Append(q, doc) ELSE q

MayEmit(b) == \E emits \in BOOLEAN :
    outq' = IF emits THEN [outq EXCEPT ![b] = Emitted(@, "doc")] ELSE outq

\* done is read once per iteration, then poll waits for input or its timeout.
WorkerLoop(b) ==
    /\ \/ b \in done /\ Work(b, "loop", "drop")
       \/ b \notin done /\ Work(b, "loop", "iterate")
    /\ UNCHANGED <<slot, carrier, built, hostVars, flagVars, nodes, ringVars>>

\* The first half of tick, up to the carrier's events.
WorkerIterates(b) ==
    /\ Work(b, "iterate", "tick") /\ MayEmit(b)
    /\ UNCHANGED <<slot, carrier, built, hostVars, flagVars, nodes, inq, accepted, dispatched,
                   sawError>>

\* carrier_iterate fails: tick returns before it looks at IN, the worker logs
\* the error and goes on.
WorkerTickFails(b) ==
    /\ Work(b, "iterate", "loop")
    /\ UNCHANGED <<slot, carrier, built, hostVars, flagVars, nodes, ringVars>>

\* tick dispatches a queued line, which may emit a document.
WorkerDispatch(b) ==
    /\ worker[b] = "tick" /\ inq[b] # <<>>
    /\ inq' = [inq EXCEPT ![b] = Tail(@)]
    /\ dispatched' = [dispatched EXCEPT ![Head(inq[b])] = @ + 1]
    /\ MayEmit(b)
    /\ UNCHANGED <<slot, carrier, built, hostVars, flagVars, worker, nodes, accepted,
                   sawError>>

WorkerTickEnds(b) ==
    /\ inq[b] = <<>> /\ Work(b, "tick", "loop")
    /\ UNCHANGED <<slot, carrier, built, hostVars, flagVars, nodes, ringVars>>

\* Faulty variant: the panic ends the thread without poisoning the handle.
WorkerPanicsSilently(b) ==
    /\ Work(b, "iterate", "drop") \/ Work(b, "tick", "drop")
    /\ UNCHANGED <<slot, carrier, built, hostVars, flagVars, nodes, ringVars>>

\* A panic in tick: the Error document first, then the poison flag.
WorkerPanics(b) ==
    /\ Work(b, "iterate", "poison") \/ Work(b, "tick", "poison")
    /\ outq' = [outq EXCEPT ![b] = Emitted(@, "error")]
    /\ UNCHANGED <<slot, carrier, built, hostVars, flagVars, nodes, inq, accepted,
                   dispatched, sawError>>

WorkerPoisons(b) ==
    /\ Work(b, "poison", "drop")
    /\ poisoned' = poisoned \cup {b}
    /\ UNCHANGED <<slot, carrier, built, hostVars, freed, done, nodes, ringVars>>

\* The closure ends: the context is dropped and with it the carrier.
WorkerDrops(b) ==
    /\ Work(b, "drop", "exited")
    /\ carrier' = IF carrier = b THEN None ELSE carrier
    /\ UNCHANGED <<slot, built, hostVars, flagVars, nodes, ringVars>>
-----------------------------------------------------------------------------
HostInCall(h) ==
    \/ LoadDag(h) \/ StartCarrier(h) \/ CreatePublish(h) \/ CreateFails(h)
    \/ SendLine(h)
    \/ DestroyClear(h) \/ DestroyStop(h) \/ DestroyJoin(h)

HostCalls(h) ==
    \/ CreateEnter(h) \/ IsolateDies(h) \/ SendNext(h) \/ SendRetry(h)
    \/ Drain(h) \/ DestroyEnter(h)

Worker(b) ==
    \/ WorkerLoop(b) \/ WorkerIterates(b) \/ WorkerTickFails(b)
    \/ WorkerDispatch(b) \/ WorkerTickEnds(b)
    \/ WorkerPanics(b) \/ WorkerPoisons(b) \/ WorkerDrops(b)

Next ==
    \/ \E h \in Hosts : HostInCall(h) \/ HostCalls(h)
    \/ \E b \in Builds : Worker(b)

Spec == Init /\ [][Next]_vars

\* A call in progress and the worker keep running; hosts call when they like.
RunningSpec ==
    /\ Spec
    /\ \A h \in Hosts : WF_vars(HostInCall(h))
    /\ \A b \in Builds : WF_vars(Worker(b))

\* The same with a libjami whose iterate does not fail for ever, which nothing
\* in the code makes sure of.
FairSpec == RunningSpec /\ \A b \in Builds : SF_vars(WorkerIterates(b))

\* A host that also keeps draining.
DrainingSpec == FairSpec /\ \A h \in Hosts : WF_vars(Drain(h))
-----------------------------------------------------------------------------
TypeOK ==
    /\ slot \in Builds \cup {None} /\ carrier \in Builds \cup {None}
    /\ built \in 0..MaxBuilds
    /\ pc \in [Hosts -> {"idle", "build", "carrier", "publish", "push", "clear",
                         "stop", "join"}]
    /\ held \in [Hosts -> Builds \cup {None}]
    /\ building \in [Hosts -> Builds \cup {None}]
    /\ batch \in [Hosts -> 0..MaxBatches] /\ nth \in [Hosts -> 0..BatchLines]
    /\ batches \in 0..MaxBatches /\ retries \in 0..MaxRetries
    /\ freed \subseteq Builds /\ done \subseteq Builds /\ poisoned \subseteq Builds
    /\ worker \in [Builds -> {"none", "loop", "iterate", "tick", "poison", "drop", "exited"}]
    /\ nodes \in [Builds -> {"none", "looping", "exited"}]
    /\ \A b \in Builds : inq[b] \in Seq(Lines) /\ Len(inq[b]) <= InCap
    /\ \A b \in Builds : outq[b] \in Seq({"doc", "error"}) /\ Len(outq[b]) <= OutCap
    /\ accepted \in [Builds -> SUBSET Lines]
    /\ dispatched \in [Lines -> 0..(MaxRetries + 1)]
    /\ sawError \subseteq Builds

\* A handle a host got from antenna_create and has not destroyed is not freed.
HeldIsLive == \A h \in Hosts : held[h] # None => held[h] \notin freed

\* With isolates that follow one another, antenna_create is never refused
\* the libjami singleton: an orphaned context is rebound, and one that was
\* destroyed has gone before antenna_destroy returns.
CarrierFreeForCreate ==
    Cardinality(Hosts) = 1 => \A h \in Hosts : pc[h] = "carrier" => carrier = None

\* antenna_destroy returns: the worker it joins always sees done.
DestroyReturns ==
    \A h \in Hosts : pc[h] \in {"clear", "stop", "join"} ~> pc[h] = "idle"

\* A line antenna_send accepted is dispatched, unless the worker panics and
\* says so through the poison flag, or the handle is being destroyed.  Ticks
\* that fail delay it; if they all do, the line waits for ever and the host is
\* told nothing.
AcceptedIsDispatched ==
    \A b \in Builds : \A l \in Lines :
        l \in accepted[b] ~> dispatched[l] > 0 \/ b \in poisoned \cup done

\* Once a handle is poisoned antenna_send takes no further input.
PoisonedRejects == [][\A b \in poisoned : accepted'[b] = accepted[b]]_vars

\* A host that drains a poisoned handle gets to see the antenna:Error.
PanicReported ==
    \A b \in Builds :
        b \in poisoned ~> b \in sawError \/ \A h \in Hosts : held[h] # b

\* antenna_create hands out a handle whose worker runs.
CreateGivesRunningWorker ==
    [][\A h \in Hosts :
        held[h] = None /\ held'[h] # None => worker[held'[h]] \in {"loop", "iterate", "tick"}]_vars

\* Once a handle is freed, its node threads come to an end.
NodeThreadsEnd == \A b \in Builds : b \in freed ~> nodes[b] # "looping"

\* No line is dispatched twice.
DispatchedOnce == \A l \in Lines : dispatched[l] <= 1
=============================================================================
