-------------------------- MODULE FfiHandle_proofs --------------------------
(***************************************************************************)
(* For every number of isolates, builds, batches and ring sizes: at most   *)
(* one AntennaContext is alive in the process and it is the one that holds *)
(* the libjami singleton, LIVE_HANDLE never names a freed handle, and a    *)
(* handle is freed only after its worker has gone.  With isolates that     *)
(* follow one another, what an isolate holds is never freed under it, and  *)
(* antenna_create is never refused the singleton.                          *)
(***************************************************************************)
EXTENDS FfiHandle, FiniteSetTheorems, TLAPS

-----------------------------------------------------------------------------
(* The inductive invariant. *)

HandleType ==
    /\ slot \in Builds \cup {None} /\ carrier \in Builds \cup {None}
    /\ built \in 0..MaxBuilds
    /\ pc \in [Hosts -> {"idle", "build", "carrier", "publish", "push", "clear",
                         "stop", "join"}]
    /\ held \in [Hosts -> Builds \cup {None}]
    /\ building \in [Hosts -> Builds \cup {None}]
    /\ freed \subseteq Builds
    /\ worker \in [Builds -> {"none", "loop", "iterate", "tick", "poison", "drop", "exited"}]

\* A host holds a handle exactly while its calls need one.
HoldsInCall ==
    \A h \in Hosts :
        /\ pc[h] \in {"push", "clear", "stop", "join"} => held[h] # None
        /\ pc[h] \in {"build", "carrier", "publish"} => held[h] = None

\* What is handed out has been built, and a build not begun has left no trace.
BuiltSoFar ==
    /\ slot # None => slot <= built
    /\ \A h \in Hosts : held[h] # None => held[h] <= built
    /\ \A b \in Builds : b > built => worker[b] = "none"

\* The build of an antenna_create in progress is that call's own.
Making(h) == pc[h] \in {"carrier", "publish"}
BuildIsOwn ==
    \A h \in Hosts : Making(h) =>
        /\ building[h] \in Builds /\ building[h] <= built
        /\ pc[h] = "carrier" => worker[building[h]] = "none"
        /\ pc[h] = "publish" => worker[building[h]] # "none"
        /\ slot # building[h] /\ building[h] \notin freed
        /\ \A g \in Hosts : held[g] # building[h]
        /\ \A g \in Hosts \ {h} : Making(g) => building[g] # building[h]

\* At most one context is alive, and it is the one that has the singleton:
\* carrier_new refuses a second one, and the drop of the context releases it.
OneContext == \A b \in Builds : carrier = b <=> worker[b] \notin {"none", "exited"}

\* The registry does not name a handle whose antenna_destroy has passed the
\* clearing of the registry, nor one that has been freed.
SlotIsLive ==
    slot # None =>
        /\ slot \notin freed
        /\ \A h \in Hosts : pc[h] \in {"stop", "join"} => held[h] # slot

\* The box of a handle goes only when its worker has ended.
FreedIsStopped == \A b \in freed : worker[b] = "exited"

HandleInv ==
    /\ HandleType /\ HoldsInCall /\ BuiltSoFar /\ BuildIsOwn
    /\ OneContext /\ SlotIsLive /\ FreedIsStopped

\* With one isolate at a time: what it holds is what the registry names, until
\* its own antenna_destroy clears the registry; and a context that is alive is
\* named by the registry, held, or being published.
Alone(h) ==
    /\ pc[h] \in {"idle", "push", "clear"} /\ held[h] # None => slot = held[h]
    /\ pc[h] \in {"stop", "join"} => slot = None /\ held[h] \notin freed
    /\ pc[h] \in {"build", "carrier", "publish"} => slot = None
    /\ carrier # None =>
        \/ carrier = slot
        \/ pc[h] \in {"stop", "join"} /\ carrier = held[h]
        \/ pc[h] = "publish" /\ carrier = building[h]

AloneInv == Cardinality(Hosts) = 1 => \A h \in Hosts : Alone(h)

USE DEF Builds, hostVars, ringVars, flagVars, Goto

-----------------------------------------------------------------------------
(* A host's steps. *)

\* A call that returns and leaves the handles alone keeps the invariant.
LEMMA ReturnKeeps ==
    ASSUME HandleInv, NEW h \in Hosts, pc' \in {pc, [pc EXCEPT ![h] = "idle"]},
           UNCHANGED <<slot, carrier, built, held, building, freed, worker>>
    PROVE  HandleInv'
<1>1. HandleType /\ HoldsInCall /\ BuiltSoFar /\ BuildIsOwn /\ OneContext /\ SlotIsLive
      /\ FreedIsStopped
  BY DEF HandleInv
<1>2. HandleType' /\ HoldsInCall' /\ BuiltSoFar' /\ OneContext' /\ SlotIsLive' /\ FreedIsStopped'
  BY <1>1 DEF HandleType, HoldsInCall, BuiltSoFar, OneContext, SlotIsLive, FreedIsStopped
<1>3. BuildIsOwn'
  BY <1>1 DEF HandleType, BuildIsOwn, Making
<1> QED BY <1>2, <1>3 DEF HandleInv

\* Dag::load takes the next build, which nobody has seen.
LEMMA LoadDagKeeps ==
    ASSUME HandleInv, NEW h \in Hosts, LoadDag(h)
    PROVE  HandleInv'
<1> USE FfiAssumption
<1>1. HandleType /\ HoldsInCall /\ BuiltSoFar /\ BuildIsOwn /\ OneContext /\ SlotIsLive
      /\ FreedIsStopped
  BY DEF HandleInv
<1>2. /\ built + 1 \in Builds /\ worker[built + 1] = "none" /\ slot # built + 1
      /\ built + 1 \notin freed /\ \A g \in Hosts : held[g] # built + 1
  <2>1. built \in Nat /\ built + 1 \in Builds /\ built + 1 > built
    BY <1>1 DEF LoadDag, HandleType
  <2>2. worker[built + 1] = "none"  BY <1>1, <2>1 DEF BuiltSoFar
  <2>3. slot # built + 1 /\ \A g \in Hosts : held[g] # built + 1
    <3>1. built + 1 # None /\ ~(built + 1 <= built)  BY <2>1
    <3> QED  BY <1>1, <3>1, Zenon DEF BuiltSoFar
  <2>4. built + 1 \notin freed  BY <1>1, <2>2 DEF FreedIsStopped
  <2> QED  BY <2>1, <2>2, <2>3, <2>4
<1>3. HandleType' /\ HoldsInCall' /\ BuiltSoFar'
  BY <1>1 DEF LoadDag, HandleType, HoldsInCall, BuiltSoFar
<1>4. BuildIsOwn'
  <2>1. ASSUME NEW g \in Hosts, pc'[g] \in {"carrier", "publish"}
        PROVE  IF g = h THEN pc'[g] = "carrier" /\ building'[g] = built + 1
                        ELSE pc'[g] = pc[g] /\ building'[g] = building[g] /\ Making(g)
    BY <1>1, <2>1 DEF LoadDag, HandleType, Making
  <2>2. ASSUME NEW g \in Hosts, Making(g) PROVE building[g] <= built /\ building[g] # built + 1
    BY <1>1, <2>2 DEF BuildIsOwn, HandleType
  <2>3. slot' = slot /\ held' = held /\ worker' = worker /\ freed' = freed /\ built' = built + 1
        /\ built \in Nat
    BY <1>1 DEF LoadDag, HandleType
  <2>4. ASSUME NEW g \in Hosts, pc'[g] \in {"carrier", "publish"}
        PROVE  /\ building'[g] \in Builds /\ building'[g] <= built'
               /\ pc'[g] = "carrier" => worker'[building'[g]] = "none"
               /\ pc'[g] = "publish" => worker'[building'[g]] # "none"
               /\ slot' # building'[g] /\ building'[g] \notin freed'
               /\ \A q \in Hosts : held'[q] # building'[g]
    <3>1. CASE g = h
      BY <1>2, <2>1, <2>3, <2>4, <3>1
    <3>2. CASE g # h
      <4>1. Making(g) /\ pc'[g] = pc[g] /\ building'[g] = building[g]
        BY <2>1, <2>4, <3>2
      <4> QED BY <1>1, <2>3, <4>1 DEF BuildIsOwn
    <3> QED BY <3>1, <3>2
  <2>5. ASSUME NEW g \in Hosts, NEW q \in Hosts \ {g}, pc'[g] \in {"carrier", "publish"},
               pc'[q] \in {"carrier", "publish"}
        PROVE  building'[q] # building'[g]
    <3>1. CASE g = h \/ q = h
      BY <2>1, <2>2, <2>5, <3>1
    <3>2. CASE g # h /\ q # h
      BY <1>1, <2>1, <2>5, <3>2 DEF BuildIsOwn
    <3> QED BY <3>1, <3>2
  <2> QED BY <2>4, <2>5 DEF BuildIsOwn, Making
<1>5. OneContext' /\ SlotIsLive' /\ FreedIsStopped'
  BY <1>1 DEF LoadDag, HandleType, OneContext, SlotIsLive, FreedIsStopped
<1> QED BY <1>3, <1>4, <1>5 DEF HandleInv

\* carrier_new gives the singleton only when no context is alive.
LEMMA StartCarrierKeeps ==
    ASSUME HandleInv, NEW h \in Hosts, StartCarrier(h)
    PROVE  HandleInv'
<1> USE FfiAssumption
<1>1. HandleType /\ HoldsInCall /\ BuiltSoFar /\ BuildIsOwn /\ OneContext /\ SlotIsLive
      /\ FreedIsStopped
  BY DEF HandleInv
<1>2. CASE carrier # None
  BY <1>2, ReturnKeeps DEF StartCarrier
<1>3. CASE carrier = None
  <2>1. /\ building[h] \in Builds /\ building[h] <= built /\ worker[building[h]] = "none"
        /\ building[h] \notin freed
    BY <1>1 DEF StartCarrier, BuildIsOwn, Making
  <2>2. HandleType' /\ HoldsInCall' /\ BuiltSoFar'
    BY <1>1, <1>3, <2>1 DEF StartCarrier, HandleType, HoldsInCall, BuiltSoFar
  <2>3. BuildIsOwn'
    BY <1>1, <1>3, <2>1 DEF StartCarrier, HandleType, BuildIsOwn, Making
  <2>4. OneContext' /\ SlotIsLive' /\ FreedIsStopped'
    BY <1>1, <1>3, <2>1 DEF StartCarrier, HandleType, OneContext, SlotIsLive, FreedIsStopped
  <2> QED BY <2>2, <2>3, <2>4 DEF HandleInv
<1> QED BY <1>2, <1>3

\* antenna_destroy frees what its worker, already joined, has left.
LEMMA DestroyKeeps ==
    ASSUME HandleInv, NEW h \in Hosts, DestroyClear(h) \/ DestroyStop(h) \/ DestroyJoin(h)
    PROVE  HandleInv'
<1> USE FfiAssumption
<1>1. HandleType /\ HoldsInCall /\ BuiltSoFar /\ BuildIsOwn /\ OneContext /\ SlotIsLive
      /\ FreedIsStopped
  BY DEF HandleInv
<1>2. CASE DestroyClear(h)
  BY <1>1, <1>2 
  DEF DestroyClear, HandleInv, HandleType, HoldsInCall, BuiltSoFar, BuildIsOwn, Making,
      OneContext, SlotIsLive, FreedIsStopped
<1>3. CASE DestroyStop(h)
  BY <1>1, <1>3 
  DEF DestroyStop, HandleInv, HandleType, HoldsInCall, BuiltSoFar, BuildIsOwn, Making,
      OneContext, SlotIsLive, FreedIsStopped
<1>4. CASE DestroyJoin(h)
  <2>1. HandleType' /\ HoldsInCall' /\ BuiltSoFar'
    BY <1>1, <1>4 DEF DestroyJoin, HandleType, HoldsInCall, BuiltSoFar
  <2>2. BuildIsOwn'
    BY <1>1, <1>4 DEF DestroyJoin, HandleType, BuildIsOwn, Making
  <2>3. OneContext' /\ SlotIsLive' /\ FreedIsStopped'
    BY <1>1, <1>4 DEF DestroyJoin, HandleType, OneContext, SlotIsLive, FreedIsStopped
  <2> QED BY <2>1, <2>2, <2>3 DEF HandleInv
<1> QED BY <1>2, <1>3, <1>4

\* Every step of a host keeps the invariant.
LEMMA HostKeeps ==
    ASSUME HandleInv, NEW h \in Hosts, HostInCall(h) \/ HostCalls(h)
    PROVE  HandleInv'
<1> USE FfiAssumption
<1>1. CASE CreateEnter(h)
  BY <1>1, SMTT(30) DEF CreateEnter, HandleInv, HandleType, HoldsInCall, BuiltSoFar, BuildIsOwn, Making,
       OneContext, SlotIsLive, FreedIsStopped
<1>2. CASE CreateFails(h)
  BY <1>2 DEF CreateFails, HandleInv, HandleType, HoldsInCall, BuiltSoFar, BuildIsOwn, Making,
       OneContext, SlotIsLive, FreedIsStopped
<1>3. CASE CreatePublish(h)
  BY <1>3 DEF CreatePublish, HandleInv, HandleType, HoldsInCall, BuiltSoFar, BuildIsOwn, Making,
       OneContext, SlotIsLive, FreedIsStopped
<1>4. CASE IsolateDies(h)
  BY <1>4 DEF IsolateDies, HandleInv, HandleType, HoldsInCall, BuiltSoFar, BuildIsOwn, Making,
       OneContext, SlotIsLive, FreedIsStopped
<1>5. CASE DestroyEnter(h)
  BY <1>5 DEF DestroyEnter, Usable, HandleInv, HandleType, HoldsInCall, BuiltSoFar, BuildIsOwn, Making,
       OneContext, SlotIsLive, FreedIsStopped
<1>6. CASE SendNext(h)
  BY <1>6 DEF SendNext, SendCheck, Usable, HandleInv, HandleType, HoldsInCall, BuiltSoFar, BuildIsOwn, Making,
       OneContext, SlotIsLive, FreedIsStopped
<1>7. CASE SendRetry(h)
  BY <1>7 DEF SendRetry, SendCheck, Usable, HandleInv, HandleType, HoldsInCall, BuiltSoFar, BuildIsOwn, Making,
       OneContext, SlotIsLive, FreedIsStopped
<1>8. CASE SendLine(h)
  BY <1>8, ReturnKeeps DEF SendLine
<1>9. CASE Drain(h)
  BY <1>9, SMTT(30) DEF Drain, Usable, HandleInv, HandleType, HoldsInCall, BuiltSoFar, BuildIsOwn, Making,
       OneContext, SlotIsLive, FreedIsStopped
<1> QED BY <1>1, <1>2, <1>3, <1>4, <1>5, <1>6, <1>7, <1>8, <1>9,
       LoadDagKeeps, StartCarrierKeeps, DestroyKeeps
       DEF HostInCall, HostCalls

-----------------------------------------------------------------------------
(* The worker. *)

\* A worker moves from state to state without ever coming back to life.
LEMMA WorkerKeeps ==
    ASSUME HandleInv, NEW b \in Builds, Worker(b)
    PROVE  HandleInv'
<1> USE FfiAssumption
<1>1. HandleType /\ HoldsInCall /\ BuiltSoFar /\ BuildIsOwn /\ OneContext /\ SlotIsLive
      /\ FreedIsStopped
  BY DEF HandleInv
<1>2. /\ UNCHANGED <<slot, built, pc, held, building, freed>>
      /\ \/ UNCHANGED <<worker, carrier>>
         \/ /\ worker[b] \notin {"none", "exited"} /\ UNCHANGED carrier
            /\ \E to \in {"loop", "iterate", "tick", "poison", "drop"} : worker' = [worker EXCEPT ![b] = to]
         \/ /\ worker[b] = "drop" /\ worker' = [worker EXCEPT ![b] = "exited"]
            /\ carrier' = IF carrier = b THEN None ELSE carrier
  BY DEF Worker, WorkerLoop, WorkerIterates, WorkerTickFails, WorkerDispatch, WorkerTickEnds, WorkerPanics, WorkerPoisons,
       WorkerDrops, Work
<1>3. HandleType' /\ BuiltSoFar'
  <2>1. HandleType'  BY <1>1, <1>2 DEF HandleType
  <2>2. BuiltSoFar'  BY <1>1, <1>2 DEF HandleType, BuiltSoFar
  <2> QED  BY <2>1, <2>2
<1>4. HoldsInCall' /\ SlotIsLive'
  BY <1>1, <1>2 DEF HoldsInCall, SlotIsLive
<1>5. FreedIsStopped'
  BY <1>1, <1>2 DEF HandleType, FreedIsStopped
<1>6. OneContext'
  <2>1. CASE UNCHANGED <<worker, carrier>>
    BY <1>1, <2>1 DEF OneContext
  <2>2. ASSUME NEW to \in {"loop", "iterate", "tick", "poison", "drop"},
               worker' = [worker EXCEPT ![b] = to], worker[b] \notin {"none", "exited"},
               UNCHANGED carrier
        PROVE  OneContext'
    <3>1. \A a \in Builds : worker'[a] \in {"none", "exited"} <=> worker[a] \in {"none", "exited"}
      BY <1>1, <2>2 DEF HandleType
    <3> QED  BY <1>1, <2>2, <3>1 DEF OneContext
  <2>3. CASE /\ worker[b] = "drop" /\ worker' = [worker EXCEPT ![b] = "exited"]
             /\ carrier' = IF carrier = b THEN None ELSE carrier
    <3>1. carrier = b  BY <1>1, <2>3 DEF OneContext
    <3>2. carrier' = None /\ \A a \in Builds : a # None  BY <2>3, <3>1
    <3>3. \A a \in Builds : worker'[a] = IF a = b THEN "exited" ELSE worker[a]
      BY <1>1, <2>3 DEF HandleType
    <3>4. \A a \in Builds \ {b} : worker[a] \in {"none", "exited"}  BY <1>1, <3>1 DEF OneContext
    <3> QED  BY <3>2, <3>3, <3>4 DEF OneContext
  <2> QED  BY <1>2, <2>1, <2>2, <2>3
<1>7. BuildIsOwn'
  BY <1>1, <1>2, SMTT(30) DEF HandleType, BuildIsOwn, Making
<1> QED BY <1>3, <1>4, <1>5, <1>6, <1>7 DEF HandleInv

-----------------------------------------------------------------------------
(* The invariant of all behaviours, and what it says. *)

\* A process before its first antenna_create.
LEMMA HandleInit == Init => HandleInv
  BY FfiAssumption DEF Init, HandleInv, HandleType, HoldsInCall, BuiltSoFar, BuildIsOwn, Making,
       OneContext, SlotIsLive, FreedIsStopped

\* Every step of hosts and workers keeps the invariant.
LEMMA HandleNext ==
    ASSUME HandleInv, [Next]_vars
    PROVE  HandleInv'
<1>1. CASE Next
  BY <1>1, HostKeeps, WorkerKeeps DEF Next
<1>2. CASE UNCHANGED vars
  BY <1>2 DEF vars, HandleInv, HandleType, HoldsInCall, BuiltSoFar, BuildIsOwn, Making,
       OneContext, SlotIsLive, FreedIsStopped
<1> QED BY <1>1, <1>2

\* Whatever the hosts do, the invariant holds.
THEOREM HandleInvariant == Spec => []HandleInv
  BY HandleInit, HandleNext, PTL DEF Spec

-----------------------------------------------------------------------------
(* Isolates that follow one another. *)

\* One isolate at a time: there is one host.
LEMMA OneHost ==
    ASSUME Cardinality(Hosts) = 1
    PROVE  \E h \in Hosts : Hosts = {h}
  BY FfiAssumption, FS_Singleton, Zenon

\* A context that is alive stays named, held or in the making.
LEMMA AloneNext ==
    ASSUME HandleInv, HandleInv', NEW h, Hosts = {h}, Alone(h), [Next]_vars
    PROVE  Alone(h)'
<1> USE FfiAssumption
<1>1. h \in Hosts /\ HandleType /\ HoldsInCall /\ BuildIsOwn /\ OneContext /\ SlotIsLive
      /\ OneContext'
  BY DEF HandleInv
<1>2. CASE UNCHANGED vars
  BY <1>2 DEF vars, Alone
<1>3. CASE \E b \in Builds : Worker(b)
  <2>1. UNCHANGED <<slot, pc, held, building, freed>> /\ carrier' \in {carrier, None}
    BY <1>3 DEF Worker, WorkerLoop, WorkerIterates, WorkerTickFails, WorkerDispatch, WorkerTickEnds, WorkerPanics,
         WorkerPoisons, WorkerDrops, Work
  <2> QED BY <2>1 DEF Alone
<1>4. CASE HostInCall(h)
  <2>1. CASE LoadDag(h) \/ CreateFails(h)
    BY <1>1, <2>1 DEF LoadDag, CreateFails, HandleType, HoldsInCall, Alone
  <2>2. CASE StartCarrier(h)
    BY <1>1, <2>2 DEF StartCarrier, HandleType, HoldsInCall, Alone
  <2>3. CASE CreatePublish(h)
    BY <1>1, <2>3 DEF CreatePublish, HandleType, Alone
  <2>4. CASE SendLine(h)
    <3>1. pc[h] = "push" /\ pc' \in {pc, [pc EXCEPT ![h] = "idle"]}
          /\ UNCHANGED <<slot, carrier, held, building, freed>>
      BY <2>4 DEF SendLine
    <3> QED BY <1>1, <3>1 DEF HandleType, Alone
  <2>5. CASE DestroyClear(h)
    BY <1>1, <2>5 DEF DestroyClear, HandleType, HoldsInCall, SlotIsLive, Alone
  <2>6. CASE DestroyStop(h)
    BY <1>1, <2>6 DEF DestroyStop, HandleType, Alone
  <2>7. CASE DestroyJoin(h)
    BY <1>1, <2>7 DEF DestroyJoin, HandleType, HoldsInCall, OneContext, Alone
  <2> QED BY <1>4, <2>1, <2>2, <2>3, <2>4, <2>5, <2>6, <2>7 DEF HostInCall
<1>5. CASE HostCalls(h)
  <2>1. CASE CreateEnter(h)
    BY <1>1, <2>1 DEF CreateEnter, HandleType, Alone
  <2>2. CASE IsolateDies(h) \/ DestroyEnter(h)
    BY <1>1, <2>2 DEF IsolateDies, DestroyEnter, Usable, HandleType, Alone
  <2>3. CASE SendNext(h) \/ SendRetry(h)
    BY <1>1, <2>3 DEF SendNext, SendRetry, SendCheck, Usable, HandleType, Alone
  <2>4. CASE Drain(h)
    BY <1>1, <2>4 DEF Drain, Alone
  <2> QED BY <1>5, <2>1, <2>2, <2>3, <2>4 DEF HostCalls
<1> QED BY <1>1, <1>2, <1>3, <1>4, <1>5 DEF Next

\* With isolates that follow one another the registry and the isolate agree.
THEOREM AloneInvariant == Spec => []AloneInv
<1>1. Init => AloneInv
  BY FfiAssumption DEF Init, AloneInv, Alone
<1>2. HandleInv /\ HandleInv' /\ AloneInv /\ [Next]_vars => AloneInv'
  <2> SUFFICES ASSUME HandleInv, HandleInv', AloneInv, [Next]_vars, Cardinality(Hosts) = 1,
                      NEW h \in Hosts
               PROVE  Alone(h)'
    BY DEF AloneInv
  <2>1. Hosts = {h} /\ Alone(h)
    BY OneHost DEF AloneInv
  <2> QED BY <2>1, AloneNext
<1> QED BY <1>1, <1>2, HandleInvariant, PTL DEF Spec

-----------------------------------------------------------------------------
(* What the C ABI promises. *)

\* However many isolates are inside antenna_create or antenna_destroy at once,
\* at most one AntennaContext is alive in the process: two overlapping creates
\* cannot end with two workers on one libjami.
THEOREM OneContextAlive == Spec => []OneContext
  BY HandleInvariant, PTL DEF HandleInv

\* However many isolates are inside the two calls at once, antenna_create never
\* rebinds to a handle that antenna_destroy has freed or, past its clearing of
\* the registry, is about to free.
THEOREM RebindIsLive == Spec => []SlotIsLive
  BY HandleInvariant, PTL DEF HandleInv

\* With isolates that follow one another, a handle that an isolate has got
\* from antenna_create and has not destroyed is not freed.
THEOREM HeldHandleIsLive == Cardinality(Hosts) = 1 /\ Spec => []HeldIsLive
<1>1. Cardinality(Hosts) = 1 /\ HandleInv /\ AloneInv => HeldIsLive
  BY DEF HandleInv, HandleType, HoldsInCall, SlotIsLive, AloneInv, Alone, HeldIsLive
<1>2. CASE Cardinality(Hosts) = 1
  BY <1>1, <1>2, HandleInvariant, AloneInvariant, PTL
<1> QED BY <1>2

\* With isolates that follow one another, antenna_create is never refused the
\* libjami singleton.
THEOREM CarrierIsFree == Spec => []CarrierFreeForCreate
<1>1. HandleInv /\ AloneInv => CarrierFreeForCreate
  BY FfiAssumption DEF HandleInv, HandleType, AloneInv, Alone, CarrierFreeForCreate
<1> QED BY <1>1, HandleInvariant, AloneInvariant, PTL
=============================================================================
