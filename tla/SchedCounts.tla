---------------------------- MODULE SchedCounts ----------------------------
(***************************************************************************)
(* Theorems about the number of models the scheduler loads, its assertion, *)
(* its reference counts and its keep-alive timers, for any number of       *)
(* requests, models and runners.                                           *)
(***************************************************************************)
EXTENDS SchedProofs

-----------------------------------------------------------------------------
(* Which steps change what *)

(* Only load and the unloading of an expired runner change the map. *)
LEMMA LoadedFrame ==
    ASSUME [Next]_vars
    PROVE  loaded' = loaded \/ PendLoaded \/ CompUnload
<1>1. ASSUME NEW q \in Req, Client(q) PROVE loaded' = loaded
  BY <1>1 DEF Client, GetRunner, GetRunnerCheck, GetRunnerUse, GetRunnerEnqueue, ContextDone, Finished, maps
<1>2. ASSUME NEW r \in Runner, RunnerStep(r) PROVE loaded' = loaded
  BY <1>2 DEF RunnerStep, LoaderReady, LoaderFails, LoaderSend, TimerFires, TimerLocks, TimerSend,
              Requeue, maps
<1>3. CASE Pending
  BY <1>3 DEF Pending, PendTake, PendLook, PendCheck, PendUse, PendFit, PendFitFails, PendFree,
            PendSpawn, PendSpawnFails, PendSpawnAgain, PendNeedEvict, PendLoadFails, PendFind,
            PendScan, PendExpire, PendSend, PendUnloaded, PendIgnore, PendExit, maps
<1>4. CASE Completed
  BY <1>4 DEF Completed, CompFinished, CompRelease, CompSend, CompTakeExpired, CompBusy,
            CompDuplicate, CompOrphan, CompRecovered, CompSendUnloaded, CompExit, maps
<1>5. CASE Unloading \/ Resting \/ Stop \/ UNCHANGED vars
  BY <1>5 DEF Unloading, ExpireRunner, ExpireRunnerLock, ExpireRunnerSend, Resting, vars, maps,
              Stop, Shutdown, UnloadAllRunners, Exit
<1> QED BY <1>1, <1>2, <1>3, <1>4, <1>5 DEF Next

(* Only processPending changes its own locals. *)
LEMMA PendFrame == ASSUME [Next]_vars PROVE pend' = pend \/ Pending
<1>1. ASSUME NEW q \in Req, Client(q) PROVE pend' = pend
  BY <1>1 DEF Client, GetRunner, GetRunnerCheck, GetRunnerUse, GetRunnerEnqueue, ContextDone, Finished
<1>2. ASSUME NEW r \in Runner, RunnerStep(r) PROVE pend' = pend
  BY <1>2 DEF RunnerStep, LoaderReady, LoaderFails, LoaderSend, TimerFires, TimerLocks, TimerSend, Requeue
<1>3. CASE Completed
  BY <1>3 DEF Completed, CompFinished, CompRelease, CompSend, CompTakeExpired, CompBusy,
            CompDuplicate, CompOrphan, CompUnload, CompRecovered, CompSendUnloaded, CompExit
<1>4. CASE Unloading \/ Resting \/ Stop \/ UNCHANGED vars
  BY <1>4 DEF Unloading, ExpireRunner, ExpireRunnerLock, ExpireRunnerSend, Resting, vars,
              Stop, Shutdown, UnloadAllRunners, Exit
<1> QED BY <1>1, <1>2, <1>3, <1>4 DEF Next

(* Where the program counter of processPending goes *)
PendGoes ==
    \/ pend'.pc \in {"idle", "exit"}
    \/ pend'.pc = "look" /\ pend.pc \in {"idle", "find", "wait"}
    \/ pend'.pc = "fit" /\ PendLook /\ ~AtMaxRunners
    \/ pend'.pc \in {"check", "find"} /\ pend.pc = "look"
    \/ pend'.pc \in {"use", "expire"} /\ pend.pc = "check"
    \/ pend'.pc = "free" /\ pend.pc \in {"fit", "free"}
    \/ pend'.pc = "spawn" /\ pend.pc \in {"free", "spawn"}
    \/ pend'.pc = "load" /\ pend.pc \in {"spawn", "load"}
    \/ pend'.pc = "find" /\ pend.pc = "load"
    \/ pend'.pc = "scan" /\ pend.pc \in {"find", "scan"}
    \/ pend'.pc = "expire" /\ pend.pc = "scan"
    \/ pend'.pc = "send" /\ pend.pc = "expire"
    \/ pend'.pc = "wait" /\ pend.pc \in {"expire", "send"}

LEMMA PendPath == ASSUME TypeOK, Pending PROVE PendGoes
<1>ty. pend \in PendType
  BY DEF TypeOK, PendOK
<1>1. CASE PendTake
  BY <1>1, <1>ty DEF PendTake, PendAt, PendType, PendGoes
<1>2. CASE PendLook
  BY <1>2, <1>ty DEF PendLook, PendAt, PendType, PendGoes
<1>3. CASE PendCheck
  BY <1>3, <1>ty DEF PendCheck, PendAt, PendType, PendGoes
<1>4. CASE PendFit
  BY <1>4, <1>ty DEF PendFit, PendAt, PendType, PendGoes
<1>5. CASE PendFree
  BY <1>5, <1>ty DEF PendFree, PendAt, PendType, PendGoes
<1>6. CASE PendSpawn
  BY <1>6, <1>ty DEF PendSpawn, PendAt, PendType, PendGoes
<1>7. CASE PendSpawnAgain
  BY <1>7, <1>ty DEF PendSpawnAgain, PendAt, PendType, PendGoes
<1>8. CASE PendNeedEvict
  BY <1>8, <1>ty DEF PendNeedEvict, PendAt, PendType, PendGoes
<1>9. CASE PendLoadFails
  BY <1>9, <1>ty DEF PendLoadFails, PendAt, PendType, PendGoes, IdlePend
<1>10. CASE PendFind
  BY <1>10, <1>ty DEF PendFind, PendAt, PendType, PendGoes
<1>11. CASE PendScan
  BY <1>11, <1>ty DEF PendScan, PendAt, PendType, PendGoes
<1>12. CASE PendExpire \/ PendSend \/ PendUnloaded
  BY <1>12, <1>ty DEF PendExpire, PendSend, PendUnloaded, PendAt, PendType, PendGoes
<1>13. CASE PendUse \/ PendFitFails \/ PendSpawnFails \/ PendLoaded \/ PendIgnore \/ PendExit
  BY <1>13, <1>ty DEF PendUse, PendFitFails, PendSpawnFails, PendLoaded, PendIgnore, PendExit, IdlePend,
                      PendAt, PendType, PendGoes
<1> QED BY <1>1, <1>2, <1>3, <1>4, <1>5, <1>6, <1>7, <1>8, <1>9, <1>10, <1>11, <1>12, <1>13 DEF Pending

-----------------------------------------------------------------------------
(* The number of loaded models *)

LoadedModels == {m \in Model : loaded[m] # NoRunner}

(* The room that PendLook found is still there when the runner is          *)
(* installed: only processPending adds runners, and it adds one.           *)
RoomInv ==
    /\ IsFiniteSet(LoadedModels)
    /\ LoadedCount <= MaxRunners
    /\ pend.pc \in Loading => LoadedCount < MaxRunners

LEMMA InitR == Init => RoomInv
<1> SUFFICES ASSUME Init PROVE RoomInv
  OBVIOUS
<1>1. LoadedModels = {}
  BY DEF Init, LoadedModels
<1>2. IsFiniteSet(LoadedModels) /\ LoadedCount = 0
  BY <1>1, FS_EmptySet DEF LoadedCount, LoadedModels
<1> QED BY <1>2, BoundAssumption DEF RoomInv, Init, IdlePend, Loading

LEMMA NextR == ASSUME SchedInv, RoomInv, [Next]_vars PROVE RoomInv'
<1>ty. TypeOK /\ MapsOK
  BY DEF SchedInv, TypeOK
<1>max. MaxRunners \in Nat
  BY BoundAssumption
<1>count. LoadedCount = Cardinality(LoadedModels) /\ LoadedCount \in Nat
  BY FS_CardinalityType DEF LoadedCount, LoadedModels, RoomInv
<1>1. CASE PendLoaded
  <2>1. pend.pc = "load" /\ pend'.pc = "idle" /\ loaded' = [loaded EXCEPT ![PModel] = pend.runner]
    BY <1>1 DEF PendLoaded, PendAt, IdlePend
  <2>2. PModel \in Model /\ pend.runner \in Runner
    BY <1>ty, <2>1 DEF TypeOK, PendOK, ReqOK, RequestType, CallType, PModel
  <2>3. loaded[PModel] = NoRunner /\ pend.runner # NoRunner
    BY <2>1, <2>2 DEF SchedInv, LoadInv, PendingInv, Loading, Runner, NoRunner
  <2>4. LoadedModels' = LoadedModels \cup {PModel} /\ PModel \notin LoadedModels
    BY <1>ty, <2>1, <2>2, <2>3 DEF LoadedModels, MapsOK
  <2>5. IsFiniteSet(LoadedModels') /\ Cardinality(LoadedModels') = Cardinality(LoadedModels) + 1
    BY <2>4, FS_AddElement DEF RoomInv
  <2>6. LoadedCount < MaxRunners /\ LoadedCount' = Cardinality(LoadedModels')
    BY <2>1 DEF RoomInv, Loading, LoadedCount, LoadedModels
  <2> QED BY <1>max, <1>count, <2>1, <2>5, <2>6 DEF RoomInv, Loading
<1>2. CASE CompUnload
  <2>1. pend' = pend /\ loaded' = [loaded EXCEPT ![srv[comp.runner].path] = NoRunner]
    BY <1>2 DEF CompUnload
  <2>2. LoadedModels' \subseteq LoadedModels
    BY <1>ty, <2>1 DEF LoadedModels, MapsOK
  <2>3. IsFiniteSet(LoadedModels') /\ Cardinality(LoadedModels') <= Cardinality(LoadedModels)
    BY <2>2, FS_Subset DEF RoomInv
  <2>4. LoadedCount' = Cardinality(LoadedModels') /\ Cardinality(LoadedModels') \in Nat
    BY <2>3, FS_CardinalityType DEF LoadedCount, LoadedModels
  <2> QED BY <1>max, <1>count, <2>1, <2>3, <2>4 DEF RoomInv
<1>3. CASE loaded' = loaded
  <2>1. LoadedModels' = LoadedModels /\ LoadedCount' = LoadedCount
    BY <1>3 DEF LoadedModels, LoadedCount
  <2>2. pend'.pc \in Loading => LoadedCount < MaxRunners
    <3>1. CASE Pending
      <4>1. PendGoes
        BY <3>1, <1>ty, PendPath
      <4>2. pend'.pc \in Loading => pend.pc \in Loading \/ ~AtMaxRunners
        BY <4>1 DEF PendGoes, Loading
      <4> QED BY <4>2, <1>max, <1>count DEF RoomInv, AtMaxRunners
    <3> QED BY <3>1, PendFrame DEF RoomInv
  <2> QED BY <2>1, <2>2 DEF RoomInv
<1> QED BY <1>1, <1>2, <1>3, LoadedFrame

(* OLLAMA_MAX_LOADED_MODELS is never exceeded, although the count is taken *)
(* long before the runner is installed and loadedMu is released in between.*)
THEOREM MaxRunnersRespected == Spec => []WithinMaxRunners
<1>1. Init => RoomInv
  BY InitR
<1>2. SchedInv /\ RoomInv /\ [Next]_vars => RoomInv'
  BY NextR
<1>3. RoomInv => WithinMaxRunners
  BY DEF RoomInv, WithinMaxRunners
<1> QED BY <1>1, <1>2, <1>3, SchedInvariant, PTL DEF Spec

-----------------------------------------------------------------------------
(* The assertion in load *)

(* A subprocess keeps the model it was spawned for. *)
PathsKeep == \A r \in Runner : srv'[r].path = srv[r].path

LEMMA PathFrame == ASSUME TypeOK, [Next]_vars PROVE PathsKeep \/ PendSpawn
<1>ty. MapsOK
  BY DEF TypeOK
<1>close. ASSUME NEW r, srv' = [srv EXCEPT ![r].state = "closed"] PROVE PathsKeep
  BY <1>close, <1>ty DEF MapsOK, PathsKeep
<1>same. ASSUME srv' = srv PROVE PathsKeep
  BY <1>same DEF PathsKeep
<1>1. ASSUME NEW q \in Req, Client(q) PROVE srv' = srv
  BY <1>1 DEF Client, GetRunner, GetRunnerCheck, GetRunnerUse, GetRunnerEnqueue, ContextDone, Finished, maps
<1>2. ASSUME NEW r \in Runner, RunnerStep(r) PROVE srv' = srv
  BY <1>2 DEF RunnerStep, LoaderReady, LoaderFails, LoaderSend, TimerFires, TimerLocks, TimerSend,
              Requeue, maps
<1>3. CASE Pending
  <2>1. CASE PendLoaded
    BY <2>1, <1>ty DEF PendLoaded, MapsOK, PathsKeep
  <2>2. CASE PendLoadFails
    BY <2>2, <1>close, <1>same DEF PendLoadFails
  <2> QED BY <1>3, <1>same, <2>1, <2>2
          DEF Pending, PendTake, PendLook, PendCheck, PendUse, PendFit, PendFitFails, PendFree,
              PendSpawnFails, PendSpawnAgain, PendNeedEvict, PendFind, PendScan, PendExpire,
              PendSend, PendUnloaded, PendIgnore, PendExit, maps
<1>4. CASE Completed
  <2>1. CASE CompOrphan \/ CompUnload
    BY <2>1, <1>close DEF CompOrphan, CompUnload, Close
  <2> QED BY <1>4, <1>same, <2>1
          DEF Completed, CompFinished, CompRelease, CompSend, CompTakeExpired, CompBusy,
              CompDuplicate, CompRecovered, CompSendUnloaded, CompExit, maps
<1>5. CASE UnloadAllRunners
  BY <1>5, <1>ty DEF UnloadAllRunners, MapsOK, PathsKeep
<1>6. CASE Unloading \/ Resting \/ Shutdown \/ Exit \/ UNCHANGED vars
  BY <1>6, <1>same DEF Unloading, ExpireRunner, ExpireRunnerLock, ExpireRunnerSend, Resting, vars, maps,
              Shutdown, Exit
<1> QED BY <1>1, <1>2, <1>3, <1>4, <1>5, <1>6, <1>same DEF Next, Stop

(* Only processPending changes activeLoading, until the shutdown. *)
LEMMA ActiveFrame ==
    ASSUME [Next]_vars
    PROVE  \/ activeLoading' = activeLoading
           \/ activeLoading' = NoRunner
           \/ PendSpawn
<1>1. ASSUME NEW q \in Req, Client(q) PROVE activeLoading' = activeLoading
  BY <1>1 DEF Client, GetRunner, GetRunnerCheck, GetRunnerUse, GetRunnerEnqueue, ContextDone, Finished, maps
<1>2. ASSUME NEW r \in Runner, RunnerStep(r) PROVE activeLoading' = activeLoading
  BY <1>2 DEF RunnerStep, LoaderReady, LoaderFails, LoaderSend, TimerFires, TimerLocks, TimerSend,
              Requeue, maps
<1>3. CASE Pending
  BY <1>3 DEF Pending, PendTake, PendLook, PendCheck, PendUse, PendFit, PendFitFails, PendFree,
              PendSpawnFails, PendSpawnAgain, PendLoaded, PendNeedEvict, PendLoadFails, PendFind,
              PendScan, PendExpire, PendSend, PendUnloaded, PendIgnore, PendExit, maps
<1>4. CASE Completed
  BY <1>4 DEF Completed, CompFinished, CompRelease, CompSend, CompTakeExpired, CompBusy,
            CompDuplicate, CompOrphan, CompUnload, CompRecovered, CompSendUnloaded, CompExit, maps
<1>5. CASE Unloading \/ Resting \/ Stop \/ UNCHANGED vars
  BY <1>5 DEF Unloading, ExpireRunner, ExpireRunnerLock, ExpireRunnerSend, Resting, vars, maps,
              Stop, Shutdown, UnloadAllRunners, Exit
<1> QED BY <1>1, <1>2, <1>3, <1>4, <1>5 DEF Next

(* processPending works on one request at a time. *)
LEMMA PendReq ==
    ASSUME TypeOK, Pending, pend.pc \notin {"idle", "exit"}
    PROVE  pend'.pc \in {"idle", "exit"} \/ pend'.req = pend.req
<1>ty. pend \in PendType
  BY DEF TypeOK, PendOK
<1>1. CASE PendLook \/ PendCheck \/ PendFit \/ PendFree \/ PendSpawn \/ PendSpawnAgain
  BY <1>1, <1>ty DEF PendLook, PendCheck, PendFit, PendFree, PendSpawn, PendSpawnAgain, PendType
<1>2. CASE PendNeedEvict \/ PendFind \/ PendScan
  BY <1>2, <1>ty DEF PendNeedEvict, PendFind, PendScan, PendType
<1>5. CASE PendLoadFails
  <2>1. pend' \in {pend, IdlePend}
    BY <1>5 DEF PendLoadFails
  <2> QED BY <2>1 DEF IdlePend
<1>3. CASE PendExpire \/ PendSend \/ PendUnloaded
  BY <1>3, <1>ty DEF PendExpire, PendSend, PendUnloaded, PendType
<1>4. CASE PendUse \/ PendFitFails \/ PendSpawnFails \/ PendLoaded \/ PendIgnore \/ PendExit \/ PendTake
  BY <1>4 DEF PendUse, PendFitFails, PendSpawnFails, PendLoaded, PendIgnore, PendExit, PendTake, PendAt,
              IdlePend
<1> QED BY <1>1, <1>2, <1>3, <1>4, <1>5 DEF Pending

(* When the model files stay and the server is not stopped: a server that  *)
(* waits to be loaded is for the request that processPending works on, all *)
(* the way from the load that needed room, over the eviction, back to the  *)
(* load.                                                                   *)
Evicting == {"look", "fit", "free", "spawn", "load", "find", "scan", "expire", "send", "wait"}
Waiting ==
    activeLoading # NoRunner =>
        /\ pend.pc \in Evicting
        /\ srv[activeLoading].path = PModel
        /\ loaded[PModel] = NoRunner
PanicInv == ~FileMayVanish /\ ~MayStop => life = "up" /\ Waiting

LEMMA InitP == Init => PanicInv
BY DEF Init, PanicInv, Waiting

LEMMA NextP == ASSUME SchedInv, PanicInv, [Next]_vars PROVE PanicInv'
<1> SUFFICES ASSUME ~FileMayVanish, ~MayStop PROVE life' = "up" /\ Waiting'
  BY DEF PanicInv
<1>ty. TypeOK /\ OwnerInv /\ MapsOK /\ PendOK
  BY DEF SchedInv, TypeOK
<1>inv. life = "up" /\ Waiting
  BY DEF PanicInv
<1>act. activeLoading \in RefOrNone
  BY <1>ty DEF MapsOK
<1>1. life' = "up"
  <2>1. CASE PendSpawnAgain
    BY <2>1, <1>inv DEF PendSpawnAgain, Waiting
  <2>2. CASE PendLoadFails
    <3>1. pend.runner = activeLoading /\ pend.runner \in Runner
      BY <2>2, <1>ty, <1>inv DEF PendLoadFails, PendAt, SchedInv, LoadInv, PendingInv, Stopping, PendOK
    <3> QED BY <2>2, <1>inv, <3>1 DEF PendLoadFails, Runner, NoRunner
  <2>3. ASSUME NEW q \in Req, Client(q) PROVE life' = life
    BY <2>3 DEF Client, GetRunner, GetRunnerCheck, GetRunnerUse, GetRunnerEnqueue, ContextDone, Finished
  <2>4. ASSUME NEW r \in Runner, RunnerStep(r) PROVE life' = life
    BY <2>4 DEF RunnerStep, LoaderReady, LoaderFails, LoaderSend, TimerFires, TimerLocks, TimerSend, Requeue
  <2>5. CASE Pending
    BY <2>1, <2>2, <2>5, <1>inv
       DEF Pending, PendTake, PendLook, PendCheck, PendUse, PendFit, PendFitFails, PendFree,
           PendSpawn, PendSpawnFails, PendLoaded, PendNeedEvict, PendFind, PendScan, PendExpire,
           PendSend, PendUnloaded, PendIgnore, PendExit
  <2>6. CASE Completed
    BY <2>6, <1>inv DEF Completed, CompFinished, CompRelease, CompSend, CompTakeExpired, CompBusy,
            CompDuplicate, CompOrphan, CompUnload, CompRecovered, CompSendUnloaded, CompExit
  <2>7. CASE Unloading \/ Resting \/ Stop \/ UNCHANGED vars
    BY <2>7, <1>inv DEF Unloading, ExpireRunner, ExpireRunnerLock, ExpireRunnerSend, Resting, vars,
              Stop, Shutdown, UnloadAllRunners, Exit
  <2> QED BY <2>3, <2>4, <2>5, <2>6, <2>7, <1>inv DEF Next
<1>2. CASE activeLoading' = NoRunner
  BY <1>1, <1>2 DEF Waiting
<1>3. CASE PendSpawn
  <2>1. /\ pend.pc = "spawn" /\ loaded' = loaded /\ activeLoading' = spawned + 1
        /\ srv' = [srv EXCEPT ![spawned + 1] = [state |-> "open", path |-> PModel]]
        /\ pend' = [pend EXCEPT !.pc = "load", !.runner = spawned + 1]
    BY <1>3 DEF PendSpawn, PendAt
  <2>2. spawned + 1 \in Runner
    BY <1>3, <1>ty, BoundAssumption DEF PendSpawn, MapsOK, Runner
  <2>3. pend'.pc = "load" /\ pend'.req = pend.req
    BY <1>ty, <2>1 DEF PendOK, PendType
  <2>4. PModel' = PModel
    BY <1>ty, <2>1, <2>3, PModelFrame
  <2>5. loaded[PModel] = NoRunner
    BY <2>1 DEF SchedInv, LoadInv, PendingInv, Loading
  <2>6. srv'[spawned + 1].path = PModel
    BY <1>ty, <2>1, <2>2 DEF MapsOK
  <2> QED BY <1>1, <2>1, <2>3, <2>4, <2>5, <2>6 DEF Waiting, Evicting
<1>4. CASE activeLoading' = activeLoading /\ activeLoading # NoRunner
  <2>1. pend.pc \in Evicting /\ srv[activeLoading].path = PModel /\ loaded[PModel] = NoRunner
    BY <1>4, <1>inv DEF Waiting
  <2>2. ~PendLoaded
    BY <1>4 DEF PendLoaded
  <2>3. pend.req \in Req /\ PModel \in Model
    BY <1>ty, <2>1 DEF TypeOK, PendOK, ReqOK, RequestType, CallType, PModel, Evicting
  <2>4. pend'.pc \in Evicting /\ pend'.req = pend.req
    <3>1. CASE Pending
      <4>1. pend'.pc \notin {"idle", "exit"}
        <5>1. pend.pc \in Evicting
          BY <2>1
        <5>2. ~PendUse /\ ~PendTake /\ ~PendIgnore /\ ~PendExit
          BY <5>1, <1>inv DEF PendUse, PendTake, PendIgnore, PendExit, PendAt, Evicting, Stopping
        <5>3. ~PendFitFails /\ ~PendSpawnFails /\ ~PendLoadFails
          BY <1>4, <1>1 DEF PendFitFails, PendSpawnFails, PendLoadFails
        <5>4. CASE PendLook \/ PendCheck \/ PendFit \/ PendFree \/ PendSpawn \/ PendSpawnAgain
          BY <5>4, <1>inv, <1>1, <1>ty DEF PendLook, PendCheck, PendFit, PendFree, PendSpawn, PendSpawnAgain,
                            PendAt, PendOK, PendType
        <5>5. CASE PendNeedEvict \/ PendFind \/ PendScan
          BY <5>5, <1>ty DEF PendNeedEvict, PendFind, PendScan, PendAt, PendOK, PendType
        <5>6. CASE PendExpire \/ PendSend \/ PendUnloaded
          BY <5>6, <1>ty DEF PendExpire, PendSend, PendUnloaded, PendAt, PendOK, PendType
        <5> QED BY <3>1, <2>2, <5>2, <5>3, <5>4, <5>5, <5>6 DEF Pending
      <4>2. pend'.req = pend.req
        BY <3>1, <4>1, <1>ty, <2>1, PendReq DEF Evicting
      <4>3. ~(pend.pc = "look" /\ pend'.pc = "check")
        <5>1. ASSUME pend.pc = "look" PROVE PendLook
          BY <5>1, <3>1 DEF Pending, PendTake, PendCheck, PendUse, PendFit, PendFitFails, PendFree,
            PendSpawn, PendSpawnFails, PendSpawnAgain, PendLoaded, PendNeedEvict, PendLoadFails, PendFind,
            PendScan, PendExpire, PendSend, PendUnloaded, PendIgnore, PendExit, PendAt
        <5> QED BY <5>1, <2>1, <1>ty DEF PendLook, PendOK, PendType
      <4> QED BY <3>1, <4>1, <4>2, <4>3, <2>1, <1>ty, PendPath DEF PendGoes, Evicting
    <3>2. CASE pend' = pend
      BY <3>2, <2>1
    <3> QED BY <3>1, <3>2, PendFrame
  <2>5. PModel' = PModel
    BY <1>ty, <2>1, <2>4, PModelFrame DEF Evicting
  <2>6. srv'[activeLoading].path = srv[activeLoading].path
    <3>1. activeLoading \in Runner
      BY <1>act, <1>4 DEF RefOrNone
    <3>2. ~PendSpawn
      BY <1>4 DEF PendSpawn
    <3> QED BY <1>ty, <3>1, <3>2, PathFrame DEF PathsKeep
  <2>7. loaded'[PModel] = NoRunner
    <3>1. CASE CompUnload
      BY <1>ty, <2>1, <2>3, <3>1 DEF CompUnload, MapsOK
    <3> QED BY <2>1, <2>2, <3>1, LoadedFrame
  <2> QED BY <1>1, <1>4, <2>1, <2>4, <2>5, <2>6, <2>7 DEF Waiting
<1> QED BY <1>2, <1>3, <1>4, ActiveFrame

(* Without a model file that vanishes and without a shutdown, load never   *)
(* meets a server left over for another model, nor a server that is gone:  *)
(* neither its assertion nor a nil dereference brings the process down.    *)
THEOREM NeverPanics == Spec => []NoPanic
<1>1. Init => PanicInv
  BY InitP
<1>2. SchedInv /\ PanicInv /\ [Next]_vars => PanicInv'
  BY NextP
<1>3. PanicInv => NoPanic
  BY DEF PanicInv, NoPanic
<1> QED BY <1>1, <1>2, <1>3, SchedInvariant, PTL DEF Spec

-----------------------------------------------------------------------------
(* What a step does to the runnerRefs *)

(* Runner r gets these values, and the other runners keep theirs. *)
Sets(r, live, n, timer, mu, load, fired, again) ==
    /\ \A t \in Runner \ {r} : ref'[t] = ref[t]
    /\ ref'[r].req = ref[r].req /\ ref'[r].live = live
    /\ ref'[r].refCount = n /\ ref'[r].timer = timer
    /\ ref'[r].mu = mu /\ ref'[r].load = load
    /\ ref'[r].fired = fired /\ ref'[r].again = again

Inc(n) == (n + 1) % UintMod

LEMMA SetsUse ==
    ASSUME RefOK, NEW q, NEW r \in Runner, UseLoadedRunner(q, r)
    PROVE  /\ ref[r].mu = "free"
           /\ Sets(r, ref[r].live, Inc(ref[r].refCount), "nil", ref[r].mu, ref[r].load, ref[r].fired, ref[r].again)
<1>1. ref[r] \in RefType
  BY DEF RefOK
<1>2. ref[r].mu = "free" /\ ref' = [ref EXCEPT ![r] = InUse(@, req[q].call.keep)]
  BY DEF UseLoadedRunner
<1>3. /\ \A t \in Runner \ {r} : ref'[t] = ref[t]
      /\ ref'[r] = InUse(ref[r], req[q].call.keep)
  BY <1>2 DEF RefOK
<1> DEFINE dur == IF req[q].call.keep = Unset THEN ref[r].dur ELSE req[q].call.keep
<1>4. ref'[r] = [ref[r] EXCEPT !.refCount = Inc(ref[r].refCount), !.timer = "nil", !.dur = dur]
  BY <1>1, <1>3 DEF InUse, Inc, RefType
<1> HIDE DEF dur
<1>5. Sets(r, ref[r].live, Inc(ref[r].refCount), "nil", ref[r].mu, ref[r].load, ref[r].fired, ref[r].again)
  BY <1>1, <1>3, <1>4 DEF Sets, RefType
<1> QED BY <1>2, <1>5

LEMMA SetsExpire ==
    ASSUME RefOK, NEW owner, NEW r \in Runner, ExpireNow(r, owner)
    PROVE  /\ ref[r].mu = "free"
           /\ Sets(r, ref[r].live, ref[r].refCount, "nil", IF ref[r].refCount = 0 THEN owner ELSE "free",
                   ref[r].load, ref[r].fired, ref[r].again)
<1>1. ref[r] \in RefType
  BY DEF RefOK
<1>2. ref[r].mu = "free" /\ ref' = [ref EXCEPT ![r] = ToExpire(@, owner)]
  BY DEF ExpireNow
<1>3. /\ \A t \in Runner \ {r} : ref'[t] = ref[t]
      /\ ref'[r] = ToExpire(ref[r], owner)
  BY <1>2 DEF RefOK
<1> DEFINE mu == IF ref[r].refCount = 0 THEN owner ELSE "free"
<1>4. ref'[r] = [ref[r] EXCEPT !.timer = "nil", !.dur = Zero, !.mu = mu]
  BY <1>1, <1>3 DEF ToExpire, RefType
<1>5. Sets(r, ref[r].live, ref[r].refCount, "nil", mu, ref[r].load, ref[r].fired, ref[r].again)
  <2> HIDE DEF mu
  <2> QED BY <1>1, <1>3, <1>4 DEF Sets, RefType
<1> QED BY <1>2, <1>5

LEMMA SetsField ==
    ASSUME RefOK, NEW r \in Runner, NEW v
    PROVE  /\ ref' = [ref EXCEPT ![r].mu = v] =>
                Sets(r, ref[r].live, ref[r].refCount, ref[r].timer, v, ref[r].load, ref[r].fired, ref[r].again)
           /\ ref' = [ref EXCEPT ![r].again = v] =>
                Sets(r, ref[r].live, ref[r].refCount, ref[r].timer, ref[r].mu, ref[r].load, ref[r].fired, v)
           /\ ref' = [ref EXCEPT ![r].load = v] =>
                Sets(r, ref[r].live, ref[r].refCount, ref[r].timer, ref[r].mu, v, ref[r].fired, ref[r].again)
<1>1. ref[r] \in RefType
  BY DEF RefOK
<1>2. CASE ref' = [ref EXCEPT ![r].mu = v]
  BY <1>1, <1>2 DEF RefOK, Sets, RefType
<1>3. CASE ref' = [ref EXCEPT ![r].again = v]
  BY <1>1, <1>3 DEF RefOK, Sets, RefType
<1>4. CASE ref' = [ref EXCEPT ![r].load = v]
  BY <1>1, <1>4 DEF RefOK, Sets, RefType
<1> QED BY <1>2, <1>3, <1>4

LEMMA SetsRunner ==
    ASSUME RefOK, NEW r \in Runner
    PROVE  /\ LoaderReady(r) =>
                Sets(r, ref[r].live, Inc(ref[r].refCount), ref[r].timer, "free", "none", ref[r].fired, ref[r].again)
           /\ LoaderFails(r) =>
                Sets(r, ref[r].live, ref[r].refCount, ref[r].timer, ref[r].mu, "send", ref[r].fired, ref[r].again)
           /\ LoaderSend(r) =>
                Sets(r, ref[r].live, ref[r].refCount, ref[r].timer, "free", "none", ref[r].fired, ref[r].again)
           /\ TimerFires(r) =>
                Sets(r, ref[r].live, ref[r].refCount, "spent", ref[r].mu, ref[r].load, ref[r].fired + 1, ref[r].again)
           /\ TimerLocks(r) =>
                Sets(r, ref[r].live, ref[r].refCount, "nil", "timer", ref[r].load, ref[r].fired - 1, ref[r].again)
           /\ TimerSend(r) =>
                Sets(r, ref[r].live, ref[r].refCount, ref[r].timer, "free", ref[r].load, ref[r].fired, ref[r].again)
           /\ Requeue(r) =>
                Sets(r, ref[r].live, ref[r].refCount, ref[r].timer, ref[r].mu, ref[r].load, ref[r].fired, ref[r].again - 1)
<1>1. ref[r] \in RefType
  BY DEF RefOK
<1>upd. ASSUME NEW y, ref' = [ref EXCEPT ![r] = y]
        PROVE  ref'[r] = y /\ \A t \in Runner \ {r} : ref'[t] = ref[t]
  BY <1>upd DEF RefOK
<1>2. ASSUME LoaderReady(r)
      PROVE  Sets(r, ref[r].live, Inc(ref[r].refCount), ref[r].timer, "free", "none", ref[r].fired, ref[r].again)
  <2>1. ref'[r] = Ready(ref[r]) /\ \A t \in Runner \ {r} : ref'[t] = ref[t]
    BY <1>2, <1>upd DEF LoaderReady
  <2> QED BY <1>1, <2>1 DEF Ready, Sets, Inc, RefType
<1>3. ASSUME LoaderFails(r)
      PROVE  Sets(r, ref[r].live, ref[r].refCount, ref[r].timer, ref[r].mu, "send", ref[r].fired, ref[r].again)
  BY <1>3, SetsField DEF LoaderFails
<1>4. ASSUME LoaderSend(r)
      PROVE  Sets(r, ref[r].live, ref[r].refCount, ref[r].timer, "free", "none", ref[r].fired, ref[r].again)
  <2>1. ref'[r] = [ref[r] EXCEPT !.mu = "free", !.load = "none"] /\ \A t \in Runner \ {r} : ref'[t] = ref[t]
    BY <1>4, <1>upd DEF LoaderSend
  <2> QED BY <1>1, <2>1 DEF Sets, RefType
<1>5. ASSUME TimerFires(r)
      PROVE  Sets(r, ref[r].live, ref[r].refCount, "spent", ref[r].mu, ref[r].load, ref[r].fired + 1, ref[r].again)
  <2>1. ref'[r] = Fired(ref[r]) /\ \A t \in Runner \ {r} : ref'[t] = ref[t]
    BY <1>5, <1>upd DEF TimerFires
  <2> QED BY <1>1, <2>1 DEF Fired, Sets, RefType
<1>6. ASSUME TimerLocks(r)
      PROVE  Sets(r, ref[r].live, ref[r].refCount, "nil", "timer", ref[r].load, ref[r].fired - 1, ref[r].again)
  <2>1. ref'[r] = Called(ref[r]) /\ \A t \in Runner \ {r} : ref'[t] = ref[t]
    BY <1>6, <1>upd DEF TimerLocks
  <2> QED BY <1>1, <2>1 DEF Called, Sets, RefType
<1>7. ASSUME TimerSend(r)
      PROVE  Sets(r, ref[r].live, ref[r].refCount, ref[r].timer, "free", ref[r].load, ref[r].fired, ref[r].again)
  BY <1>7, SetsField DEF TimerSend
<1>8. ASSUME Requeue(r)
      PROVE  Sets(r, ref[r].live, ref[r].refCount, ref[r].timer, ref[r].mu, ref[r].load, ref[r].fired, ref[r].again - 1)
  <2>1. ref' = [ref EXCEPT ![r].again = ref[r].again - 1]
    BY <1>8 DEF Requeue
  <2> QED BY <2>1, SetsField
<1> QED BY <1>2, <1>3, <1>4, <1>5, <1>6, <1>7, <1>8

LEMMA SetsComp ==
    ASSUME RefOK, comp.runner \in Runner
    PROVE  LET r == comp.runner IN
           /\ CompRelease =>
                Sets(r, ref[r].live, Dec(ref[r].refCount),
                     IF ExpiresNow(ref[r]) THEN "nil" ELSE IF Dec(ref[r].refCount) = 0 THEN "armed" ELSE ref[r].timer,
                     IF ExpiresNow(ref[r]) THEN "comp" ELSE "free", ref[r].load, ref[r].fired, ref[r].again)
           /\ CompSend \/ CompRecovered =>
                Sets(r, ref[r].live, ref[r].refCount, ref[r].timer, "free", ref[r].load, ref[r].fired, ref[r].again)
           /\ CompBusy =>
                Sets(r, ref[r].live, ref[r].refCount, ref[r].timer, ref[r].mu, ref[r].load, ref[r].fired, ref[r].again + 1)
           /\ CompOrphan =>
                Sets(r, FALSE, ref[r].refCount, "nil", ref[r].mu, ref[r].load, ref[r].fired, ref[r].again)
           /\ CompUnload =>
                Sets(r, FALSE, ref[r].refCount, "nil", "comp", ref[r].load, ref[r].fired, ref[r].again)
<1> DEFINE r == comp.runner
<1>1. ref[r] \in RefType
  BY DEF RefOK
<1>upd. ASSUME NEW y, ref' = [ref EXCEPT ![r] = y]
        PROVE  ref'[r] = y /\ \A t \in Runner \ {r} : ref'[t] = ref[t]
  BY <1>upd DEF RefOK
<1>2. ASSUME CompRelease
      PROVE  Sets(r, ref[r].live, Dec(ref[r].refCount),
                  IF ExpiresNow(ref[r]) THEN "nil" ELSE IF Dec(ref[r].refCount) = 0 THEN "armed" ELSE ref[r].timer,
                  IF ExpiresNow(ref[r]) THEN "comp" ELSE "free", ref[r].load, ref[r].fired, ref[r].again)
  <2>1. ref'[r] = Released(ref[r]) /\ \A t \in Runner \ {r} : ref'[t] = ref[t]
    BY <1>2, <1>upd DEF CompRelease
  <2> HIDE DEF r
  <2> QED BY <1>1, <2>1 DEF Released, Sets, RefType
<1>3. ASSUME CompSend \/ CompRecovered
      PROVE  Sets(r, ref[r].live, ref[r].refCount, ref[r].timer, "free", ref[r].load, ref[r].fired, ref[r].again)
  BY <1>3, SetsField DEF CompSend, CompRecovered
<1>4. ASSUME CompBusy
      PROVE  Sets(r, ref[r].live, ref[r].refCount, ref[r].timer, ref[r].mu, ref[r].load, ref[r].fired, ref[r].again + 1)
  <2>1. ref' = [ref EXCEPT ![r].again = ref[r].again + 1]
    BY <1>4 DEF CompBusy
  <2> QED BY <2>1, SetsField
<1>5. ASSUME CompOrphan
      PROVE  Sets(r, FALSE, ref[r].refCount, "nil", ref[r].mu, ref[r].load, ref[r].fired, ref[r].again)
  <2>1. ref'[r] = Unloaded(ref[r]) /\ \A t \in Runner \ {r} : ref'[t] = ref[t]
    BY <1>5, <1>upd DEF CompOrphan
  <2> HIDE DEF r
  <2> QED BY <1>1, <2>1 DEF Unloaded, Sets, RefType
<1>6. ASSUME CompUnload
      PROVE  Sets(r, FALSE, ref[r].refCount, "nil", "comp", ref[r].load, ref[r].fired, ref[r].again)
  <2>1. ref'[r] = [Unloaded(ref[r]) EXCEPT !.mu = "comp"] /\ \A t \in Runner \ {r} : ref'[t] = ref[t]
    BY <1>6, <1>upd DEF CompUnload
  <2> HIDE DEF r
  <2> QED BY <1>1, <2>1 DEF Unloaded, Sets, RefType
<1> QED BY <1>2, <1>3, <1>4, <1>5, <1>6

(* A new runner is installed; nobody else's record changes. *)
Installs ==
    /\ pend.pc = "load" /\ pend.runner \in Runner /\ pend.req \in Req /\ PModel \in Model
    /\ loaded[PModel] = NoRunner /\ loaded' = [loaded EXCEPT ![PModel] = pend.runner]
    /\ pend' = IdlePend /\ activeLoading' = NoRunner
    /\ UNCHANGED <<req, srv, spawned, channels, comp, unl, life, stale>>
    /\ \A t \in Runner \ {pend.runner} : ref'[t] = ref[t]
    /\ ref'[pend.runner].req = pend.req /\ ref'[pend.runner].live
    /\ ref'[pend.runner].refCount = 0 /\ ref'[pend.runner].timer = "nil"
    /\ ref'[pend.runner].mu = "loader" /\ ref'[pend.runner].load = "wait"
    /\ ref'[pend.runner].fired = 0 /\ ref'[pend.runner].again = 0

LEMMA LoadInstalls == ASSUME SchedInv, PendLoaded PROVE Installs
<1>1. pend.pc = "load" /\ pend.runner \in Runner /\ pend.req \in Req /\ PModel \in Model
  BY DEF PendLoaded, PendAt, SchedInv, TypeOK, PendOK, ReqOK, RequestType, CallType, PModel
<1>2. loaded[PModel] = NoRunner
  BY <1>1 DEF SchedInv, LoadInv, PendingInv, Loading
<1>3. \A x \in Runner : x # loaded[PModel]
  BY <1>2 DEF Runner, NoRunner
<1>4. srv' = srv
  BY <1>3 DEF PendLoaded, SchedInv, TypeOK, MapsOK
<1> DEFINE keep == req[pend.req].call.keep
           new == [BlankRef EXCEPT !.req = pend.req, !.live = TRUE, !.mu = "loader", !.load = "wait",
                                   !.dur = IF keep = Unset THEN DefaultKeep ELSE keep]
<1>5. ref' = [x \in Runner |-> IF x = pend.runner THEN new
                               ELSE IF x = loaded[PModel] THEN Unloaded(ref[x]) ELSE ref[x]]
  BY DEF PendLoaded
<1>6. ref'[pend.runner] = new /\ \A t \in Runner \ {pend.runner} : ref'[t] = ref[t]
  <2> HIDE DEF new
  <2> QED BY <1>1, <1>3, <1>5
<1>7. /\ new.req = pend.req /\ new.live /\ new.refCount = 0 /\ new.timer = "nil" /\ new.mu = "loader"
      /\ new.load = "wait" /\ new.fired = 0 /\ new.again = 0
  BY DEF BlankRef
<1>8. /\ loaded' = [loaded EXCEPT ![PModel] = pend.runner]
      /\ pend' = IdlePend /\ activeLoading' = NoRunner
      /\ UNCHANGED <<req, spawned, channels, comp, unl, life, stale>>
  BY DEF PendLoaded
<1> HIDE DEF new
<1> QED BY <1>1, <1>2, <1>4, <1>6, <1>7, <1>8 DEF Installs

-----------------------------------------------------------------------------
(* Who is referred to *)

(* The runners that load has installed *)
Installed(r) == ref[r].req # NoReq

(* Whatever refers to a runner, refers to an installed one ... *)
PointersInv ==
    /\ \A m \in Model : loaded[m] # NoRunner => Installed(loaded[m])
    /\ \A q \in Req : req[q].runner # NoRunner => Installed(req[q].runner)
    /\ pend.pc \in {"check", "use", "expire", "send"} => Installed(pend.runner)
    /\ \A i \in 1..Len(pend.list) : Installed(pend.list[i])
    /\ comp.runner # NoRunner => Installed(comp.runner)
    /\ unl.runner # NoRunner => Installed(unl.runner)
    /\ \A i \in 1..Len(expiredCh) : Installed(expiredCh[i])

(* ... except for the one that is being loaded.  Nothing happens to the    *)
(* record of a runner before it is installed.                              *)
FreshInv ==
    /\ \A r \in Runner : r > spawned => ~Installed(r)
    /\ activeLoading # NoRunner => ~Installed(activeLoading)
    /\ pend.pc = "load" => ~Installed(pend.runner)
    /\ \A r \in Runner : ~Installed(r) => ref[r] = BlankRef

(* Only load installs a runner, and none is ever uninstalled. *)
LEMMA InstalledFrame ==
    ASSUME SchedInv, [Next]_vars, NEW r \in Runner
    PROVE  ref'[r].req = ref[r].req \/ (PendLoaded /\ r = pend.runner /\ Installed(r)')
<1>ty. TypeOK /\ RefOK
  BY DEF SchedInv, TypeOK
<1>1. CASE RefStable
  BY <1>1 DEF RefStable
<1>2. CASE PendLoaded
  <2>1. Installs
    BY <1>2, LoadInstalls
  <2>2. pend.req # NoReq
    BY <2>1, ReqAssumption DEF Installs
  <2> QED BY <1>2, <2>1, <2>2 DEF Installs, Installed
<1>3. CASE CompOrphan \/ CompUnload
  <2>1. comp.runner \in Runner
    BY <1>ty, <1>3 DEF TypeOK, CompOK, CompOrphan, CompUnload, CompExpiredAt, CompAt
  <2>2. CASE CompOrphan
    BY <1>ty, <2>1, <2>2, SetsComp DEF Sets
  <2>3. CASE CompUnload
    BY <1>ty, <2>1, <2>3, SetsComp DEF Sets
  <2> QED BY <1>3, <2>2, <2>3
<1> QED BY <1>ty, <1>1, <1>2, <1>3, RefFrame

(* The goroutines of a runner are those of an installed one. *)
LEMMA RunnerInstalled ==
    ASSUME FreshInv, NEW r \in Runner, RunnerStep(r)
    PROVE  Installed(r)
<1>1. /\ BlankRef.load = "none" /\ BlankRef.timer = "nil" /\ BlankRef.fired = 0
      /\ BlankRef.again = 0 /\ BlankRef.mu = "free"
  BY DEF BlankRef
<1>2. ref[r] # BlankRef
  <2>1. CASE LoaderReady(r) \/ LoaderFails(r) \/ LoaderSend(r)
    BY <2>1, <1>1 DEF LoaderReady, LoaderFails, LoaderSend
  <2>2. CASE TimerFires(r) \/ TimerSend(r)
    BY <2>2, <1>1 DEF TimerFires, TimerSend
  <2>3. CASE TimerLocks(r)
    BY <2>3, <1>1 DEF TimerLocks
  <2>4. CASE Requeue(r)
    BY <2>4, <1>1 DEF Requeue
  <2> QED BY <2>1, <2>2, <2>3, <2>4 DEF RunnerStep
<1> QED BY <1>2 DEF FreshInv

(* The steps that change some runnerRef, each with the runner it changes *)
Touches(r) ==
    \/ RunnerStep(r)
    \/ \E q \in Req : GetRunnerUse(q) /\ req[q].runner = r
    \/ (PendUse \/ PendExpire \/ PendSend) /\ pend.runner = r
    \/ (CompRelease \/ CompSend \/ CompBusy \/ CompOrphan \/ CompUnload \/ CompRecovered) /\ comp.runner = r
    \/ (ExpireRunnerLock \/ ExpireRunnerSend) /\ unl.runner = r

LEMMA TouchFrame ==
    ASSUME TypeOK, [Next]_vars
    PROVE  \/ ref' = ref
           \/ PendLoaded
           \/ \E r \in Runner : Touches(r)
<1>1. ASSUME NEW q \in Req, Client(q) PROVE ref' = ref \/ \E r \in Runner : Touches(r)
  <2>1. CASE GetRunnerUse(q)
    <3>1. req[q].runner \in Runner
      BY <2>1 DEF GetRunnerUse, ClientAt, TypeOK
    <3> QED BY <2>1, <3>1 DEF Touches
  <2> QED BY <1>1, <2>1 DEF Client, GetRunner, GetRunnerCheck, GetRunnerEnqueue, ContextDone, Finished
<1>2. CASE Pending
  <2>1. CASE PendUse \/ PendExpire \/ PendSend
    <3>1. pend.runner \in Runner
      BY <2>1 DEF PendUse, PendExpire, PendSend, PendAt, TypeOK, PendOK
    <3> QED BY <2>1, <3>1 DEF Touches
  <2> QED BY <1>2, <2>1
          DEF Pending, PendTake, PendLook, PendCheck, PendFit, PendFitFails, PendFree, PendSpawn,
              PendSpawnFails, PendSpawnAgain, PendNeedEvict, PendLoadFails, PendFind, PendScan,
              PendUnloaded, PendIgnore, PendExit
<1>3. CASE Completed
  <2>1. CASE CompRelease \/ CompSend \/ CompBusy \/ CompOrphan \/ CompUnload \/ CompRecovered
    <3>1. comp.runner \in Runner
      BY <2>1 DEF CompRelease, CompSend, CompBusy, CompOrphan, CompUnload, CompRecovered, CompExpiredAt,
                  CompAt, TypeOK, CompOK
    <3> QED BY <2>1, <3>1 DEF Touches
  <2> QED BY <1>3, <2>1
          DEF Completed, CompFinished, CompTakeExpired, CompDuplicate, CompSendUnloaded, CompExit
<1>4. CASE Unloading
  <2>1. CASE ExpireRunnerLock \/ ExpireRunnerSend
    <3>1. unl.runner \in Runner
      BY <2>1 DEF ExpireRunnerLock, ExpireRunnerSend, TypeOK, UnlOK
    <3> QED BY <2>1, <3>1 DEF Touches
  <2> QED BY <1>4, <2>1 DEF Unloading, ExpireRunner
<1>5. CASE Stop \/ Resting \/ UNCHANGED vars
  BY <1>5 DEF Stop, Shutdown, UnloadAllRunners, Exit, Resting, vars
<1>6. ASSUME NEW r \in Runner, RunnerStep(r) PROVE Touches(r)
  BY <1>6 DEF Touches
<1> QED BY <1>1, <1>2, <1>3, <1>4, <1>5, <1>6 DEF Next

(* Such a step changes that runner only, which is an installed one. *)
LEMMA TouchedOnly ==
    ASSUME TypeOK, PointersInv, FreshInv, NEW r \in Runner, Touches(r)
    PROVE  Installed(r) /\ \A t \in Runner \ {r} : ref'[t] = ref[t]
<1>ty. RefOK
  BY DEF TypeOK
<1>no. r # NoRunner
  BY DEF Runner, NoRunner
<1>1. CASE RunnerStep(r)
  <2>1. Installed(r)
    BY <1>1, RunnerInstalled
  <2>2. \A t \in Runner \ {r} : ref'[t] = ref[t]
    BY <1>1, <1>ty, SetsRunner DEF RunnerStep, Sets
  <2> QED BY <2>1, <2>2
<1>2. ASSUME NEW q \in Req, GetRunnerUse(q), req[q].runner = r
      PROVE  Installed(r) /\ \A t \in Runner \ {r} : ref'[t] = ref[t]
  <2>1. UseLoadedRunner(q, r)
    BY <1>2 DEF GetRunnerUse
  <2>2. Installed(r)
    BY <1>2, <1>no DEF PointersInv
  <2> QED BY <1>ty, <2>1, <2>2, SetsUse DEF Sets
<1>3. CASE (PendUse \/ PendExpire \/ PendSend) /\ pend.runner = r
  <2>1. Installed(r)
    BY <1>3 DEF PendUse, PendExpire, PendSend, PendAt, PointersInv
  <2>2. CASE PendUse
    BY <1>3, <2>2, <2>1, <1>ty, SetsUse DEF PendUse, Sets
  <2>3. CASE PendExpire
    BY <1>3, <2>3, <2>1, <1>ty, SetsExpire DEF PendExpire, Sets
  <2>4. CASE PendSend
    BY <1>3, <2>4, <2>1, <1>ty, SetsField DEF PendSend, Sets
  <2> QED BY <1>3, <2>1, <2>2, <2>3, <2>4
<1>4. CASE (CompRelease \/ CompSend \/ CompBusy \/ CompOrphan \/ CompUnload \/ CompRecovered) /\ comp.runner = r
  <2>1. Installed(r)
    BY <1>4, <1>no DEF PointersInv
  <2>2. \A t \in Runner \ {r} : ref'[t] = ref[t]
    BY <1>4, <1>ty, SetsComp DEF Sets
  <2> QED BY <2>1, <2>2
<1>5. CASE (ExpireRunnerLock \/ ExpireRunnerSend) /\ unl.runner = r
  <2>1. Installed(r)
    BY <1>5, <1>no DEF PointersInv
  <2>2. CASE ExpireRunnerLock
    BY <1>5, <2>2, <2>1, <1>ty, SetsExpire DEF ExpireRunnerLock, Sets
  <2>3. CASE ExpireRunnerSend
    BY <1>5, <2>3, <2>1, <1>ty, SetsField DEF ExpireRunnerSend, Sets
  <2> QED BY <1>5, <2>1, <2>2, <2>3
<1> QED BY <1>1, <1>2, <1>3, <1>4, <1>5 DEF Touches

LEMMA InitF == Init => PointersInv /\ FreshInv
<1>1. BlankRef.req = NoReq
  BY DEF BlankRef
<1> QED BY <1>1 DEF Init, PointersInv, FreshInv, Installed, NewRequest, IdlePend

(* Who sends to expiredCh *)
Sender(r) ==
    \/ RunnerStep(r)
    \/ PendSend /\ r = pend.runner
    \/ CompSend /\ r = comp.runner
    \/ ExpireRunnerSend /\ r = unl.runner

LEMMA ExpiredFrame ==
    ASSUME TypeOK, [Next]_vars
    PROVE  \/ expiredCh' = expiredCh
           \/ CompTakeExpired
           \/ \E r \in Runner : Sender(r) /\ expiredCh' = Append(expiredCh, r)
<1>1. ASSUME NEW q \in Req, Client(q) PROVE expiredCh' = expiredCh
  BY <1>1 DEF Client, GetRunner, GetRunnerCheck, GetRunnerUse, GetRunnerEnqueue, ContextDone, Finished, channels
<1>2. ASSUME NEW r \in Runner, RunnerStep(r)
      PROVE  expiredCh' = expiredCh \/ (Sender(r) /\ expiredCh' = Append(expiredCh, r))
  BY <1>2 DEF RunnerStep, LoaderReady, LoaderFails, LoaderSend, TimerFires, TimerLocks, TimerSend,
              Requeue, SendExpired, channels, Sender
<1>3. CASE Pending
  <2>1. CASE PendSend
    <3>1. pend.runner \in Runner
      BY <2>1 DEF PendSend, PendAt, TypeOK, PendOK
    <3> QED BY <2>1, <3>1 DEF PendSend, SendExpired, Sender
  <2> QED BY <1>3, <2>1
          DEF Pending, PendTake, PendLook, PendCheck, PendUse, PendFit, PendFitFails, PendFree, PendSpawn,
              PendSpawnFails, PendSpawnAgain, PendLoaded, PendNeedEvict, PendLoadFails, PendFind, PendScan,
              PendExpire, PendUnloaded, PendIgnore, PendExit, channels
<1>4. CASE Completed
  <2>1. CASE CompSend
    <3>1. comp.runner \in Runner
      BY <2>1 DEF CompSend, CompAt, TypeOK, CompOK
    <3> QED BY <2>1, <3>1 DEF CompSend, SendExpired, Sender
  <2> QED BY <1>4, <2>1
          DEF Completed, CompFinished, CompRelease, CompBusy, CompDuplicate, CompOrphan, CompUnload,
              CompRecovered, CompSendUnloaded, CompExit, channels
<1>5. CASE Unloading
  <2>1. CASE ExpireRunnerSend
    <3>1. unl.runner \in Runner
      BY <2>1 DEF ExpireRunnerSend, TypeOK, UnlOK
    <3> QED BY <2>1, <3>1 DEF ExpireRunnerSend, SendExpired, Sender
  <2> QED BY <1>5, <2>1 DEF Unloading, ExpireRunner, ExpireRunnerLock, channels
<1>6. CASE Resting \/ Stop \/ UNCHANGED vars
  BY <1>6 DEF Resting, vars, Stop, Shutdown, UnloadAllRunners, Exit, channels
<1> QED BY <1>1, <1>2, <1>3, <1>4, <1>5, <1>6 DEF Next

(* What a step does to the pointers of processCompleted and of the caller  *)
(* of expireRunner                                                         *)
LEMMA CompFrame ==
    ASSUME TypeOK, [Next]_vars
    PROVE  comp'.runner \in {comp.runner, NoRunner} \/ CompFinished \/ CompTakeExpired
<1>ty. comp' = IdleComp => comp'.runner = NoRunner
  BY DEF IdleComp
<1>1. ASSUME NEW q \in Req, Client(q) PROVE comp' = comp
  BY <1>1 DEF Client, GetRunner, GetRunnerCheck, GetRunnerUse, GetRunnerEnqueue, ContextDone, Finished
<1>2. ASSUME NEW r \in Runner, RunnerStep(r) PROVE comp' = comp
  BY <1>2 DEF RunnerStep, LoaderReady, LoaderFails, LoaderSend, TimerFires, TimerLocks, TimerSend, Requeue
<1>3. CASE Pending
  BY <1>3 DEF Pending, PendTake, PendLook, PendCheck, PendUse, PendFit, PendFitFails, PendFree, PendSpawn,
              PendSpawnFails, PendSpawnAgain, PendLoaded, PendNeedEvict, PendLoadFails, PendFind, PendScan,
              PendExpire, PendSend, PendUnloaded, PendIgnore, PendExit
<1>4. CASE Completed
  <2>1. CASE CompRelease \/ CompUnload \/ CompRecovered
    BY <1>ty, <2>1 DEF CompRelease, CompUnload, CompRecovered, TypeOK, CompOK
  <2>2. CASE CompExit
    BY <2>2 DEF CompExit, IdleComp
  <2> QED BY <1>4, <1>ty, <2>1, <2>2
          DEF Completed, CompSend, CompBusy, CompDuplicate, CompOrphan, CompSendUnloaded
<1>5. CASE Unloading \/ Resting \/ Stop \/ UNCHANGED vars
  BY <1>5 DEF Unloading, ExpireRunner, ExpireRunnerLock, ExpireRunnerSend, Resting, vars, Stop, Shutdown,
              UnloadAllRunners, Exit
<1> QED BY <1>1, <1>2, <1>3, <1>4, <1>5 DEF Next

LEMMA UnlFrame ==
    ASSUME TypeOK, [Next]_vars
    PROVE  unl' = unl \/ Unloading
<1>1. ASSUME NEW q \in Req, Client(q) PROVE unl' = unl
  BY <1>1 DEF Client, GetRunner, GetRunnerCheck, GetRunnerUse, GetRunnerEnqueue, ContextDone, Finished
<1>2. ASSUME NEW r \in Runner, RunnerStep(r) PROVE unl' = unl
  BY <1>2 DEF RunnerStep, LoaderReady, LoaderFails, LoaderSend, TimerFires, TimerLocks, TimerSend, Requeue
<1>3. CASE Pending
  BY <1>3 DEF Pending, PendTake, PendLook, PendCheck, PendUse, PendFit, PendFitFails, PendFree, PendSpawn,
              PendSpawnFails, PendSpawnAgain, PendLoaded, PendNeedEvict, PendLoadFails, PendFind, PendScan,
              PendExpire, PendSend, PendUnloaded, PendIgnore, PendExit
<1>4. CASE Completed
  BY <1>4 DEF Completed, CompFinished, CompRelease, CompSend, CompTakeExpired, CompBusy,
            CompDuplicate, CompOrphan, CompUnload, CompRecovered, CompSendUnloaded, CompExit
<1>5. CASE Resting \/ Stop \/ UNCHANGED vars
  BY <1>5 DEF Resting, vars, Stop, Shutdown, UnloadAllRunners, Exit
<1> QED BY <1>1, <1>2, <1>3, <1>4, <1>5 DEF Next

(* What a step does to a request.  Only its own GetRunner call writes its  *)
(* arguments and looks a runner up for it; what was granted or refused is  *)
(* waiting for its end.                                                    *)
Granting(q, r) ==
    \/ GetRunnerUse(q) /\ r = req[q].runner
    \/ PendUse /\ q = pend.req /\ r = pend.runner
    \/ LoaderReady(r) /\ q = ref[r].req
Same(q) == req'[q].call = req[q].call /\ req'[q].runner = req[q].runner
ReqStep(q) ==
    \/ req'[q] = req[q]
    \/ /\ GetRunner(q)
       /\ req'[q].watched = req[q].watched /\ req'[q].reply = req[q].reply
       /\ \E m \in Model : req'[q].call.model = m /\ req'[q].runner = loaded[m]
       /\ req'[q].pc = IF req'[q].runner = NoRunner THEN "enqueue" ELSE "check"
    \/ /\ Same(q) /\ req'[q].watched = req[q].watched /\ req'[q].reply = req[q].reply
       /\ req'[q].answers = req[q].answers
       /\ \/ req'[q].pc = req[q].pc
          \/ req[q].pc = "check" /\ req'[q].pc \in {"use", "enqueue"}
          \/ req[q].pc = "enqueue" /\ req'[q].pc = "waiting"
    \/ /\ Finished(q) /\ Same(q) /\ ~req'[q].watched /\ req'[q].reply = req[q].reply
       /\ req'[q].answers = req[q].answers /\ req'[q].pc = req[q].pc
    \/ /\ Same(q) /\ req'[q].watched = req[q].watched /\ req'[q].reply = Failed
       /\ req'[q].answers = req[q].answers + 1 /\ req[q].answers = 0 /\ req'[q].pc = "waiting"
    \/ \E r \in Runner :
         /\ Granting(q, r) /\ Same(q) /\ req'[q].watched /\ req'[q].reply = r
         /\ req'[q].answers = req[q].answers + 1 /\ req[q].answers = 0 /\ req'[q].pc = "waiting"

LEMMA AnswerSteps ==
    ASSUME ReqOK, NEW p \in Req, NEW q \in Req, NEW r \in Runner, req[p].answers = 0
    PROVE  /\ req' = Refuse(p) /\ req[p].pc = "waiting" => ReqStep(q)
           /\ req' = [req EXCEPT ![p] = [Answered(@, Failed) EXCEPT !.pc = "waiting"]] => ReqStep(q)
           /\ req' = Grant(p, r) /\ Granting(p, r) => ReqStep(q)
<1>1. req[p] \in RequestType
  BY DEF ReqOK
<1>2. ASSUME req' = Refuse(p), req[p].pc = "waiting" PROVE ReqStep(q)
  <2>1. CASE q = p
    BY <1>1, <1>2, <2>1 DEF Refuse, Answered, ReqOK, RequestType, ReqStep, Same
  <2>2. CASE q # p
    BY <1>2, <2>2 DEF Refuse, ReqOK, ReqStep
  <2> QED BY <2>1, <2>2
<1>3. ASSUME req' = [req EXCEPT ![p] = [Answered(@, Failed) EXCEPT !.pc = "waiting"]] PROVE ReqStep(q)
  <2>1. CASE q = p
    BY <1>1, <1>3, <2>1 DEF Answered, ReqOK, RequestType, ReqStep, Same
  <2>2. CASE q # p
    BY <1>3, <2>2 DEF ReqOK, ReqStep
  <2> QED BY <2>1, <2>2
<1>4. ASSUME req' = Grant(p, r), Granting(p, r) PROVE ReqStep(q)
  <2>1. CASE q = p
    <3>1. /\ Same(q) /\ req'[q].watched /\ req'[q].reply = r
          /\ req'[q].answers = req[q].answers + 1 /\ req'[q].pc = "waiting"
      BY <1>1, <1>4, <2>1 DEF Grant, Answered, ReqOK, RequestType, Same
    <3> QED BY <1>4, <2>1, <3>1 DEF ReqStep
  <2>2. CASE q # p
    BY <1>4, <2>2 DEF Grant, ReqOK, ReqStep
  <2> QED BY <2>1, <2>2
<1> QED BY <1>2, <1>3, <1>4

LEMMA ReqFrame ==
    ASSUME TypeOK, OwnerInv, [Next]_vars, NEW q \in Req
    PROVE  ReqStep(q)
<1>ty. ReqOK /\ PendOK /\ req[q] \in RequestType
  BY DEF TypeOK, ReqOK
<1>same. ASSUME req' = req PROVE ReqStep(q)
  BY <1>same DEF ReqStep
<1>pend. ASSUME pend.pc \notin {"idle", "exit"}
         PROVE  pend.req \in Req /\ req[pend.req].answers = 0 /\ req[pend.req].pc = "waiting"
  BY <1>pend, <1>ty DEF PendOK, OwnerInv, Unanswered
<1>1. ASSUME NEW p \in Req, Client(p) PROVE ReqStep(q)
  <2>p. req[p] \in RequestType
    BY <1>ty DEF ReqOK
  <2>0. ASSUME p # q PROVE req'[q] = req[q]
    BY <1>1, <1>ty, <2>0 DEF Client, GetRunner, GetRunnerCheck, GetRunnerUse, UseLoadedRunner, Grant,
                             GetRunnerEnqueue, ContextDone, Finished, ReqOK
  <2>1. CASE GetRunner(p) /\ p = q
    <3>1. PICK c \in Calls[q] :
            req' = [req EXCEPT ![q] =
                     [@ EXCEPT !.call = c, !.runner = loaded[c.model],
                               !.pc = IF loaded[c.model] = NoRunner THEN "enqueue" ELSE "check"]]
      BY <2>1 DEF GetRunner
    <3>2. c.model \in Model
      BY CallsAssumption DEF CallType
    <3>3. /\ req'[q].watched = req[q].watched /\ req'[q].reply = req[q].reply
          /\ req'[q].call = c /\ req'[q].runner = loaded[c.model]
          /\ req'[q].pc = IF loaded[c.model] = NoRunner THEN "enqueue" ELSE "check"
      BY <1>ty, <3>1 DEF ReqOK, RequestType
    <3> QED BY <2>1, <3>2, <3>3 DEF ReqStep
  <2>2. CASE GetRunnerCheck(p) /\ p = q
    <3>1. PICK b \in {"enqueue", "use"} : req' = [req EXCEPT ![q].pc = b]
      BY <2>2 DEF GetRunnerCheck
    <3>2. req[q].pc = "check"
      BY <2>2 DEF GetRunnerCheck, ClientAt
    <3>3. /\ Same(q) /\ req'[q].watched = req[q].watched /\ req'[q].reply = req[q].reply
          /\ req'[q].answers = req[q].answers /\ req'[q].pc \in {"use", "enqueue"}
      BY <1>ty, <3>1 DEF ReqOK, RequestType, Same
    <3> QED BY <3>2, <3>3 DEF ReqStep
  <2>3. CASE GetRunnerUse(p) /\ p = q
    <3>1. req[q].pc # "waiting" /\ req[q].runner \in Runner /\ req' = Grant(q, req[q].runner)
      BY <2>3 DEF GetRunnerUse, ClientAt, UseLoadedRunner, TypeOK
    <3>2. req[q].answers = 0 /\ Granting(q, req[q].runner)
      BY <2>3, <3>1 DEF OwnerInv, Granting
    <3> QED BY <1>ty, <3>1, <3>2, AnswerSteps
  <2>4. CASE GetRunnerEnqueue(p) /\ p = q
    <3>1. req[q].pc = "enqueue" /\ req[q].answers = 0
      BY <2>4 DEF GetRunnerEnqueue, ClientAt, OwnerInv
    <3>2. CASE req' = [req EXCEPT ![q].pc = "waiting"]
      <4>1. /\ Same(q) /\ req'[q].watched = req[q].watched /\ req'[q].reply = req[q].reply
            /\ req'[q].answers = req[q].answers /\ req'[q].pc = "waiting"
        BY <1>ty, <3>2 DEF ReqOK, RequestType, Same
      <4> QED BY <3>1, <4>1 DEF ReqStep
    <3>3. CASE req' = [req EXCEPT ![q] = [Answered(@, Failed) EXCEPT !.pc = "waiting"]]
      <4>1. /\ Same(q) /\ req'[q].watched = req[q].watched /\ req'[q].reply = Failed
            /\ req'[q].answers = req[q].answers + 1 /\ req'[q].pc = "waiting"
        BY <1>ty, <3>3 DEF Answered, ReqOK, RequestType, Same
      <4> QED BY <3>1, <4>1 DEF ReqStep
    <3> QED BY <2>4, <3>2, <3>3 DEF GetRunnerEnqueue
  <2>5. CASE ContextDone(p) /\ p = q
    <3>1. /\ Same(q) /\ req'[q].watched = req[q].watched /\ req'[q].reply = req[q].reply
          /\ req'[q].answers = req[q].answers /\ req'[q].pc = req[q].pc
      BY <1>ty, <2>5 DEF ContextDone, ReqOK, RequestType, Same
    <3> QED BY <3>1 DEF ReqStep
  <2>6. CASE Finished(p) /\ p = q
    <3>1. /\ Same(q) /\ ~req'[q].watched /\ req'[q].reply = req[q].reply
          /\ req'[q].answers = req[q].answers /\ req'[q].pc = req[q].pc
      BY <1>ty, <2>6 DEF Finished, ReqOK, RequestType, Same
    <3> QED BY <2>6, <3>1 DEF ReqStep
  <2>7. CASE p # q
    BY <2>0, <2>7 DEF ReqStep
  <2> QED BY <1>1, <2>1, <2>2, <2>3, <2>4, <2>5, <2>6, <2>7 DEF Client
<1>2. CASE Pending
  <2>1. CASE PendUse
    <3>1. pend.pc \notin {"idle", "exit"} /\ pend.runner \in Runner /\ req' = Grant(pend.req, pend.runner)
      BY <2>1, <1>ty DEF PendUse, PendAt, PendOK, UseLoadedRunner
    <3>2. Granting(pend.req, pend.runner)
      BY <2>1 DEF Granting
    <3> QED BY <1>ty, <1>pend, <3>1, <3>2, AnswerSteps
  <2>2. CASE PendFitFails \/ PendSpawnFails \/ PendLoadFails
    <3>1. pend.pc \notin {"idle", "exit"} /\ (req' = req \/ req' = Refuse(pend.req))
      BY <2>2 DEF PendFitFails, PendSpawnFails, PendLoadFails, PendAt
    <3>2. ASSUME req' = Refuse(pend.req) PROVE ReqStep(q)
      <4>1. pend.req \in Req /\ req[pend.req].answers = 0 /\ req[pend.req].pc = "waiting"
        BY <3>1, <1>pend
      <4>2. CASE q = pend.req
        BY <1>ty, <3>2, <4>1, <4>2 DEF Refuse, Answered, ReqOK, RequestType, ReqStep, Same
      <4>3. CASE q # pend.req
        BY <1>ty, <3>2, <4>3 DEF Refuse, ReqOK, ReqStep
      <4> QED BY <4>2, <4>3
    <3> QED BY <1>same, <3>1, <3>2
  <2> QED BY <1>2, <1>same, <2>1, <2>2
          DEF Pending, PendTake, PendLook, PendCheck, PendFit, PendFree, PendSpawn, PendSpawnAgain,
              PendLoaded, PendNeedEvict, PendFind, PendScan, PendExpire, PendSend, PendUnloaded,
              PendIgnore, PendExit
<1>3. ASSUME NEW r \in Runner, RunnerStep(r) PROVE ReqStep(q)
  <2>1. ref[r].load = "wait" => ref[r].req \in Req /\ req[ref[r].req].answers = 0 /\ req[ref[r].req].pc = "waiting"
    BY DEF TypeOK, OwnerInv, Unanswered
  <2>2. CASE LoaderReady(r)
    BY <2>1, <2>2, <1>ty, AnswerSteps DEF LoaderReady, Granting
  <2>3. CASE LoaderFails(r)
    BY <2>1, <2>3, <1>ty, AnswerSteps DEF LoaderFails
  <2> QED BY <1>3, <1>same, <2>2, <2>3 DEF RunnerStep, LoaderSend, TimerFires, TimerLocks, TimerSend, Requeue
<1>4. CASE Completed
  BY <1>4, <1>same
     DEF Completed, CompFinished, CompRelease, CompSend, CompTakeExpired, CompBusy, CompDuplicate,
         CompOrphan, CompUnload, CompRecovered, CompSendUnloaded, CompExit
<1>5. CASE Unloading \/ Stop \/ Resting \/ UNCHANGED vars
  BY <1>5, <1>same
     DEF Unloading, ExpireRunner, ExpireRunnerLock, ExpireRunnerSend, Stop, Shutdown,
         UnloadAllRunners, Exit, Resting, vars
<1> QED BY <1>1, <1>2, <1>3, <1>4, <1>5 DEF Next

NowInstalled(r) == ref'[r].req # NoReq

LEMMA NextPointers ==
    ASSUME SchedInv, PointersInv, FreshInv, [Next]_vars
    PROVE  PointersInv'
<1>ty. TypeOK /\ OwnerInv /\ MapsOK /\ PendOK /\ CompOK /\ ChannelsOK
  BY DEF SchedInv, TypeOK
<1>ty1. TypeOK'
  BY <1>ty, NextT
<1>keep. ASSUME NEW r \in Runner, Installed(r) PROVE NowInstalled(r)
  BY <1>keep, InstalledFrame DEF Installed, NowInstalled
<1>map. \A m \in Model : loaded[m] # NoRunner => loaded[m] \in Runner /\ Installed(loaded[m]) /\ NowInstalled(loaded[m])
  BY <1>ty, <1>keep DEF MapsOK, RefOrNone, PointersInv
<1>all. \A r \in LoadedRunners : r \in Runner /\ Installed(r) /\ NowInstalled(r)
  BY <1>map DEF LoadedRunners
<1>1. \A m \in Model : loaded'[m] # NoRunner => NowInstalled(loaded'[m])
  <2>1. CASE loaded' = loaded
    BY <2>1, <1>map DEF Installed, NowInstalled
  <2>2. CASE PendLoaded
    <3>1. Installs
      BY <2>2, LoadInstalls
    <3>2. NowInstalled(pend.runner)
      BY <3>1, ReqAssumption DEF Installs, Installed, NowInstalled
    <3>3. \A m \in Model : loaded'[m] \in {loaded[m], pend.runner}
      BY <3>1, <1>ty DEF Installs, MapsOK
    <3> QED BY <3>2, <3>3, <1>map DEF Installed, NowInstalled
  <2>3. CASE CompUnload
    <3>1. \A m \in Model : loaded'[m] \in {loaded[m], NoRunner}
      BY <2>3, <1>ty DEF CompUnload, MapsOK
    <3> QED BY <3>1, <1>map DEF Installed, NowInstalled
  <2> QED BY <2>1, <2>2, <2>3, LoadedFrame
<1>2. \A q \in Req : req'[q].runner # NoRunner => NowInstalled(req'[q].runner)
  <2> SUFFICES ASSUME NEW q \in Req, req'[q].runner # NoRunner PROVE NowInstalled(req'[q].runner)
    BY DEF Installed, NowInstalled
  <2>1. ReqStep(q)
    BY <1>ty, ReqFrame
  <2>2. req'[q].runner = req[q].runner \/ \E m \in Model : req'[q].runner = loaded[m]
    BY <2>1 DEF ReqStep, Same
  <2>3. req[q].runner # NoRunner => req[q].runner \in Runner /\ Installed(req[q].runner)
    BY <1>ty DEF TypeOK, ReqOK, RequestType, RefOrNone, PointersInv
  <2> QED BY <2>2, <2>3, <1>keep, <1>map DEF Installed, NowInstalled
<1>3. pend'.pc \in {"check", "use", "expire", "send"} => NowInstalled(pend'.runner)
  <2>1. CASE pend' = pend
    <3>1. pend.pc \in {"check", "use", "expire", "send"} => pend.runner \in Runner /\ Installed(pend.runner)
      BY <1>ty DEF PendOK, PointersInv
    <3> QED BY <2>1, <3>1, <1>keep DEF Installed, NowInstalled
  <2>2. CASE Pending
    <3> SUFFICES ASSUME pend'.pc \in {"check", "use", "expire", "send"} PROVE NowInstalled(pend'.runner)
      BY DEF Installed, NowInstalled
    <3>1. CASE PendLook
      <4>1. PModel \in Model /\ pend'.runner = loaded[PModel] /\ pend'.pc \in {"check", "find", "fit"}
        BY <3>1, <1>ty DEF PendLook, PendAt, PendOK, PendType, TypeOK, ReqOK, RequestType, CallType, PModel
      <4>2. loaded[PModel] # NoRunner
        BY <3>1, <1>ty, <4>1 DEF PendLook, PendOK, PendType
      <4> QED BY <4>1, <4>2, <1>map DEF Installed, NowInstalled
    <3>2. CASE PendScan
      <4>1. pend.at \in 1..Len(pend.list) /\ pend.list \in Seq(Runner)
        BY <3>2, <1>ty DEF PendScan, PendAt, PendOK, PendType
      <4>2. \E i \in 1..Len(pend.list) : pend'.runner = pend.list[i]
        <5>1. 1 \in 1..Len(pend.list)
          BY <4>1
        <5>2. pend'.pc = "expire"
          BY <3>2, <1>ty DEF PendScan, PendAt, PendOK, PendType
        <5>3. pend' \in {[pend EXCEPT !.pc = "expire", !.runner = pend.list[pend.at], !.list = <<>>, !.at = 1],
                         [pend EXCEPT !.pc = "expire", !.runner = pend.list[1], !.list = <<>>, !.at = 1],
                         [pend EXCEPT !.at = @ + 1]}
          BY <3>2 DEF PendScan
        <5>4. pend' # [pend EXCEPT !.at = @ + 1]
          BY <3>2, <5>2, <1>ty DEF PendScan, PendAt, PendOK, PendType
        <5>5. pend'.runner \in {pend.list[pend.at], pend.list[1]}
          BY <5>3, <5>4, <1>ty DEF PendOK, PendType
        <5> QED BY <4>1, <5>1, <5>5
      <4> QED BY <4>1, <4>2, <1>keep DEF PointersInv, Installed, NowInstalled
    <3>3. CASE PendCheck
      <4>1. pend'.runner = pend.runner /\ pend.runner \in Runner /\ Installed(pend.runner)
        BY <3>3, <1>ty DEF PendCheck, PendAt, PendOK, PendType, PointersInv
      <4> QED BY <4>1, <1>keep DEF Installed, NowInstalled
    <3>4. CASE PendExpire
      <4>1. pend'.runner = pend.runner /\ pend.runner \in Runner /\ Installed(pend.runner)
        BY <3>4, <1>ty DEF PendExpire, PendAt, PendOK, PendType, PointersInv
      <4> QED BY <4>1, <1>keep DEF Installed, NowInstalled
    <3>5. ~PendUse /\ ~PendFitFails /\ ~PendSpawnFails /\ ~PendLoaded
      BY DEF PendUse, PendFitFails, PendSpawnFails, PendLoaded, IdlePend
    <3>6. ~PendTake /\ ~PendFit /\ ~PendFree /\ ~PendSpawn /\ ~PendSpawnAgain /\ ~PendNeedEvict /\ ~PendFind
      <4>1. ~PendTake
        BY <1>ty DEF PendTake, PendAt, PendOK, PendType
      <4>2. ~PendFit
        BY <1>ty DEF PendFit, PendAt, PendOK, PendType
      <4>3. ~PendFree
        BY <1>ty DEF PendFree, PendAt, PendOK, PendType
      <4>4. ~PendSpawn
        BY <1>ty DEF PendSpawn, PendAt, PendOK, PendType
      <4>5. ~PendSpawnAgain
        BY <1>ty DEF PendSpawnAgain, PendAt, PendOK, PendType
      <4>6. ~PendNeedEvict
        BY <1>ty DEF PendNeedEvict, PendAt, PendOK, PendType
      <4>7. ~PendFind
        BY <1>ty DEF PendFind, PendAt, PendOK, PendType
      <4> QED BY <4>1, <4>2, <4>3, <4>4, <4>5, <4>6, <4>7
    <3>7. ~PendLoadFails /\ ~PendSend /\ ~PendUnloaded /\ ~PendIgnore /\ ~PendExit
      <4>1. ~PendLoadFails
        BY <1>ty DEF PendLoadFails, PendAt, IdlePend
      <4> QED BY <1>ty, <4>1 DEF PendSend, PendUnloaded, PendIgnore, PendExit, PendAt, IdlePend, PendOK, PendType
    <3> QED BY <2>2, <3>1, <3>2, <3>3, <3>4, <3>5, <3>6, <3>7 DEF Pending
  <2> QED BY <2>1, <2>2, PendFrame
<1>4. \A i \in 1..Len(pend'.list) : NowInstalled(pend'.list[i])
  <2>1. CASE pend'.list = pend.list
    <3>1. \A i \in 1..Len(pend.list) : pend.list[i] \in Runner /\ Installed(pend.list[i])
      BY <1>ty DEF PendOK, PendType, PointersInv
    <3> QED BY <2>1, <3>1, <1>keep DEF Installed, NowInstalled
  <2>2. CASE pend'.list = <<>>
    BY <2>2
  <2>3. CASE \E S \in SUBSET LoadedRunners : pend'.list \in Orders(S)
    <3>1. PICK S \in SUBSET LoadedRunners : pend'.list \in Orders(S)
      BY <2>3
    <3>2. pend'.list \in [1..Cardinality(S) -> S]
      BY <3>1 DEF Orders
    <3>3. S \subseteq Runner /\ Cardinality(S) \in Nat
      <4>1. IsFiniteSet(Runner) /\ S \subseteq Runner
        BY <1>all, FS_Interval, BoundAssumption DEF Runner
      <4> QED BY <4>1, FS_Subset, FS_CardinalityType
    <3>4. \A i \in 1..Len(pend'.list) : pend'.list[i] \in S
      BY <3>2, <3>3
    <3> QED BY <3>4, <1>all DEF Installed, NowInstalled
  <2>4. pend' = pend => pend'.list = pend.list
    OBVIOUS
  <2>5. CASE Pending
    <3>1. CASE PendFit
      <4>1. PICK s \in Orders(IF req[pend.req].call.gpu = 0 THEN {} ELSE LoadedRunners) :
              pend' = [pend EXCEPT !.pc = "free", !.list = s, !.at = 1]
        BY <3>1 DEF PendFit
      <4>2. pend'.list = s
        BY <4>1, <1>ty DEF PendOK, PendType
      <4> QED BY <2>3, <4>1, <4>2
    <3>2. CASE PendFind
      <4>1. PICK s \in Orders(LoadedRunners) :
              pend' = IF s = <<>> THEN [pend EXCEPT !.pc = "look"]
                      ELSE [pend EXCEPT !.pc = "scan", !.list = s, !.at = 1]
        BY <3>2 DEF PendFind
      <4>2. pend'.list \in {s, pend.list}
        BY <4>1, <1>ty DEF PendOK, PendType
      <4> QED BY <2>1, <2>3, <4>1, <4>2
    <3>3. CASE PendFree \/ PendScan
      <4>1. pend'.list \in {pend.list, <<>>}
        BY <3>3, <1>ty DEF PendFree, PendScan, PendOK, PendType
      <4> QED BY <2>1, <2>2, <4>1
    <3>4. CASE PendLoadFails
      <4>1. pend' \in {pend, IdlePend}
        BY <3>4 DEF PendLoadFails
      <4> QED BY <2>1, <2>2, <4>1 DEF IdlePend
    <3>5. CASE PendUse \/ PendFitFails \/ PendSpawnFails \/ PendLoaded \/ PendExit
      <4>1. pend'.list = <<>>
        BY <3>5 DEF PendUse, PendFitFails, PendSpawnFails, PendLoaded, PendExit, IdlePend
      <4> QED BY <2>2, <4>1
    <3>6. CASE PendTake \/ PendLook \/ PendCheck \/ PendSpawn \/ PendSpawnAgain \/ PendNeedEvict
      <4>1. pend'.list = pend.list
        BY <3>6, <1>ty DEF PendTake, PendLook, PendCheck, PendSpawn, PendSpawnAgain, PendNeedEvict, PendOK, PendType
      <4> QED BY <2>1, <4>1
    <3>7. CASE PendExpire \/ PendSend \/ PendUnloaded \/ PendIgnore
      <4>1. pend'.list = pend.list
        BY <3>7, <1>ty DEF PendExpire, PendSend, PendUnloaded, PendIgnore, PendOK, PendType
      <4> QED BY <2>1, <4>1
    <3> QED BY <2>5, <3>1, <3>2, <3>3, <3>4, <3>5, <3>6, <3>7 DEF Pending
  <2> QED BY <2>1, <2>4, <2>5, PendFrame
<1>5. comp'.runner # NoRunner => NowInstalled(comp'.runner)
  <2>1. comp.runner # NoRunner => comp.runner \in Runner /\ Installed(comp.runner)
    BY <1>ty DEF CompOK, RefOrNone, PointersInv
  <2>2. CASE comp'.runner \in {comp.runner, NoRunner}
    BY <2>1, <2>2, <1>keep DEF Installed, NowInstalled
  <2>3. CASE CompFinished
    <3>1. req[Head(finishedCh)].call.model \in Model
      BY <2>3, <1>ty, TailOK DEF CompFinished, ChannelsOK, TypeOK, ReqOK, RequestType, CallType
    <3>2. comp'.runner \in {comp.runner, loaded[req[Head(finishedCh)].call.model]}
      BY <2>3 DEF CompFinished
    <3> QED BY <2>1, <3>1, <3>2, <1>keep, <1>map DEF Installed, NowInstalled
  <2>4. CASE CompTakeExpired
    <3>1. comp'.runner = Head(expiredCh) /\ 1 \in 1..Len(expiredCh) /\ Head(expiredCh) = expiredCh[1]
      BY <2>4, <1>ty DEF CompTakeExpired, ChannelsOK
    <3>2. expiredCh[1] \in Runner /\ Installed(expiredCh[1])
      BY <3>1, <1>ty DEF PointersInv, ChannelsOK
    <3> QED BY <3>1, <3>2, <1>keep DEF Installed, NowInstalled
  <2> QED BY <2>2, <2>3, <2>4, <1>ty, CompFrame
<1>6. unl'.runner # NoRunner => NowInstalled(unl'.runner)
  <2>1. unl.runner # NoRunner => unl.runner \in Runner /\ Installed(unl.runner)
    BY <1>ty DEF TypeOK, UnlOK, RefOrNone, PointersInv
  <2>2. CASE unl'.runner \in {unl.runner, NoRunner}
    BY <2>1, <2>2, <1>keep DEF Installed, NowInstalled
  <2>3. ASSUME NEW m \in Model, ExpireRunner(m) PROVE NowInstalled(unl'.runner)
    BY <2>3, <1>map DEF ExpireRunner, Installed, NowInstalled
  <2>4. CASE ExpireRunnerLock \/ ExpireRunnerSend
    BY <2>2, <2>4, <1>ty DEF ExpireRunnerLock, ExpireRunnerSend, TypeOK, UnlOK
  <2> QED BY <2>2, <2>3, <2>4, <1>ty, UnlFrame DEF Unloading, Installed, NowInstalled
<1>7. \A i \in 1..Len(expiredCh') : NowInstalled(expiredCh'[i])
  <2>0. \A i \in 1..Len(expiredCh) : expiredCh[i] \in Runner /\ NowInstalled(expiredCh[i])
    BY <1>ty, <1>keep DEF ChannelsOK, PointersInv
  <2>1. CASE expiredCh' = expiredCh
    BY <2>0, <2>1 DEF Installed, NowInstalled
  <2>2. CASE CompTakeExpired
    <3>1. expiredCh' = Tail(expiredCh) /\ expiredCh # <<>>
      BY <2>2 DEF CompTakeExpired
    <3>2. \A i \in 1..Len(expiredCh') : i + 1 \in 1..Len(expiredCh) /\ expiredCh'[i] = expiredCh[i + 1]
      BY <3>1, <1>ty DEF ChannelsOK
    <3> QED BY <2>0, <3>2 DEF Installed, NowInstalled
  <2>3. ASSUME NEW r \in Runner, Sender(r), expiredCh' = Append(expiredCh, r)
        PROVE  \A i \in 1..Len(expiredCh') : NowInstalled(expiredCh'[i])
    <3>1. Installed(r)
      <4>1. CASE RunnerStep(r)
        BY <4>1, RunnerInstalled
      <4>2. r # NoRunner
        BY DEF Runner, NoRunner
      <4> QED BY <2>3, <4>1, <4>2 DEF Sender, PendSend, PendAt, PointersInv
    <3>2. \A i \in 1..Len(expiredCh') : expiredCh'[i] = r \/ (i \in 1..Len(expiredCh) /\ expiredCh'[i] = expiredCh[i])
      BY <2>3, <1>ty DEF ChannelsOK
    <3>3. NowInstalled(r)
      BY <3>1, <1>keep
    <3> QED BY <2>0, <3>2, <3>3 DEF Installed, NowInstalled
  <2> QED BY <2>1, <2>2, <2>3, <1>ty, ExpiredFrame
<1> QED BY <1>1, <1>2, <1>3, <1>4, <1>5, <1>6, <1>7 DEF PointersInv, Installed, NowInstalled

LEMMA NextFresh ==
    ASSUME SchedInv, PointersInv, FreshInv, [Next]_vars
    PROVE  FreshInv'
<1>ty. TypeOK /\ MapsOK /\ PendOK /\ spawned \in Nat
  BY DEF SchedInv, TypeOK, MapsOK
<1>1. CASE PendLoaded
  <2>1. Installs /\ pend'.pc = "idle"
    BY <1>1, LoadInstalls DEF Installs, IdlePend
  <2>2. NowInstalled(pend.runner) /\ pend.runner <= spawned /\ spawned' = spawned
    BY <2>1, ReqAssumption DEF Installs, Installed, NowInstalled, SchedInv, LoadInv, PendingInv
  <2>3. \A r \in Runner : r > spawned => r # pend.runner
    BY <2>1, <2>2, <1>ty DEF Installs, Runner
  <2>4. \A r \in Runner : r # pend.runner => ref'[r] = ref[r]
    BY <2>1 DEF Installs
  <2>5. activeLoading' = NoRunner /\ pend'.pc # "load"
    BY <2>1 DEF Installs
  <2> QED BY <2>2, <2>3, <2>4, <2>5 DEF FreshInv, Installed, NowInstalled
<1>2. CASE ~PendLoaded
  <2>1. \A r \in Runner : ~Installed(r) => ref'[r] = ref[r]
    BY <1>2, <1>ty, TouchFrame, TouchedOnly
  <2>2. \A r \in Runner : NowInstalled(r) <=> Installed(r)
    BY <1>2, InstalledFrame DEF Installed, NowInstalled
  <2>3. \A r \in Runner : ~NowInstalled(r) => ref'[r] = BlankRef
    BY <2>1, <2>2 DEF FreshInv
  <2>4. CASE PendSpawn
    <3>1. /\ spawned' = spawned + 1 /\ activeLoading' = spawned + 1
          /\ pend' = [pend EXCEPT !.pc = "load", !.runner = spawned + 1]
      BY <2>4 DEF PendSpawn
    <3>2. spawned + 1 \in Runner /\ pend'.runner = spawned + 1
      BY <2>4, <3>1, <1>ty, BoundAssumption DEF PendSpawn, MapsOK, Runner, PendOK, PendType
    <3>3. ~Installed(spawned + 1)
      BY <3>2, <1>ty DEF FreshInv
    <3>4. \A r \in Runner : r > spawned' => ~Installed(r)
      BY <3>1, <1>ty DEF FreshInv, Runner
    <3> QED BY <2>2, <2>3, <3>1, <3>2, <3>3, <3>4 DEF FreshInv, Installed, NowInstalled
  <2>5. CASE ~PendSpawn
    <3>1. spawned' = spawned
      <4>1. ASSUME NEW q \in Req, Client(q) PROVE spawned' = spawned
        BY <4>1 DEF Client, GetRunner, GetRunnerCheck, GetRunnerUse, GetRunnerEnqueue, ContextDone, Finished, maps
      <4>2. ASSUME NEW r \in Runner, RunnerStep(r) PROVE spawned' = spawned
        BY <4>2 DEF RunnerStep, LoaderReady, LoaderFails, LoaderSend, TimerFires, TimerLocks, TimerSend,
                    Requeue, maps
      <4>3. CASE Pending
        BY <4>3, <2>5 DEF Pending, PendTake, PendLook, PendCheck, PendUse, PendFit, PendFitFails, PendFree,
                  PendSpawnFails, PendSpawnAgain, PendLoaded, PendNeedEvict, PendLoadFails, PendFind,
                  PendScan, PendExpire, PendSend, PendUnloaded, PendIgnore, PendExit, maps
      <4>4. CASE Completed
        BY <4>4 DEF Completed, CompFinished, CompRelease, CompSend, CompTakeExpired, CompBusy,
                  CompDuplicate, CompOrphan, CompUnload, CompRecovered, CompSendUnloaded, CompExit, maps
      <4>5. CASE Unloading \/ Resting \/ Stop \/ UNCHANGED vars
        BY <4>5 DEF Unloading, ExpireRunner, ExpireRunnerLock, ExpireRunnerSend, Resting, vars, maps,
                    Stop, Shutdown, UnloadAllRunners, Exit
      <4> QED BY <4>1, <4>2, <4>3, <4>4, <4>5 DEF Next
    <3>2. activeLoading' # NoRunner => activeLoading' = activeLoading /\ activeLoading \in Runner
      BY <2>5, <1>ty, ActiveFrame DEF MapsOK, RefOrNone
    <3>3. pend'.pc = "load" => pend'.runner \in Runner /\ ~Installed(pend'.runner)
      <4>1. CASE pend' = pend
        BY <4>1, <1>ty DEF FreshInv, PendOK
      <4>2. CASE PendSpawnAgain
        <5>1. activeLoading \in Runner /\ ~Installed(activeLoading)
          BY <4>2, <1>ty DEF PendSpawnAgain, MapsOK, RefOrNone, FreshInv
        <5>2. pend' = pend \/ pend' = [pend EXCEPT !.pc = "load", !.runner = activeLoading]
          BY <4>2 DEF PendSpawnAgain
        <5> QED BY <4>1, <5>1, <5>2, <1>ty DEF PendOK, PendType
      <4>3. CASE Pending /\ ~PendSpawnAgain
        <5> SUFFICES ASSUME pend'.pc = "load" PROVE pend' = pend
          BY <4>1
        <5>1. PendGoes
          BY <4>3, <1>ty, PendPath
        <5>2. pend.pc \in {"spawn", "load"}
          BY <5>1 DEF PendGoes
        <5>3. CASE pend.pc = "spawn"
          BY <4>3, <5>3, <2>5, <1>2
             DEF Pending, PendTake, PendLook, PendCheck, PendUse, PendFit, PendFitFails, PendFree,
                  PendSpawnFails, PendLoaded, PendNeedEvict, PendLoadFails, PendFind,
                  PendScan, PendExpire, PendSend, PendUnloaded, PendIgnore, PendExit, PendAt, IdlePend
        <5>4. CASE pend.pc = "load"
          <6>1. PendNeedEvict \/ PendLoadFails
            BY <4>3, <5>4, <2>5, <1>2
               DEF Pending, PendTake, PendLook, PendCheck, PendUse, PendFit, PendFitFails, PendFree,
                   PendSpawnFails, PendFind, PendScan, PendExpire, PendSend, PendUnloaded, PendIgnore,
                   PendExit, PendAt
          <6> QED BY <6>1, <1>ty DEF PendNeedEvict, PendLoadFails, IdlePend, PendOK, PendType
        <5> QED BY <5>2, <5>3, <5>4
      <4> QED BY <4>1, <4>2, <4>3, PendFrame
    <3> QED BY <2>2, <2>3, <3>1, <3>2, <3>3 DEF FreshInv, Installed, NowInstalled
  <2> QED BY <2>4, <2>5
<1> QED BY <1>1, <1>2

-----------------------------------------------------------------------------
(* Options, mutexes and models *)

(* A runner whose options are set is the one in the map for its model. *)
LiveInv == \A r \in Runner : ref[r].live => srv[r].path \in Model /\ loaded[srv[r].path] = r

(* Who holds the refMu of a runner: its loader, whose timer was not set    *)
(* yet, or a goroutine that waits to send it to expiredCh, or              *)
(* processCompleted, that waits for the memory of an unloaded runner.      *)
LoaderHolds ==
    \A r \in Runner : ref[r].load # "none" => ref[r].mu = "loader" /\ ref[r].live /\ ref[r].timer = "nil"
SendersHold ==
    /\ pend.pc = "send" => ref[pend.runner].mu = "pend"
    /\ comp.pc \in {"send", "vram"} => ref[comp.runner].mu = "comp"
    /\ unl.pc = "send" => ref[unl.runner].mu = "unl"
GoneInv == comp.pc = "vram" => \A m \in Model : loaded[m] # comp.runner
MutexInv == LoaderHolds /\ SendersHold /\ GoneInv

(* A runner that was looked up for a request is one for its model. *)
PathInv ==
    /\ \A q \in Req : req[q].pc \in {"check", "use"} => srv[req[q].runner].path = req[q].call.model
    /\ pend.pc \in {"check", "use"} => srv[pend.runner].path = PModel
    /\ \A r \in Runner : ref[r].load = "wait" => srv[r].path = req[ref[r].req].call.model

BaseInv == SchedInv /\ PointersInv /\ FreshInv

LEMMA InitM == Init => LiveInv /\ MutexInv /\ PathInv
BY DEF Init, LiveInv, MutexInv, LoaderHolds, SendersHold, GoneInv, PathInv, BlankRef, NewRequest, IdlePend

(* An installed runner keeps the model it was spawned for. *)
LEMMA InstalledPath ==
    ASSUME BaseInv, [Next]_vars, NEW r \in Runner, Installed(r)
    PROVE  srv'[r].path = srv[r].path
<1>1. CASE PathsKeep
  BY <1>1 DEF PathsKeep
<1>2. CASE PendSpawn
  <2>1. spawned \in Nat /\ spawned + 1 \in Runner /\ srv' = [srv EXCEPT ![spawned + 1] = [state |-> "open", path |-> PModel]]
    BY <1>2, BoundAssumption DEF PendSpawn, BaseInv, SchedInv, TypeOK, MapsOK, Runner
  <2>2. r # spawned + 1
    BY <2>1 DEF BaseInv, FreshInv
  <2> QED BY <2>1, <2>2 DEF BaseInv, SchedInv, TypeOK, MapsOK
<1> QED BY <1>1, <1>2, PathFrame DEF BaseInv, SchedInv

LEMMA NextLive == ASSUME BaseInv, LiveInv, [Next]_vars PROVE LiveInv'
<1>ty. SchedInv /\ TypeOK /\ RefOK /\ MapsOK
  BY DEF BaseInv, SchedInv, TypeOK
<1>blank. BlankRef.live = FALSE
  BY DEF BlankRef
<1>inst. \A r \in Runner : ref[r].live => Installed(r)
  BY <1>blank DEF BaseInv, FreshInv
<1>path. \A r \in Runner : ref[r].live => srv'[r].path = srv[r].path
  BY <1>inst, InstalledPath
<1>1. CASE PendLoaded
  <2>1. Installs
    BY <1>1, <1>ty, LoadInstalls
  <2>2. srv[pend.runner].path = PModel
    BY <2>1 DEF Installs, BaseInv, SchedInv, LoadInv, PendingInv
  <2>3. loaded'[PModel] = pend.runner /\ \A m \in Model : m # PModel => loaded'[m] = loaded[m]
    BY <2>1, <1>ty DEF Installs, MapsOK
  <2>4. \A r \in Runner \ {pend.runner} : ref[r].live => srv[r].path # PModel
    BY <2>1 DEF LiveInv, Installs, Runner, NoRunner
  <2> QED BY <2>1, <2>2, <2>3, <2>4 DEF LiveInv, Installs
<1>2. CASE CompOrphan \/ CompUnload
  <2>1. comp.runner \in Runner
    BY <1>ty, <1>2 DEF TypeOK, CompOK, CompOrphan, CompUnload, CompExpiredAt, CompAt
  <2>2. ref'[comp.runner].live = FALSE /\ \A t \in Runner \ {comp.runner} : ref'[t] = ref[t]
    <3>1. CASE CompOrphan
      BY <3>1, <1>ty, <2>1, SetsComp DEF Sets
    <3>2. CASE CompUnload
      BY <3>2, <1>ty, <2>1, SetsComp DEF Sets
    <3> QED BY <1>2, <3>1, <3>2
  <2>3. \A m \in Model : loaded[m] # comp.runner => loaded'[m] = loaded[m]
    <3>1. CASE CompOrphan
      BY <3>1 DEF CompOrphan
    <3>2. CASE CompUnload
      BY <3>2, <1>ty DEF CompUnload, CompTarget, MapsOK
    <3> QED BY <1>2, <3>1, <3>2
  <2> QED BY <1>path, <2>1, <2>2, <2>3 DEF LiveInv
<1>3. CASE RefStable /\ ~PendLoaded /\ ~CompUnload
  <2>1. loaded' = loaded
    BY <1>3, LoadedFrame
  <2> QED BY <1>3, <1>path, <2>1 DEF LiveInv, RefStable
<1> QED BY <1>ty, <1>1, <1>2, <1>3, RefFrame

(* refMu changes hands only while it is free, or when its holder lets go. *)
LEMMA MuFrame ==
    ASSUME BaseInv, MutexInv, NEW r \in Runner, Touches(r)
    PROVE  \/ ref'[r].mu = ref[r].mu
           \/ ref[r].mu \in {"free", "loader", "timer"}
           \/ ref[r].mu = "pend" /\ PendSend
           \/ ref[r].mu = "comp" /\ (CompSend \/ CompRecovered)
           \/ ref[r].mu = "unl" /\ ExpireRunnerSend
<1>ty. RefOK
  BY DEF BaseInv, SchedInv, TypeOK
<1>1. CASE RunnerStep(r)
  <2>1. CASE LoaderReady(r) \/ LoaderFails(r) \/ LoaderSend(r)
    BY <2>1 DEF LoaderReady, LoaderFails, LoaderSend, MutexInv, LoaderHolds
  <2>2. CASE TimerFires(r) \/ Requeue(r)
    BY <2>2, <1>ty, SetsRunner DEF Sets
  <2>3. CASE TimerLocks(r) \/ TimerSend(r)
    BY <2>3 DEF TimerLocks, TimerSend
  <2> QED BY <1>1, <2>1, <2>2, <2>3 DEF RunnerStep
<1>2. ASSUME NEW q \in Req, GetRunnerUse(q), req[q].runner = r PROVE ref[r].mu = "free"
  BY <1>2 DEF GetRunnerUse, UseLoadedRunner
<1>3. CASE (PendUse \/ PendExpire \/ PendSend) /\ pend.runner = r
  BY <1>3 DEF PendUse, UseLoadedRunner, PendExpire, ExpireNow, PendSend, PendAt, MutexInv, SendersHold
<1>4. CASE (CompRelease \/ CompBusy \/ CompOrphan \/ CompUnload) /\ comp.runner = r
  BY <1>4 DEF CompRelease, CompBusy, CompOrphan, CompUnload, CompExpiredAt
<1>5. CASE (CompSend \/ CompRecovered) /\ comp.runner = r
  BY <1>5 DEF CompSend, CompRecovered, CompAt, MutexInv, SendersHold
<1>6. CASE (ExpireRunnerLock \/ ExpireRunnerSend) /\ unl.runner = r
  BY <1>6 DEF ExpireRunnerLock, ExpireNow, ExpireRunnerSend, MutexInv, SendersHold
<1> QED BY <1>1, <1>2, <1>3, <1>4, <1>5, <1>6 DEF Touches

LEMMA NextLoaderHolds == ASSUME BaseInv, MutexInv, [Next]_vars PROVE LoaderHolds'
<1>ty. SchedInv /\ TypeOK /\ RefOK
  BY DEF BaseInv, SchedInv, TypeOK
<1>inv. LoaderHolds
  BY DEF MutexInv
<1>1. CASE ref' = ref
  BY <1>1, <1>inv DEF LoaderHolds
<1>2. CASE PendLoaded
  <2>1. Installs
    BY <1>2, <1>ty, LoadInstalls
  <2> QED BY <2>1, <1>inv DEF Installs, LoaderHolds
<1>3. ASSUME NEW r \in Runner, Touches(r) PROVE LoaderHolds'
  <2>1. \A t \in Runner \ {r} : ref'[t] = ref[t]
    BY <1>3, <1>ty, TouchedOnly DEF BaseInv
  <2> SUFFICES ASSUME ref'[r].load # "none" PROVE ref'[r].mu = "loader" /\ ref'[r].live /\ ref'[r].timer = "nil"
    BY <2>1, <1>inv DEF LoaderHolds
  <2>none. ASSUME ref[r].load = "none" PROVE FALSE
    <3>1. CASE RunnerStep(r)
      <4>1. CASE LoaderReady(r) \/ LoaderFails(r)
        BY <4>1, <2>none DEF LoaderReady, LoaderFails
      <4>2. CASE LoaderSend(r) \/ TimerFires(r) \/ TimerLocks(r) \/ TimerSend(r) \/ Requeue(r)
        BY <4>2, <2>none, <1>ty, SetsRunner DEF Sets
      <4> QED BY <3>1, <4>1, <4>2 DEF RunnerStep
    <3>2. ASSUME NEW q \in Req, GetRunnerUse(q), req[q].runner = r PROVE FALSE
      BY <3>2, <2>none, <1>ty, SetsUse DEF GetRunnerUse, Sets
    <3>3. CASE (PendUse \/ PendExpire \/ PendSend) /\ pend.runner = r
      <4>1. CASE PendUse
        BY <3>3, <4>1, <2>none, <1>ty, SetsUse DEF PendUse, Sets
      <4>2. CASE PendExpire
        BY <3>3, <4>2, <2>none, <1>ty, SetsExpire DEF PendExpire, Sets
      <4>3. CASE PendSend
        BY <3>3, <4>3, <2>none, <1>ty, SetsField DEF PendSend, Sets
      <4> QED BY <3>3, <4>1, <4>2, <4>3
    <3>4. CASE (CompRelease \/ CompSend \/ CompBusy \/ CompOrphan \/ CompUnload \/ CompRecovered) /\ comp.runner = r
      BY <3>4, <2>none, <1>ty, SetsComp DEF Sets
    <3>5. CASE (ExpireRunnerLock \/ ExpireRunnerSend) /\ unl.runner = r
      <4>1. CASE ExpireRunnerLock
        BY <3>5, <4>1, <2>none, <1>ty, SetsExpire DEF ExpireRunnerLock, Sets
      <4>2. CASE ExpireRunnerSend
        BY <3>5, <4>2, <2>none, <1>ty, SetsField DEF ExpireRunnerSend, Sets
      <4> QED BY <3>5, <4>1, <4>2
    <3> QED BY <1>3, <3>1, <3>2, <3>3, <3>4, <3>5 DEF Touches
  <2>2. ref[r].mu = "loader" /\ ref[r].live /\ ref[r].timer = "nil"
    BY <2>none, <1>inv DEF LoaderHolds
  <2>3. CASE RunnerStep(r)
    <3>1. CASE LoaderReady(r) \/ LoaderSend(r)
      BY <3>1, <1>ty, SetsRunner DEF Sets
    <3>2. CASE LoaderFails(r) \/ Requeue(r)
      BY <3>2, <2>2, <1>ty, SetsRunner DEF Sets
    <3>3. ~TimerFires(r) /\ ~TimerLocks(r) /\ ~TimerSend(r)
      BY <2>2 DEF TimerFires, TimerLocks, TimerSend
    <3> QED BY <2>3, <3>1, <3>2, <3>3 DEF RunnerStep
  <2>4. ASSUME NEW q \in Req, GetRunnerUse(q), req[q].runner = r PROVE FALSE
    BY <2>4, <2>2 DEF GetRunnerUse, UseLoadedRunner
  <2>5. ~((PendUse \/ PendExpire \/ PendSend) /\ pend.runner = r)
    BY <2>2 DEF PendUse, UseLoadedRunner, PendExpire, ExpireNow, PendSend, PendAt, MutexInv, SendersHold
  <2>6. ~((CompRelease \/ CompSend \/ CompBusy \/ CompOrphan \/ CompUnload \/ CompRecovered) /\ comp.runner = r)
    BY <2>2 DEF CompRelease, CompSend, CompBusy, CompOrphan, CompUnload, CompRecovered, CompExpiredAt, CompAt,
                MutexInv, SendersHold
  <2>7. ~((ExpireRunnerLock \/ ExpireRunnerSend) /\ unl.runner = r)
    BY <2>2 DEF ExpireRunnerLock, ExpireNow, ExpireRunnerSend, MutexInv, SendersHold
  <2> QED BY <1>3, <2>3, <2>4, <2>5, <2>6, <2>7 DEF Touches
<1> QED BY <1>ty, <1>1, <1>2, <1>3, TouchFrame

(* The steps that start to hold refMu for a send *)
LEMMA HolderFrame ==
    ASSUME TypeOK, [Next]_vars
    PROVE  /\ pend'.pc = "send" => pend' = pend \/ PendExpire
           /\ comp'.pc \in {"send", "vram"} => comp' = comp \/ CompRelease \/ CompUnload
           /\ unl'.pc = "send" => unl' = unl \/ ExpireRunnerLock
<1>1. pend'.pc = "send" => pend' = pend \/ PendExpire
  <2>1. ASSUME Pending, pend'.pc = "send" PROVE PendExpire
    <3>1. pend.pc = "expire"
      BY <2>1, PendPath DEF PendGoes
    <3> QED BY <2>1, <3>1
            DEF Pending, PendTake, PendLook, PendCheck, PendUse, PendFit, PendFitFails, PendFree, PendSpawn,
                PendSpawnFails, PendSpawnAgain, PendLoaded, PendNeedEvict, PendLoadFails, PendFind,
                PendScan, PendSend, PendUnloaded, PendIgnore, PendExit, PendAt
  <2> QED BY <2>1, PendFrame
<1>2. comp'.pc \in {"send", "vram"} => comp' = comp \/ CompRelease \/ CompUnload
  <2>1. ASSUME NEW q \in Req, Client(q) PROVE comp' = comp
    BY <2>1 DEF Client, GetRunner, GetRunnerCheck, GetRunnerUse, GetRunnerEnqueue, ContextDone, Finished
  <2>2. ASSUME NEW r \in Runner, RunnerStep(r) PROVE comp' = comp
    BY <2>2 DEF RunnerStep, LoaderReady, LoaderFails, LoaderSend, TimerFires, TimerLocks, TimerSend, Requeue
  <2>3. CASE Pending
    BY <2>3 DEF Pending, PendTake, PendLook, PendCheck, PendUse, PendFit, PendFitFails, PendFree, PendSpawn,
              PendSpawnFails, PendSpawnAgain, PendLoaded, PendNeedEvict, PendLoadFails, PendFind, PendScan,
              PendExpire, PendSend, PendUnloaded, PendIgnore, PendExit
  <2>4. CASE Completed
    <3>1. CASE CompFinished \/ CompTakeExpired
      BY <3>1 DEF CompFinished, CompTakeExpired
    <3>2. CASE CompRecovered
      BY <3>2 DEF CompRecovered, TypeOK, CompOK
    <3> QED BY <2>4, <3>1, <3>2
            DEF Completed, CompSend, CompBusy, CompDuplicate, CompOrphan, CompSendUnloaded, CompExit, IdleComp
  <2>5. CASE Unloading \/ Resting \/ Stop \/ UNCHANGED vars
    BY <2>5 DEF Unloading, ExpireRunner, ExpireRunnerLock, ExpireRunnerSend, Resting, vars, Stop, Shutdown,
                UnloadAllRunners, Exit
  <2> QED BY <2>1, <2>2, <2>3, <2>4, <2>5 DEF Next
<1>3. unl'.pc = "send" => unl' = unl \/ ExpireRunnerLock
  <2>1. ASSUME Unloading, unl'.pc = "send" PROVE ExpireRunnerLock
    <3>1. ~ExpireRunnerSend
      BY <2>1 DEF ExpireRunnerSend, TypeOK, UnlOK
    <3> QED BY <2>1, <3>1 DEF Unloading, ExpireRunner
  <2> QED BY <2>1, UnlFrame
<1> QED BY <1>1, <1>2, <1>3

LEMMA NextSendersHold == ASSUME BaseInv, MutexInv, [Next]_vars PROVE SendersHold'
<1>ty. SchedInv /\ TypeOK /\ RefOK /\ PointersInv /\ FreshInv
  BY DEF BaseInv, SchedInv, TypeOK
<1>keep. ASSUME NEW r \in Runner, Installed(r), ref[r].mu \notin {"free", "loader", "timer"},
                ~(ref[r].mu = "pend" /\ PendSend),
                ~(ref[r].mu = "comp" /\ (CompSend \/ CompRecovered)),
                ~(ref[r].mu = "unl" /\ ExpireRunnerSend)
         PROVE  ref'[r].mu = ref[r].mu
  <2>1. CASE PendLoaded
    <3>1. Installs /\ ~Installed(pend.runner)
      BY <2>1, <1>ty, LoadInstalls DEF Installs, FreshInv
    <3> QED BY <1>keep, <3>1 DEF Installs
  <2>2. ASSUME NEW t \in Runner, Touches(t) PROVE ref'[r].mu = ref[r].mu
    <3>1. CASE t = r
      BY <1>keep, <2>2, <3>1, MuFrame
    <3>2. CASE t # r
      BY <1>ty, <2>2, <3>2, TouchedOnly
    <3> QED BY <3>1, <3>2
  <2> QED BY <1>ty, <2>1, <2>2, TouchFrame
<1>1. pend'.pc = "send" => ref'[pend'.runner].mu = "pend"
  <2> SUFFICES ASSUME pend'.pc = "send" PROVE ref'[pend'.runner].mu = "pend"
    OBVIOUS
  <2>1. CASE pend' = pend
    <3>1. pend.runner \in Runner /\ Installed(pend.runner) /\ ref[pend.runner].mu = "pend"
      BY <2>1, <1>ty DEF TypeOK, PendOK, PointersInv, MutexInv, SendersHold
    <3>2. ~PendSend
      BY <2>1, <1>ty DEF PendSend, TypeOK, PendOK, PendType
    <3> QED BY <1>keep, <2>1, <3>1, <3>2
  <2>2. CASE PendExpire
    <3>1. pend.runner \in Runner /\ pend'.runner = pend.runner /\ ref[pend.runner].refCount = 0
      BY <2>2, <1>ty DEF PendExpire, PendAt, TypeOK, PendOK, PendType
    <3>2. ref'[pend.runner].mu = "pend"
      BY <2>2, <1>ty, <3>1, SetsExpire DEF PendExpire, Sets
    <3> QED BY <3>1, <3>2
  <2> QED BY <1>ty, <2>1, <2>2, HolderFrame
<1>2. comp'.pc \in {"send", "vram"} => ref'[comp'.runner].mu = "comp"
  <2> SUFFICES ASSUME comp'.pc \in {"send", "vram"} PROVE ref'[comp'.runner].mu = "comp"
    OBVIOUS
  <2>1. CASE comp' = comp
    <3>1. comp.runner \in Runner /\ Installed(comp.runner) /\ ref[comp.runner].mu = "comp"
      BY <2>1, <1>ty DEF TypeOK, CompOK, PointersInv, MutexInv, SendersHold, Runner, NoRunner
    <3>2. ~CompSend /\ ~CompRecovered
      BY <2>1, <1>ty DEF CompSend, CompRecovered, IdleComp, TypeOK, CompOK
    <3> QED BY <1>keep, <2>1, <3>1, <3>2
  <2>2. CASE CompRelease
    <3>1. comp.runner \in Runner
      BY <2>2, <1>ty DEF CompRelease, CompAt, TypeOK, CompOK
    <3>2. ExpiresNow(ref[comp.runner]) /\ comp'.runner = comp.runner
      BY <2>2, <1>ty DEF CompRelease, IdleComp, TypeOK, CompOK
    <3>3. ref'[comp.runner].mu = "comp"
      BY <2>2, <1>ty, <3>1, <3>2, SetsComp DEF Sets
    <3> QED BY <3>2, <3>3
  <2>3. CASE CompUnload
    <3>1. comp.runner \in Runner /\ comp'.runner = comp.runner
      BY <2>3, <1>ty DEF CompUnload, CompExpiredAt, CompAt, TypeOK, CompOK
    <3>2. ref'[comp.runner].mu = "comp"
      BY <2>3, <1>ty, <3>1, SetsComp DEF Sets
    <3> QED BY <3>1, <3>2
  <2> QED BY <1>ty, <2>1, <2>2, <2>3, HolderFrame
<1>3. unl'.pc = "send" => ref'[unl'.runner].mu = "unl"
  <2> SUFFICES ASSUME unl'.pc = "send" PROVE ref'[unl'.runner].mu = "unl"
    OBVIOUS
  <2>1. CASE unl' = unl
    <3>1. unl.runner \in Runner /\ Installed(unl.runner) /\ ref[unl.runner].mu = "unl"
      BY <2>1, <1>ty DEF TypeOK, UnlOK, PointersInv, MutexInv, SendersHold, Runner, NoRunner
    <3>2. ~ExpireRunnerSend
      BY <2>1, <1>ty DEF ExpireRunnerSend, TypeOK, UnlOK
    <3> QED BY <1>keep, <2>1, <3>1, <3>2
  <2>2. CASE ExpireRunnerLock
    <3>1. unl.runner \in Runner
      BY <2>2, <1>ty DEF ExpireRunnerLock, TypeOK, UnlOK
    <3>2. ref[unl.runner].refCount = 0 /\ unl'.runner = unl.runner
      BY <2>2, <1>ty DEF ExpireRunnerLock, TypeOK, UnlOK
    <3>3. ref'[unl.runner].mu = "unl"
      BY <2>2, <1>ty, <3>1, <3>2, SetsExpire DEF ExpireRunnerLock, Sets
    <3> QED BY <3>2, <3>3
  <2> QED BY <1>ty, <2>1, <2>2, HolderFrame
<1> QED BY <1>1, <1>2, <1>3 DEF SendersHold

LEMMA NextGone == ASSUME BaseInv, MutexInv, [Next]_vars PROVE GoneInv'
<1>ty. SchedInv /\ TypeOK /\ MapsOK /\ PointersInv /\ FreshInv
  BY DEF BaseInv, SchedInv, TypeOK
<1> SUFFICES ASSUME comp'.pc = "vram", NEW m \in Model PROVE loaded'[m] # comp'.runner
  BY DEF GoneInv
<1>1. CASE CompUnload
  <2>1. comp'.runner = comp.runner /\ comp.runner \in Runner
    BY <1>1, <1>ty DEF CompUnload, CompExpiredAt, CompAt, TypeOK, CompOK
  <2>2. loaded[m] = comp.runner => srv[comp.runner].path = m
    BY <2>1 DEF BaseInv, SchedInv, LoadInv, LoadedInv, Runner, NoRunner
  <2> QED BY <1>1, <1>ty, <2>1, <2>2 DEF CompUnload, MapsOK, Runner, NoRunner
<1>2. CASE comp' = comp /\ ~CompUnload
  <2>1. loaded[m] # comp.runner
    BY <1>2 DEF MutexInv, GoneInv
  <2>2. CASE PendLoaded
    <3>1. Installs /\ ~Installed(pend.runner)
      BY <2>2, <1>ty, LoadInstalls DEF Installs, FreshInv
    <3>2. comp.runner # pend.runner
      BY <1>2, <1>ty, <3>1 DEF TypeOK, CompOK, PointersInv, Runner, NoRunner
    <3> QED BY <1>2, <1>ty, <2>1, <3>1, <3>2 DEF Installs, MapsOK
  <2> QED BY <1>2, <2>1, <2>2, LoadedFrame
<1>3. ~CompRelease
  BY <1>ty DEF CompRelease, CompAt, IdleComp, TypeOK, CompOK
<1> QED BY <1>ty, <1>1, <1>2, <1>3, HolderFrame

LEMMA NextPath == ASSUME BaseInv, MutexInv, PathInv, [Next]_vars PROVE PathInv'
<1>ty. SchedInv /\ TypeOK /\ OwnerInv /\ LoadInv /\ PointersInv /\ FreshInv
  BY DEF BaseInv, SchedInv
<1>path. \A m \in Model : loaded[m] # NoRunner =>
           loaded[m] \in Runner /\ srv[loaded[m]].path = m /\ srv'[loaded[m]].path = m
  <2>1. \A m \in Model : loaded[m] # NoRunner => loaded[m] \in Runner /\ srv[loaded[m]].path = m
    BY <1>ty DEF TypeOK, MapsOK, RefOrNone, LoadInv, LoadedInv
  <2> QED BY <1>ty, <2>1, InstalledPath DEF PointersInv
<1>1. ASSUME NEW q \in Req, req'[q].pc \in {"check", "use"}
      PROVE  srv'[req'[q].runner].path = req'[q].call.model
  <2>1. ReqStep(q)
    BY <1>ty, ReqFrame
  <2>2. CASE GetRunner(q) /\ \E m \in Model : req'[q].call.model = m /\ req'[q].runner = loaded[m]
    <3>1. PICK m \in Model : req'[q].call.model = m /\ req'[q].runner = loaded[m]
      BY <2>2
    <3>2. loaded[m] # NoRunner
      <4>1. PICK c \in Calls[q] :
              req' = [req EXCEPT ![q] =
                       [@ EXCEPT !.call = c, !.runner = loaded[c.model],
                                 !.pc = IF loaded[c.model] = NoRunner THEN "enqueue" ELSE "check"]]
        BY <2>2 DEF GetRunner
      <4>2. req'[q].runner = loaded[c.model] /\ (loaded[c.model] = NoRunner => req'[q].pc = "enqueue")
        BY <1>ty, <4>1 DEF TypeOK, ReqOK, RequestType
      <4> QED BY <1>1, <3>1, <4>2
    <3> QED BY <1>path, <3>1, <3>2
  <2>3. CASE req'[q] = req[q] \/ (Same(q) /\ req[q].pc \in {"check", "use"})
    <3>1. req[q].pc \in {"check", "use"} /\ req'[q].runner = req[q].runner /\ req'[q].call = req[q].call
      BY <1>1, <2>3 DEF Same
    <3>2. req[q].runner \in Runner /\ Installed(req[q].runner)
      BY <1>ty, <3>1 DEF TypeOK, PointersInv, Runner, NoRunner
    <3> QED BY <3>1, <3>2, InstalledPath DEF PathInv
  <2> QED BY <1>1, <2>1, <2>2, <2>3 DEF ReqStep
<1>2. ASSUME pend'.pc \in {"check", "use"} PROVE srv'[pend'.runner].path = PModel'
  <2>req. ASSUME pend.pc \in {"look", "check", "use"} PROVE pend'.req = pend.req /\ PModel' = PModel
    <3>1. pend'.req = pend.req
      BY <2>req, <1>2, <1>ty, PendFrame, PendReq
    <3> QED BY <2>req, <1>ty, <3>1, PModelFrame
  <2>1. CASE pend' = pend \/ PendCheck
    <3>1. pend.pc \in {"check", "use"} /\ pend'.runner = pend.runner
      BY <2>1, <1>2, <1>ty DEF PendCheck, PendAt, TypeOK, PendOK, PendType
    <3>2. pend.runner \in Runner /\ Installed(pend.runner)
      BY <1>ty, <3>1 DEF TypeOK, PendOK, PointersInv
    <3> QED BY <2>req, <3>1, <3>2, InstalledPath DEF PathInv
  <2>2. CASE PendLook
    <3>1. pend.pc = "look" /\ PModel \in Model /\ pend'.runner = loaded[PModel]
      BY <2>2, <1>ty DEF PendLook, PendAt, TypeOK, PendOK, PendType, ReqOK, RequestType, CallType, PModel
    <3>2. loaded[PModel] # NoRunner
      BY <1>2, <2>2, <1>ty DEF PendLook, TypeOK, PendOK, PendType
    <3> QED BY <2>req, <1>path, <3>1, <3>2
  <2>3. CASE Pending
    <3>1. pend.pc \in {"look", "check"}
      BY <1>2, <1>ty, <2>3, PendPath DEF PendGoes
    <3>2. PendLook \/ PendCheck
      BY <2>3, <3>1 DEF Pending, PendTake, PendUse, PendFit, PendFitFails, PendFree, PendSpawn,
                PendSpawnFails, PendSpawnAgain, PendLoaded, PendNeedEvict, PendLoadFails, PendFind,
                PendScan, PendExpire, PendSend, PendUnloaded, PendIgnore, PendExit, PendAt
    <3> QED BY <2>1, <2>2, <3>2
  <2> QED BY <2>1, <2>3, PendFrame
<1>3. ASSUME NEW r \in Runner, ref'[r].load = "wait" PROVE srv'[r].path = req'[ref'[r].req].call.model
  <2>1. CASE PendLoaded /\ r = pend.runner
    <3>1. Installs
      BY <2>1, <1>ty, LoadInstalls
    <3> QED BY <2>1, <1>ty, <3>1 DEF Installs, LoadInv, PendingInv, PModel
  <2>2. CASE ref[r].load = "wait" /\ ref'[r].req = ref[r].req
    <3>1. ref[r].req \in Req /\ req[ref[r].req].pc = "waiting"
      BY <2>2, <1>ty DEF TypeOK, OwnerInv, Unanswered
    <3>2. req'[ref[r].req].call = req[ref[r].req].call
      BY <1>ty, <3>1, CallFrame DEF CallsKeep
    <3>3. Installed(r)
      BY <3>1, ReqAssumption DEF Installed
    <3> QED BY <2>2, <3>2, <3>3, InstalledPath DEF PathInv
  <2>3. CASE PendLoaded /\ r # pend.runner
    <3>1. Installs
      BY <2>3, <1>ty, LoadInstalls
    <3> QED BY <1>3, <2>2, <2>3, <3>1 DEF Installs
  <2>4. CASE RefStable
    BY <1>3, <2>2, <2>4 DEF RefStable
  <2>5. CASE CompOrphan \/ CompUnload
    <3>1. comp.runner \in Runner /\ RefOK
      BY <2>5, <1>ty DEF TypeOK, CompOK, CompOrphan, CompUnload, CompExpiredAt, CompAt
    <3>2. LoadersKeep
      BY <2>5, <3>1, UnloadKeeps DEF CompOrphan, CompUnload
    <3> QED BY <1>3, <2>2, <3>2 DEF LoadersKeep
  <2> QED BY <1>ty, <2>1, <2>3, <2>4, <2>5, RefFrame
<1> QED BY <1>1, <1>2, <1>3 DEF PathInv

-----------------------------------------------------------------------------
(* Who holds a runner *)

Queued(q) == \E i \in DOMAIN finishedCh : finishedCh[i] = q
Holds(q) == req[q].watched \/ Queued(q)

(* A request that holds a runner was answered with it, and unless a        *)
(* request was given an unloaded runner it is the one in the map.          *)
HeldInv ==
    \A q \in Req : Holds(q) =>
        /\ req[q].reply \in Runner /\ req[q].answers = 1 /\ req[q].pc = "waiting"
        /\ stale = {} => loaded[req[q].call.model] = req[q].reply

(* A request is in the channel of finished ones at most once, and its      *)
(* watcher is gone by then.                                                *)
QueueInv ==
    /\ \A i, j \in DOMAIN finishedCh : finishedCh[i] = finishedCh[j] => i = j
    /\ \A i \in DOMAIN finishedCh : ~req[finishedCh[i]].watched

(* The runner whose reference is taken back is still in the map. *)
ReleaseInv == stale = {} /\ comp.pc = "release" => \E m \in Model : loaded[m] = comp.runner

HoldInv == HeldInv /\ QueueInv /\ ReleaseInv

(* The steps that touch the channel of finished requests *)
LEMMA FinishedFrame ==
    ASSUME [Next]_vars
    PROVE  \/ finishedCh' = finishedCh
           \/ \E q \in Req : Finished(q)
           \/ CompFinished
<1>1. ASSUME NEW q \in Req, Client(q) PROVE finishedCh' = finishedCh \/ Finished(q)
  BY <1>1 DEF Client, GetRunner, GetRunnerCheck, GetRunnerUse, GetRunnerEnqueue, ContextDone, channels
<1>2. ASSUME NEW r \in Runner, RunnerStep(r) PROVE finishedCh' = finishedCh
  BY <1>2 DEF RunnerStep, LoaderReady, LoaderFails, LoaderSend, TimerFires, TimerLocks, TimerSend, Requeue, channels
<1>3. CASE Pending
  BY <1>3 DEF Pending, PendTake, PendLook, PendCheck, PendUse, PendFit, PendFitFails, PendFree, PendSpawn,
              PendSpawnFails, PendSpawnAgain, PendLoaded, PendNeedEvict, PendLoadFails, PendFind, PendScan,
              PendExpire, PendSend, PendUnloaded, PendIgnore, PendExit, channels
<1>4. CASE Completed
  BY <1>4 DEF Completed, CompRelease, CompSend, CompTakeExpired, CompBusy, CompDuplicate, CompOrphan,
              CompUnload, CompRecovered, CompSendUnloaded, CompExit, channels
<1>5. CASE Unloading \/ Resting \/ Stop \/ UNCHANGED vars
  BY <1>5 DEF Unloading, ExpireRunner, ExpireRunnerLock, ExpireRunnerSend, Resting, vars, Stop, Shutdown,
              UnloadAllRunners, Exit, channels
<1> QED BY <1>1, <1>2, <1>3, <1>4, <1>5 DEF Next

(* A request that was given an unloaded runner is never forgotten. *)
LEMMA StaleFrame ==
    ASSUME [Next]_vars
    PROVE  \/ stale' = stale
           \/ \E q \in Req : GetRunnerUse(q)
           \/ PendUse
<1>1. ASSUME NEW q \in Req, Client(q) PROVE stale' = stale \/ GetRunnerUse(q)
  BY <1>1 DEF Client, GetRunner, GetRunnerCheck, GetRunnerEnqueue, ContextDone, Finished
<1>2. ASSUME NEW r \in Runner, RunnerStep(r) PROVE stale' = stale
  BY <1>2 DEF RunnerStep, LoaderReady, LoaderFails, LoaderSend, TimerFires, TimerLocks, TimerSend, Requeue
<1>3. CASE Pending
  BY <1>3 DEF Pending, PendTake, PendLook, PendCheck, PendFit, PendFitFails, PendFree, PendSpawn,
              PendSpawnFails, PendSpawnAgain, PendLoaded, PendNeedEvict, PendLoadFails, PendFind, PendScan,
              PendExpire, PendSend, PendUnloaded, PendIgnore, PendExit
<1>4. CASE Completed
  BY <1>4 DEF Completed, CompFinished, CompRelease, CompSend, CompTakeExpired, CompBusy, CompDuplicate, CompOrphan,
              CompUnload, CompRecovered, CompSendUnloaded, CompExit
<1>5. CASE Unloading \/ Resting \/ Stop \/ UNCHANGED vars
  BY <1>5 DEF Unloading, ExpireRunner, ExpireRunnerLock, ExpireRunnerSend, Resting, vars, Stop, Shutdown,
              UnloadAllRunners, Exit
<1> QED BY <1>1, <1>2, <1>3, <1>4, <1>5 DEF Next

LEMMA StaleGrows == ASSUME [Next]_vars, stale' = {} PROVE stale = {}
BY StaleFrame DEF GetRunnerUse, PendUse, UseLoadedRunner

(* A finished event is the only way to a release, which ends it. *)
LEMMA ReleaseFrame ==
    ASSUME TypeOK, [Next]_vars, ~CompFinished, ~CompRelease
    PROVE  \/ comp' = comp
           \/ comp.pc # "release" /\ comp'.pc # "release"
<1>1. ASSUME NEW q \in Req, Client(q) PROVE comp' = comp
  BY <1>1 DEF Client, GetRunner, GetRunnerCheck, GetRunnerUse, GetRunnerEnqueue, ContextDone, Finished
<1>2. ASSUME NEW r \in Runner, RunnerStep(r) PROVE comp' = comp
  BY <1>2 DEF RunnerStep, LoaderReady, LoaderFails, LoaderSend, TimerFires, TimerLocks, TimerSend, Requeue
<1>3. CASE Pending
  BY <1>3 DEF Pending, PendTake, PendLook, PendCheck, PendUse, PendFit, PendFitFails, PendFree, PendSpawn,
              PendSpawnFails, PendSpawnAgain, PendLoaded, PendNeedEvict, PendLoadFails, PendFind, PendScan,
              PendExpire, PendSend, PendUnloaded, PendIgnore, PendExit
<1>4. CASE Completed
  BY <1>4 DEF Completed, CompSend, CompTakeExpired, CompBusy, CompDuplicate, CompOrphan, CompExpiredAt, CompAt,
              CompUnload, CompRecovered, CompSendUnloaded, CompExit, IdleComp, TypeOK, CompOK
<1>5. CASE Unloading \/ Resting \/ Stop \/ UNCHANGED vars
  BY <1>5 DEF Unloading, ExpireRunner, ExpireRunnerLock, ExpireRunnerSend, Resting, vars, Stop, Shutdown,
              UnloadAllRunners, Exit
<1> QED BY <1>1, <1>2, <1>3, <1>4, <1>5 DEF Next

(* What a step does to a request that holds a runner, or does not *)
HoldKept(q) ==
    /\ Holds(q)' <=> Holds(q)
    /\ Holds(q) => req'[q].reply = req[q].reply /\ req'[q].call = req[q].call
                   /\ req'[q].answers = req[q].answers /\ req'[q].pc = req[q].pc
Granted(q, r) ==
    /\ Granting(q, r) /\ ~Holds(q) /\ Holds(q)'
    /\ req'[q].reply = r /\ req'[q].answers = 1 /\ req'[q].pc = "waiting"
    /\ req'[q].call = req[q].call
Dropped(q) ==
    /\ CompFinished /\ q = Head(finishedCh) /\ finishedCh # <<>>
    /\ Holds(q) /\ ~Holds(q)' /\ req' = req

LEMMA QueueSteps ==
    ASSUME finishedCh \in Seq(Req), NEW p \in Req, NEW q \in Req
    PROVE  /\ finishedCh' = finishedCh => (Queued(q)' <=> Queued(q))
           /\ finishedCh' = Append(finishedCh, p) => (Queued(q)' <=> Queued(q) \/ q = p)
           /\ finishedCh # <<>> => Queued(Head(finishedCh)) /\ Head(finishedCh) \in Req
           /\ finishedCh # <<>> /\ finishedCh' = Tail(finishedCh) /\ QueueInv
                => (Queued(q)' <=> Queued(q) /\ q # Head(finishedCh))
<1>1. finishedCh' = finishedCh => (Queued(q)' <=> Queued(q))
  BY DEF Queued
<1>2. ASSUME finishedCh' = Append(finishedCh, p) PROVE Queued(q)' <=> Queued(q) \/ q = p
  <2>1. /\ DOMAIN finishedCh = 1..Len(finishedCh) /\ Len(finishedCh) \in Nat
        /\ DOMAIN finishedCh' = 1..(Len(finishedCh) + 1)
        /\ \A i \in DOMAIN finishedCh : finishedCh'[i] = finishedCh[i]
        /\ finishedCh'[Len(finishedCh) + 1] = p
    BY <1>2
  <2> HIDE <1>2
  <2> QED BY <2>1 DEF Queued
<1>3. finishedCh # <<>> => Queued(Head(finishedCh)) /\ Head(finishedCh) \in Req
  BY DEF Queued
<1>4. ASSUME finishedCh # <<>>, finishedCh' = Tail(finishedCh), QueueInv
      PROVE  Queued(q)' <=> Queued(q) /\ q # Head(finishedCh)
  <2>1. /\ DOMAIN finishedCh = 1..Len(finishedCh) /\ Len(finishedCh) \in Nat \ {0}
        /\ DOMAIN finishedCh' = 1..(Len(finishedCh) - 1)
        /\ \A i \in DOMAIN finishedCh' : finishedCh'[i] = finishedCh[i + 1]
        /\ Head(finishedCh) = finishedCh[1]
    BY <1>4
  <2>2. ASSUME Queued(q)' PROVE Queued(q) /\ q # Head(finishedCh)
    <3>1. PICK i \in DOMAIN finishedCh' : finishedCh'[i] = q
      BY <2>2 DEF Queued
    <3>2. finishedCh[i + 1] = q /\ i + 1 \in DOMAIN finishedCh /\ 1 \in DOMAIN finishedCh /\ i + 1 # 1
      BY <2>1, <3>1
    <3> QED BY <1>4, <2>1, <3>2 DEF Queued, QueueInv
  <2>3. ASSUME Queued(q), q # Head(finishedCh) PROVE Queued(q)'
    <3>1. PICK i \in DOMAIN finishedCh : finishedCh[i] = q
      BY <2>3 DEF Queued
    <3>2. i # 1
      BY <2>1, <2>3, <3>1
    <3>3. i - 1 \in DOMAIN finishedCh' /\ finishedCh'[i - 1] = q
      BY <2>1, <3>1, <3>2
    <3> QED BY <3>3 DEF Queued
  <2> QED BY <2>2, <2>3
<1> QED BY <1>1, <1>2, <1>3, <1>4

(* A request takes a reference when it is granted a runner, and gives it   *)
(* back when processCompleted takes it from the channel; nothing else      *)
(* changes who holds a runner.                                             *)
LEMMA HoldFrame ==
    ASSUME TypeOK, OwnerInv, HeldInv, QueueInv, [Next]_vars, NEW q \in Req
    PROVE  HoldKept(q) \/ (\E r \in Runner : Granted(q, r)) \/ Dropped(q)
<1>ch. finishedCh \in Seq(Req)
  BY DEF TypeOK, ChannelsOK
<1>step. ReqStep(q)
  BY ReqFrame
<1>held. Holds(q) => req[q].answers = 1 /\ req[q].pc = "waiting"
  BY DEF HeldInv
<1>1. CASE finishedCh' = finishedCh
  <2>q. Queued(q)' <=> Queued(q)
    BY <1>1, <1>ch, QueueSteps
  <2>1. CASE req'[q] = req[q]
    BY <2>1, <2>q DEF HoldKept, Holds
  <2>2. CASE GetRunner(q) /\ req'[q].watched = req[q].watched
    <3>1. ~Holds(q)
      BY <2>2, <1>held DEF GetRunner, ClientAt
    <3> QED BY <2>2, <2>q, <3>1 DEF HoldKept, Holds
  <2>3. CASE /\ Same(q) /\ req'[q].watched = req[q].watched /\ req'[q].reply = req[q].reply
             /\ req'[q].answers = req[q].answers
             /\ \/ req'[q].pc = req[q].pc
                \/ req[q].pc = "check" /\ req'[q].pc \in {"use", "enqueue"}
                \/ req[q].pc = "enqueue" /\ req'[q].pc = "waiting"
    BY <2>3, <2>q, <1>held DEF HoldKept, Holds, Same
  <2>4. ~Finished(q)
    <3>1. Finished(q) => finishedCh' = Append(finishedCh, q)
      BY DEF Finished
    <3>2. Append(finishedCh, q) # finishedCh
      BY <1>ch
    <3> QED BY <1>1, <3>1, <3>2
  <2>5. CASE req'[q].watched = req[q].watched /\ req[q].answers = 0
    BY <2>5, <2>q, <1>held DEF HoldKept, Holds
  <2>6. ASSUME NEW r \in Runner, Granting(q, r), Same(q), req'[q].watched, req'[q].reply = r,
               req'[q].answers = req[q].answers + 1, req[q].answers = 0, req'[q].pc = "waiting"
        PROVE  Granted(q, r)
    BY <2>6, <1>held DEF Granted, Holds, Same
  <2> QED BY <1>step, <2>1, <2>2, <2>3, <2>4, <2>5, <2>6 DEF ReqStep
<1>2. ASSUME NEW p \in Req, Finished(p) PROVE HoldKept(q)
  <2>1. Queued(q)' <=> Queued(q) \/ q = p
    BY <1>2, <1>ch, QueueSteps DEF Finished
  <2>2. /\ q # p => req'[q] = req[q]
        /\ req[p].watched
        /\ q = p => /\ req'[q].reply = req[q].reply /\ req'[q].call = req[q].call
                    /\ req'[q].answers = req[q].answers /\ req'[q].pc = req[q].pc
                    /\ ~req'[q].watched
    BY <1>2 DEF Finished, TypeOK, ReqOK, RequestType
  <2> QED BY <2>1, <2>2 DEF HoldKept, Holds
<1>3. CASE CompFinished
  <2>1. finishedCh # <<>> /\ finishedCh' = Tail(finishedCh) /\ req' = req
    BY <1>3 DEF CompFinished
  <2>2. Queued(q)' <=> Queued(q) /\ q # Head(finishedCh)
    BY <2>1, <1>ch, QueueSteps
  <2>3. q = Head(finishedCh) => Queued(q) /\ ~req[q].watched
    <3>1. Head(finishedCh) = finishedCh[1] /\ 1 \in DOMAIN finishedCh
      BY <2>1, <1>ch
    <3> QED BY <3>1 DEF Queued, QueueInv
  <2> QED BY <1>3, <2>1, <2>2, <2>3 DEF HoldKept, Dropped, Holds
<1> QED BY <1>1, <1>2, <1>3, FinishedFrame

-----------------------------------------------------------------------------
(* What a step does to the reference counts *)

LEMMA GrantFacts ==
    ASSUME TypeOK, NEW q \in Req, NEW r \in Runner, Granting(q, r)
    PROVE  /\ req' = Grant(q, r)
           /\ UNCHANGED <<finishedCh, comp, loaded, srv, life>>
           /\ ref'[r].refCount = Inc(ref[r].refCount)
           /\ \A t \in Runner \ {r} : ref'[t] = ref[t]
<1>ty. RefOK
  BY DEF TypeOK
<1>1. CASE GetRunnerUse(q) /\ r = req[q].runner
  BY <1>1, <1>ty, SetsUse DEF GetRunnerUse, UseLoadedRunner, Sets, channels, maps
<1>2. CASE PendUse /\ q = pend.req /\ r = pend.runner
  BY <1>2, <1>ty, SetsUse DEF PendUse, UseLoadedRunner, Sets, channels, maps
<1>3. CASE LoaderReady(r) /\ q = ref[r].req
  BY <1>3, <1>ty, SetsRunner DEF LoaderReady, Sets, channels, maps
<1> QED BY <1>1, <1>2, <1>3 DEF Granting

SomeGrant == \E q \in Req, r \in Runner : Granting(q, r)

(* Only a grant, a release and an installation change a reference count. *)
LEMMA CountFrame ==
    ASSUME BaseInv, [Next]_vars, ~SomeGrant, ~PendLoaded, ~CompRelease, NEW r \in Runner
    PROVE  ref'[r].refCount = ref[r].refCount
<1>ty. TypeOK /\ RefOK /\ PointersInv /\ FreshInv
  BY DEF BaseInv, SchedInv, TypeOK
<1>1. ASSUME NEW t \in Runner, Touches(t) PROVE ref'[t].refCount = ref[t].refCount
  <2>1. CASE RunnerStep(t)
    <3>1. ~LoaderReady(t)
      BY <1>ty DEF SomeGrant, Granting, LoaderReady, TypeOK
    <3> QED BY <2>1, <3>1, <1>ty, SetsRunner DEF RunnerStep, Sets
  <2>2. ASSUME NEW q \in Req, GetRunnerUse(q), req[q].runner = t PROVE FALSE
    BY <2>2 DEF SomeGrant, Granting
  <2>3. CASE (PendUse \/ PendExpire \/ PendSend) /\ pend.runner = t
    <3>1. ~PendUse
      BY <2>3, <1>ty DEF SomeGrant, Granting, PendUse, PendAt, TypeOK, PendOK
    <3>2. CASE PendExpire
      BY <2>3, <3>2, <1>ty, SetsExpire DEF PendExpire, Sets
    <3>3. CASE PendSend
      BY <2>3, <3>3, <1>ty, SetsField DEF PendSend, Sets
    <3> QED BY <2>3, <3>1, <3>2, <3>3
  <2>4. CASE (CompSend \/ CompBusy \/ CompOrphan \/ CompUnload \/ CompRecovered) /\ comp.runner = t
    BY <2>4, <1>ty, SetsComp DEF Sets
  <2>5. CASE (ExpireRunnerLock \/ ExpireRunnerSend) /\ unl.runner = t
    <3>1. CASE ExpireRunnerLock
      BY <2>5, <3>1, <1>ty, SetsExpire DEF ExpireRunnerLock, Sets
    <3>2. CASE ExpireRunnerSend
      BY <2>5, <3>2, <1>ty, SetsField DEF ExpireRunnerSend, Sets
    <3> QED BY <2>5, <3>1, <3>2
  <2> QED BY <1>1, <2>1, <2>2, <2>3, <2>4, <2>5 DEF Touches
<1>2. ASSUME NEW t \in Runner, Touches(t) PROVE ref'[r].refCount = ref[r].refCount
  BY <1>1, <1>2, <1>ty, TouchedOnly
<1> QED BY <1>2, <1>ty, TouchFrame

-----------------------------------------------------------------------------
(* The reference count of a runner is the number of requests that hold it. *)

(* There are fewer requests than a machine word can count, one reference   *)
(* under way to processCompleted included.                                 *)
FewRequests == IsFiniteSet(Req) /\ Cardinality(Req) + 1 < UintMod

CountedInv == SchedInv /\ PointersInv /\ FreshInv /\ LiveInv /\ MutexInv /\ PathInv /\ HoldInv /\ RefCountExact

LEMMA HoldersFinite ==
    ASSUME FewRequests, NEW r
    PROVE  /\ IsFiniteSet(Holders(r)) /\ Cardinality(Holders(r)) \in Nat
           /\ Cardinality(Holders(r)) <= Cardinality(Req) /\ Cardinality(Req) \in Nat
           /\ \A q \in Req \ Holders(r) : Cardinality(Holders(r)) < Cardinality(Req)
           /\ \A q \in Holders(r) : Cardinality(Holders(r)) > 0
<1>1. Holders(r) \subseteq Req
  BY DEF Holders
<1>2. /\ IsFiniteSet(Holders(r)) /\ Cardinality(Holders(r)) <= Cardinality(Req)
      /\ Cardinality(Holders(r)) = Cardinality(Req) => Holders(r) = Req
  BY <1>1, FS_Subset DEF FewRequests
<1>3. Cardinality(Holders(r)) \in Nat /\ Cardinality(Req) \in Nat
  BY <1>2, FS_CardinalityType DEF FewRequests
<1>4. ASSUME NEW q \in Holders(r) PROVE Cardinality(Holders(r)) # 0
  BY <1>2, <1>4, FS_EmptySet
<1> QED BY <1>2, <1>3, <1>4

(* A request that holds a runner keeps its reference count up. *)
LEMMA HeldIsCounted ==
    ASSUME FewRequests, RefCountExact, stale = {}, NEW q \in Req, Holds(q), req[q].reply \in Runner
    PROVE  ref[req[q].reply].refCount > 0
<1> DEFINE r == req[q].reply
<1>1. q \in Holders(r)
  BY DEF Holders, Holds, Queued
<1>2. Cardinality(Holders(r)) \in Nat /\ Cardinality(Holders(r)) > 0
  BY <1>1, HoldersFinite
<1>3. Releasing(r) \in {0, 1} /\ ref[r].refCount = Cardinality(Holders(r)) + Releasing(r)
  BY DEF RefCountExact, Releasing
<1> HIDE DEF r
<1>4. ref[r].refCount > 0
  BY <1>2, <1>3
<1> QED BY <1>4 DEF r

(* A runner that is granted is the one in the map for the model of the     *)
(* request, unless it was unloaded in between.                             *)
LEMMA GrantedIsLoaded ==
    ASSUME CountedInv, [Next]_vars, stale' = {}, NEW q \in Req, NEW r \in Runner, Granting(q, r)
    PROVE  loaded[req[q].call.model] = r
<1>1. ref[r].live
  <2>1. CASE LoaderReady(r) /\ q = ref[r].req
    BY <2>1 DEF LoaderReady, CountedInv, MutexInv, LoaderHolds
  <2> QED BY <2>1 DEF Granting, GetRunnerUse, PendUse, UseLoadedRunner
<1>2. srv[r].path = req[q].call.model
  BY DEF Granting, GetRunnerUse, PendUse, LoaderReady, ClientAt, PendAt, CountedInv, PathInv, PModel
<1> QED BY <1>1, <1>2 DEF CountedInv, LiveInv

LEMMA NextHeld == ASSUME FewRequests, CountedInv, [Next]_vars PROVE HeldInv'
<1>ty. TypeOK /\ OwnerInv /\ SchedInv /\ HeldInv /\ QueueInv /\ RefCountExact
  BY DEF CountedInv, SchedInv, HoldInv
<1> SUFFICES ASSUME NEW q \in Req, Holds(q)'
             PROVE  /\ req'[q].reply \in Runner /\ req'[q].answers = 1 /\ req'[q].pc = "waiting"
                    /\ stale' = {} => loaded'[req'[q].call.model] = req'[q].reply
  BY DEF HeldInv
<1>1. CASE HoldKept(q)
  <2>1. /\ Holds(q) /\ req'[q].reply = req[q].reply /\ req'[q].call = req[q].call
        /\ req'[q].answers = req[q].answers /\ req'[q].pc = req[q].pc
    BY <1>1 DEF HoldKept
  <2>2. req[q].reply \in Runner /\ req[q].answers = 1 /\ req[q].pc = "waiting"
    BY <1>ty, <2>1 DEF HeldInv
  <2>3. ASSUME stale' = {} PROVE loaded'[req[q].call.model] = req[q].reply
    <3>1. stale = {} /\ loaded[req[q].call.model] = req[q].reply
      BY <1>ty, <2>1, <2>3, StaleGrows DEF HeldInv
    <3>2. req[q].call.model \in Model
      BY <1>ty DEF TypeOK, ReqOK, RequestType, CallType
    <3>3. CASE PendLoaded
      <4>1. Installs
        BY <3>3, <1>ty, LoadInstalls
      <4>2. req[q].call.model # PModel
        BY <3>1, <4>1, <2>2 DEF Installs, Runner, NoRunner
      <4> QED BY <1>ty, <3>1, <3>2, <4>1, <4>2 DEF Installs, TypeOK, MapsOK
    <3>4. CASE CompUnload
      <4>1. ref[req[q].reply].refCount > 0
        BY <1>ty, <2>1, <2>2, <3>1, HeldIsCounted
      <4>2. req[q].reply # comp.runner
        BY <3>4, <4>1 DEF CompUnload, StillUsed
      <4>3. loaded[srv[comp.runner].path] = comp.runner
        BY <3>4 DEF CompUnload, CompTarget
      <4> QED BY <1>ty, <3>1, <3>2, <3>4, <4>2, <4>3 DEF CompUnload, TypeOK, MapsOK
    <3> QED BY <3>1, <3>3, <3>4, LoadedFrame
  <2> QED BY <2>1, <2>2, <2>3
<1>2. ASSUME NEW r \in Runner, Granted(q, r)
      PROVE  /\ req'[q].reply \in Runner /\ req'[q].answers = 1 /\ req'[q].pc = "waiting"
             /\ stale' = {} => loaded'[req'[q].call.model] = req'[q].reply
  <2>1. loaded' = loaded
    BY <1>2, <1>ty, GrantFacts DEF Granted
  <2>2. stale' = {} => loaded[req[q].call.model] = r
    BY <1>2, GrantedIsLoaded DEF Granted
  <2> QED BY <1>2, <2>1, <2>2 DEF Granted
<1>3. ~Dropped(q)
  BY DEF Dropped
<1> QED BY <1>ty, <1>1, <1>2, <1>3, HoldFrame

LEMMA NextQueue == ASSUME CountedInv, [Next]_vars PROVE QueueInv'
<1>ty. TypeOK /\ OwnerInv /\ HeldInv /\ QueueInv /\ finishedCh \in Seq(Req)
  BY DEF CountedInv, SchedInv, HoldInv, TypeOK, ChannelsOK
<1>1. ASSUME NEW q \in Req, Queued(q), ~\E p \in Req : Finished(p) PROVE ~req'[q].watched
  <2>1. ~req[q].watched /\ req[q].answers = 1
    BY <1>1, <1>ty DEF Queued, QueueInv, HeldInv, Holds
  <2>2. ReqStep(q)
    BY <1>ty, ReqFrame
  <2> QED BY <1>1, <2>1, <2>2 DEF ReqStep
<1>2. CASE finishedCh' = finishedCh
  <2>1. ~\E p \in Req : Finished(p)
    BY <1>2, <1>ty DEF Finished
  <2>2. ASSUME NEW i \in DOMAIN finishedCh PROVE ~req'[finishedCh[i]].watched
    BY <1>1, <2>1, <1>ty DEF Queued
  <2> QED BY <1>2, <1>ty, <2>2 DEF QueueInv
<1>3. ASSUME NEW p \in Req, Finished(p) PROVE QueueInv'
  <2>1. finishedCh' = Append(finishedCh, p) /\ req[p].watched /\ req' = [req EXCEPT ![p].watched = FALSE]
    BY <1>3 DEF Finished
  <2>2. /\ DOMAIN finishedCh = 1..Len(finishedCh) /\ Len(finishedCh) \in Nat
        /\ DOMAIN finishedCh' = 1..(Len(finishedCh) + 1)
        /\ \A i \in DOMAIN finishedCh : finishedCh'[i] = finishedCh[i] /\ finishedCh[i] \in Req
        /\ finishedCh'[Len(finishedCh) + 1] = p
    BY <2>1, <1>ty
  <2>3. \A i \in DOMAIN finishedCh : finishedCh[i] # p
    BY <1>ty, <2>1 DEF QueueInv
  <2>4. ~req'[p].watched /\ \A t \in Req \ {p} : req'[t] = req[t]
    BY <2>1, <1>ty DEF TypeOK, ReqOK, RequestType
  <2>5. \A i, j \in DOMAIN finishedCh' : finishedCh'[i] = finishedCh'[j] => i = j
    BY <1>ty, <2>2, <2>3 DEF QueueInv
  <2>6. \A i \in DOMAIN finishedCh' : ~req'[finishedCh'[i]].watched
    BY <1>ty, <2>2, <2>3, <2>4 DEF QueueInv
  <2> QED BY <2>5, <2>6 DEF QueueInv
<1>4. CASE CompFinished
  <2>1. finishedCh # <<>> /\ finishedCh' = Tail(finishedCh) /\ req' = req
    BY <1>4 DEF CompFinished
  <2>2. /\ DOMAIN finishedCh = 1..Len(finishedCh) /\ Len(finishedCh) \in Nat \ {0}
        /\ DOMAIN finishedCh' = 1..(Len(finishedCh) - 1)
        /\ \A i \in DOMAIN finishedCh' : finishedCh'[i] = finishedCh[i + 1] /\ i + 1 \in DOMAIN finishedCh
    BY <2>1, <1>ty
  <2>3. ASSUME NEW i \in DOMAIN finishedCh', NEW j \in DOMAIN finishedCh', finishedCh'[i] = finishedCh'[j]
        PROVE  i = j
    <3>1. i + 1 = j + 1
      BY <1>ty, <2>2, <2>3 DEF QueueInv
    <3> QED BY <3>1, <2>2
  <2>4. \A i \in DOMAIN finishedCh' : ~req'[finishedCh'[i]].watched
    BY <1>ty, <2>1, <2>2 DEF QueueInv
  <2> QED BY <2>3, <2>4 DEF QueueInv
<1> QED BY <1>2, <1>3, <1>4, FinishedFrame

LEMMA NextRelease == ASSUME CountedInv, [Next]_vars PROVE ReleaseInv'
<1>ty. TypeOK /\ SchedInv /\ ReleaseInv /\ HeldInv
  BY DEF CountedInv, SchedInv, HoldInv
<1> SUFFICES ASSUME stale' = {}, comp'.pc = "release" PROVE \E m \in Model : loaded'[m] = comp'.runner
  BY DEF ReleaseInv
<1>0. stale = {}
  BY StaleGrows
<1>1. CASE CompFinished
  <2>1. req[Head(finishedCh)].call.model \in Model
    BY <1>1, <1>ty, TailOK DEF CompFinished, TypeOK, ChannelsOK, ReqOK, RequestType, CallType
  <2>2. CASE loaded[req[Head(finishedCh)].call.model] = NoRunner
    BY <1>1, <2>2 DEF CompFinished, CompAt
  <2> QED BY <1>1, <2>1, <2>2 DEF CompFinished, maps
<1>2. ~CompRelease
  BY <1>ty DEF CompRelease, CompAt, IdleComp, TypeOK, CompOK
<1>3. CASE comp' = comp
  <2>1. PICK m \in Model : loaded[m] = comp.runner
    BY <1>0, <1>3, <1>ty DEF ReleaseInv
  <2>2. comp.runner \in Runner
    BY <1>3, <1>ty DEF TypeOK, CompOK
  <2>3. CASE PendLoaded
    <3>1. Installs
      BY <2>3, <1>ty, LoadInstalls
    <3>2. m # PModel
      BY <2>1, <2>2, <3>1 DEF Installs, Runner, NoRunner
    <3> QED BY <1>3, <1>ty, <2>1, <3>1, <3>2 DEF Installs, TypeOK, MapsOK
  <2>4. ~CompUnload
    BY <1>3 DEF CompUnload, CompExpiredAt, CompAt
  <2> QED BY <1>3, <2>1, <2>3, <2>4, LoadedFrame
<1> QED BY <1>ty, <1>1, <1>2, <1>3, ReleaseFrame

LEMMA HoldersOf == \A r, q : q \in Holders(r) <=> q \in Req /\ req[q].reply = r /\ Holds(q)
BY DEF Holders, Holds, Queued

LEMMA HoldersOfNext == \A r, q : q \in Holders(r)' <=> q \in Req /\ req'[q].reply = r /\ Holds(q)'
BY DEF Holders, Holds, Queued

LEMMA IncExact == ASSUME NEW n \in Nat, n + 1 < UintMod PROVE Inc(n) = n + 1
BY BoundAssumption DEF Inc

LEMMA DecExact == ASSUME NEW n \in Nat, n > 0, n < UintMod PROVE Dec(n) = n - 1
<1>1. Dec(n) = (UintMod + (n - 1)) % UintMod
  BY BoundAssumption DEF Dec
<1>2. n - 1 \in 0..(UintMod - 1) /\ UintMod \in Nat \ {0}
  BY BoundAssumption
<1> QED BY <1>1, <1>2

LEMMA NextCounts == ASSUME FewRequests, CountedInv, [Next]_vars PROVE RefCountExact'
<1>ty. /\ TypeOK /\ OwnerInv /\ SchedInv /\ HeldInv /\ QueueInv /\ RefCountExact
       /\ PointersInv /\ FreshInv /\ BaseInv
  BY DEF CountedInv, SchedInv, HoldInv, BaseInv
<1> SUFFICES ASSUME stale' = {}, NEW t \in Runner
             PROVE  ref'[t].refCount = Cardinality(Holders(t)') + Releasing(t)'
  BY DEF RefCountExact
<1>0. stale = {}
  BY StaleGrows
<1>n. ref[t].refCount = Cardinality(Holders(t)) + Releasing(t) /\ Releasing(t) \in {0, 1}
  BY <1>0, <1>ty DEF RefCountExact, Releasing
<1>fin. IsFiniteSet(Holders(t)) /\ Cardinality(Holders(t)) \in Nat /\ Cardinality(Req) \in Nat
  BY HoldersFinite
<1>1. ASSUME NEW q \in Req, NEW r \in Runner, Granting(q, r)
      PROVE  ref'[t].refCount = Cardinality(Holders(t)') + Releasing(t)'
  <2>1. /\ req' = Grant(q, r) /\ finishedCh' = finishedCh /\ comp' = comp
        /\ ref'[r].refCount = Inc(ref[r].refCount)
        /\ \A x \in Runner \ {r} : ref'[x] = ref[x]
    BY <1>1, <1>ty, GrantFacts
  <2>2. Releasing(t)' = Releasing(t)
    BY <2>1 DEF Releasing
  <2>3. req[q].answers = 0
    BY <1>1, <1>ty DEF Granting, GetRunnerUse, ClientAt, PendUse, PendAt, LoaderReady, OwnerInv, Unanswered
  <2>4. ~Holds(q)
    BY <1>ty, <2>3 DEF HeldInv
  <2>5. /\ \A p \in Req \ {q} : req'[p] = req[p]
        /\ req'[q].reply = r /\ req'[q].watched
    BY <2>1, <1>ty DEF Grant, Answered, TypeOK, ReqOK, RequestType
  <2>6. \A p \in Req \ {q} : Holds(p)' <=> Holds(p)
    BY <2>1, <2>5 DEF Holds, Queued
  <2>7. Holds(q)'
    BY <2>5 DEF Holds
  <2>8. CASE t = r
    <3>1. Holders(t)' = Holders(t) \cup {q} /\ q \notin Holders(t)
      BY <2>4, <2>5, <2>6, <2>7, <2>8, HoldersOf, HoldersOfNext
    <3>2. Cardinality(Holders(t)') = Cardinality(Holders(t)) + 1
      BY <1>fin, <3>1, FS_AddElement
    <3>3. Cardinality(Holders(t)) < Cardinality(Req)
      BY <3>1, HoldersFinite
    <3>4. ref[t].refCount \in Nat /\ ref[t].refCount + 1 < UintMod
      BY <1>n, <1>fin, <3>3, BoundAssumption DEF FewRequests
    <3>5. ref'[t].refCount = ref[t].refCount + 1
      BY <2>1, <2>8, <3>4, IncExact
    <3> QED BY <1>n, <1>fin, <2>2, <3>2, <3>5
  <2>9. CASE t # r
    <3>1. Holders(t)' = Holders(t)
      BY <2>4, <2>5, <2>6, <2>9, HoldersOf, HoldersOfNext
    <3> QED BY <1>n, <2>1, <2>2, <2>9, <3>1
  <2> QED BY <2>8, <2>9
<1>2. ASSUME ~SomeGrant, ~CompFinished PROVE Holders(t)' = Holders(t)
  <2>1. ASSUME NEW q \in Req PROVE HoldKept(q)
    BY <1>2, <1>ty, HoldFrame DEF Granted, Dropped, SomeGrant
  <2> QED BY <2>1, HoldersOf, HoldersOfNext DEF HoldKept
<1>3. CASE CompFinished
  <2> DEFINE h == Head(finishedCh)
             r == loaded[req[h].call.model]
  <2>1. /\ finishedCh # <<>> /\ finishedCh' = Tail(finishedCh) /\ comp.pc = "idle"
        /\ req' = req /\ ref' = ref
        /\ r # NoRunner => comp' = [pc |-> "release", runner |-> r]
    BY <1>3 DEF CompFinished, CompAt
  <2>2. finishedCh \in Seq(Req)
    BY <1>ty DEF TypeOK, ChannelsOK
  <2>3. h \in Req /\ Queued(h) /\ \A q \in Req : Queued(q)' <=> Queued(q) /\ q # h
    BY <2>1, <2>2, <1>ty, QueueSteps
  <2>4. Holds(h) /\ ~req[h].watched /\ req[h].reply \in Runner /\ r = req[h].reply
    <3>1. Holds(h)
      BY <2>3 DEF Holds
    <3>2. ~req[h].watched
      BY <2>3, <1>ty DEF Queued, QueueInv
    <3> QED BY <1>0, <1>ty, <2>3, <3>1, <3>2 DEF HeldInv
  <2>5. \A q \in Req : Holds(q)' <=> Holds(q) /\ q # h
    BY <2>1, <2>3, <2>4 DEF Holds
  <2> HIDE DEF h, r
  <2>6. comp' = [pc |-> "release", runner |-> r] /\ r \in Runner
    BY <2>1, <2>4 DEF Runner, NoRunner
  <2>7. Releasing(t) = 0 /\ Releasing(t)' = IF t = r THEN 1 ELSE 0
    BY <2>1, <2>6 DEF Releasing
  <2>8. CASE t = r
    <3>1. Holders(t)' = Holders(t) \ {h} /\ h \in Holders(t)
      BY <2>1, <2>3, <2>4, <2>5, <2>8, HoldersOf, HoldersOfNext
    <3>2. Cardinality(Holders(t)') = Cardinality(Holders(t)) - 1
      BY <1>fin, <3>1, FS_RemoveElement
    <3> QED BY <1>n, <1>fin, <2>1, <2>7, <2>8, <3>2
  <2>9. CASE t # r
    <3>1. ASSUME NEW q PROVE q \in Holders(t)' <=> q \in Holders(t)
      <4>1. q = h => req[q].reply # t
        BY <2>4, <2>9
      <4> QED BY <2>1, <2>5, <4>1, HoldersOf, HoldersOfNext
    <3>2. Holders(t)' = Holders(t)
      BY <3>1
    <3> QED BY <1>n, <2>1, <2>7, <2>9, <3>2
  <2> QED BY <2>8, <2>9
<1>4. ASSUME CompRelease, ~SomeGrant PROVE ref'[t].refCount = Cardinality(Holders(t)') + Releasing(t)'
  <2>1. /\ comp.pc = "release" /\ comp.runner \in Runner /\ RefOK
        /\ comp'.pc # "release"
    BY <1>4, <1>ty DEF CompRelease, CompAt, IdleComp, TypeOK, CompOK
  <2>2. Holders(t)' = Holders(t)
    BY <1>2, <1>4, <2>1 DEF CompFinished, CompAt
  <2>3. Releasing(t)' = 0 /\ Releasing(t) = IF t = comp.runner THEN 1 ELSE 0
    BY <2>1 DEF Releasing
  <2>4. /\ ref'[comp.runner].refCount = Dec(ref[comp.runner].refCount)
        /\ \A x \in Runner \ {comp.runner} : ref'[x] = ref[x]
    BY <1>4, <2>1, SetsComp DEF Sets
  <2>5. CASE t = comp.runner
    <3>1. ref[t].refCount > 0 /\ ref[t].refCount \in Nat /\ ref[t].refCount < UintMod
      BY <1>n, <1>fin, <2>1, <2>3, <2>5, BoundAssumption DEF RefOK, RefType
    <3>2. ref'[t].refCount = ref[t].refCount - 1
      BY <2>4, <2>5, <3>1, DecExact
    <3> QED BY <1>n, <1>fin, <2>2, <2>3, <2>5, <3>2
  <2>6. CASE t # comp.runner
    BY <1>n, <2>2, <2>3, <2>4, <2>6
  <2> QED BY <2>5, <2>6
<1>5. ASSUME PendLoaded, ~SomeGrant PROVE ref'[t].refCount = Cardinality(Holders(t)') + Releasing(t)'
  <2>1. Installs /\ ~Installed(pend.runner)
    BY <1>5, <1>ty, LoadInstalls DEF Installs, FreshInv
  <2>2. Releasing(t)' = Releasing(t)
    BY <2>1 DEF Installs, Releasing
  <2>3. Holders(t)' = Holders(t)
    BY <2>1 DEF Installs, Holders, channels
  <2>4. CASE t = pend.runner
    <3>1. Releasing(t) = 0
      BY <2>1, <2>4, <1>ty DEF Releasing, PointersInv, Runner, NoRunner
    <3>2. ASSUME NEW q \in Holders(t) PROVE FALSE
      <4>1. q \in Req /\ req[q].reply = t /\ Holds(q)
        BY <3>2, HoldersOf
      <4>2. loaded[req[q].call.model] = t /\ req[q].call.model \in Model
        BY <1>0, <1>ty, <4>1 DEF HeldInv, TypeOK, ReqOK, RequestType, CallType
      <4> QED BY <1>ty, <2>1, <2>4, <4>2 DEF PointersInv, Runner, NoRunner
    <3>3. Cardinality(Holders(t)) = 0
      BY <3>2, FS_EmptySet
    <3> QED BY <2>1, <2>2, <2>3, <2>4, <3>1, <3>3 DEF Installs
  <2>5. CASE t # pend.runner
    BY <1>n, <2>1, <2>2, <2>3, <2>5 DEF Installs
  <2> QED BY <2>4, <2>5
<1>6. ASSUME ~SomeGrant, ~PendLoaded, ~CompRelease, ~CompFinished
      PROVE  ref'[t].refCount = Cardinality(Holders(t)') + Releasing(t)'
  <2>1. ref'[t].refCount = ref[t].refCount
    BY <1>6, <1>ty, CountFrame
  <2>2. Holders(t)' = Holders(t)
    BY <1>2, <1>6
  <2>3. Releasing(t)' = Releasing(t)
    BY <1>6, <1>ty, ReleaseFrame DEF Releasing
  <2> QED BY <1>n, <2>1, <2>2, <2>3
<1> QED BY <1>1, <1>3, <1>4, <1>5, <1>6 DEF SomeGrant

LEMMA NextCounted == ASSUME FewRequests, CountedInv, [Next]_vars PROVE CountedInv'
<1>ty. TypeOK /\ OwnerInv /\ LoadInv /\ SchedInv /\ BaseInv
  BY DEF CountedInv, SchedInv, BaseInv
<1>1. SchedInv'
  BY <1>ty, NextT, NextO, NextL DEF SchedInv
<1>2. PointersInv' /\ FreshInv' /\ LiveInv' /\ MutexInv' /\ PathInv'
  BY <1>ty, NextPointers, NextFresh, NextLive, NextLoaderHolds, NextSendersHold, NextGone, NextPath
     DEF CountedInv, MutexInv
<1>3. HoldInv' /\ RefCountExact'
  BY NextHeld, NextQueue, NextRelease, NextCounts DEF HoldInv
<1> QED BY <1>1, <1>2, <1>3 DEF CountedInv

LEMMA InitCounted == ASSUME Init PROVE CountedInv
<1>1. SchedInv
  BY InitT, InitO, InitL DEF SchedInv
<1>2. PointersInv /\ FreshInv /\ LiveInv /\ MutexInv /\ PathInv
  BY InitF, InitM
<1>3. \A q \in Req : ~Holds(q)
  BY DEF Init, NewRequest, Holds, Queued
<1>4. HoldInv
  BY <1>3 DEF HoldInv, HeldInv, QueueInv, ReleaseInv, Init
<1>5. ASSUME NEW r \in Runner PROVE ref[r].refCount = Cardinality(Holders(r)) + Releasing(r)
  <2>1. Holders(r) = {}
    BY <1>3, HoldersOf
  <2>2. Releasing(r) = 0 /\ ref[r].refCount = 0
    BY DEF Init, Releasing, BlankRef
  <2> QED BY <2>1, <2>2, FS_EmptySet
<1> QED BY <1>1, <1>2, <1>4, <1>5 DEF CountedInv, RefCountExact

LEMMA Counted == ASSUME FewRequests PROVE Spec => []CountedInv
<1>1. Init => CountedInv
  BY InitCounted
<1>2. CountedInv /\ [Next]_vars => CountedInv'
  BY NextCounted
<1> QED BY <1>1, <1>2, PTL DEF Spec

(* useLoadedRunner, the loader, processCompleted: as long as no request    *)
(* was given a runner that was unloaded behind its back, the reference     *)
(* count of every runner is the number of the requests that hold it, the   *)
(* one whose release is under way included.  For any finite number of      *)
(* requests that a machine word can count.                                 *)
THEOREM RefCountsExact == ASSUME FewRequests PROVE Spec => []RefCountExact
<1>1. CountedInv => RefCountExact
  BY DEF CountedInv
<1> QED BY <1>1, Counted, PTL

(* No runner is unloaded under a request that still uses it: whoever holds *)
(* a runner holds the one in the map, whose subprocess is up.              *)
THEOREM UsedRunnersAreUp == ASSUME FewRequests PROVE Spec => []InUseIsUp
<1>1. ASSUME CountedInv PROVE InUseIsUp
  <2> SUFFICES ASSUME stale = {}, ~Stopping, NEW q \in Req, req[q].reply \in Runner, req[q].watched
               PROVE  srv[req[q].reply].state = "open"
    BY DEF InUseIsUp
  <2>1. loaded[req[q].call.model] = req[q].reply /\ req[q].call.model \in Model
    BY <1>1 DEF CountedInv, SchedInv, HoldInv, HeldInv, Holds, TypeOK, ReqOK, RequestType, CallType
  <2> QED BY <1>1, <2>1 DEF CountedInv, SchedInv, LoadInv, LoadedInv, Runner, NoRunner
<1> QED BY <1>1, Counted, PTL

-----------------------------------------------------------------------------
(* The keep-alive timers *)

(* Only a release sets a timer. *)
LEMMA TimerFrame ==
    ASSUME BaseInv, [Next]_vars, ~PendLoaded, ~CompRelease, NEW r \in Runner, ref'[r].timer # "nil"
    PROVE  ref[r].timer # "nil"
<1>ty. TypeOK /\ RefOK /\ PointersInv /\ FreshInv
  BY DEF BaseInv, SchedInv, TypeOK
<1>1. ASSUME NEW t \in Runner, Touches(t), ref'[t].timer # "nil" PROVE ref[t].timer # "nil"
  <2>1. CASE RunnerStep(t)
    <3>1. CASE TimerFires(t)
      BY <3>1 DEF TimerFires
    <3> QED BY <1>1, <2>1, <3>1, <1>ty, SetsRunner DEF RunnerStep, Sets
  <2>2. ASSUME NEW q \in Req, GetRunnerUse(q), req[q].runner = t PROVE ref[t].timer # "nil"
    BY <1>1, <2>2, <1>ty, SetsUse DEF GetRunnerUse, Sets
  <2>3. CASE (PendUse \/ PendExpire \/ PendSend) /\ pend.runner = t
    <3>1. CASE PendUse
      BY <1>1, <2>3, <3>1, <1>ty, SetsUse DEF PendUse, Sets
    <3>2. CASE PendExpire
      BY <1>1, <2>3, <3>2, <1>ty, SetsExpire DEF PendExpire, Sets
    <3>3. CASE PendSend
      BY <1>1, <2>3, <3>3, <1>ty, SetsField DEF PendSend, Sets
    <3> QED BY <2>3, <3>1, <3>2, <3>3
  <2>4. CASE (CompSend \/ CompBusy \/ CompOrphan \/ CompUnload \/ CompRecovered) /\ comp.runner = t
    BY <1>1, <2>4, <1>ty, SetsComp DEF Sets
  <2>5. CASE (ExpireRunnerLock \/ ExpireRunnerSend) /\ unl.runner = t
    <3>1. CASE ExpireRunnerLock
      BY <1>1, <2>5, <3>1, <1>ty, SetsExpire DEF ExpireRunnerLock, Sets
    <3>2. CASE ExpireRunnerSend
      BY <1>1, <2>5, <3>2, <1>ty, SetsField DEF ExpireRunnerSend, Sets
    <3> QED BY <2>5, <3>1, <3>2
  <2> QED BY <1>1, <2>1, <2>2, <2>3, <2>4, <2>5 DEF Touches
<1>2. ASSUME NEW t \in Runner, Touches(t) PROVE ref[r].timer # "nil"
  BY <1>1, <1>2, <1>ty, TouchedOnly
<1> QED BY <1>2, <1>ty, TouchFrame

LEMMA NextTimer == ASSUME FewRequests, CountedInv, TimerMeansIdle, [Next]_vars PROVE TimerMeansIdle'
<1>ty. /\ TypeOK /\ RefOK /\ SchedInv /\ BaseInv /\ RefCountExact
       /\ PointersInv /\ FreshInv /\ MutexInv
  BY DEF CountedInv, SchedInv, BaseInv, TypeOK
<1> SUFFICES ASSUME stale' = {}, NEW t \in Runner, ref'[t].timer # "nil" PROVE ref'[t].refCount = 0
  BY DEF TimerMeansIdle
<1>0. stale = {} /\ (ref[t].timer # "nil" => ref[t].refCount = 0)
  BY StaleGrows DEF TimerMeansIdle
<1>1. ASSUME NEW q \in Req, NEW r \in Runner, Granting(q, r) PROVE ref'[t].refCount = 0
  <2>1. \A x \in Runner \ {r} : ref'[x] = ref[x]
    BY <1>1, <1>ty, GrantFacts
  <2>2. ref'[r].timer = "nil"
    <3>1. CASE GetRunnerUse(q) /\ r = req[q].runner
      BY <3>1, <1>ty, SetsUse DEF GetRunnerUse, Sets
    <3>2. CASE PendUse /\ q = pend.req /\ r = pend.runner
      BY <3>2, <1>ty, SetsUse DEF PendUse, Sets
    <3>3. CASE LoaderReady(r)
      <4>1. ref[r].timer = "nil"
        BY <3>3, <1>ty DEF LoaderReady, MutexInv, LoaderHolds
      <4> QED BY <3>3, <4>1, <1>ty, SetsRunner DEF Sets
    <3> QED BY <1>1, <3>1, <3>2, <3>3 DEF Granting
  <2> QED BY <1>0, <2>1, <2>2
<1>2. CASE CompRelease
  <2> DEFINE r == comp.runner
  <2>1. r \in Runner /\ comp.pc = "release"
    BY <1>2, <1>ty DEF CompRelease, CompAt, TypeOK, CompOK
  <2>2. Sets(r, ref[r].live, Dec(ref[r].refCount),
                 IF ExpiresNow(ref[r]) THEN "nil" ELSE IF Dec(ref[r].refCount) = 0 THEN "armed" ELSE ref[r].timer,
                 IF ExpiresNow(ref[r]) THEN "comp" ELSE "free", ref[r].load, ref[r].fired, ref[r].again)
    BY <1>2, <2>1, <1>ty, SetsComp
  <2>3. ref[r].refCount = Cardinality(Holders(r)) + 1
    BY <1>0, <2>1, <1>ty DEF RefCountExact, Releasing
  <2>4. ref[r].refCount # 0
    <3>1. Cardinality(Holders(r)) \in Nat
      BY HoldersFinite
    <3> QED BY <2>3, <3>1
  <2>5. CASE t = r
    <3>1. ref[r].timer = "nil"
      BY <1>0, <2>4, <2>5
    <3> QED BY <2>2, <2>5, <3>1 DEF Sets
  <2>6. CASE t # r
    BY <1>0, <2>2, <2>6 DEF Sets
  <2> QED BY <2>5, <2>6
<1>3. CASE PendLoaded
  <2>1. Installs
    BY <1>3, <1>ty, LoadInstalls
  <2> QED BY <1>0, <2>1 DEF Installs
<1>4. ASSUME ~SomeGrant, ~PendLoaded, ~CompRelease PROVE ref'[t].refCount = 0
  BY <1>0, <1>4, <1>ty, CountFrame, TimerFrame
<1> QED BY <1>1, <1>2, <1>3, <1>4 DEF SomeGrant

(* useLoadedRunner, processCompleted: a runner whose keep-alive timer runs *)
(* is idle, as long as no request was given an unloaded runner.            *)
THEOREM TimersMeanIdle == ASSUME FewRequests PROVE Spec => []TimerMeansIdle
<1>1. Init => TimerMeansIdle
  BY DEF Init, TimerMeansIdle, BlankRef
<1>2. CountedInv /\ TimerMeansIdle /\ [Next]_vars => TimerMeansIdle'
  BY NextTimer
<1> QED BY <1>1, <1>2, Counted, PTL DEF Spec

-----------------------------------------------------------------------------
(* An idle runner is on its way out. *)

Announced(r) == \E i \in DOMAIN expiredCh : expiredCh[i] = r
Leaving(r) ==
    \/ ref[r].timer = "armed" \/ ref[r].fired > 0 \/ ref[r].again > 0 \/ ref[r].mu # "free"
    \/ Announced(r)
    \/ comp.pc = "expired" /\ comp.runner = r

LEMMA AnnouncedSteps ==
    ASSUME TypeOK, [Next]_vars, NEW r \in Runner
    PROVE  /\ expiredCh' = Append(expiredCh, r) => Announced(r)'
           /\ Announced(r) => Announced(r)' \/ (comp'.pc = "expired" /\ comp'.runner = r)
<1>ch. expiredCh \in Seq(Runner)
  BY DEF TypeOK, ChannelsOK
<1>1. ASSUME expiredCh' = Append(expiredCh, r) PROVE Announced(r)'
  <2>1. Len(expiredCh) + 1 \in DOMAIN expiredCh' /\ expiredCh'[Len(expiredCh) + 1] = r
    BY <1>1, <1>ch
  <2> QED BY <2>1 DEF Announced
<1>2. ASSUME Announced(r) PROVE Announced(r)' \/ (comp'.pc = "expired" /\ comp'.runner = r)
  <2>1. PICK i \in DOMAIN expiredCh : expiredCh[i] = r
    BY <1>2 DEF Announced
  <2>2. CASE expiredCh' = expiredCh
    BY <2>1, <2>2 DEF Announced
  <2>3. CASE CompTakeExpired
    <3>1. /\ expiredCh # <<>> /\ expiredCh' = Tail(expiredCh)
          /\ comp'.pc = "expired" /\ comp'.runner = Head(expiredCh)
      BY <2>3 DEF CompTakeExpired
    <3>2. CASE i = 1
      BY <1>ch, <2>1, <3>1, <3>2
    <3>3. CASE i # 1
      <4>1. i - 1 \in DOMAIN expiredCh' /\ expiredCh'[i - 1] = r
        BY <1>ch, <2>1, <3>1, <3>3
      <4> QED BY <4>1 DEF Announced
    <3> QED BY <3>2, <3>3
  <2>4. ASSUME NEW t \in Runner, expiredCh' = Append(expiredCh, t) PROVE Announced(r)'
    <3>1. i \in DOMAIN expiredCh' /\ expiredCh'[i] = r
      BY <1>ch, <2>1, <2>4
    <3> QED BY <3>1 DEF Announced
  <2> QED BY <2>2, <2>3, <2>4, ExpiredFrame
<1> QED BY <1>1, <1>2

LEMMA ExpiredAtFrame ==
    ASSUME TypeOK, [Next]_vars, comp.pc = "expired"
    PROVE  comp' = comp \/ CompBusy \/ CompDuplicate \/ CompOrphan \/ CompUnload
<1>1. ASSUME NEW q \in Req, Client(q) PROVE comp' = comp
  BY <1>1 DEF Client, GetRunner, GetRunnerCheck, GetRunnerUse, GetRunnerEnqueue, ContextDone, Finished
<1>2. ASSUME NEW r \in Runner, RunnerStep(r) PROVE comp' = comp
  BY <1>2 DEF RunnerStep, LoaderReady, LoaderFails, LoaderSend, TimerFires, TimerLocks, TimerSend, Requeue
<1>3. CASE Pending
  BY <1>3 DEF Pending, PendTake, PendLook, PendCheck, PendUse, PendFit, PendFitFails, PendFree, PendSpawn,
              PendSpawnFails, PendSpawnAgain, PendLoaded, PendNeedEvict, PendLoadFails, PendFind, PendScan,
              PendExpire, PendSend, PendUnloaded, PendIgnore, PendExit
<1>4. CASE Completed
  BY <1>4 DEF Completed, CompFinished, CompRelease, CompSend, CompTakeExpired, CompRecovered, CompSendUnloaded,
              CompExit, CompAt
<1>5. CASE Unloading \/ Resting \/ Stop \/ UNCHANGED vars
  BY <1>5 DEF Unloading, ExpireRunner, ExpireRunnerLock, ExpireRunnerSend, Resting, vars, Stop, Shutdown,
              UnloadAllRunners, Exit
<1> QED BY <1>1, <1>2, <1>3, <1>4, <1>5 DEF Next

LEMMA NextLeaving ==
    ASSUME FewRequests, CountedInv, [Next]_vars, stale' = {}, NEW r \in Runner,
           NEW m \in Model, loaded[m] = r, NEW n \in Model, loaded'[n] = r,
           ref[r].refCount = 0 => Leaving(r), ref'[r].refCount = 0
    PROVE  Leaving(r)'
<1>ty. /\ TypeOK /\ RefOK /\ SchedInv /\ BaseInv /\ RefCountExact
       /\ PointersInv /\ FreshInv /\ MutexInv /\ MapsOK
  BY DEF CountedInv, SchedInv, BaseInv, TypeOK
<1>0. stale = {} /\ srv[r].path = m /\ r # NoRunner
  BY <1>ty, StaleGrows DEF SchedInv, LoadInv, LoadedInv, Runner, NoRunner
<1>1. CASE CompRelease /\ comp.runner = r
  <2>1. Sets(r, ref[r].live, Dec(ref[r].refCount),
                 IF ExpiresNow(ref[r]) THEN "nil" ELSE IF Dec(ref[r].refCount) = 0 THEN "armed" ELSE ref[r].timer,
                 IF ExpiresNow(ref[r]) THEN "comp" ELSE "free", ref[r].load, ref[r].fired, ref[r].again)
    BY <1>1, <1>ty, SetsComp
  <2> QED BY <2>1 DEF Sets, Leaving
<1>2. ASSUME NEW q \in Req, Granting(q, r) PROVE FALSE
  <2>1. ref[r].refCount \in Nat /\ ref[r].refCount + 1 < UintMod
    <3>1. req[q].answers = 0
      BY <1>2, <1>ty DEF Granting, GetRunnerUse, ClientAt, PendUse, PendAt, LoaderReady, SchedInv, OwnerInv, Unanswered
    <3>2. q \notin Holders(r)
      BY <3>1, HoldersOf DEF CountedInv, HoldInv, HeldInv
    <3>3. /\ Cardinality(Holders(r)) \in Nat /\ Cardinality(Req) \in Nat
          /\ Cardinality(Holders(r)) < Cardinality(Req)
      BY <3>2, HoldersFinite
    <3>4. ref[r].refCount = Cardinality(Holders(r)) + Releasing(r) /\ Releasing(r) \in {0, 1}
      BY <1>0, <1>ty DEF RefCountExact, Releasing
    <3> QED BY <3>3, <3>4, BoundAssumption DEF FewRequests
  <2>2. ref'[r].refCount = ref[r].refCount + 1
    BY <1>2, <1>ty, <2>1, GrantFacts, IncExact
  <2> QED BY <2>1, <2>2
<1>count. ASSUME ~(CompRelease /\ comp.runner = r) PROVE ref[r].refCount = 0
  <2>1. ASSUME NEW p \in Req, NEW t \in Runner, Granting(p, t) PROVE ref'[r] = ref[r]
    BY <1>2, <2>1, <1>ty, GrantFacts
  <2>2. CASE CompRelease
    <3>1. comp.runner \in Runner
      BY <2>2, <1>ty DEF CompRelease, CompAt, TypeOK, CompOK
    <3>2. ref'[r] = ref[r]
      BY <2>2, <1>count, <3>1, <1>ty, SetsComp DEF Sets
    <3> QED BY <3>2
  <2>3. CASE PendLoaded
    <3>1. Installs /\ ~Installed(pend.runner) /\ Installed(r)
      BY <2>3, <1>0, <1>ty, LoadInstalls DEF Installs, FreshInv, PointersInv
    <3>2. ref'[r] = ref[r]
      BY <3>1 DEF Installs
    <3> QED BY <3>2
  <2> QED BY <2>1, <2>2, <2>3, <1>ty, CountFrame DEF SomeGrant
<1>send. ASSUME expiredCh' = Append(expiredCh, r) PROVE Leaving(r)'
  BY <1>send, <1>ty, AnnouncedSteps DEF Leaving
<1>gone. ASSUME comp.runner = r PROVE ~CompOrphan /\ ~CompDuplicate /\ ~CompUnload /\ ~CompRecovered
  <2>1. CompTarget = r
    BY <1>gone, <1>0 DEF CompTarget
  <2>2. ~CompOrphan /\ ~CompDuplicate
    BY <1>gone, <1>0, <2>1 DEF CompOrphan, CompDuplicate
  <2>3. ASSUME CompUnload PROVE FALSE
    <3>1. loaded' = [loaded EXCEPT ![m] = NoRunner]
      BY <2>3, <1>gone, <1>0 DEF CompUnload
    <3>2. n # m /\ loaded[n] = r
      BY <1>0, <1>ty, <3>1 DEF MapsOK
    <3>3. srv[r].path = n
      BY <1>0, <1>ty, <3>2 DEF SchedInv, LoadInv, LoadedInv
    <3> QED BY <1>0, <3>2, <3>3
  <2>4. ~CompRecovered
    BY <1>gone, <1>ty DEF CompRecovered, CompAt, MutexInv, GoneInv
  <2> QED BY <2>2, <2>3, <2>4
<1>3. CASE Touches(r) /\ ~(CompRelease /\ comp.runner = r)
  <2>0. ref[r].refCount = 0
    BY <1>3, <1>count
  <2>1. CASE RunnerStep(r)
    <3>1. ~LoaderReady(r)
      BY <1>2, <1>ty DEF Granting, LoaderReady, TypeOK
    <3>2. CASE LoaderFails(r)
      <4>1. ref[r].mu = "loader"
        BY <3>2, <1>ty DEF LoaderFails, MutexInv, LoaderHolds
      <4> QED BY <3>2, <4>1, <1>ty, SetsRunner DEF Sets, Leaving
    <3>3. CASE LoaderSend(r) \/ TimerSend(r) \/ Requeue(r)
      BY <3>3, <1>send DEF LoaderSend, TimerSend, Requeue, SendExpired
    <3>4. CASE TimerFires(r)
      <4>1. ref'[r].fired = ref[r].fired + 1 /\ ref[r].fired \in Nat
        BY <3>4, <1>ty, SetsRunner DEF Sets, RefOK, RefType
      <4> QED BY <4>1 DEF Leaving
    <3>5. CASE TimerLocks(r)
      BY <3>5, <1>ty, SetsRunner DEF Sets, Leaving
    <3> QED BY <2>1, <3>1, <3>2, <3>3, <3>4, <3>5 DEF RunnerStep
  <2>2. ASSUME NEW q \in Req, GetRunnerUse(q), req[q].runner = r PROVE FALSE
    BY <1>2, <2>2 DEF Granting
  <2>3. CASE (PendUse \/ PendExpire \/ PendSend) /\ pend.runner = r
    <3>1. ~PendUse
      BY <1>2, <2>3, <1>ty DEF Granting, PendUse, PendAt, TypeOK, PendOK
    <3>2. CASE PendExpire
      BY <2>0, <2>3, <3>2, <1>ty, SetsExpire DEF PendExpire, Sets, Leaving
    <3>3. CASE PendSend
      BY <2>3, <3>3, <1>send DEF PendSend, SendExpired
    <3> QED BY <2>3, <3>1, <3>2, <3>3
  <2>4. CASE (CompSend \/ CompBusy \/ CompOrphan \/ CompUnload \/ CompRecovered) /\ comp.runner = r
    <3>1. ~CompBusy
      BY <2>0, <2>4 DEF CompBusy, StillUsed
    <3> QED BY <2>4, <3>1, <1>send, <1>gone DEF CompSend, SendExpired
  <2>5. CASE (ExpireRunnerLock \/ ExpireRunnerSend) /\ unl.runner = r
    <3>1. CASE ExpireRunnerLock
      BY <2>0, <2>5, <3>1, <1>ty, SetsExpire DEF ExpireRunnerLock, Sets, Leaving
    <3>2. CASE ExpireRunnerSend
      BY <2>5, <3>2, <1>send DEF ExpireRunnerSend, SendExpired
    <3> QED BY <2>5, <3>1, <3>2
  <2> QED BY <1>3, <2>1, <2>2, <2>3, <2>4, <2>5 DEF Touches
<1>4. CASE ref'[r] = ref[r] /\ ~Touches(r)
  <2>1. ref[r].refCount = 0 /\ Leaving(r)
    BY <1>4
  <2>2. CASE comp.pc = "expired" /\ comp.runner = r
    <3>1. ~CompBusy
      BY <2>1, <2>2 DEF CompBusy, StillUsed
    <3> QED BY <2>2, <3>1, <1>gone, <1>ty, ExpiredAtFrame DEF Leaving
  <2>3. CASE Announced(r)
    BY <2>3, <1>ty, AnnouncedSteps DEF Leaving
  <2> QED BY <1>4, <2>1, <2>2, <2>3 DEF Leaving
<1>5. CASE PendLoaded
  <2>1. Installs /\ ~Installed(pend.runner) /\ Installed(r)
    BY <1>5, <1>0, <1>ty, LoadInstalls DEF Installs, FreshInv, PointersInv
  <2>2. ref'[r] = ref[r] /\ expiredCh' = expiredCh /\ comp' = comp
    BY <2>1 DEF Installs, channels
  <2> QED BY <2>2 DEF Leaving, Announced
<1>6. ASSUME NEW t \in Runner, Touches(t), t # r, ~Touches(r) PROVE Leaving(r)'
  BY <1>6, <1>4, <1>ty, TouchedOnly
<1> QED BY <1>1, <1>3, <1>4, <1>5, <1>6, <1>ty, TouchFrame

LEMMA NextIdle == ASSUME FewRequests, CountedInv, IdleWillExpire, [Next]_vars PROVE IdleWillExpire'
<1>ty. TypeOK /\ SchedInv /\ MapsOK /\ MapsOK'
  BY NextT DEF CountedInv, SchedInv, TypeOK
<1> SUFFICES ASSUME stale' = {}, NEW r \in LoadedRunners', ref'[r].refCount = 0 PROVE Leaving(r)'
  BY DEF IdleWillExpire, Leaving, Announced
<1>1. PICK n \in Model : r = loaded'[n] /\ r # NoRunner
  BY DEF LoadedRunners
<1>2. r \in Runner
  BY <1>ty, <1>1 DEF MapsOK, RefOrNone
<1>3. ASSUME NEW m \in Model, loaded[m] = r PROVE Leaving(r)'
  <2>1. ref[r].refCount = 0 => Leaving(r)
    <3>1. r \in LoadedRunners
      BY <1>1, <1>3 DEF LoadedRunners
    <3>2. stale = {}
      BY StaleGrows
    <3> QED BY <3>1, <3>2 DEF IdleWillExpire, Leaving, Announced
  <2> QED BY <1>1, <1>2, <1>3, <2>1, NextLeaving
<1>4. ASSUME \A m \in Model : loaded[m] # r PROVE Leaving(r)'
  <2>1. CASE PendLoaded
    <3>1. Installs
      BY <2>1, <1>ty, LoadInstalls
    <3>2. r = pend.runner
      BY <1>1, <1>4, <1>ty, <3>1 DEF Installs, MapsOK
    <3> QED BY <3>1, <3>2 DEF Installs, Leaving
  <2>2. ~CompUnload
    BY <1>1, <1>4, <1>ty DEF CompUnload, MapsOK
  <2> QED BY <1>1, <1>4, <2>1, <2>2, LoadedFrame
<1> QED BY <1>3, <1>4

(* The expiry of idle runners forgets none: a loaded runner that nobody    *)
(* holds has a timer running, a callback or an event under way, or its     *)
(* refMu held, as long as no request was given an unloaded runner.         *)
THEOREM IdleRunnersWillExpire == ASSUME FewRequests PROVE Spec => []IdleWillExpire
<1>1. Init => IdleWillExpire
  BY DEF Init, IdleWillExpire, LoadedRunners
<1>2. CountedInv /\ IdleWillExpire /\ [Next]_vars => IdleWillExpire'
  BY NextIdle
<1> QED BY <1>1, <1>2, Counted, PTL DEF Spec

=============================================================================
