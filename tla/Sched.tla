------------------------------- MODULE Sched -------------------------------
(***************************************************************************)
(* The model scheduler of the server, server/sched.go: which runner        *)
(* subprocesses are loaded, how requests obtain and give back a runner,    *)
(* how idle runners expire, how a runner is evicted to make room for       *)
(* another one, and how everything is shut down.                           *)
(*                                                                         *)
(* Every goroutine of the code has a program counter here, and one step    *)
(* of the model is one critical section of the code: the piece between two *)
(* points where the goroutine can block (a mutex, a channel operation) or  *)
(* where another goroutine can get in between.  A blocking send that is    *)
(* made while a runner's refMu is held keeps refMu until it gets through.  *)
(* The scheduler's own loadedMu is never held across a blocking operation  *)
(* (the one exception is the overwritten runner in Load), so it is not a   *)
(* variable: the steps that hold it are atomic.                            *)
(***************************************************************************)
EXTENDS Integers, Sequences, FiniteSets

CONSTANTS
    Req,            \* requests; each one calls GetRunner once
    NoReq,          \* stands for the absence of a request
    Model,          \* model paths, numbered in their lexical order
    Calls,          \* Calls[q]: the argument records request q may be made with
    DefaultKeep,    \* envconfig.KeepAlive()
    MaxRunners,     \* the number of loaded models the scheduler allows
    MaxQueue,       \* capacity of each of the four channels (OLLAMA_MAX_QUEUE)
    MaxRefs,        \* bound: runner subprocesses ever spawned
    UintMod,        \* refCount is a Go uint: it wraps around at UintMod
    MaxUnloads,     \* bound: explicit unload calls (expireRunner)
    Impatient,      \* requests whose client may go away before the answer
    LoadOutcomes,   \* what llama.Load may return: "ok", "full", "err"
    RunMayFail,     \* llama.WaitUntilRunning may fail
    PingMayFail,    \* a runner that is up may fail to answer a ping
    FileMayVanish,  \* llm.LoadModel may fail: the model file is gone
    MayStop         \* the server may be asked to shut down

(* Durations: only their order, "none left" and "never" matter.  Forever   *)
(* is a negative keep_alive, which the API turns into the largest one.     *)
Zero == 0
Finite == 1
Forever == 2
Duration == Zero..Forever
Unset == 3          \* the request carries no keep_alive (a nil pointer)

Runner == 1..MaxRefs
NoRunner == 0
NoReply == 0
Failed == -1        \* the answer is an error, on errCh

(* The arguments of GetRunner: the model; num_gpu; the other options that  *)
(* make a runner incompatible (adapters and projectors among them); the    *)
(* keep_alive.                                                             *)
CallType == [model : Model, gpu : Int, rest : Nat, keep : Duration \cup {Unset}]

ASSUME ReqAssumption == NoReq \notin Req
ASSUME ModelAssumption == Model \subseteq Nat \ {0}
ASSUME CallsAssumption ==
    \A q \in Req :
        /\ Calls[q] # {}
        /\ Calls[q] \subseteq CallType
ASSUME BoundAssumption ==
    /\ MaxRunners \in Nat \ {0}
    /\ MaxQueue \in Nat \ {0}
    /\ MaxRefs \in Nat
    /\ MaxUnloads \in Nat
    /\ UintMod \in Nat \ {0}
ASSUME EnvAssumption ==
    /\ DefaultKeep \in Duration
    /\ Impatient \subseteq Req
    /\ LoadOutcomes \subseteq {"ok", "full", "err"}
    /\ {RunMayFail, PingMayFail, FileMayVanish, MayStop} \subseteq BOOLEAN

VARIABLES
    req,            \* per request: LlmRequest, its GetRunner call, its watcher
    ref,            \* per runner: runnerRef, its loader and its timer callbacks
    srv,            \* per runner: the subprocess behind the LlamaServer
    spawned,        \* how many subprocesses were spawned
    loaded,         \* Scheduler.loaded
    activeLoading,  \* Scheduler.activeLoading
    pendingCh,      \* Scheduler.pendingReqCh
    finishedCh,     \* Scheduler.finishedReqCh
    expiredCh,      \* Scheduler.expiredCh
    unloadedCh,     \* Scheduler.unloadedCh: its events carry nothing, so a count
    pend,           \* the processPending goroutine
    comp,           \* the processCompleted goroutine
    unl,            \* the caller of expireRunner
    life,           \* the server process
    stale           \* history: requests that were given an unloaded runner

channels == <<pendingCh, finishedCh, expiredCh, unloadedCh>>
maps == <<srv, spawned, loaded, activeLoading>>
vars == <<req, ref, maps, channels, pend, comp, unl, life, stale>>

-----------------------------------------------------------------------------
(* State *)

(* Panicked: the process is gone because a goroutine panicked.  Exited:    *)
(* main returned after the shutdown.                                       *)
Alive == life \notin {"panicked", "exited"}
Stopping == life # "up"     \* the scheduler's context is cancelled

AnyCall(q) == CHOOSE c \in Calls[q] : TRUE

NewRequest(q) ==
    [pc |-> "new", call |-> AnyCall(q), runner |-> NoRunner, reply |-> NoReply,
     answers |-> 0, done |-> FALSE, watched |-> FALSE]

(* A runnerRef that was not created yet. `live' is Options # nil;          *)
(* `fired' counts timer callbacks that have not yet locked refMu, `again'  *)
(* the goroutines that will re-queue an expired event.                     *)
BlankRef ==
    [req |-> NoReq, live |-> FALSE, refCount |-> 0, dur |-> Zero, timer |-> "nil",
     mu |-> "free", load |-> "none", fired |-> 0, again |-> 0]

IdlePend ==
    [pc |-> "idle", req |-> NoReq, runner |-> NoRunner, full |-> FALSE,
     list |-> <<>>, at |-> 1]

Init ==
    /\ req = [q \in Req |-> NewRequest(q)]
    /\ ref = [r \in Runner |-> BlankRef]
    /\ srv = [r \in Runner |-> [state |-> "none", path |-> 0]]
    /\ spawned = 0
    /\ loaded = [m \in Model |-> NoRunner]
    /\ activeLoading = NoRunner
    /\ pendingCh = <<>>
    /\ finishedCh = <<>>
    /\ expiredCh = <<>>
    /\ unloadedCh = 0
    /\ pend = IdlePend
    /\ comp = [pc |-> "idle", runner |-> NoRunner]
    /\ unl = [pc |-> "idle", runner |-> NoRunner, left |-> MaxUnloads]
    /\ life = "up"
    /\ stale = {}

LoadedRunners == {loaded[m] : m \in Model} \ {NoRunner}
LoadedCount == Cardinality({m \in Model : loaded[m] # NoRunner})

AtMaxRunnersOffByOne == LoadedCount > MaxRunners    \* slip: > for >=
AtMaxRunners == LoadedCount >= MaxRunners

-----------------------------------------------------------------------------
(* Operations shared by several goroutines *)

(* errCh <- err, or successCh <- runner and the goroutine that watches the *)
(* request's context                                                       *)
Answered(rq, v) == [rq EXCEPT !.reply = v, !.answers = @ + 1]
Refuse(q) == [req EXCEPT ![q] = Answered(@, Failed)]
Grant(q, r) == [req EXCEPT ![q] = [Answered(@, r) EXCEPT !.pc = "waiting", !.watched = TRUE]]

(* Records of a runnerRef: taken into use; to expire as soon as idle       *)
InUseTimerRuns(rec, keep) ==        \* slip: the timer is not stopped
    [rec EXCEPT !.refCount = (@ + 1) % UintMod, !.dur = IF keep = Unset THEN @ ELSE keep]
InUse(rec, keep) ==
    [rec EXCEPT !.refCount = (@ + 1) % UintMod, !.timer = "nil",
                !.dur = IF keep = Unset THEN @ ELSE keep]
ToExpire(rec, owner) ==
    [rec EXCEPT !.timer = "nil", !.dur = Zero, !.mu = IF rec.refCount = 0 THEN owner ELSE "free"]

(* runnerRef.unload *)
Unloaded(rec) == [rec EXCEPT !.timer = "nil", !.live = FALSE]

(* The options of a runner satisfy a request: num_gpu = -1 leaves the      *)
(* number of layers to the runner that is there.                           *)
Compatible(old, new) ==
    /\ old.rest = new.rest
    /\ new.gpu < 0 \/ old.gpu = new.gpu

(* The possible results of needsReload; `cancelled' is the state of the    *)
(* context that bounds the ping.                                           *)
NeedsReload(r, q, cancelled) ==
    IF \/ ~ref[r].live
       \/ ~Compatible(req[ref[r].req].call, req[q].call)
       \/ srv[r].state = "closed"
       \/ cancelled
    THEN {TRUE}
    ELSE {FALSE, PingMayFail}

(* useLoadedRunner: refMu is free.  The request is answered, and a watcher *)
(* goroutine will send it to finishedReqCh once its context is done.       *)
UseLoadedRunner(q, r) ==
    /\ ref[r].mu = "free"
    /\ ref' = [ref EXCEPT ![r] = InUse(@, req[q].call.keep)]
    /\ req' = Grant(q, r)
    /\ stale' = IF ref[r].live THEN stale ELSE stale \cup {q}

(* The runner is to go as soon as it is idle: if it is idle already, the   *)
(* caller keeps refMu to send it to expiredCh.                             *)
ExpireNow(r, owner) ==
    /\ ref[r].mu = "free"
    /\ ref' = [ref EXCEPT ![r] = ToExpire(@, owner)]

(* expiredCh <- runner, then refMu.Unlock() *)
SendExpiredUnbounded(r) == expiredCh' = Append(expiredCh, r)    \* slip: no room needed
SendExpired(r) ==
    /\ Len(expiredCh) < MaxQueue
    /\ expiredCh' = Append(expiredCh, r)

-----------------------------------------------------------------------------
(* Clients: GetRunner, then the request's own context *)

ClientAt(q, pc) == Alive /\ req[q].pc = pc

(* GetRunner up to the release of loadedMu *)
GetRunner(q) ==
    /\ ClientAt(q, "new")
    /\ \E c \in Calls[q] :
        req' = [req EXCEPT ![q] =
                 [@ EXCEPT !.call = c, !.runner = loaded[c.model],
                           !.pc = IF loaded[c.model] = NoRunner THEN "enqueue" ELSE "check"]]
    /\ UNCHANGED <<ref, maps, channels, pend, comp, unl, life, stale>>

GetRunnerCheck(q) ==
    /\ ClientAt(q, "check")
    /\ ref[req[q].runner].mu = "free"
    /\ \E reload \in NeedsReload(req[q].runner, q, req[q].done) :
        req' = [req EXCEPT ![q].pc = IF reload THEN "enqueue" ELSE "use"]
    /\ UNCHANGED <<ref, maps, channels, pend, comp, unl, life, stale>>

GetRunnerUse(q) ==
    /\ ClientAt(q, "use")
    /\ UseLoadedRunner(q, req[q].runner)
    /\ UNCHANGED <<maps, channels, pend, comp, unl, life>>

GetRunnerEnqueue(q) ==
    /\ ClientAt(q, "enqueue")
    /\ \/ /\ Len(pendingCh) < MaxQueue
          /\ pendingCh' = Append(pendingCh, q)
          /\ req' = [req EXCEPT ![q].pc = "waiting"]
       \/ /\ Len(pendingCh) = MaxQueue      \* ErrMaxQueue
          /\ req' = [req EXCEPT ![q] = [Answered(@, Failed) EXCEPT !.pc = "waiting"]]
          /\ UNCHANGED pendingCh
    /\ UNCHANGED <<ref, maps, finishedCh, expiredCh, unloadedCh, pend, comp, unl, life, stale>>

(* The request's context is done: its handler returned after it got the    *)
(* runner, or its client went away, or http.Server.Close dropped it.       *)
ContextDone(q) ==
    /\ Alive /\ ~req[q].done
    /\ \/ req[q].reply \in Runner
       \/ q \in Impatient /\ req[q].pc # "new"
       \/ Stopping /\ req[q].pc # "new"
    /\ req' = [req EXCEPT ![q].done = TRUE]
    /\ UNCHANGED <<ref, maps, channels, pend, comp, unl, life, stale>>

(* The goroutine that useLoadedRunner, or the loader, left behind *)
Finished(q) ==
    /\ Alive /\ req[q].watched /\ req[q].done
    /\ Len(finishedCh) < MaxQueue
    /\ finishedCh' = Append(finishedCh, q)
    /\ req' = [req EXCEPT ![q].watched = FALSE]
    /\ UNCHANGED <<ref, maps, pendingCh, expiredCh, unloadedCh, pend, comp, unl, life, stale>>

Client(q) ==
    \/ GetRunner(q) \/ GetRunnerCheck(q) \/ GetRunnerUse(q) \/ GetRunnerEnqueue(q)
    \/ ContextDone(q) \/ Finished(q)

-----------------------------------------------------------------------------
(* processPending: one pending request at a time *)

PendAt(pc) == Alive /\ pend.pc = pc
PModel == req[pend.req].call.model

(* A cancelled request is skipped: neither of its channels gets anything.  *)
PendTake ==
    /\ PendAt("idle") /\ pendingCh # <<>>
    /\ pendingCh' = Tail(pendingCh)
    /\ pend' = IF req[Head(pendingCh)].done THEN pend
               ELSE [pend EXCEPT !.pc = "look", !.req = Head(pendingCh)]
    /\ UNCHANGED <<req, ref, maps, finishedCh, expiredCh, unloadedCh, comp, unl, life, stale>>

(* The top of the inner loop: what is there for this model, and is there   *)
(* room for one more?  `full' is requireFull of the load that may follow.  *)
PendLook ==
    /\ PendAt("look")
    /\ LET r == loaded[PModel] IN
        pend' = [pend EXCEPT !.runner = r, !.full = LoadedCount # 0,
                             !.pc = IF r # NoRunner THEN "check"
                                    ELSE IF AtMaxRunners THEN "find" ELSE "fit"]
    /\ UNCHANGED <<req, ref, maps, channels, comp, unl, life, stale>>

PendCheckKeepsIdle ==   \* slip: an idle runner is left for load to replace
    /\ PendAt("check")
    /\ ref[pend.runner].mu = "free"
    /\ \E reload \in NeedsReload(pend.runner, pend.req, Stopping) :
        pend' = [pend EXCEPT !.pc = IF ~reload THEN "use"
                                    ELSE IF ref[pend.runner].refCount = 0 THEN "fit" ELSE "expire"]
    /\ UNCHANGED <<req, ref, maps, channels, comp, unl, life, stale>>

PendCheck ==
    /\ PendAt("check")
    /\ ref[pend.runner].mu = "free"
    /\ \E reload \in NeedsReload(pend.runner, pend.req, Stopping) :
        pend' = [pend EXCEPT !.pc = IF reload THEN "expire" ELSE "use"]
    /\ UNCHANGED <<req, ref, maps, channels, comp, unl, life, stale>>

PendUseNoBreak ==       \* slip: the inner loop goes on after the answer
    /\ PendAt("use")
    /\ UseLoadedRunner(pend.req, pend.runner)
    /\ pend' = [pend EXCEPT !.pc = "look"]
    /\ UNCHANGED <<maps, channels, comp, unl, life>>

PendUse ==
    /\ PendAt("use")
    /\ UseLoadedRunner(pend.req, pend.runner)
    /\ pend' = IdlePend
    /\ UNCHANGED <<maps, channels, comp, unl, life>>

(* The orders in which the runners of a set can be visited *)
Orders(S) ==
    {s \in [1..Cardinality(S) -> S] : \A i, j \in DOMAIN s : s[i] = s[j] => i = j}

(* llm.LoadModel, and the snapshot updateFreeSpace takes (no GPU to use,   *)
(* no snapshot)                                                            *)
PendFit ==
    /\ PendAt("fit")
    /\ \E s \in Orders(IF req[pend.req].call.gpu = 0 THEN {} ELSE LoadedRunners) :
        pend' = [pend EXCEPT !.pc = "free", !.list = s, !.at = 1]
    /\ UNCHANGED <<req, ref, maps, channels, comp, unl, life, stale>>

PendFitFails ==
    /\ PendAt("fit") /\ FileMayVanish
    /\ req' = Refuse(pend.req)
    /\ pend' = IdlePend
    /\ UNCHANGED <<ref, maps, channels, comp, unl, life, stale>>

(* updateFreeSpace locks every runner of its snapshot in turn; the numbers *)
(* it reads end up in what llama.Load returns.                             *)
PendFree ==
    /\ PendAt("free")
    /\ IF pend.at > Len(pend.list)
       THEN pend' = [pend EXCEPT !.pc = "spawn", !.list = <<>>, !.at = 1]
       ELSE /\ ref[pend.list[pend.at]].mu = "free"
            /\ pend' = [pend EXCEPT !.at = @ + 1]
    /\ UNCHANGED <<req, ref, maps, channels, comp, unl, life, stale>>

(* load, its first part: newServerFn, unless an earlier attempt for this   *)
(* request left a server that is still to be loaded                        *)
PendSpawn ==
    /\ PendAt("spawn") /\ activeLoading = NoRunner /\ spawned < MaxRefs
    /\ spawned' = spawned + 1
    /\ srv' = [srv EXCEPT ![spawned + 1] = [state |-> "open", path |-> PModel]]
    /\ activeLoading' = spawned + 1
    /\ pend' = [pend EXCEPT !.pc = "load", !.runner = spawned + 1]
    /\ UNCHANGED <<req, ref, loaded, channels, comp, unl, life, stale>>

PendSpawnFails ==
    /\ PendAt("spawn") /\ activeLoading = NoRunner
    /\ "err" \in LoadOutcomes \/ spawned = MaxRefs
    /\ req' = Refuse(pend.req)
    /\ pend' = IdlePend
    /\ UNCHANGED <<ref, maps, channels, comp, unl, life, stale>>

(* "attempting to load different model after eviction" *)
PendSpawnAgain ==
    /\ PendAt("spawn") /\ activeLoading # NoRunner
    /\ IF srv[activeLoading].path = PModel
       THEN /\ pend' = [pend EXCEPT !.pc = "load", !.runner = activeLoading]
            /\ UNCHANGED life
       ELSE life' = "panicked" /\ UNCHANGED pend
    /\ UNCHANGED <<req, ref, maps, channels, comp, unl, stale>>

(* What llama.Load can return: a server that was closed, or a context that *)
(* is done, makes it fail.                                                 *)
LoadResults ==
    IF srv[pend.runner].state = "closed" THEN {"err"}
    ELSE IF req[pend.req].done THEN LoadOutcomes \cup {"err"} ELSE LoadOutcomes

(* The load went well.  The new runner is installed with its refMu held by *)
(* the goroutine that waits for the subprocess to be ready.  A runner that *)
(* is still there for this model is unloaded first ("shouldn't happen").   *)
PendLoaded ==
    /\ PendAt("load") /\ "ok" \in LoadResults
    /\ LET r == pend.runner
           old == loaded[PModel]
           keep == req[pend.req].call.keep
           new == [BlankRef EXCEPT !.req = pend.req, !.live = TRUE, !.mu = "loader",
                                   !.load = "wait",
                                   !.dur = IF keep = Unset THEN DefaultKeep ELSE keep]
       IN /\ old # NoRunner => ref[old].mu = "free"
          /\ ref' = [x \in Runner |-> IF x = r THEN new
                                      ELSE IF x = old THEN Unloaded(ref[x]) ELSE ref[x]]
          /\ srv' = [x \in Runner |-> IF x = old THEN [srv[x] EXCEPT !.state = "closed"] ELSE srv[x]]
          /\ loaded' = [loaded EXCEPT ![PModel] = r]
    /\ activeLoading' = NoRunner
    /\ pend' = IdlePend
    /\ UNCHANGED <<req, spawned, channels, comp, unl, life, stale>>

(* ErrLoadRequiredFull with other models loaded: evict one and try again.  *)
(* activeLoading stays set.                                                *)
PendNeedEvict ==
    /\ PendAt("load") /\ "full" \in LoadResults /\ pend.full
    /\ pend' = [pend EXCEPT !.pc = "find"]
    /\ UNCHANGED <<req, ref, maps, channels, comp, unl, life, stale>>

(* The load failed for good: s.activeLoading.Close() without loadedMu, a   *)
(* nil dereference when the shutdown has just cleared the field.           *)
PendLoadFailsStaysActive ==     \* slip: activeLoading is not cleared
    /\ PendAt("load")
    /\ "err" \in LoadResults \/ ("full" \in LoadResults /\ ~pend.full)
    /\ srv' = [srv EXCEPT ![pend.runner].state = "closed"]
    /\ req' = Refuse(pend.req)
    /\ pend' = IdlePend
    /\ UNCHANGED <<ref, spawned, loaded, activeLoading, channels, comp, unl, life, stale>>

PendLoadFails ==
    /\ PendAt("load")
    /\ "err" \in LoadResults \/ ("full" \in LoadResults /\ ~pend.full)
    /\ IF activeLoading = NoRunner
       THEN life' = "panicked" /\ UNCHANGED <<req, srv, activeLoading, pend>>
       ELSE /\ srv' = [srv EXCEPT ![activeLoading].state = "closed"]
            /\ activeLoading' = NoRunner
            /\ req' = Refuse(pend.req)
            /\ pend' = IdlePend
            /\ UNCHANGED life
    /\ UNCHANGED <<ref, spawned, loaded, channels, comp, unl, stale>>

(* ByDurationAndName *)
Before(r, t) ==
    \/ ref[r].dur < ref[t].dur
    \/ ref[r].dur = ref[t].dur /\ srv[r].path < srv[t].path

(* findRunnerToUnload: snapshot and sort.  With nothing left to unload the *)
(* caller starts over.                                                     *)
PendFind ==
    /\ PendAt("find")
    /\ \E s \in Orders(LoadedRunners) :
        /\ \A i, j \in DOMAIN s : i < j => Before(s[i], s[j])
        /\ pend' = IF s = <<>> THEN [pend EXCEPT !.pc = "look"]
                   ELSE [pend EXCEPT !.pc = "scan", !.list = s, !.at = 1]
    /\ UNCHANGED <<req, ref, maps, channels, comp, unl, life, stale>>

(* The first idle runner of the list, or else the first one *)
PendScan ==
    /\ PendAt("scan")
    /\ LET r == pend.list[pend.at]
           Chosen(c) == [pend EXCEPT !.pc = "expire", !.runner = c, !.list = <<>>, !.at = 1]
       IN /\ ref[r].mu = "free"
          /\ pend' = IF ref[r].refCount = 0 THEN Chosen(r)
                     ELSE IF pend.at = Len(pend.list) THEN Chosen(pend.list[1])
                     ELSE [pend EXCEPT !.at = @ + 1]
    /\ UNCHANGED <<req, ref, maps, channels, comp, unl, life, stale>>

PendExpire ==
    /\ PendAt("expire")
    /\ ExpireNow(pend.runner, "pend")
    /\ pend' = [pend EXCEPT !.pc = IF ref[pend.runner].refCount = 0 THEN "send" ELSE "wait"]
    /\ UNCHANGED <<req, maps, channels, comp, unl, life, stale>>

PendSend ==
    /\ PendAt("send")
    /\ SendExpired(pend.runner)
    /\ ref' = [ref EXCEPT ![pend.runner].mu = "free"]
    /\ pend' = [pend EXCEPT !.pc = "wait"]
    /\ UNCHANGED <<req, maps, pendingCh, finishedCh, unloadedCh, comp, unl, life, stale>>

(* Any unload event will do, not only that of the chosen runner. *)
PendUnloaded ==
    /\ PendAt("wait") /\ unloadedCh > 0
    /\ unloadedCh' = unloadedCh - 1
    /\ pend' = [pend EXCEPT !.pc = "look", !.runner = NoRunner]
    /\ UNCHANGED <<req, ref, maps, pendingCh, finishedCh, expiredCh, comp, unl, life, stale>>

(* Unload events nobody waits for are dropped. *)
PendIgnore ==
    /\ PendAt("idle") /\ unloadedCh > 0
    /\ unloadedCh' = unloadedCh - 1
    /\ UNCHANGED <<req, ref, maps, pendingCh, finishedCh, expiredCh, pend, comp, unl, life, stale>>

PendExit ==
    /\ PendAt("idle") \/ PendAt("wait")
    /\ Stopping
    /\ pend' = [IdlePend EXCEPT !.pc = "exit"]
    /\ UNCHANGED <<req, ref, maps, channels, comp, unl, life, stale>>

Pending ==
    \/ PendTake \/ PendLook \/ PendCheck \/ PendUse \/ PendFit \/ PendFitFails \/ PendFree
    \/ PendSpawn \/ PendSpawnFails \/ PendSpawnAgain
    \/ PendLoaded \/ PendNeedEvict \/ PendLoadFails
    \/ PendFind \/ PendScan \/ PendExpire \/ PendSend \/ PendUnloaded \/ PendIgnore \/ PendExit

-----------------------------------------------------------------------------
(* The goroutines of a runner *)

(* The loader: llama.WaitUntilRunning, with refMu held *)
ReadyUncounted(rec) == [rec EXCEPT !.mu = "free", !.load = "none"]  \* slip: no refCount++
Ready(rec) == [rec EXCEPT !.refCount = (@ + 1) % UintMod, !.mu = "free", !.load = "none"]

LoaderReady(r) ==
    /\ Alive /\ ref[r].load = "wait" /\ srv[r].state = "open"
    /\ ref' = [ref EXCEPT ![r] = Ready(@)]
    /\ req' = Grant(ref[r].req, r)
    /\ UNCHANGED <<maps, channels, pend, comp, unl, life, stale>>

LoaderFails(r) ==
    /\ Alive /\ ref[r].load = "wait"
    /\ RunMayFail \/ req[ref[r].req].done \/ srv[r].state = "closed"
    /\ req' = Refuse(ref[r].req)
    /\ ref' = [ref EXCEPT ![r].load = "send"]
    /\ UNCHANGED <<maps, channels, pend, comp, unl, life, stale>>

LoaderSend(r) ==
    /\ Alive /\ ref[r].load = "send"
    /\ SendExpired(r)
    /\ ref' = [ref EXCEPT ![r] = [@ EXCEPT !.mu = "free", !.load = "none"]]
    /\ UNCHANGED <<req, maps, pendingCh, finishedCh, unloadedCh, pend, comp, unl, life, stale>>

(* The keep-alive timer runs out: from now on its callback waits for refMu,*)
(* and Stop comes too late.  A "forever" timer does not run out.           *)
Fired(rec) == [rec EXCEPT !.timer = "spent", !.fired = @ + 1]
Called(rec) == [rec EXCEPT !.timer = "nil", !.fired = @ - 1, !.mu = "timer"]

TimerFires(r) ==
    /\ Alive /\ ref[r].timer = "armed" /\ ref[r].dur # Forever
    /\ ref' = [ref EXCEPT ![r] = Fired(@)]
    /\ UNCHANGED <<req, maps, channels, pend, comp, unl, life, stale>>

TimerLocks(r) ==
    /\ Alive /\ ref[r].fired > 0 /\ ref[r].mu = "free"
    /\ ref' = [ref EXCEPT ![r] = Called(@)]
    /\ UNCHANGED <<req, maps, channels, pend, comp, unl, life, stale>>

TimerSend(r) ==
    /\ Alive /\ ref[r].mu = "timer"
    /\ SendExpired(r)
    /\ ref' = [ref EXCEPT ![r].mu = "free"]
    /\ UNCHANGED <<req, maps, pendingCh, finishedCh, unloadedCh, pend, comp, unl, life, stale>>

(* The goroutine that processCompleted started to try again after 10 ms *)
Requeue(r) ==
    /\ Alive /\ ref[r].again > 0
    /\ SendExpired(r)
    /\ ref' = [ref EXCEPT ![r].again = @ - 1]
    /\ UNCHANGED <<req, maps, pendingCh, finishedCh, unloadedCh, pend, comp, unl, life, stale>>

RunnerStep(r) ==
    \/ LoaderReady(r) \/ LoaderFails(r) \/ LoaderSend(r)
    \/ TimerFires(r) \/ TimerLocks(r) \/ TimerSend(r) \/ Requeue(r)

-----------------------------------------------------------------------------
(* processCompleted: finished requests, expired runners, unloading *)

CompAt(pc) == Alive /\ comp.pc = pc
IdleComp == [pc |-> "idle", runner |-> NoRunner]

(* The runner is looked up by the request's model, whichever runner the    *)
(* request was given.  refCount is a uint.                                 *)
CompFinished ==
    /\ CompAt("idle") /\ finishedCh # <<>>
    /\ finishedCh' = Tail(finishedCh)
    /\ LET r == loaded[req[Head(finishedCh)].call.model] IN
        comp' = IF r = NoRunner THEN comp ELSE [pc |-> "release", runner |-> r]
    /\ UNCHANGED <<req, ref, maps, pendingCh, expiredCh, unloadedCh, pend, unl, life, stale>>

(* refCount--; a runner that went idle expires now, and the caller keeps   *)
(* refMu to say so, or its timer is set (or reset).                        *)
Dec(n) == (n + UintMod - 1) % UintMod
ExpiresNow(rec) == Dec(rec.refCount) = 0 /\ rec.dur = Zero
ReleasedNoTimer(rec) ==     \* slip: only a timer that is there is reset
    [rec EXCEPT !.refCount = Dec(@),
                !.timer = IF ExpiresNow(rec) THEN "nil"
                          ELSE IF Dec(rec.refCount) = 0 /\ @ # "nil" THEN "armed" ELSE @,
                !.mu = IF ExpiresNow(rec) THEN "comp" ELSE "free"]
Released(rec) ==
    [rec EXCEPT !.refCount = Dec(@),
                !.timer = IF ExpiresNow(rec) THEN "nil"
                          ELSE IF Dec(rec.refCount) = 0 THEN "armed" ELSE @,
                !.mu = IF ExpiresNow(rec) THEN "comp" ELSE "free"]

CompRelease ==
    /\ CompAt("release")
    /\ ref[comp.runner].mu = "free"
    /\ ref' = [ref EXCEPT ![comp.runner] = Released(@)]
    /\ comp' = IF ExpiresNow(ref[comp.runner]) THEN [comp EXCEPT !.pc = "send"] ELSE IdleComp
    /\ UNCHANGED <<req, maps, channels, pend, unl, life, stale>>

(* This goroutine is the only receiver of the channel it sends to. *)
CompSend ==
    /\ CompAt("send")
    /\ SendExpired(comp.runner)
    /\ ref' = [ref EXCEPT ![comp.runner].mu = "free"]
    /\ comp' = IdleComp
    /\ UNCHANGED <<req, maps, pendingCh, finishedCh, unloadedCh, pend, unl, life, stale>>

CompTakeExpired ==
    /\ CompAt("idle") /\ expiredCh # <<>>
    /\ expiredCh' = Tail(expiredCh)
    /\ comp' = [pc |-> "expired", runner |-> Head(expiredCh)]
    /\ UNCHANGED <<req, ref, maps, pendingCh, finishedCh, unloadedCh, pend, unl, life, stale>>

CompExpiredAt == CompAt("expired") /\ ref[comp.runner].mu = "free"
CompTargetAnyPid ==         \* slip: the pids are not compared
    IF loaded[srv[comp.runner].path] = NoRunner THEN NoRunner ELSE comp.runner
CompTarget == loaded[srv[comp.runner].path]
StillUsedByOthers == ref[comp.runner].refCount > 1      \* slip: off by one
StillUsedUnsigned == ref[comp.runner].refCount >= 0     \* slip: always true of a uint
StillUsed == ref[comp.runner].refCount > 0

CompBusy ==
    /\ CompExpiredAt /\ StillUsed
    /\ ref' = [ref EXCEPT ![comp.runner].again = @ + 1]
    /\ comp' = IdleComp
    /\ UNCHANGED <<req, maps, channels, pend, unl, life, stale>>

CompDuplicate ==
    /\ CompExpiredAt /\ ~StillUsed /\ CompTarget = NoRunner
    /\ comp' = IdleComp
    /\ UNCHANGED <<req, ref, maps, channels, pend, unl, life, stale>>

Close(r) == [srv EXCEPT ![r].state = "closed"]

CompOrphanUnloadsBoth ==    \* slip: runnerToUnload.unload() as well
    /\ CompExpiredAt /\ ~StillUsed
    /\ CompTarget \notin {NoRunner, comp.runner}
    /\ ref' = [ref EXCEPT ![comp.runner] = Unloaded(@), ![CompTarget] = Unloaded(@)]
    /\ srv' = Close(CompTarget)
    /\ comp' = IdleComp
    /\ UNCHANGED <<req, spawned, loaded, activeLoading, channels, pend, unl, life, stale>>

CompOrphan ==
    /\ CompExpiredAt /\ ~StillUsed
    /\ CompTarget \notin {NoRunner, comp.runner}
    /\ ref' = [ref EXCEPT ![comp.runner] = Unloaded(@)]
    /\ srv' = Close(comp.runner)
    /\ comp' = IdleComp
    /\ UNCHANGED <<req, spawned, loaded, activeLoading, channels, pend, unl, life, stale>>

(* refMu stays held while the GPU memory recovers *)
CompUnload ==
    /\ CompExpiredAt /\ ~StillUsed /\ CompTarget = comp.runner
    /\ ref' = [ref EXCEPT ![comp.runner] = [Unloaded(@) EXCEPT !.mu = "comp"]]
    /\ srv' = Close(comp.runner)
    /\ loaded' = [loaded EXCEPT ![srv[comp.runner].path] = NoRunner]
    /\ comp' = [comp EXCEPT !.pc = "vram"]
    /\ UNCHANGED <<req, spawned, activeLoading, channels, pend, unl, life, stale>>

(* waitForVRAMRecovery says so, at the latest after its timeout *)
CompRecovered ==
    /\ CompAt("vram")
    /\ ref' = [ref EXCEPT ![comp.runner].mu = "free"]
    /\ comp' = [comp EXCEPT !.pc = "unloaded"]
    /\ UNCHANGED <<req, maps, channels, pend, unl, life, stale>>

CompSendUnloadedForgotten ==    \* slip: nobody hears of the unload
    /\ CompAt("unloaded")
    /\ comp' = IdleComp
    /\ UNCHANGED <<req, ref, maps, channels, pend, unl, life, stale>>

CompSendUnloaded ==
    /\ CompAt("unloaded") /\ unloadedCh < MaxQueue
    /\ unloadedCh' = unloadedCh + 1
    /\ comp' = IdleComp
    /\ UNCHANGED <<req, ref, maps, pendingCh, finishedCh, expiredCh, pend, unl, life, stale>>

CompExit ==
    /\ CompAt("idle") /\ Stopping
    /\ comp' = [IdleComp EXCEPT !.pc = "exit"]
    /\ UNCHANGED <<req, ref, maps, channels, pend, unl, life, stale>>

Completed ==
    \/ CompFinished \/ CompRelease \/ CompSend \/ CompTakeExpired
    \/ CompBusy \/ CompDuplicate \/ CompOrphan \/ CompUnload
    \/ CompRecovered \/ CompSendUnloaded \/ CompExit

-----------------------------------------------------------------------------
(* expireRunner, called by a handler for an explicit unload or a delete *)

ExpireRunner(m) ==
    /\ Alive /\ unl.pc = "idle" /\ unl.left > 0 /\ loaded[m] # NoRunner
    /\ unl' = [pc |-> "expire", runner |-> loaded[m], left |-> unl.left - 1]
    /\ UNCHANGED <<req, ref, maps, channels, pend, comp, life, stale>>

ExpireRunnerLock ==
    /\ Alive /\ unl.pc = "expire"
    /\ ExpireNow(unl.runner, "unl")
    /\ unl' = IF ref[unl.runner].refCount = 0 THEN [unl EXCEPT !.pc = "send"]
              ELSE [unl EXCEPT !.pc = "idle", !.runner = NoRunner]
    /\ UNCHANGED <<req, maps, channels, pend, comp, life, stale>>

ExpireRunnerSend ==
    /\ Alive /\ unl.pc = "send"
    /\ SendExpired(unl.runner)
    /\ ref' = [ref EXCEPT ![unl.runner].mu = "free"]
    /\ unl' = [unl EXCEPT !.pc = "idle", !.runner = NoRunner]
    /\ UNCHANGED <<req, maps, pendingCh, finishedCh, unloadedCh, pend, comp, life, stale>>

Unloading == (\E m \in Model : ExpireRunner(m)) \/ ExpireRunnerLock \/ ExpireRunnerSend

-----------------------------------------------------------------------------
(* Shutdown: the signal handler in Serve *)

(* srvr.Close() and schedDone() *)
Shutdown ==
    /\ MayStop /\ life = "up"
    /\ life' = "stopping"
    /\ UNCHANGED <<req, ref, maps, channels, pend, comp, unl, stale>>

UnloadAllRunners ==
    /\ life = "stopping"
    /\ life' = "unloaded"
    /\ srv' = [r \in Runner |-> IF r = activeLoading \/ r \in LoadedRunners
                                THEN [srv[r] EXCEPT !.state = "closed"] ELSE srv[r]]
    /\ activeLoading' = NoRunner
    /\ UNCHANGED <<req, ref, spawned, loaded, channels, pend, comp, unl, stale>>

(* done(): Serve returns, and with it main *)
Exit ==
    /\ life = "unloaded"
    /\ life' = "exited"
    /\ UNCHANGED <<req, ref, maps, channels, pend, comp, unl, stale>>

Stop == Shutdown \/ UnloadAllRunners \/ Exit

(* Nothing moves any more: the process is gone, or every goroutine waits   *)
(* in a select for an event that has not come, with no mutex held and no   *)
(* timer callback under way.  What keeps a goroutine waiting on a mutex or *)
(* on a full channel is not covered by this: it is a deadlock.             *)
Resting ==
    /\ \/ ~Alive
       \/ /\ \A q \in Req : req[q].pc = "waiting" /\ ~req[q].watched
          /\ \A r \in Runner : ref[r].mu = "free" /\ ref[r].fired = 0 /\ ref[r].again = 0
          /\ pend.pc = "wait" \/ (pend.pc = "idle" /\ pendingCh = <<>>)
          /\ comp.pc = "idle" /\ finishedCh = <<>> /\ expiredCh = <<>> /\ unloadedCh = 0
          /\ unl.pc = "idle"
    /\ UNCHANGED vars

Next ==
    \/ \E q \in Req : Client(q)
    \/ Pending
    \/ \E r \in Runner : RunnerStep(r)
    \/ Completed
    \/ Unloading
    \/ Stop
    \/ Resting

Spec == Init /\ [][Next]_vars

(* Goroutines that can run do run, a client that got its runner finishes   *)
(* with it, a subprocess that was started reports sooner or later, timers  *)
(* run out, and channels and mutexes are handed on.  A mutex changes hands *)
(* only finitely often here, so weak fairness is enough for its waiters;   *)
(* the select of processCompleted chooses at random among what is ready,   *)
(* so expired events that come back every 10 ms cannot hide a finished     *)
(* request for ever: that is strong fairness.                              *)
Fairness ==
    /\ \A q \in Req :
        /\ WF_vars(GetRunner(q) \/ GetRunnerCheck(q) \/ GetRunnerUse(q) \/ GetRunnerEnqueue(q))
        /\ WF_vars(req[q].reply \in Runner /\ ContextDone(q))
        /\ WF_vars(Finished(q))
    /\ \A r \in Runner :
        /\ WF_vars(LoaderReady(r) \/ LoaderFails(r) \/ LoaderSend(r))
        /\ WF_vars(TimerFires(r))
        /\ WF_vars(TimerLocks(r) \/ TimerSend(r))
        /\ WF_vars(Requeue(r))
    /\ WF_vars(Pending)
    /\ WF_vars(Completed)
    /\ SF_vars(CompFinished)
    /\ WF_vars(ExpireRunnerLock \/ ExpireRunnerSend)

FairSpec == Spec /\ Fairness

-----------------------------------------------------------------------------
(* Properties *)

RefOrNone == Runner \cup {NoRunner}
ReqOrNone == Req \cup {NoReq}

RequestType ==
    [pc : {"new", "check", "use", "enqueue", "waiting"}, call : CallType, runner : RefOrNone,
     reply : RefOrNone \cup {Failed}, answers : Nat, done : BOOLEAN, watched : BOOLEAN]
RefType ==
    [req : ReqOrNone, live : BOOLEAN, refCount : 0..(UintMod - 1), dur : Duration,
     timer : {"nil", "armed", "spent"}, mu : {"free", "loader", "timer", "pend", "comp", "unl"},
     load : {"none", "wait", "send"}, fired : Nat, again : Nat]
PendType ==
    [pc : {"idle", "look", "check", "use", "fit", "free", "spawn", "load", "find", "scan",
           "expire", "send", "wait", "exit"},
     req : ReqOrNone, runner : RefOrNone, full : BOOLEAN, list : Seq(Runner), at : Nat]

ReqOK == req \in [Req -> RequestType] /\ stale \subseteq Req
RefOK == ref \in [Runner -> RefType]
MapsOK ==
    /\ srv \in [Runner -> [state : {"none", "open", "closed"}, path : Model \cup {0}]]
    /\ spawned \in 0..MaxRefs
    /\ loaded \in [Model -> RefOrNone]
    /\ activeLoading \in RefOrNone
ChannelsOK ==
    /\ pendingCh \in Seq(Req) /\ Len(pendingCh) <= MaxQueue
    /\ finishedCh \in Seq(Req) /\ Len(finishedCh) <= MaxQueue
    /\ expiredCh \in Seq(Runner) /\ Len(expiredCh) <= MaxQueue
    /\ unloadedCh \in 0..MaxQueue
PendOK ==
    /\ pend \in PendType
    /\ pend.pc \notin {"idle", "exit"} => pend.req \in Req
    /\ pend.pc \in {"check", "use", "load", "expire", "send"} => pend.runner \in Runner
    /\ pend.at >= 1
    /\ pend.pc = "scan" => pend.at <= Len(pend.list)
CompOK ==
    /\ comp \in [pc : {"idle", "release", "send", "expired", "vram", "unloaded", "exit"},
                 runner : RefOrNone]
    /\ comp.pc \notin {"idle", "exit"} => comp.runner \in Runner
UnlOK ==
    /\ unl \in [pc : {"idle", "expire", "send"}, runner : RefOrNone, left : 0..MaxUnloads]
    /\ unl.pc # "idle" => unl.runner \in Runner

(* The state of the scheduler stays within its types: channels never hold  *)
(* more than their capacity, reference counts stay machine words, and a    *)
(* goroutine that works on a runner or on a request has one.               *)
TypeOK ==
    /\ ReqOK /\ RefOK /\ MapsOK /\ ChannelsOK /\ PendOK /\ CompOK /\ UnlOK
    /\ \A q \in Req : req[q].pc \in {"check", "use"} => req[q].runner \in Runner
    /\ \A r \in Runner : ref[r].load # "none" => ref[r].req \in Req
    /\ life \in {"up", "stopping", "unloaded", "exited", "panicked"}

(* load: "model was still loaded" never happens.  A runner is only ever    *)
(* installed for a model that has none, although needsReload, eviction,    *)
(* expiry and the loader all work on the same map without a common lock.   *)
NoOverwrite ==
    [][\A m \in Model : loaded[m] # NoRunner => loaded'[m] \in {NoRunner, loaded[m]}]_vars

(* A request is answered at most once, on one of its two channels: they    *)
(* have room for one message, and a second one would block the goroutine   *)
(* that sends it for ever.                                                 *)
AnsweredOnce == \A q \in Req : req[q].answers <= 1

(* Until the shutdown, the map of loaded runners holds only runners for    *)
(* their own model whose subprocess is up and whose options are set: the   *)
(* expiry of an orphan never takes the runner down that replaced it.       *)
LoadedIsUp ==
    ~Stopping => \A m \in Model : loaded[m] # NoRunner =>
        /\ srv[loaded[m]] = [state |-> "open", path |-> m]
        /\ ref[loaded[m]].live

(* Until the shutdown, a subprocess that is up can be reached from loaded  *)
(* or from activeLoading: none is leaked by a failed load, by an eviction  *)
(* or by a client that goes away while its model is loaded.                *)
NoLeak ==
    ~Stopping => \A r \in Runner : srv[r].state = "open" => r = activeLoading \/ r \in LoadedRunners

(* OLLAMA_MAX_LOADED_MODELS is respected, although the count is taken long *)
(* before the new runner is installed, with loadedMu released in between.  *)
WithinMaxRunners == LoadedCount <= MaxRunners

(* The requests whose reference to a runner processCompleted has not yet   *)
(* taken back                                                              *)
Holders(r) ==
    {q \in Req : /\ req[q].reply = r
                 /\ req[q].watched \/ \E i \in DOMAIN finishedCh : finishedCh[i] = q}
Releasing(r) == IF comp.pc = "release" /\ comp.runner = r THEN 1 ELSE 0

(* As long as no request was given a runner that was unloaded behind its   *)
(* back, the reference count of every runner is the number of requests     *)
(* that hold it; the finished event, which is looked up by model path and  *)
(* not by runner, is always charged to the right runner.                   *)
RefCountExact ==
    stale = {} => \A r \in Runner : ref[r].refCount = Cardinality(Holders(r)) + Releasing(r)

(* As long as no request was given an unloaded runner, no runner is        *)
(* unloaded under a request that still uses it.                            *)
InUseIsUp ==
    stale = {} /\ ~Stopping =>
        \A q \in Req : req[q].reply \in Runner /\ req[q].watched => srv[req[q].reply].state = "open"

(* The keep-alive bookkeeping forgets no runner: one that is loaded and    *)
(* idle has a timer running, or an expired event for it is on its way.     *)
IdleWillExpire ==
    stale = {} => \A r \in LoadedRunners : ref[r].refCount = 0 =>
        \/ ref[r].timer = "armed"
        \/ ref[r].fired > 0 \/ ref[r].again > 0
        \/ ref[r].mu # "free"
        \/ \E i \in DOMAIN expiredCh : expiredCh[i] = r
        \/ comp.pc = "expired" /\ comp.runner = r

(* A runner whose timer runs is idle: whoever takes the runner into use    *)
(* stops its timer first.                                                  *)
TimerMeansIdle == stale = {} => \A r \in Runner : ref[r].timer # "nil" => ref[r].refCount = 0

(* Without a model file that vanishes and without a shutdown, the server   *)
(* left over from a load that needed an eviction is always the one for the *)
(* request that is loaded next, and no goroutine panics.                   *)
NoPanic == ~FileMayVanish /\ ~MayStop => life # "panicked"

(* Every request is answered, unless its client goes away first.  (A       *)
(* request that was given an unloaded runner ends the guarantee: see       *)
(* RefCountExact.)                                                         *)
EventuallyAnswered ==
    \A q \in Req :
        req[q].pc # "new" ~> req[q].reply # NoReply \/ req[q].done \/ stale # {}

(* With finite keep-alives and clients that finish, all runners go again.  *)
EventuallyUnloaded == <>[](LoadedRunners = {} \/ stale # {})

-----------------------------------------------------------------------------
(* What comments, documents and assertions of the repository say, and the  *)
(* code does not keep.  The runs that check these expect a violation.      *)

(* runnerRef: "refCount uint // prevent unloading if > 0".  GetRunner and  *)
(* processPending release refMu between needsReload and useLoadedRunner;   *)
(* an expired event that gets in between unloads the runner, which is then *)
(* counted up and given to the request.                                    *)
RefCountPreventsUnload ==
    ~Stopping => \A r \in Runner : ref[r].refCount > 0 => srv[r].state # "closed"

(* docs/faq.mdx: "As prior models become idle, one or more will be         *)
(* unloaded to make room for the new model."  A request that takes the     *)
(* runner chosen for eviction into use replaces its session duration, so   *)
(* with a negative keep_alive the runner is never unloaded, and the        *)
(* pending request and all requests behind it wait for ever.               *)
RoomIsMade == \A q \in Req : req[q].pc # "new" ~> req[q].reply # NoReply \/ stale # {}

(* load asserts that a server left over from an eviction is for the model  *)
(* it is asked to load.  When llm.LoadModel fails after the eviction, the  *)
(* request is dropped but activeLoading stays.                             *)
SameModelAfterEviction ==
    pend.pc = "spawn" /\ activeLoading # NoRunner => srv[activeLoading].path = PModel

(* docs/faq.mdx: "If too many requests are sent to the server, it will     *)
(* respond with a 503 error".  OLLAMA_MAX_QUEUE is also the capacity of    *)
(* expiredCh.  processCompleted, the only receiver of that channel, sends  *)
(* to it: when it is full, processCompleted waits for itself for ever, no  *)
(* runner is released or unloaded any more, and requests are neither       *)
(* served nor refused.                                                     *)
CompletedNotStuck == ~(comp.pc = "send" /\ Len(expiredCh) = MaxQueue)

=============================================================================
