---------------------------- MODULE SchedProofs ----------------------------
(***************************************************************************)
(* Theorems about the scheduler, for any number of requests, models and    *)
(* runners.                                                                *)
(***************************************************************************)
EXTENDS Sched, TLAPS, FiniteSetTheorems

-----------------------------------------------------------------------------
(* Lemmas about the operators of the model *)

(* Reference counts stay machine words. *)
LEMMA ModRange == ASSUME NEW n \in Nat PROVE n % UintMod \in 0..(UintMod - 1)
BY BoundAssumption

LEMMA DecRange == ASSUME NEW n \in 0..(UintMod - 1) PROVE Dec(n) \in 0..(UintMod - 1)
<1>1. n + UintMod - 1 \in Nat
  BY BoundAssumption
<1> QED BY <1>1, ModRange DEF Dec

(* The loaded runners are finitely many, so an order to visit them in is a *)
(* sequence.                                                               *)
LEMMA OrdersSeq ==
    ASSUME NEW S \in SUBSET Runner, NEW s \in Orders(S)
    PROVE  s \in Seq(Runner)
<1>1. IsFiniteSet(Runner)
  BY FS_Interval, BoundAssumption DEF Runner
<1>2. Cardinality(S) \in Nat
  BY <1>1, FS_Subset, FS_CardinalityType
<1> QED BY <1>2 DEF Orders

(* A channel that has room stays within its capacity. *)
LEMMA AppendOK ==
    ASSUME NEW S, NEW s \in Seq(S), NEW e \in S, Len(s) < MaxQueue
    PROVE  Append(s, e) \in Seq(S) /\ Len(Append(s, e)) <= MaxQueue
BY BoundAssumption

LEMMA TailOK ==
    ASSUME NEW S, NEW s \in Seq(S), s # <<>>, Len(s) <= MaxQueue
    PROVE  Head(s) \in S /\ Tail(s) \in Seq(S) /\ Len(Tail(s)) <= MaxQueue
BY BoundAssumption

(* The updates of a runnerRef keep its type. *)
LEMMA RefUpdates ==
    ASSUME NEW x \in RefType, NEW keep \in Duration \cup {Unset}, NEW owner \in {"pend", "unl"}
    PROVE  /\ InUse(x, keep) \in RefType
           /\ ToExpire(x, owner) \in RefType
           /\ Unloaded(x) \in RefType
           /\ Released(x) \in RefType
<1>1. (x.refCount + 1) % UintMod \in 0..(UintMod - 1)
  BY ModRange DEF RefType
<1>2. Dec(x.refCount) \in 0..(UintMod - 1)
  BY DecRange DEF RefType
<1>3. InUse(x, keep) \in RefType
  BY <1>1 DEF InUse, RefType
<1>4. ToExpire(x, owner) \in RefType
  <2>1. Zero \in Duration
    BY DEF Duration, Zero, Forever
  <2>2. (IF x.refCount = 0 THEN owner ELSE "free") \in {"free", "pend", "unl"}
    OBVIOUS
  <2> DEFINE mu == IF x.refCount = 0 THEN owner ELSE "free"
  <2>3. ToExpire(x, owner) = [x EXCEPT !.timer = "nil", !.dur = Zero, !.mu = mu]
    BY DEF ToExpire
  <2> HIDE DEF mu
  <2>4. mu \in {"free", "pend", "unl"}
    BY <2>2 DEF mu
  <2> QED BY <2>1, <2>3, <2>4 DEF RefType
<1>5. Unloaded(x) \in RefType
  BY DEF Unloaded, RefType
<1>6. Released(x) \in RefType
  BY <1>2 DEF Released, RefType
<1> QED BY <1>3, <1>4, <1>5, <1>6

(* Answering a request keeps its type. *)
LEMMA AnsweredType ==
    ASSUME NEW x \in RequestType, NEW v \in RefOrNone \cup {Failed}
    PROVE  Answered(x, v) \in RequestType
<1>1. x.answers + 1 \in Nat
  BY DEF RequestType
<1> QED BY <1>1 DEF Answered, RequestType

LEMMA ReqUpdates ==
    ASSUME ReqOK, NEW q \in Req, NEW r \in Runner
    PROVE  /\ Refuse(q) \in [Req -> RequestType]
           /\ Grant(q, r) \in [Req -> RequestType]
           /\ \A p \in Req : /\ Refuse(q)[p].pc = req[p].pc
                             /\ Refuse(q)[p].runner = req[p].runner
                             /\ Grant(q, r)[p].pc \in {req[p].pc, "waiting"}
                             /\ Grant(q, r)[p].runner = req[p].runner
<1>1. \A x \in RequestType : Answered(x, Failed) \in RequestType /\ Answered(x, r) \in RequestType
  BY AnsweredType DEF RefOrNone
<1>2. \A x \in RequestType : [Answered(x, r) EXCEPT !.pc = "waiting", !.watched = TRUE] \in RequestType
  BY <1>1 DEF RequestType
<1>3. Refuse(q) \in [Req -> RequestType]
  BY <1>1 DEF Refuse, ReqOK
<1>4. Grant(q, r) \in [Req -> RequestType]
  BY <1>2 DEF Grant, ReqOK
<1>5. \A x \in RequestType : /\ Answered(x, Failed).pc = x.pc
                             /\ Answered(x, Failed).runner = x.runner
                             /\ [Answered(x, r) EXCEPT !.pc = "waiting", !.watched = TRUE].pc = "waiting"
                             /\ [Answered(x, r) EXCEPT !.pc = "waiting", !.watched = TRUE].runner = x.runner
  BY DEF Answered, RequestType
<1>6. \A p \in Req : req[p] \in RequestType
  BY DEF ReqOK
<1>7. \A p \in Req : Refuse(q)[p] = IF p = q THEN Answered(req[p], Failed) ELSE req[p]
  BY DEF Refuse, ReqOK
<1>8. \A p \in Req : Grant(q, r)[p] =
        IF p = q THEN [Answered(req[p], r) EXCEPT !.pc = "waiting", !.watched = TRUE] ELSE req[p]
  BY DEF Grant, ReqOK
<1>9. \A p \in Req : Refuse(q)[p].pc = req[p].pc /\ Refuse(q)[p].runner = req[p].runner
  BY <1>5, <1>6, <1>7
<1>10. \A p \in Req : Grant(q, r)[p].pc \in {req[p].pc, "waiting"} /\ Grant(q, r)[p].runner = req[p].runner
  <2> SUFFICES ASSUME NEW p \in Req
               PROVE  Grant(q, r)[p].pc \in {req[p].pc, "waiting"} /\ Grant(q, r)[p].runner = req[p].runner
    OBVIOUS
  <2>1. CASE p = q
    <3>1. Grant(q, r)[p] = [Answered(req[p], r) EXCEPT !.pc = "waiting", !.watched = TRUE]
      BY <1>8, <2>1
    <3> QED BY <3>1, <1>5, <1>6
  <2>2. CASE p # q
    BY <1>8, <2>2
  <2> QED BY <2>1, <2>2
<1> QED BY <1>3, <1>4, <1>9, <1>10

-----------------------------------------------------------------------------
(* Type correctness *)

LEMMA InitT == Init => TypeOK
<1> SUFFICES ASSUME Init PROVE TypeOK
  OBVIOUS
<1>1. \A q \in Req : NewRequest(q) \in RequestType
  BY CallsAssumption DEF NewRequest, AnyCall, RequestType, NoRunner, NoReply, RefOrNone
<1>2. BlankRef \in RefType
  BY BoundAssumption DEF BlankRef, RefType, ReqOrNone, Duration, Zero, Forever
<1>3. IdlePend \in PendType
  BY DEF IdlePend, PendType, ReqOrNone, RefOrNone
<1>4. ReqOK /\ RefOK
  BY <1>1, <1>2 DEF Init, ReqOK, RefOK
<1>5. MapsOK /\ ChannelsOK
  BY BoundAssumption DEF Init, MapsOK, ChannelsOK, RefOrNone
<1>6. PendOK
  BY <1>3 DEF Init, PendOK, IdlePend
<1>7. CompOK /\ UnlOK
  BY BoundAssumption DEF Init, CompOK, UnlOK, RefOrNone
<1> QED BY <1>4, <1>5, <1>6, <1>7 DEF TypeOK, Init, NewRequest, BlankRef

(* What a step that gives runner r to request q establishes *)
UseOK(q, r) ==
    /\ ReqOK' /\ RefOK'
    /\ \A p \in Req : req'[p].pc \in {"check", "use"} => req'[p].runner \in Runner
    /\ \A x \in Runner : ref'[x].load # "none" => ref'[x].req \in Req

LEMMA UseT == ASSUME TypeOK, NEW q \in Req, NEW r \in Runner, UseLoadedRunner(q, r) PROVE UseOK(q, r)
<1>1. req' = Grant(q, r) /\ stale' \subseteq Req
  BY DEF UseLoadedRunner, TypeOK, ReqOK
<1>2. ReqOK' /\ \A p \in Req : req'[p].pc \in {"check", "use"} => req'[p].runner \in Runner
  BY <1>1, ReqUpdates DEF TypeOK, ReqOK
<1>3. InUse(ref[r], req[q].call.keep) \in RefType
  BY RefUpdates DEF TypeOK, ReqOK, RefOK, RequestType, CallType
<1>4. RefOK'
  BY <1>3 DEF UseLoadedRunner, TypeOK, RefOK
<1>5. InUse(ref[r], req[q].call.keep).load = ref[r].load /\ InUse(ref[r], req[q].call.keep).req = ref[r].req
  BY DEF InUse, TypeOK, RefOK, RefType
<1>6. \A x \in Runner : ref'[x].load # "none" => ref'[x].req \in Req
  BY <1>5 DEF UseLoadedRunner, TypeOK, RefOK
<1> QED BY <1>2, <1>4, <1>6 DEF UseOK

(* What a step that answers request q with an error establishes *)
RefusedOK(q) ==
    /\ ReqOK'
    /\ \A p \in Req : req'[p].pc \in {"check", "use"} => req'[p].runner \in Runner

LEMMA RefuseT ==
    ASSUME TypeOK, NEW q \in Req, req' = Refuse(q), UNCHANGED stale
    PROVE  RefusedOK(q)
<1>1. ASSUME NEW x \in RequestType
      PROVE  /\ Answered(x, Failed) \in RequestType
             /\ Answered(x, Failed).pc = x.pc /\ Answered(x, Failed).runner = x.runner
  BY AnsweredType DEF Answered, RequestType
<1>2. \A p \in Req : req[p] \in RequestType /\ req'[p] \in {req[p], Answered(req[p], Failed)}
  BY DEF Refuse, TypeOK, ReqOK
<1>3. req' \in [Req -> RequestType]
  BY <1>1, <1>2 DEF Refuse, TypeOK, ReqOK
<1>4. \A p \in Req : req'[p].pc = req[p].pc /\ req'[p].runner = req[p].runner
  BY <1>1, <1>2
<1> QED BY <1>3, <1>4 DEF RefusedOK, TypeOK, ReqOK

LEMMA ClientT == ASSUME TypeOK, NEW q \in Req, Client(q) PROVE TypeOK'
<1>req. ReqOK
  BY DEF TypeOK
<1>chan. ChannelsOK /\ MaxQueue \in Nat
  BY BoundAssumption DEF TypeOK
<1>pc. \A p \in Req : req[p].pc \in {"check", "use"} => req[p].runner \in Runner
  BY DEF TypeOK
<1>1. CASE GetRunner(q)
  <2>1. PICK c \in Calls[q] :
          req' = [req EXCEPT ![q] =
                   [@ EXCEPT !.call = c, !.runner = loaded[c.model],
                             !.pc = IF loaded[c.model] = NoRunner THEN "enqueue" ELSE "check"]]
    BY <1>1 DEF GetRunner
  <2>2. c \in CallType /\ loaded[c.model] \in RefOrNone
    BY CallsAssumption DEF TypeOK, MapsOK, CallType
  <2>3. ReqOK'
    <3>1. [req[q] EXCEPT !.call = c, !.runner = loaded[c.model],
                         !.pc = IF loaded[c.model] = NoRunner THEN "enqueue" ELSE "check"] \in RequestType
      BY <1>req, <2>2 DEF ReqOK, RequestType
    <3> QED BY <1>req, <1>1, <2>1, <3>1 DEF GetRunner, ReqOK
  <2>4. \A p \in Req : req'[p].pc \in {"check", "use"} => req'[p].runner \in Runner
    BY <1>req, <1>pc, <2>1, <2>2 DEF ReqOK, RequestType, RefOrNone
  <2>5. UNCHANGED <<ref, maps, channels, pend, comp, unl, life, stale>>
    BY <1>1 DEF GetRunner
  <2> QED BY <2>3, <2>4, <2>5 DEF TypeOK, RefOK, MapsOK, ChannelsOK, PendOK, CompOK, UnlOK, maps, channels
<1>2. CASE GetRunnerCheck(q)
  <2>1. PICK pc \in {"enqueue", "use"} : req' = [req EXCEPT ![q].pc = pc]
    BY <1>2 DEF GetRunnerCheck
  <2>2. ReqOK'
    BY <1>req, <1>2, <2>1 DEF GetRunnerCheck, ReqOK, RequestType
  <2>3. \A p \in Req : req'[p].pc \in {"check", "use"} => req'[p].runner \in Runner
    BY <1>req, <1>pc, <1>2, <2>1 DEF GetRunnerCheck, ClientAt, ReqOK, RequestType
  <2>4. UNCHANGED <<ref, maps, channels, pend, comp, unl, life, stale>>
    BY <1>2 DEF GetRunnerCheck
  <2> QED BY <2>2, <2>3, <2>4 DEF TypeOK, RefOK, MapsOK, ChannelsOK, PendOK, CompOK, UnlOK, maps, channels
<1>3. CASE GetRunnerUse(q)
  <2>1. req[q].runner \in Runner
    BY <1>pc, <1>3 DEF GetRunnerUse, ClientAt
  <2>2. UseOK(q, req[q].runner)
    BY <1>3, <2>1, UseT DEF GetRunnerUse
  <2>3. UNCHANGED <<maps, channels, pend, comp, unl, life>>
    BY <1>3 DEF GetRunnerUse
  <2> QED BY <2>2, <2>3 DEF TypeOK, UseOK, MapsOK, ChannelsOK, PendOK, CompOK, UnlOK, maps, channels
<1>4. CASE GetRunnerEnqueue(q)
  <2>1. PICK x \in {[req[q] EXCEPT !.pc = "waiting"], [Answered(req[q], Failed) EXCEPT !.pc = "waiting"]} :
          req' = [req EXCEPT ![q] = x]
    BY <1>4 DEF GetRunnerEnqueue
  <2>2. x \in RequestType /\ x.pc = "waiting"
    <3>1. req[q] \in RequestType /\ Answered(req[q], Failed) \in RequestType
      BY <1>req, AnsweredType DEF ReqOK
    <3> QED BY <2>1, <3>1 DEF RequestType
  <2>3. ReqOK'
    BY <1>req, <1>4, <2>1, <2>2 DEF GetRunnerEnqueue, ReqOK
  <2>4. \A p \in Req : req'[p].pc \in {"check", "use"} => req'[p].runner \in Runner
    BY <1>req, <1>pc, <2>1, <2>2 DEF ReqOK
  <2>5. ChannelsOK'
    <3>1. pendingCh' \in {pendingCh, Append(pendingCh, q)} /\ (pendingCh' # pendingCh => Len(pendingCh) < MaxQueue)
      BY <1>4 DEF GetRunnerEnqueue
    <3>2. pendingCh' \in Seq(Req) /\ Len(pendingCh') <= MaxQueue
      BY SMTT(30), <1>chan, <3>1, AppendOK DEF ChannelsOK
    <3> QED BY <1>chan, <1>4, <3>2 DEF GetRunnerEnqueue, ChannelsOK
  <2>6. UNCHANGED <<ref, maps, pend, comp, unl, life>>
    BY <1>4 DEF GetRunnerEnqueue
  <2> QED BY <2>3, <2>4, <2>5, <2>6 DEF TypeOK, RefOK, MapsOK, PendOK, CompOK, UnlOK, maps
<1>5. CASE ContextDone(q)
  <2>1. req' = [req EXCEPT ![q].done = TRUE]
    BY <1>5 DEF ContextDone
  <2>2. ReqOK'
    <3>1. req' \in [Req -> RequestType]
      BY ZenonT(40), <1>req, <2>1 DEF ReqOK, RequestType
    <3> QED BY <1>req, <1>5, <3>1 DEF ContextDone, ReqOK
  <2>3. \A p \in Req : req'[p].pc = req[p].pc /\ req'[p].runner = req[p].runner
    BY <1>req, <2>1 DEF ReqOK, RequestType
  <2>4. UNCHANGED <<ref, maps, channels, pend, comp, unl, life, stale>>
    BY <1>5 DEF ContextDone
  <2> QED BY <2>2, <2>3, <2>4 DEF TypeOK, RefOK, MapsOK, ChannelsOK, PendOK, CompOK, UnlOK, maps, channels
<1>6. CASE Finished(q)
  <2>1. req' = [req EXCEPT ![q].watched = FALSE]
    BY <1>6 DEF Finished
  <2>2. ReqOK'
    <3>1. req' \in [Req -> RequestType]
      BY <1>req, <2>1 DEF ReqOK, RequestType
    <3> QED BY <1>req, <1>6, <3>1 DEF Finished, ReqOK
  <2>3. \A p \in Req : req'[p].pc = req[p].pc /\ req'[p].runner = req[p].runner
    BY <1>req, <2>1 DEF ReqOK, RequestType
  <2>4. ChannelsOK'
    BY <1>chan, <1>6 DEF Finished, ChannelsOK
  <2>5. UNCHANGED <<ref, maps, pend, comp, unl, life>>
    BY <1>6 DEF Finished
  <2> QED BY <2>2, <2>3, <2>4, <2>5 DEF TypeOK, RefOK, MapsOK, PendOK, CompOK, UnlOK, maps
<1> QED BY <1>1, <1>2, <1>3, <1>4, <1>5, <1>6 DEF Client

(* What a step that changes one runner's record, but not its loader,       *)
(* establishes                                                             *)
RefKept ==
    /\ RefOK'
    /\ \A r \in Runner : ref'[r].load # "none" => ref'[r].req \in Req

LEMMA RefKeptT ==
    ASSUME TypeOK, NEW r \in Runner, NEW x \in RefType, ref' = [ref EXCEPT ![r] = x],
           x.req = ref[r].req, x.load \in {ref[r].load, "none"}
    PROVE  RefKept
BY DEF RefKept, TypeOK, RefOK

LEMMA ExpireT ==
    ASSUME TypeOK, NEW r \in Runner, NEW owner \in {"pend", "unl"}, ExpireNow(r, owner)
    PROVE  RefKept
<1>1. ref[r] \in RefType
  BY DEF TypeOK, RefOK
<1>2. ToExpire(ref[r], owner) \in RefType
  BY <1>1, RefUpdates DEF Unset
<1>3. ToExpire(ref[r], owner).req = ref[r].req /\ ToExpire(ref[r], owner).load = ref[r].load
  BY <1>1 DEF ToExpire, RefType
<1> QED BY <1>2, <1>3, RefKeptT DEF ExpireNow

LEMMA FreeT ==
    ASSUME TypeOK, NEW r, ref' = [ref EXCEPT ![r].mu = "free"]
    PROVE  RefKept
<1>ref. RefOK
  BY DEF TypeOK
<1>1. RefOK'
  BY ZenonT(40), <1>ref DEF RefOK, RefType
<1>2. \A x \in Runner : ref'[x].load = ref[x].load /\ ref'[x].req = ref[x].req
  BY <1>ref DEF RefOK, RefType
<1> QED BY <1>1, <1>2 DEF RefKept, TypeOK

(* Steps of processPending that touch nothing but its own locals *)
PendLocal ==
    UNCHANGED <<req, ref, maps, channels, comp, unl, life, stale>>

LEMMA PendLocalT == ASSUME TypeOK, PendLocal, PendOK' PROVE TypeOK'
BY DEF PendLocal, TypeOK, ReqOK, RefOK, MapsOK, ChannelsOK, CompOK, UnlOK, maps, channels

(* Starting and ending a visit of a list of runners *)
LEMMA PendVisit ==
    ASSUME PendOK, pend.req \in Req, NEW s \in Seq(Runner),
           NEW pc \in {"free", "spawn", "scan"}, pc = "scan" => Len(s) >= 1,
           pend' = [pend EXCEPT !.pc = pc, !.list = s, !.at = 1]
    PROVE  PendOK'
<1>1. pend \in PendType /\ 1 \in Nat
  BY DEF PendOK
<1>2. pend' \in PendType
  BY <1>1 DEF PendType
<1>3. pend'.pc = pc /\ pend'.req = pend.req /\ pend'.list = s /\ pend'.at = 1
  BY <1>1 DEF PendType
<1> QED BY <1>2, <1>3 DEF PendOK

LEMMA PendChosen ==
    ASSUME PendOK, pend.req \in Req, NEW c \in Runner,
           pend' = [pend EXCEPT !.pc = "expire", !.runner = c, !.list = <<>>, !.at = 1]
    PROVE  PendOK'
<1>1. pend \in PendType /\ <<>> \in Seq(Runner) /\ 1 \in Nat
  BY DEF PendOK
<1>2. pend' \in PendType
  BY <1>1 DEF PendType, RefOrNone
<1>3. pend'.pc = "expire" /\ pend'.req = pend.req /\ pend'.runner = c /\ pend'.at = 1
  BY <1>1 DEF PendType
<1> QED BY <1>2, <1>3 DEF PendOK

LEMMA PendingT == ASSUME TypeOK, Pending PROVE TypeOK'
<1>req. ReqOK
  BY DEF TypeOK
<1>ref. RefOK
  BY DEF TypeOK
<1>map. MapsOK /\ LoadedRunners \subseteq Runner
  BY DEF TypeOK, MapsOK, LoadedRunners, RefOrNone
<1>chan. ChannelsOK /\ MaxQueue \in Nat
  BY BoundAssumption DEF TypeOK
<1>pend. PendOK
  BY DEF TypeOK
<1>idle. ASSUME pend' = IdlePend PROVE PendOK'
  BY <1>idle DEF PendOK, IdlePend, PendType, ReqOrNone, RefOrNone
<1>1. CASE PendTake
  <2>1. Head(pendingCh) \in Req /\ Tail(pendingCh) \in Seq(Req) /\ Len(Tail(pendingCh)) <= MaxQueue
    BY <1>1, <1>chan, TailOK DEF PendTake, ChannelsOK
  <2>2. PendOK'
    BY <1>1, <1>pend, <2>1 DEF PendTake, PendAt, PendOK, PendType, ReqOrNone
  <2>3. ChannelsOK'
    BY <1>1, <1>chan, <2>1 DEF PendTake, ChannelsOK
  <2>4. UNCHANGED <<req, ref, maps, comp, unl, life, stale>>
    BY <1>1 DEF PendTake
  <2> QED BY <2>2, <2>3, <2>4 DEF TypeOK, ReqOK, RefOK, MapsOK, CompOK, UnlOK, maps
<1>2. CASE PendLook
  <2>1. pend.req \in Req
    BY <1>2, <1>pend DEF PendLook, PendAt, PendOK
  <2>2. loaded[PModel] \in RefOrNone
    BY <2>1, <1>req, <1>map DEF PModel, ReqOK, RequestType, CallType, MapsOK
  <2>3. PICK pc \in {"check", "find", "fit"}, full \in BOOLEAN :
          /\ pend' = [pend EXCEPT !.runner = loaded[PModel], !.full = full, !.pc = pc]
          /\ pc = "check" => loaded[PModel] # NoRunner
    BY <1>2 DEF PendLook
  <2>4. PendOK'
    BY <1>pend, <2>1, <2>2, <2>3 DEF PendOK, PendType, RefOrNone
  <2> QED BY <1>2, <2>4, PendLocalT DEF PendLook, PendLocal
<1>3. CASE PendCheck
  <2>1. PendOK'
    BY <1>3, <1>pend DEF PendCheck, PendAt, PendOK, PendType
  <2> QED BY <1>3, <2>1, PendLocalT DEF PendCheck, PendLocal
<1>4. CASE PendUse
  <2>1. pend.req \in Req /\ pend.runner \in Runner
    BY <1>4, <1>pend DEF PendUse, PendAt, PendOK
  <2>2. UseOK(pend.req, pend.runner)
    BY <1>4, <2>1, UseT DEF PendUse
  <2>3. PendOK'
    BY <1>4, <1>idle DEF PendUse
  <2>4. UNCHANGED <<maps, channels, comp, unl, life>>
    BY <1>4 DEF PendUse
  <2> QED BY <2>2, <2>3, <2>4 DEF UseOK, TypeOK, MapsOK, ChannelsOK, CompOK, UnlOK, maps, channels
<1>5. CASE PendFit
  <2>1. PICK s \in Seq(Runner) : pend' = [pend EXCEPT !.pc = "free", !.list = s, !.at = 1]
    BY <1>5, <1>map, OrdersSeq DEF PendFit
  <2>2. pend.req \in Req
    BY <1>5, <1>pend DEF PendFit, PendAt, PendOK
  <2>3. PendOK'
    BY <1>pend, <2>1, <2>2, PendVisit
  <2> QED BY <1>5, <2>3, PendLocalT DEF PendFit, PendLocal
<1>6. CASE PendFitFails
  <2>1. RefusedOK(pend.req)
    BY <1>6, <1>pend, RefuseT DEF PendFitFails, PendAt, PendOK
  <2> QED BY <1>6, <1>idle, <2>1 DEF PendFitFails, RefusedOK, TypeOK, RefOK, MapsOK, ChannelsOK, CompOK, UnlOK, maps, channels
<1>7. CASE PendFree
  <2>1. pend' \in {[pend EXCEPT !.pc = "spawn", !.list = <<>>, !.at = 1], [pend EXCEPT !.at = @ + 1]}
    BY <1>7 DEF PendFree
  <2>2. pend.pc = "free" /\ pend.req \in Req /\ pend.at + 1 \in Nat /\ pend.at + 1 >= 1
    BY <1>7, <1>pend DEF PendFree, PendAt, PendOK, PendType
  <2>3. PendOK'
    <3>1. CASE pend' = [pend EXCEPT !.pc = "spawn", !.list = <<>>, !.at = 1]
      <4>1. <<>> \in Seq(Runner)
        OBVIOUS
      <4> QED BY <1>pend, <2>2, <3>1, <4>1, PendVisit
    <3>2. CASE pend' = [pend EXCEPT !.at = @ + 1]
      BY <1>pend, <2>2, <3>2 DEF PendOK, PendType
    <3> QED BY <2>1, <3>1, <3>2
  <2> QED BY <1>7, <2>3, PendLocalT DEF PendFree, PendLocal
<1>8. CASE PendSpawn
  <2>1. spawned + 1 \in Runner /\ spawned + 1 \in 0..MaxRefs
    BY <1>8, <1>map, BoundAssumption DEF PendSpawn, MapsOK, Runner
  <2>2. pend.req \in Req
    BY <1>8, <1>pend DEF PendSpawn, PendAt, PendOK
  <2>3. PModel \in Model
    BY <2>2, <1>req DEF PModel, ReqOK, RequestType, CallType
  <2>4. MapsOK'
    BY <1>8, <1>map, <2>1, <2>3 DEF PendSpawn, MapsOK, RefOrNone
  <2>5. pend' = [pend EXCEPT !.pc = "load", !.runner = spawned + 1]
    BY <1>8 DEF PendSpawn
  <2>6. PendOK'
    BY <1>pend, <2>1, <2>2, <2>5 DEF PendOK, PendType, RefOrNone
  <2> QED BY <1>8, <2>4, <2>6 DEF PendSpawn, TypeOK, ReqOK, RefOK, ChannelsOK, CompOK, UnlOK, channels
<1>9. CASE PendSpawnFails
  <2>1. RefusedOK(pend.req)
    BY <1>9, <1>pend, RefuseT DEF PendSpawnFails, PendAt, PendOK
  <2> QED BY <1>9, <1>idle, <2>1 DEF PendSpawnFails, RefusedOK, TypeOK, RefOK, MapsOK, ChannelsOK, CompOK, UnlOK, maps, channels
<1>10. CASE PendSpawnAgain
  <2>1. pend.req \in Req /\ activeLoading \in Runner
    BY <1>10, <1>pend, <1>map DEF PendSpawnAgain, PendAt, PendOK, MapsOK, RefOrNone
  <2>2. pend' \in {pend, [pend EXCEPT !.pc = "load", !.runner = activeLoading]}
    BY <1>10 DEF PendSpawnAgain
  <2>3. PendOK'
    BY <1>pend, <2>1, <2>2 DEF PendOK, PendType, RefOrNone
  <2>4. life' \in {life, "panicked"}
    BY <1>10 DEF PendSpawnAgain
  <2> QED BY <1>10, <2>3, <2>4 DEF PendSpawnAgain, TypeOK, ReqOK, RefOK, MapsOK, ChannelsOK, CompOK, UnlOK, maps, channels
<1>11. CASE PendLoaded
  <2> DEFINE r == pend.runner
             old == loaded[PModel]
             keep == req[pend.req].call.keep
             new == [BlankRef EXCEPT !.req = pend.req, !.live = TRUE, !.mu = "loader", !.load = "wait",
                                     !.dur = IF keep = Unset THEN DefaultKeep ELSE keep]
  <2>1. pend.req \in Req /\ r \in Runner
    BY <1>11, <1>pend DEF PendLoaded, PendAt, PendOK
  <2>2. keep \in Duration \cup {Unset} /\ PModel \in Model
    BY <2>1, <1>req DEF PModel, ReqOK, RequestType, CallType
  <2>3. new \in RefType /\ new.req \in Req
    <3>1. (IF keep = Unset THEN DefaultKeep ELSE keep) \in Duration
      BY <2>2, EnvAssumption
    <3>2. BlankRef \in RefType
      BY BoundAssumption DEF BlankRef, RefType, ReqOrNone, Duration, Zero, Forever
    <3> HIDE DEF keep
    <3> QED BY <3>1, <3>2, <2>1 DEF RefType, ReqOrNone
  <2>4. \A x \in Runner : /\ Unloaded(ref[x]) \in RefType
                          /\ Unloaded(ref[x]).load = ref[x].load
                          /\ Unloaded(ref[x]).req = ref[x].req
    <3>1. \A y \in RefType : Unloaded(y) \in RefType /\ Unloaded(y).load = y.load /\ Unloaded(y).req = y.req
      BY DEF Unloaded, RefType
    <3> QED BY <3>1, <1>ref DEF RefOK
  <2> HIDE DEF new
  <2>5. ref' = [x \in Runner |-> IF x = r THEN new ELSE IF x = old THEN Unloaded(ref[x]) ELSE ref[x]]
    BY <1>11 DEF PendLoaded, new
  <2>6. RefOK'
    BY <2>3, <2>4, <2>5, <1>ref DEF RefOK
  <2>7. \A x \in Runner : ref'[x].load # "none" => ref'[x].req \in Req
    BY <2>3, <2>4, <2>5 DEF TypeOK
  <2>8. srv' = [x \in Runner |-> IF x = old THEN [srv[x] EXCEPT !.state = "closed"] ELSE srv[x]]
    BY <1>11 DEF PendLoaded
  <2>9. loaded' = [loaded EXCEPT ![PModel] = r] /\ activeLoading' = NoRunner /\ spawned' = spawned
    BY <1>11 DEF PendLoaded
  <2>10. MapsOK'
    BY <1>map, <2>1, <2>8, <2>9 DEF MapsOK, RefOrNone
  <2> QED BY <1>11, <1>idle, <2>6, <2>7, <2>10 DEF PendLoaded, TypeOK, ReqOK, ChannelsOK, CompOK, UnlOK, channels
<1>12. CASE PendNeedEvict
  <2>1. PendOK'
    BY <1>12, <1>pend DEF PendNeedEvict, PendAt, PendOK, PendType
  <2> QED BY <1>12, <2>1, PendLocalT DEF PendNeedEvict, PendLocal
<1>13. CASE PendLoadFails
  <2>1. pend.req \in Req
    BY <1>13, <1>pend DEF PendLoadFails, PendAt, PendOK
  <2>2. \/ life' = "panicked" /\ UNCHANGED <<req, srv, activeLoading, pend>>
        \/ /\ activeLoading # NoRunner
           /\ srv' = [srv EXCEPT ![activeLoading].state = "closed"]
           /\ activeLoading' = NoRunner
           /\ req' = Refuse(pend.req)
           /\ pend' = IdlePend
           /\ UNCHANGED life
    BY <1>13 DEF PendLoadFails
  <2>3. UNCHANGED <<ref, spawned, loaded, channels, comp, unl, stale>>
    BY <1>13 DEF PendLoadFails
  <2>4. CASE life' = "panicked" /\ UNCHANGED <<req, srv, activeLoading, pend>>
    BY <2>3, <2>4 DEF TypeOK, ReqOK, RefOK, MapsOK, ChannelsOK, PendOK, CompOK, UnlOK, channels
  <2>5. CASE /\ srv' = [srv EXCEPT ![activeLoading].state = "closed"]
             /\ activeLoading' = NoRunner
             /\ req' = Refuse(pend.req)
             /\ pend' = IdlePend
             /\ UNCHANGED life
    <3>1. RefusedOK(pend.req)
      BY <2>1, <2>3, <2>5, RefuseT
    <3>2. MapsOK'
      BY <1>map, <2>3, <2>5 DEF MapsOK, RefOrNone
    <3> QED BY <1>idle, <2>3, <2>5, <3>1, <3>2 DEF RefusedOK, TypeOK, RefOK, ChannelsOK, CompOK, UnlOK, channels
  <2> QED BY <2>2, <2>4, <2>5
<1>14. CASE PendFind
  <2>1. pend.pc = "find" /\ pend.req \in Req
    BY <1>14, <1>pend DEF PendFind, PendAt, PendOK
  <2>2. PICK s \in Seq(Runner) :
          pend' = IF s = <<>> THEN [pend EXCEPT !.pc = "look"]
                  ELSE [pend EXCEPT !.pc = "scan", !.list = s, !.at = 1]
    BY <1>14, <1>map, OrdersSeq DEF PendFind
  <2>3. CASE s = <<>>
    <3>1. PendOK'
      BY <1>pend, <2>1, <2>2, <2>3 DEF PendOK, PendType
    <3> QED BY <1>14, <3>1, PendLocalT DEF PendFind, PendLocal
  <2>4. CASE s # <<>>
    <3>1. Len(s) >= 1
      BY <2>4
    <3>2. pend' = [pend EXCEPT !.pc = "scan", !.list = s, !.at = 1]
      BY <2>2, <2>4
    <3>3. PendOK'
      BY <1>pend, <2>1, <3>1, <3>2, PendVisit
    <3> QED BY <1>14, <3>3, PendLocalT DEF PendFind, PendLocal
  <2> QED BY <2>3, <2>4
<1>15. CASE PendScan
  <2>1. pend.pc = "scan" /\ pend.req \in Req /\ pend.at \in 1..Len(pend.list)
    BY <1>15, <1>pend DEF PendScan, PendAt, PendOK, PendType
  <2>2. pend.list[pend.at] \in Runner /\ pend.list[1] \in Runner /\ pend.at + 1 \in Nat /\ pend.at + 1 >= 1
    BY <1>pend, <2>1 DEF PendOK, PendType
  <2>3. \/ \E c \in Runner : pend' = [pend EXCEPT !.pc = "expire", !.runner = c, !.list = <<>>, !.at = 1]
        \/ pend.at # Len(pend.list) /\ pend' = [pend EXCEPT !.at = @ + 1]
    BY <1>15, <2>2 DEF PendScan
  <2>4. CASE \E c \in Runner : pend' = [pend EXCEPT !.pc = "expire", !.runner = c, !.list = <<>>, !.at = 1]
    <3>1. PICK c \in Runner : pend' = [pend EXCEPT !.pc = "expire", !.runner = c, !.list = <<>>, !.at = 1]
      BY <2>4
    <3>2. PendOK'
      BY <1>pend, <2>1, <3>1, PendChosen
    <3> QED BY <1>15, <3>2, PendLocalT DEF PendScan, PendLocal
  <2>5. CASE pend.at # Len(pend.list) /\ pend' = [pend EXCEPT !.at = @ + 1]
    <3>1. pend.at + 1 <= Len(pend.list)
      BY <2>1, <2>5, <1>pend DEF PendOK, PendType
    <3>2. PendOK'
      BY <1>pend, <2>1, <2>2, <2>5, <3>1 DEF PendOK, PendType
    <3> QED BY <1>15, <3>2, PendLocalT DEF PendScan, PendLocal
  <2> QED BY <2>3, <2>4, <2>5
<1>16. CASE PendExpire
  <2>1. pend.pc = "expire" /\ pend.req \in Req /\ pend.runner \in Runner
    BY <1>16, <1>pend DEF PendExpire, PendAt, PendOK
  <2>2. PICK pc \in {"send", "wait"} : pend' = [pend EXCEPT !.pc = pc]
    BY <1>16 DEF PendExpire
  <2>3. PendOK'
    BY <1>pend, <2>1, <2>2 DEF PendOK, PendType
  <2>4. RefKept
    BY <1>16, <2>1, ExpireT DEF PendExpire
  <2> QED BY <1>16, <2>3, <2>4 DEF PendExpire, RefKept, TypeOK, ReqOK, MapsOK, ChannelsOK, CompOK, UnlOK, maps, channels
<1>17. CASE PendSend
  <2>1. pend.pc = "send" /\ pend.req \in Req /\ pend.runner \in Runner
    BY <1>17, <1>pend DEF PendSend, PendAt, PendOK
  <2>2. PendOK'
    BY <1>17, <1>pend, <2>1 DEF PendSend, PendOK, PendType
  <2>3. RefKept
    BY <1>17, FreeT DEF PendSend
  <2>4. ChannelsOK'
    BY <1>17, <1>chan, <2>1, AppendOK DEF PendSend, SendExpired, ChannelsOK
  <2> QED BY <1>17, <2>2, <2>3, <2>4 DEF PendSend, RefKept, TypeOK, ReqOK, MapsOK, CompOK, UnlOK, maps
<1>18. CASE PendUnloaded
  <2>1. pend.req \in Req /\ pend' = [pend EXCEPT !.pc = "look", !.runner = NoRunner]
    BY <1>18, <1>pend DEF PendUnloaded, PendAt, PendOK
  <2>2. PendOK'
    BY <1>pend, <2>1 DEF PendOK, PendType, RefOrNone
  <2>3. ChannelsOK'
    BY <1>18, <1>chan DEF PendUnloaded, ChannelsOK
  <2> QED BY <1>18, <2>2, <2>3 DEF PendUnloaded, TypeOK, ReqOK, RefOK, MapsOK, CompOK, UnlOK, maps
<1>19. CASE PendIgnore
  <2>1. ChannelsOK'
    BY <1>19, <1>chan DEF PendIgnore, ChannelsOK
  <2> QED BY <1>19, <2>1 DEF PendIgnore, TypeOK, ReqOK, RefOK, MapsOK, PendOK, CompOK, UnlOK, maps
<1>20. CASE PendExit
  <2>1. pend' = [IdlePend EXCEPT !.pc = "exit"] /\ <<>> \in Seq(Runner) /\ 1 \in Nat
    BY <1>20 DEF PendExit
  <2>2. pend' \in PendType /\ pend'.pc = "exit" /\ pend'.at = 1
    BY <2>1 DEF IdlePend, PendType, ReqOrNone, RefOrNone
  <2>3. PendOK'
    BY <2>2 DEF PendOK
  <2> QED BY <1>20, <2>3, PendLocalT DEF PendExit, PendLocal
<1> QED BY <1>1, <1>2, <1>3, <1>4, <1>5, <1>6, <1>7, <1>8, <1>9, <1>10, <1>11, <1>12, <1>13,
           <1>14, <1>15, <1>16, <1>17, <1>18, <1>19, <1>20 DEF Pending

LEMMA RunnerT == ASSUME TypeOK, NEW r \in Runner, RunnerStep(r) PROVE TypeOK'
<1>ref. RefOK /\ ref[r] \in RefType
  BY DEF TypeOK, RefOK
<1>chan. ChannelsOK /\ MaxQueue \in Nat
  BY BoundAssumption DEF TypeOK
<1>send. ASSUME SendExpired(r), UNCHANGED <<pendingCh, finishedCh, unloadedCh>> PROVE ChannelsOK'
  BY <1>send, <1>chan, AppendOK DEF SendExpired, ChannelsOK
<1>1. CASE LoaderReady(r)
  <2> DEFINE x == Ready(ref[r])
  <2>1. (ref[r].refCount + 1) % UintMod \in 0..(UintMod - 1)
    BY <1>ref, ModRange DEF RefType
  <2>2. x \in RefType /\ x.req = ref[r].req /\ x.load = "none"
    BY <1>ref, <2>1 DEF Ready, RefType
  <2>3. ref' = [ref EXCEPT ![r] = x]
    BY <1>1 DEF LoaderReady
  <2> HIDE DEF x
  <2>4. RefKept
    BY <2>2, <2>3, RefKeptT
  <2>5. ref[r].req \in Req /\ req' = Grant(ref[r].req, r) /\ stale' = stale
    BY <1>1 DEF LoaderReady, TypeOK
  <2>6. ReqOK' /\ \A p \in Req : req'[p].pc \in {"check", "use"} => req'[p].runner \in Runner
    BY <2>5, ReqUpdates DEF TypeOK, ReqOK
  <2> QED BY <1>1, <2>4, <2>6 DEF LoaderReady, RefKept, TypeOK, MapsOK, ChannelsOK, PendOK, CompOK, UnlOK, maps, channels
<1>2. CASE LoaderFails(r)
  <2>1. ref[r].req \in Req
    BY <1>2 DEF LoaderFails, TypeOK
  <2>2. RefusedOK(ref[r].req)
    BY <1>2, <2>1, RefuseT DEF LoaderFails
  <2>3. ref' = [ref EXCEPT ![r].load = "send"]
    BY <1>2 DEF LoaderFails
  <2>4. RefOK'
    BY <1>ref, <2>3 DEF RefOK, RefType
  <2>5. \A x \in Runner : ref'[x].req = ref[x].req /\ (x # r => ref'[x].load = ref[x].load)
    BY <1>ref, <2>3 DEF RefOK, RefType
  <2>6. \A x \in Runner : ref'[x].load # "none" => ref'[x].req \in Req
    BY <2>1, <2>5 DEF TypeOK
  <2> QED BY <1>2, <2>2, <2>4, <2>6 DEF LoaderFails, RefusedOK, TypeOK, MapsOK, ChannelsOK, PendOK, CompOK, UnlOK, maps, channels
<1>3. CASE LoaderSend(r)
  <2> DEFINE x == [ref[r] EXCEPT !.mu = "free", !.load = "none"]
  <2>1. x \in RefType /\ x.req = ref[r].req /\ x.load = "none"
    BY <1>ref DEF RefType
  <2>2. ref' = [ref EXCEPT ![r] = x]
    BY <1>3 DEF LoaderSend
  <2> HIDE DEF x
  <2>3. RefKept
    BY <2>1, <2>2, RefKeptT
  <2>4. ChannelsOK'
    BY <1>3, <1>send DEF LoaderSend
  <2> QED BY <1>3, <2>3, <2>4 DEF LoaderSend, RefKept, TypeOK, ReqOK, MapsOK, PendOK, CompOK, UnlOK, maps
<1>4. CASE TimerFires(r)
  <2> DEFINE x == Fired(ref[r])
  <2>1. ref[r].fired + 1 \in Nat
    BY <1>ref DEF RefType
  <2>2. x \in RefType /\ x.req = ref[r].req /\ x.load = ref[r].load
    BY <1>ref, <2>1 DEF Fired, RefType
  <2>3. ref' = [ref EXCEPT ![r] = x]
    BY <1>4 DEF TimerFires
  <2> HIDE DEF x
  <2>4. RefKept
    BY <2>2, <2>3, RefKeptT
  <2> QED BY <1>4, <2>4 DEF TimerFires, RefKept, TypeOK, ReqOK, MapsOK, ChannelsOK, PendOK, CompOK, UnlOK, maps, channels
<1>5. CASE TimerLocks(r)
  <2> DEFINE x == Called(ref[r])
  <2>1. ref[r].fired - 1 \in Nat
    BY <1>5, <1>ref DEF TimerLocks, RefType
  <2>2. x \in RefType /\ x.req = ref[r].req /\ x.load = ref[r].load
    BY <1>ref, <2>1 DEF Called, RefType
  <2>3. ref' = [ref EXCEPT ![r] = x]
    BY <1>5 DEF TimerLocks
  <2> HIDE DEF x
  <2>4. RefKept
    BY <2>2, <2>3, RefKeptT
  <2> QED BY <1>5, <2>4 DEF TimerLocks, RefKept, TypeOK, ReqOK, MapsOK, ChannelsOK, PendOK, CompOK, UnlOK, maps, channels
<1>6. CASE TimerSend(r)
  <2>1. RefKept
    BY <1>6, FreeT DEF TimerSend
  <2>2. ChannelsOK'
    BY <1>6, <1>send DEF TimerSend
  <2> QED BY <1>6, <2>1, <2>2 DEF TimerSend, RefKept, TypeOK, ReqOK, MapsOK, PendOK, CompOK, UnlOK, maps
<1>7. CASE Requeue(r)
  <2>1. ref[r].again - 1 \in Nat /\ ref' = [ref EXCEPT ![r].again = @ - 1]
    BY <1>7, <1>ref DEF Requeue, RefType
  <2>2. RefOK'
    BY <1>ref, <2>1 DEF RefOK, RefType
  <2>3. \A x \in Runner : ref'[x].load = ref[x].load /\ ref'[x].req = ref[x].req
    BY <1>ref, <2>1 DEF RefOK, RefType
  <2>4. ChannelsOK'
    BY <1>7, <1>send DEF Requeue
  <2> QED BY <1>7, <2>2, <2>3, <2>4 DEF Requeue, TypeOK, ReqOK, MapsOK, PendOK, CompOK, UnlOK, maps
<1> QED BY <1>1, <1>2, <1>3, <1>4, <1>5, <1>6, <1>7 DEF RunnerStep

LEMMA CompletedT == ASSUME TypeOK, Completed PROVE TypeOK'
<1>ref. RefOK
  BY DEF TypeOK
<1>map. MapsOK
  BY DEF TypeOK
<1>chan. ChannelsOK /\ MaxQueue \in Nat
  BY BoundAssumption DEF TypeOK
<1>comp. CompOK
  BY DEF TypeOK
<1>idle. ASSUME comp' = IdleComp PROVE CompOK'
  BY <1>idle DEF CompOK, IdleComp, RefOrNone
<1>close. ASSUME NEW r \in Runner
          PROVE  Close(r) \in [Runner -> [state : {"none", "open", "closed"}, path : Model \cup {0}]]
  BY <1>map DEF MapsOK, Close
<1>unload. ASSUME NEW r \in Runner, NEW mu \in {ref[r].mu, "comp"}
           PROVE  /\ [Unloaded(ref[r]) EXCEPT !.mu = mu] \in RefType
                  /\ Unloaded(ref[r]) \in RefType
                  /\ [Unloaded(ref[r]) EXCEPT !.mu = mu].req = ref[r].req
                  /\ [Unloaded(ref[r]) EXCEPT !.mu = mu].load = ref[r].load
                  /\ Unloaded(ref[r]).req = ref[r].req
                  /\ Unloaded(ref[r]).load = ref[r].load
  <2>1. ref[r] \in RefType
    BY <1>ref DEF RefOK
  <2> QED BY <2>1 DEF Unloaded, RefType
<1>1. CASE CompFinished
  <2>1. Head(finishedCh) \in Req /\ Tail(finishedCh) \in Seq(Req) /\ Len(Tail(finishedCh)) <= MaxQueue
    BY <1>1, <1>chan, TailOK DEF CompFinished, ChannelsOK
  <2>2. loaded[req[Head(finishedCh)].call.model] \in RefOrNone
    BY <2>1, <1>map DEF TypeOK, ReqOK, RequestType, CallType, MapsOK
  <2>3. CompOK'
    BY <1>1, <1>comp, <2>2 DEF CompFinished, CompOK, RefOrNone
  <2>4. ChannelsOK'
    BY <1>1, <1>chan, <2>1 DEF CompFinished, ChannelsOK
  <2> QED BY <1>1, <2>3, <2>4 DEF CompFinished, TypeOK, ReqOK, RefOK, MapsOK, PendOK, UnlOK, maps
<1>2. CASE CompRelease
  <2>1. comp.runner \in Runner /\ ref[comp.runner] \in RefType
    BY <1>2, <1>comp, <1>ref DEF CompRelease, CompAt, CompOK, RefOK
  <2>2. Released(ref[comp.runner]) \in RefType
    BY <2>1, RefUpdates DEF Unset
  <2>3. Released(ref[comp.runner]).req = ref[comp.runner].req /\ Released(ref[comp.runner]).load = ref[comp.runner].load
    BY <2>1 DEF Released, RefType
  <2>4. RefKept
    BY <1>2, <2>1, <2>2, <2>3, RefKeptT DEF CompRelease
  <2>5. comp' \in {IdleComp, [comp EXCEPT !.pc = "send"]}
    BY <1>2 DEF CompRelease
  <2>6. CompOK'
    BY <1>comp, <1>idle, <2>1, <2>5 DEF CompOK
  <2> QED BY <1>2, <2>4, <2>6 DEF CompRelease, RefKept, TypeOK, ReqOK, MapsOK, ChannelsOK, PendOK, UnlOK, maps, channels
<1>3. CASE CompSend
  <2>1. comp.runner \in Runner
    BY <1>3, <1>comp DEF CompSend, CompAt, CompOK
  <2>2. RefKept
    BY <1>3, FreeT DEF CompSend
  <2>3. ChannelsOK'
    BY <1>3, <1>chan, <2>1, AppendOK DEF CompSend, SendExpired, ChannelsOK
  <2>4. CompOK'
    BY <1>3, <1>idle DEF CompSend
  <2> QED BY <1>3, <2>2, <2>3, <2>4 DEF CompSend, RefKept, TypeOK, ReqOK, MapsOK, PendOK, UnlOK, maps
<1>4. CASE CompTakeExpired
  <2>1. Head(expiredCh) \in Runner /\ Tail(expiredCh) \in Seq(Runner) /\ Len(Tail(expiredCh)) <= MaxQueue
    BY <1>4, <1>chan, TailOK DEF CompTakeExpired, ChannelsOK
  <2>2. CompOK'
    BY <1>4, <2>1 DEF CompTakeExpired, CompOK, RefOrNone
  <2>3. ChannelsOK'
    BY <1>4, <1>chan, <2>1 DEF CompTakeExpired, ChannelsOK
  <2> QED BY <1>4, <2>2, <2>3 DEF CompTakeExpired, TypeOK, ReqOK, RefOK, MapsOK, PendOK, UnlOK, maps
<1>5. CASE CompBusy
  <2>1. comp.runner \in Runner /\ ref[comp.runner].again + 1 \in Nat
    BY <1>5, <1>comp, <1>ref DEF CompBusy, CompExpiredAt, CompAt, CompOK, RefOK, RefType
  <2>2. ref' = [ref EXCEPT ![comp.runner].again = @ + 1]
    BY <1>5 DEF CompBusy
  <2>3. RefOK'
    BY <1>ref, <2>1, <2>2 DEF RefOK, RefType
  <2>4. \A x \in Runner : ref'[x].load = ref[x].load /\ ref'[x].req = ref[x].req
    BY <1>ref, <2>2 DEF RefOK, RefType
  <2>5. CompOK'
    BY <1>5, <1>idle DEF CompBusy
  <2> QED BY <1>5, <2>3, <2>4, <2>5 DEF CompBusy, TypeOK, ReqOK, MapsOK, ChannelsOK, PendOK, UnlOK, maps, channels
<1>6. CASE CompDuplicate
  BY <1>6, <1>idle DEF CompDuplicate, TypeOK, ReqOK, RefOK, MapsOK, ChannelsOK, PendOK, UnlOK, maps, channels
<1>7. CASE CompOrphan
  <2>1. comp.runner \in Runner
    BY <1>7, <1>comp DEF CompOrphan, CompExpiredAt, CompAt, CompOK
  <2>2. RefKept
    BY <1>7, <2>1, <1>unload, RefKeptT DEF CompOrphan
  <2>3. MapsOK'
    BY <1>7, <1>map, <1>close, <2>1 DEF CompOrphan, MapsOK
  <2>4. CompOK'
    BY <1>7, <1>idle DEF CompOrphan
  <2> QED BY <1>7, <2>2, <2>3, <2>4 DEF CompOrphan, RefKept, TypeOK, ReqOK, ChannelsOK, PendOK, UnlOK, channels
<1>8. CASE CompUnload
  <2>1. comp.runner \in Runner
    BY <1>8, <1>comp DEF CompUnload, CompExpiredAt, CompAt, CompOK
  <2>2. RefKept
    BY <1>8, <2>1, <1>unload, RefKeptT DEF CompUnload
  <2>3. MapsOK'
    BY <1>8, <1>map, <1>close, <2>1 DEF CompUnload, MapsOK, RefOrNone
  <2>4. CompOK'
    BY <1>8, <1>comp, <2>1 DEF CompUnload, CompOK
  <2> QED BY <1>8, <2>2, <2>3, <2>4 DEF CompUnload, RefKept, TypeOK, ReqOK, ChannelsOK, PendOK, UnlOK, channels
<1>9. CASE CompRecovered
  <2>1. comp.runner \in Runner
    BY <1>9, <1>comp DEF CompRecovered, CompAt, CompOK
  <2>2. RefKept
    BY <1>9, FreeT DEF CompRecovered
  <2>3. CompOK'
    BY <1>9, <1>comp, <2>1 DEF CompRecovered, CompOK
  <2> QED BY <1>9, <2>2, <2>3 DEF CompRecovered, RefKept, TypeOK, ReqOK, MapsOK, ChannelsOK, PendOK, UnlOK, maps, channels
<1>10. CASE CompSendUnloaded
  <2>1. ChannelsOK'
    BY <1>10, <1>chan DEF CompSendUnloaded, ChannelsOK
  <2> QED BY <1>10, <1>idle, <2>1 DEF CompSendUnloaded, TypeOK, ReqOK, RefOK, MapsOK, PendOK, UnlOK, maps
<1>11. CASE CompExit
  <2>1. CompOK'
    BY <1>11 DEF CompExit, CompOK, IdleComp, RefOrNone
  <2> QED BY <1>11, <2>1 DEF CompExit, TypeOK, ReqOK, RefOK, MapsOK, ChannelsOK, PendOK, UnlOK, maps, channels
<1> QED BY <1>1, <1>2, <1>3, <1>4, <1>5, <1>6, <1>7, <1>8, <1>9, <1>10, <1>11 DEF Completed

LEMMA UnloadingT == ASSUME TypeOK, Unloading PROVE TypeOK'
<1>unl. UnlOK /\ MaxUnloads \in Nat
  BY BoundAssumption DEF TypeOK
<1>1. ASSUME NEW m \in Model, ExpireRunner(m) PROVE TypeOK'
  <2>1. loaded[m] \in Runner /\ unl.left - 1 \in 0..MaxUnloads
    BY <1>1, <1>unl DEF ExpireRunner, TypeOK, MapsOK, RefOrNone, UnlOK
  <2>2. unl' = [pc |-> "expire", runner |-> loaded[m], left |-> unl.left - 1]
    BY <1>1 DEF ExpireRunner
  <2>3. UnlOK'
    BY <2>1, <2>2 DEF UnlOK, RefOrNone
  <2> QED BY <1>1, <2>3 DEF ExpireRunner, TypeOK, ReqOK, RefOK, MapsOK, ChannelsOK, PendOK, CompOK, maps, channels
<1>2. CASE ExpireRunnerLock
  <2>1. unl.runner \in Runner
    BY <1>2, <1>unl DEF ExpireRunnerLock, UnlOK
  <2>2. RefKept
    BY <1>2, <2>1, ExpireT DEF ExpireRunnerLock
  <2>3. unl' \in {[unl EXCEPT !.pc = "send"], [unl EXCEPT !.pc = "idle", !.runner = NoRunner]}
    BY <1>2 DEF ExpireRunnerLock
  <2>4. UnlOK'
    BY <1>unl, <2>1, <2>3 DEF UnlOK, RefOrNone
  <2> QED BY <1>2, <2>2, <2>4 DEF ExpireRunnerLock, RefKept, TypeOK, ReqOK, MapsOK, ChannelsOK, PendOK, CompOK, maps, channels
<1>3. CASE ExpireRunnerSend
  <2>1. unl.runner \in Runner
    BY <1>3, <1>unl DEF ExpireRunnerSend, UnlOK
  <2>2. RefKept
    BY <1>3, FreeT DEF ExpireRunnerSend
  <2>3. ChannelsOK'
    BY <1>3, <2>1, AppendOK DEF ExpireRunnerSend, SendExpired, TypeOK, ChannelsOK
  <2>4. UnlOK'
    BY <1>3, <1>unl DEF ExpireRunnerSend, UnlOK, RefOrNone
  <2> QED BY <1>3, <2>2, <2>3, <2>4 DEF ExpireRunnerSend, RefKept, TypeOK, ReqOK, MapsOK, PendOK, CompOK, maps
<1> QED BY <1>1, <1>2, <1>3 DEF Unloading

LEMMA StopT == ASSUME TypeOK, Stop PROVE TypeOK'
<1>1. CASE Shutdown
  BY <1>1 DEF Shutdown, TypeOK, ReqOK, RefOK, MapsOK, ChannelsOK, PendOK, CompOK, UnlOK, maps, channels
<1>2. CASE UnloadAllRunners
  <2>1. \A r \in Runner : srv'[r] \in {srv[r], [srv[r] EXCEPT !.state = "closed"]}
    BY <1>2 DEF UnloadAllRunners
  <2>2. srv' \in [Runner -> [state : {"none", "open", "closed"}, path : Model \cup {0}]]
    <3>1. \A r \in Runner : srv'[r] \in [state : {"none", "open", "closed"}, path : Model \cup {0}]
      BY <2>1 DEF TypeOK, MapsOK
    <3> QED BY <1>2, <3>1 DEF UnloadAllRunners
  <2>3. MapsOK'
    BY <1>2, <2>2 DEF UnloadAllRunners, TypeOK, MapsOK, RefOrNone
  <2> QED BY <1>2, <2>3 DEF UnloadAllRunners, TypeOK, ReqOK, RefOK, ChannelsOK, PendOK, CompOK, UnlOK, channels
<1>3. CASE Exit
  BY <1>3 DEF Exit, TypeOK, ReqOK, RefOK, MapsOK, ChannelsOK, PendOK, CompOK, UnlOK, maps, channels
<1> QED BY <1>1, <1>2, <1>3 DEF Stop

LEMMA StutterT == ASSUME TypeOK, UNCHANGED vars PROVE TypeOK'
BY DEF vars, TypeOK, ReqOK, RefOK, MapsOK, ChannelsOK, PendOK, CompOK, UnlOK, maps, channels

LEMMA NextT == ASSUME TypeOK, [Next]_vars PROVE TypeOK'
<1>1. CASE Resting
  BY <1>1, StutterT DEF Resting
<1> QED BY <1>1, ClientT, PendingT, RunnerT, CompletedT, UnloadingT, StopT, StutterT DEF Next

(* Every state of the scheduler is well typed: the channels stay within    *)
(* their capacity, and no goroutine uses a nil runner or request.          *)
THEOREM TypeCorrect == Spec => []TypeOK
<1>1. Init => TypeOK
  BY InitT
<1>2. TypeOK /\ [Next]_vars => TypeOK'
  BY NextT
<1> QED BY <1>1, <1>2, PTL DEF Spec

-----------------------------------------------------------------------------
(* What steps leave alone *)

(* A runnerRef keeps its request, and with it its model and its options;   *)
(* only processCompleted clears the options; only load starts a loader.    *)
RefStable ==
    \A r \in Runner :
        /\ ref'[r].req = ref[r].req
        /\ ref'[r].load = "wait" => ref[r].load = "wait"
        /\ ref'[r].live = ref[r].live

LEMMA RefStableField ==
    ASSUME RefOK, NEW r, NEW v,
           \/ ref' = [ref EXCEPT ![r].mu = v]
           \/ ref' = [ref EXCEPT ![r].again = v]
           \/ ref' = [ref EXCEPT ![r].load = "send"]
    PROVE  RefStable
<1>1. CASE ref' = [ref EXCEPT ![r].mu = v]
  BY <1>1 DEF RefStable, RefOK, RefType
<1>2. CASE ref' = [ref EXCEPT ![r].again = v]
  BY <1>2 DEF RefStable, RefOK, RefType
<1>3. CASE ref' = [ref EXCEPT ![r].load = "send"]
  BY <1>3 DEF RefStable, RefOK, RefType
<1> QED BY <1>1, <1>2, <1>3

LEMMA RefStableRecord ==
    ASSUME RefOK, NEW r \in Runner, NEW keep, NEW owner,
           NEW y \in {InUse(ref[r], keep), ToExpire(ref[r], owner), Released(ref[r]), Ready(ref[r]),
                      Fired(ref[r]), Called(ref[r]), [ref[r] EXCEPT !.mu = "free", !.load = "none"]},
           ref' = [ref EXCEPT ![r] = y]
    PROVE  RefStable
<1>1. ref[r] \in RefType
  BY DEF RefOK
<1>2. y.req = ref[r].req /\ (y.load = "wait" => ref[r].load = "wait") /\ y.live = ref[r].live
  <2>1. CASE y = InUse(ref[r], keep)
    BY <1>1, <2>1 DEF InUse, RefType
  <2>2. CASE y = ToExpire(ref[r], owner)
    BY <1>1, <2>2 DEF ToExpire, RefType
  <2>3. CASE y = Released(ref[r])
    BY <1>1, <2>3 DEF Released, RefType
  <2>4. CASE y = Ready(ref[r])
    BY <1>1, <2>4 DEF Ready, RefType
  <2>5. CASE y = Fired(ref[r])
    BY <1>1, <2>5 DEF Fired, RefType
  <2>6. CASE y = Called(ref[r])
    BY <1>1, <2>6 DEF Called, RefType
  <2>7. CASE y = [ref[r] EXCEPT !.mu = "free", !.load = "none"]
    BY <1>1, <2>7 DEF RefType
  <2> QED BY <2>1, <2>2, <2>3, <2>4, <2>5, <2>6, <2>7
<1> QED BY <1>2 DEF RefStable, RefOK

LEMMA RefUse ==
    ASSUME RefOK, NEW q, NEW r \in Runner, NEW owner, UseLoadedRunner(q, r) \/ ExpireNow(r, owner)
    PROVE  RefStable
BY RefStableRecord DEF UseLoadedRunner, ExpireNow

LEMMA RefPending == ASSUME TypeOK, Pending PROVE RefStable \/ PendLoaded
<1>ref. RefOK /\ PendOK
  BY DEF TypeOK
<1>1. CASE PendUse
  BY <1>1, <1>ref, RefUse DEF PendUse, PendAt, PendOK
<1>2. CASE PendExpire
  BY <1>2, <1>ref, RefUse DEF PendExpire, PendAt, PendOK
<1>3. CASE PendSend
  BY <1>3, <1>ref, RefStableField DEF PendSend
<1> QED BY <1>1, <1>2, <1>3
        DEF Pending, PendTake, PendLook, PendCheck, PendFit, PendFitFails, PendFree, PendSpawn,
            PendSpawnFails, PendSpawnAgain, PendNeedEvict, PendLoadFails, PendFind, PendScan,
            PendUnloaded, PendIgnore, PendExit, RefStable

LEMMA RefFrame ==
    ASSUME TypeOK, [Next]_vars
    PROVE  RefStable \/ PendLoaded \/ CompOrphan \/ CompUnload
<1>ref. RefOK /\ PendOK /\ CompOK /\ UnlOK
  BY DEF TypeOK
<1>same. ASSUME UNCHANGED ref PROVE RefStable
  BY <1>same DEF RefStable
<1>1. ASSUME NEW q \in Req, Client(q) PROVE RefStable
  <2>1. CASE GetRunnerUse(q)
    <3>1. req[q].runner \in Runner
      BY <2>1 DEF GetRunnerUse, ClientAt, TypeOK
    <3> QED BY <2>1, <3>1, <1>ref, RefUse DEF GetRunnerUse
  <2> QED BY <1>1, <1>same, <2>1
          DEF Client, GetRunner, GetRunnerCheck, GetRunnerEnqueue, ContextDone, Finished
<1>2. CASE Pending
  BY <1>2, RefPending
<1>3. ASSUME NEW r \in Runner, RunnerStep(r) PROVE RefStable
  <2>1. CASE LoaderReady(r)
    BY <2>1, <1>ref, RefStableRecord DEF LoaderReady
  <2>2. CASE LoaderFails(r)
    BY <2>2, <1>ref, RefStableField DEF LoaderFails
  <2>3. CASE LoaderSend(r)
    BY <2>3, <1>ref, RefStableRecord DEF LoaderSend
  <2>4. CASE TimerFires(r)
    BY <2>4, <1>ref, RefStableRecord DEF TimerFires
  <2>5. CASE TimerLocks(r)
    BY <2>5, <1>ref, RefStableRecord DEF TimerLocks
  <2>6. CASE TimerSend(r)
    BY <2>6, <1>ref, RefStableField DEF TimerSend
  <2>7. CASE Requeue(r)
    BY <2>7, <1>ref, RefStableField DEF Requeue
  <2> QED BY <1>3, <2>1, <2>2, <2>3, <2>4, <2>5, <2>6, <2>7 DEF RunnerStep
<1>4. CASE Completed
  <2>1. CASE CompRelease
    BY <2>1, <1>ref, RefStableRecord DEF CompRelease, CompAt, CompOK
  <2>2. CASE CompSend
    BY <2>2, <1>ref, RefStableField DEF CompSend
  <2>3. CASE CompBusy
    BY <2>3, <1>ref, RefStableField DEF CompBusy
  <2>4. CASE CompRecovered
    BY <2>4, <1>ref, RefStableField DEF CompRecovered
  <2> QED BY <1>4, <1>same, <2>1, <2>2, <2>3, <2>4
          DEF Completed, CompFinished, CompTakeExpired, CompDuplicate, CompSendUnloaded, CompExit
<1>5. CASE Unloading
  <2>1. CASE ExpireRunnerLock
    BY <2>1, <1>ref, RefUse DEF ExpireRunnerLock, UnlOK
  <2>2. CASE ExpireRunnerSend
    BY <2>2, <1>ref, RefStableField DEF ExpireRunnerSend
  <2> QED BY <1>5, <1>same, <2>1, <2>2 DEF Unloading, ExpireRunner
<1>6. CASE Stop \/ Resting \/ UNCHANGED vars
  BY <1>6, <1>same DEF Stop, Shutdown, UnloadAllRunners, Exit, Resting, vars
<1> QED BY <1>1, <1>2, <1>3, <1>4, <1>5, <1>6 DEF Next

-----------------------------------------------------------------------------
(* Who may still answer a request *)

(* Before it is answered, a request is in one place at a time: with its    *)
(* own GetRunner call, in pendingReqCh, with processPending, or with the   *)
(* goroutine that waits for its runner to be ready.  Whoever answers it    *)
(* gives it up in the same step.                                           *)
Unanswered(q) == req[q].pc = "waiting" /\ req[q].answers = 0

OwnerInv ==
    /\ \A q \in Req : /\ req[q].answers <= 1
                      /\ req[q].pc # "waiting" => req[q].answers = 0
    /\ pend.pc \in {"idle", "exit"} => pend.req = NoReq
    /\ pend.pc \notin {"idle", "exit"} => Unanswered(pend.req)
    /\ \A i \in 1..Len(pendingCh) : Unanswered(pendingCh[i]) /\ pendingCh[i] # pend.req
    /\ \A i, j \in 1..Len(pendingCh) : pendingCh[i] = pendingCh[j] => i = j
    /\ \A r \in Runner : ref[r].load = "wait" =>
        /\ Unanswered(ref[r].req)
        /\ ref[r].req # pend.req
        /\ \A i \in 1..Len(pendingCh) : pendingCh[i] # ref[r].req
        /\ \A t \in Runner : ref[t].load = "wait" /\ ref[t].req = ref[r].req => t = r

LEMMA InitO == Init => OwnerInv
BY DEF Init, OwnerInv, NewRequest, IdlePend, BlankRef

(* Who owns what after the step, given who did before: processPending      *)
(* keeps its request or lets it go, and loaders only finish.               *)
PendKeeps ==
    \/ /\ pend'.req = pend.req
       /\ pend'.pc \in {"idle", "exit"} <=> pend.pc \in {"idle", "exit"}
    \/ pend'.pc \in {"idle", "exit"} /\ pend'.req = NoReq
LoadersKeep ==
    \A r \in Runner : ref'[r].load = "wait" => ref[r].load = "wait" /\ ref'[r].req = ref[r].req

(* Nothing but the request q, if any, changes its answer *)
OthersKeep(q) ==
    \A p \in Req \ {q} :
        /\ req'[p].answers = req[p].answers
        /\ req'[p].pc = req[p].pc \/ (req[p].pc # "waiting" /\ req'[p].pc # "waiting")
Kept == \A p \in Req : /\ req'[p].answers = req[p].answers
                       /\ req'[p].pc = req[p].pc \/ (req[p].pc # "waiting" /\ req'[p].pc # "waiting")

LEMMA OwnersIn ==
    ASSUME TypeOK
    PROVE  /\ \A i \in 1..Len(pendingCh) : pendingCh[i] \in Req
           /\ pend.pc \notin {"idle", "exit"} => pend.req \in Req
           /\ \A r \in Runner : ref[r].load # "none" => ref[r].req \in Req
BY DEF TypeOK, ChannelsOK, PendOK

LEMMA OwnerFrame ==
    ASSUME TypeOK, OwnerInv, Kept, pendingCh' = pendingCh, PendKeeps, LoadersKeep
    PROVE  OwnerInv'
<1>4. \A q \in Req : Unanswered(q) => Unanswered(q)'
  BY DEF Kept, Unanswered
<1>5. \A q \in Req : req'[q].answers <= 1 /\ (req'[q].pc # "waiting" => req'[q].answers = 0)
  BY DEF Kept, OwnerInv
<1>6. /\ pend'.pc \in {"idle", "exit"} => pend'.req = NoReq
      /\ pend'.pc \notin {"idle", "exit"} => Unanswered(pend.req)'
  BY OwnersIn, <1>4 DEF PendKeeps, OwnerInv, Unanswered
<1>7. \A i \in 1..Len(pendingCh') : Unanswered(pendingCh[i])' /\ pendingCh'[i] # pend'.req
  BY OwnersIn, <1>4, ReqAssumption DEF PendKeeps, OwnerInv, Unanswered
<1>8. \A r \in Runner : ref'[r].load = "wait" =>
        /\ Unanswered(ref[r].req)'
        /\ ref'[r].req # pend'.req
        /\ \A i \in 1..Len(pendingCh') : pendingCh'[i] # ref'[r].req
        /\ \A t \in Runner : ref'[t].load = "wait" /\ ref'[t].req = ref'[r].req => t = r
  BY OwnersIn, <1>4, ReqAssumption DEF PendKeeps, LoadersKeep, OwnerInv, Unanswered
<1> QED BY <1>5, <1>6, <1>7, <1>8 DEF LoadersKeep, OwnerInv, Unanswered

(* A request is answered by its one owner, who lets it go. *)
LEMMA OwnerAnswers ==
    ASSUME TypeOK, OwnerInv, NEW q \in Req, OthersKeep(q),
           req'[q].answers = 1, req'[q].pc = "waiting",
           pendingCh' = pendingCh, PendKeeps, LoadersKeep,
           pend'.req # q,
           \A i \in 1..Len(pendingCh) : pendingCh[i] # q,
           \A r \in Runner : ref'[r].load = "wait" => ref[r].req # q
    PROVE  OwnerInv'
<1>4. \A p \in Req \ {q} : Unanswered(p) => Unanswered(p)'
  BY DEF OthersKeep, Unanswered
<1>5. \A p \in Req : req'[p].answers <= 1 /\ (req'[p].pc # "waiting" => req'[p].answers = 0)
  BY DEF OthersKeep, OwnerInv
<1>6. /\ pend'.pc \in {"idle", "exit"} => pend'.req = NoReq
      /\ pend'.pc \notin {"idle", "exit"} => Unanswered(pend.req)'
  BY OwnersIn, <1>4 DEF PendKeeps, OwnerInv, Unanswered
<1>7. \A i \in 1..Len(pendingCh') : Unanswered(pendingCh[i])' /\ pendingCh'[i] # pend'.req
  BY OwnersIn, <1>4, ReqAssumption DEF PendKeeps, OwnerInv, Unanswered
<1>8. \A r \in Runner : ref'[r].load = "wait" =>
        /\ Unanswered(ref[r].req)'
        /\ ref'[r].req # pend'.req
        /\ \A i \in 1..Len(pendingCh') : pendingCh'[i] # ref'[r].req
        /\ \A t \in Runner : ref'[t].load = "wait" /\ ref'[t].req = ref'[r].req => t = r
  BY OwnersIn, <1>4, ReqAssumption DEF PendKeeps, LoadersKeep, OwnerInv, Unanswered
<1> QED BY <1>5, <1>6, <1>7, <1>8 DEF LoadersKeep, OwnerInv, Unanswered

(* What an answer does to the requests *)
LEMMA AnswerFacts ==
    ASSUME ReqOK, NEW q \in Req, req[q].answers = 0, NEW v,
           \/ req' = Refuse(q) /\ req[q].pc = "waiting"
           \/ req' = Grant(q, v)
           \/ req' = [req EXCEPT ![q] = [Answered(@, Failed) EXCEPT !.pc = "waiting"]]
    PROVE  OthersKeep(q) /\ req'[q].answers = 1 /\ req'[q].pc = "waiting"
<1>1. req[q] \in RequestType
  BY DEF ReqOK
<1>2. CASE req' = Refuse(q) /\ req[q].pc = "waiting"
  BY <1>1, <1>2 DEF Refuse, Answered, RequestType, ReqOK, OthersKeep
<1>3. CASE req' = Grant(q, v)
  BY <1>1, <1>3 DEF Grant, Answered, RequestType, ReqOK, OthersKeep
<1>4. CASE req' = [req EXCEPT ![q] = [Answered(@, Failed) EXCEPT !.pc = "waiting"]]
  BY <1>1, <1>4 DEF Answered, RequestType, ReqOK, OthersKeep
<1> QED BY <1>2, <1>3, <1>4

LEMMA UnloadKeeps ==
    ASSUME RefOK, NEW r \in Runner,
           \/ ref' = [ref EXCEPT ![r] = Unloaded(@)]
           \/ ref' = [ref EXCEPT ![r] = [Unloaded(@) EXCEPT !.mu = "comp"]]
    PROVE  /\ LoadersKeep
           /\ \A t \in Runner \ {r} : ref'[t] = ref[t]
<1>1. ref[r] \in RefType
  BY DEF RefOK
<1>2. CASE ref' = [ref EXCEPT ![r] = Unloaded(@)]
  BY <1>1, <1>2 DEF RefOK, Unloaded, LoadersKeep, RefType
<1>3. CASE ref' = [ref EXCEPT ![r] = [Unloaded(@) EXCEPT !.mu = "comp"]]
  BY <1>1, <1>3 DEF RefOK, Unloaded, LoadersKeep, RefType
<1> QED BY <1>2, <1>3

(* The steps of processPending that answer its request *)
LEMMA PendAnswers ==
    ASSUME TypeOK, OwnerInv, pend.pc \notin {"idle", "exit"}, NEW v,
           req' = Refuse(pend.req) \/ req' = Grant(pend.req, v),
           pend' = IdlePend, pendingCh' = pendingCh, LoadersKeep
    PROVE  OwnerInv'
<1>1. pend.req \in Req /\ ReqOK
  BY DEF TypeOK, PendOK
<1>2. Unanswered(pend.req)
  BY DEF OwnerInv
<1>3. OthersKeep(pend.req) /\ req'[pend.req].answers = 1 /\ req'[pend.req].pc = "waiting"
  BY <1>1, <1>2, AnswerFacts DEF Unanswered
<1>4. PendKeeps /\ pend'.req # pend.req
  BY <1>1, ReqAssumption DEF PendKeeps, IdlePend
<1>5. /\ \A i \in 1..Len(pendingCh) : pendingCh[i] # pend.req
      /\ \A r \in Runner : ref'[r].load = "wait" => ref[r].req # pend.req
  BY DEF OwnerInv, LoadersKeep
<1> QED BY <1>1, <1>3, <1>4, <1>5, OwnerAnswers

LEMMA OwnerClient == ASSUME TypeOK, OwnerInv, NEW q \in Req, Client(q) PROVE OwnerInv'
<1>ty. ReqOK /\ ChannelsOK
  BY DEF TypeOK
<1>ref. RefStable
  <2>2. CASE GetRunnerUse(q)
    <3>1. req[q].runner \in Runner
      BY <2>2 DEF GetRunnerUse, ClientAt, TypeOK
    <3>2. RefOK
      BY DEF TypeOK
    <3> QED BY <2>2, <3>1, <3>2, RefStableRecord DEF GetRunnerUse, UseLoadedRunner
  <2>3. CASE UNCHANGED ref
    BY <2>3 DEF RefStable
  <2> QED BY <2>2, <2>3
          DEF Client, GetRunner, GetRunnerCheck, GetRunnerEnqueue, ContextDone, Finished
<1>load. LoadersKeep
  BY <1>ref DEF RefStable, LoadersKeep
<1>own. ASSUME req[q].pc # "waiting"
        PROVE  /\ req[q].answers = 0
               /\ pend.req # q
               /\ \A i \in 1..Len(pendingCh) : pendingCh[i] # q
               /\ \A r \in Runner : ref[r].load = "wait" => ref[r].req # q
  BY <1>own, ReqAssumption DEF OwnerInv, Unanswered
<1>pend. ASSUME pend' = pend PROVE PendKeeps
  BY <1>pend DEF PendKeeps
<1>1. CASE GetRunner(q)
  <2>1. PICK c \in Calls[q] :
          req' = [req EXCEPT ![q] =
                   [@ EXCEPT !.call = c, !.runner = loaded[c.model],
                             !.pc = IF loaded[c.model] = NoRunner THEN "enqueue" ELSE "check"]]
    BY <1>1 DEF GetRunner
  <2>2. Kept
    BY <1>ty, <1>1, <2>1 DEF GetRunner, ClientAt, ReqOK, RequestType, Kept
  <2> QED BY <1>1, <2>2, <1>load, <1>pend, OwnerFrame DEF GetRunner, channels
<1>2. CASE GetRunnerCheck(q)
  <2>1. PICK b : req' = [req EXCEPT ![q].pc = IF b THEN "enqueue" ELSE "use"]
    BY <1>2 DEF GetRunnerCheck
  <2>2. Kept
    BY <1>ty, <1>2, <2>1 DEF GetRunnerCheck, ClientAt, ReqOK, RequestType, Kept
  <2> QED BY <1>2, <2>2, <1>load, <1>pend, OwnerFrame DEF GetRunnerCheck, channels
<1>3. CASE GetRunnerUse(q)
  <2>1. req[q].pc # "waiting" /\ req' = Grant(q, req[q].runner)
    BY <1>3 DEF GetRunnerUse, ClientAt, UseLoadedRunner
  <2>2. OthersKeep(q) /\ req'[q].answers = 1 /\ req'[q].pc = "waiting"
    BY <1>ty, <1>own, <2>1, AnswerFacts
  <2>3. pendingCh' = pendingCh /\ pend' = pend
    BY <1>3 DEF GetRunnerUse, channels
  <2> QED BY <1>own, <1>load, <1>pend, <2>1, <2>2, <2>3, OwnerAnswers DEF LoadersKeep
<1>4. CASE GetRunnerEnqueue(q) /\ pendingCh' = Append(pendingCh, q) /\ req' = [req EXCEPT ![q].pc = "waiting"]
  <2>1. req[q].pc # "waiting" /\ pend' = pend /\ ref' = ref
    BY <1>4 DEF GetRunnerEnqueue, ClientAt
  <2>2. /\ \A p \in Req \ {q} : req'[p] = req[p]
        /\ req'[q].pc = "waiting" /\ req'[q].answers = 0
    BY <1>ty, <1>4, <1>own, <2>1 DEF ReqOK, RequestType
  <2>3. /\ Len(pendingCh') = Len(pendingCh) + 1
        /\ \A i \in 1..Len(pendingCh) : pendingCh'[i] = pendingCh[i]
        /\ pendingCh'[Len(pendingCh) + 1] = q
        /\ Len(pendingCh) \in Nat
    BY <1>ty, <1>4 DEF ChannelsOK
  <2>4. \A p \in Req : Unanswered(p) => Unanswered(p)'
    BY <2>2 DEF Unanswered
  <2>5. \A p \in Req : req'[p].answers <= 1 /\ (req'[p].pc # "waiting" => req'[p].answers = 0)
    BY <2>2 DEF OwnerInv
  <2>6. \A i \in 1..Len(pendingCh') : Unanswered(pendingCh[i])' /\ pendingCh'[i] # pend'.req
    <3>1. ASSUME NEW i \in 1..Len(pendingCh') PROVE i \in 1..Len(pendingCh) \/ i = Len(pendingCh) + 1
      BY <2>3
    <3>2. \A i \in 1..Len(pendingCh) : Unanswered(pendingCh[i])' /\ pendingCh'[i] # pend'.req
      BY OwnersIn, <2>1, <2>3, <2>4 DEF OwnerInv, Unanswered
    <3>3. Unanswered(q)' /\ q # pend'.req
      BY <2>1, <2>2, <1>own DEF Unanswered
    <3> QED BY <2>3, <3>1, <3>2, <3>3 DEF Unanswered
  <2>7. \A i, j \in 1..Len(pendingCh') : pendingCh'[i] = pendingCh'[j] => i = j
    BY <2>1, <2>3, <1>own DEF OwnerInv
  <2>8. \A r \in Runner : ref[r].load = "wait" => Unanswered(ref[r].req)'
    BY OwnersIn, <2>1, <2>4 DEF OwnerInv, Unanswered
  <2>9. \A r \in Runner : ref[r].load = "wait" => \A i \in 1..Len(pendingCh') : pendingCh'[i] # ref[r].req
    BY <1>own, <2>1, <2>3 DEF OwnerInv
  <2>10. pend.pc \notin {"idle", "exit"} => Unanswered(pend.req)'
    BY OwnersIn, <2>1, <2>4 DEF OwnerInv, Unanswered
  <2> QED BY <2>1, <2>5, <2>6, <2>7, <2>8, <2>9, <2>10 DEF OwnerInv, Unanswered
<1>5. CASE GetRunnerEnqueue(q) /\ UNCHANGED pendingCh
           /\ req' = [req EXCEPT ![q] = [Answered(@, Failed) EXCEPT !.pc = "waiting"]]
  <2>1. req[q].pc # "waiting" /\ pend' = pend
    BY <1>5 DEF GetRunnerEnqueue, ClientAt
  <2>2. OthersKeep(q) /\ req'[q].answers = 1 /\ req'[q].pc = "waiting"
    BY <1>ty, <1>5, <1>own, <2>1, AnswerFacts
  <2> QED BY <1>5, <1>own, <1>load, <1>pend, <2>1, <2>2, OwnerAnswers DEF LoadersKeep
<1>6. CASE ContextDone(q)
  <2>1. Kept
    BY <1>ty, <1>6 DEF ContextDone, ReqOK, RequestType, Kept
  <2> QED BY <1>6, <2>1, <1>load, <1>pend, OwnerFrame DEF ContextDone, channels
<1>7. CASE Finished(q)
  <2>1. Kept
    BY <1>ty, <1>7 DEF Finished, ReqOK, RequestType, Kept
  <2> QED BY <1>7, <2>1, <1>load, <1>pend, OwnerFrame DEF Finished
<1>8. CASE GetRunnerEnqueue(q)
  BY <1>8, <1>4, <1>5 DEF GetRunnerEnqueue
<1> QED BY <1>1, <1>2, <1>3, <1>6, <1>7, <1>8 DEF Client

LEMMA OwnerPending == ASSUME TypeOK, OwnerInv, Pending PROVE OwnerInv'
<1>ty. ReqOK /\ RefOK /\ ChannelsOK /\ PendOK
  BY DEF TypeOK
<1>stable. ASSUME RefStable PROVE LoadersKeep
  BY <1>stable DEF RefStable, LoadersKeep
<1>ref. LoadersKeep \/ PendLoaded
  BY <1>stable, RefPending
<1>kept. ASSUME req' = req PROVE Kept
  BY <1>kept DEF Kept
<1>1. CASE PendTake
  <2>1. /\ req' = req /\ ref' = ref /\ pendingCh' = Tail(pendingCh)
        /\ pendingCh # <<>> /\ pend.pc = "idle" /\ pend.req = NoReq
    BY <1>1 DEF PendTake, PendAt, OwnerInv
  <2>2. /\ Len(pendingCh) \in Nat \ {0} /\ Len(pendingCh') = Len(pendingCh) - 1
        /\ \A i \in 1..Len(pendingCh') : pendingCh'[i] = pendingCh[i + 1] /\ i + 1 \in 1..Len(pendingCh)
        /\ Head(pendingCh) = pendingCh[1] /\ 1 \in 1..Len(pendingCh) /\ Head(pendingCh) \in Req
    BY <1>ty, <2>1 DEF ChannelsOK
  <2>3. \/ pend' = pend
        \/ pend' = [pend EXCEPT !.pc = "look", !.req = Head(pendingCh)]
    BY <1>1 DEF PendTake
  <2>4. \/ pend'.pc = "idle" /\ pend'.req = NoReq
        \/ pend'.pc = "look" /\ pend'.req = Head(pendingCh)
    BY <1>ty, <2>1, <2>3 DEF PendOK, PendType
  <2>5. pend'.pc \notin {"idle", "exit"} => Unanswered(pend.req)'
    BY <2>1, <2>2, <2>4 DEF OwnerInv, Unanswered
  <2>6. \A i \in 1..Len(pendingCh') : Unanswered(pendingCh[i])' /\ pendingCh'[i] # pend'.req
    <3>1. ASSUME NEW i \in 1..Len(pendingCh') PROVE pendingCh'[i] \in Req /\ pendingCh'[i] # Head(pendingCh)
      <4>1. i + 1 \in 1..Len(pendingCh) /\ i + 1 # 1
        BY <2>2
      <4> QED BY <2>2, <4>1, OwnersIn DEF OwnerInv
    <3>2. \A i \in 1..Len(pendingCh') : Unanswered(pendingCh[i])'
      BY <2>1, <2>2 DEF OwnerInv, Unanswered
    <3> QED BY <2>4, <3>1, <3>2, ReqAssumption
  <2>7. \A i, j \in 1..Len(pendingCh') : pendingCh'[i] = pendingCh'[j] => i = j
    BY <2>2 DEF OwnerInv
  <2>8. \A r \in Runner : ref[r].load = "wait" =>
          ref[r].req # pend'.req /\ \A i \in 1..Len(pendingCh') : pendingCh'[i] # ref[r].req
    BY <2>2, <2>4, OwnersIn, ReqAssumption DEF OwnerInv
  <2> QED BY <2>1, <2>4, <2>5, <2>6, <2>7, <2>8 DEF OwnerInv, Unanswered
<1>2. CASE PendUse
  <2>1. ~PendLoaded
    BY <1>2 DEF PendUse, PendLoaded, PendAt
  <2> QED BY <1>2, <2>1, <1>ref, PendAnswers DEF PendUse, PendAt, UseLoadedRunner, channels
<1>3. CASE PendFitFails \/ PendSpawnFails
  BY <1>3, PendAnswers DEF PendFitFails, PendSpawnFails, PendAt, LoadersKeep, channels
<1>4. CASE PendLoadFails
  <2>1. CASE req' = req /\ pend' = pend
    BY <1>4, <2>1, OwnerFrame DEF PendLoadFails, Kept, PendKeeps, LoadersKeep, channels
  <2>2. CASE req' = Refuse(pend.req) /\ pend' = IdlePend
    BY <1>4, <2>2, PendAnswers DEF PendLoadFails, PendAt, LoadersKeep, channels
  <2> QED BY <1>4, <2>1, <2>2 DEF PendLoadFails
<1>5. CASE PendLoaded
  <2>1. pend.pc = "load" /\ pend.req \in Req /\ pend.runner \in Runner /\ Unanswered(pend.req)
    BY <1>5, <1>ty DEF PendLoaded, PendAt, PendOK, OwnerInv
  <2>2. req' = req /\ pendingCh' = pendingCh /\ pend' = IdlePend
    BY <1>5 DEF PendLoaded, channels
  <2> DEFINE keep == req[pend.req].call.keep
             new == [BlankRef EXCEPT !.req = pend.req, !.live = TRUE, !.mu = "loader", !.load = "wait",
                                     !.dur = IF keep = Unset THEN DefaultKeep ELSE keep]
  <2>3. new.req = pend.req
    BY DEF BlankRef
  <2>4. /\ ref'[pend.runner].req = pend.req
        /\ \A r \in Runner \ {pend.runner} : ref'[r].req = ref[r].req /\ ref'[r].load = ref[r].load
    <3>1. ref' = [x \in Runner |-> IF x = pend.runner THEN new
                                   ELSE IF x = loaded[PModel] THEN Unloaded(ref[x]) ELSE ref[x]]
      BY <1>5 DEF PendLoaded
    <3> HIDE DEF new
    <3> QED BY ZenonT(40), <1>ty, <2>1, <2>3, <3>1 DEF Unloaded, RefOK, RefType
  <2>5. pend'.pc = "idle" /\ pend'.req = NoReq
    BY <2>2 DEF IdlePend
  <2>6. \A i \in 1..Len(pendingCh) : pendingCh[i] # NoReq
    BY OwnersIn, ReqAssumption
  <2>7. \A r \in Runner : ref'[r].load = "wait" => Unanswered(ref[r].req)'
    BY <2>1, <2>2, <2>4 DEF OwnerInv, Unanswered
  <2>8. \A r \in Runner : ref'[r].load = "wait" =>
          /\ ref'[r].req # NoReq
          /\ \A i \in 1..Len(pendingCh) : pendingCh[i] # ref'[r].req
          /\ \A t \in Runner : ref'[t].load = "wait" /\ ref'[t].req = ref'[r].req => t = r
    BY <2>1, <2>4, OwnersIn, ReqAssumption DEF OwnerInv
  <2> QED BY <2>2, <2>5, <2>6, <2>7, <2>8 DEF OwnerInv, Unanswered
<1>6. CASE PendExit
  <2>1. PendKeeps
    BY <1>6 DEF PendExit, IdlePend, PendKeeps
  <2> QED BY <1>6, <1>kept, <2>1, OwnerFrame DEF PendExit, LoadersKeep, channels
<1>7. CASE \/ PendLook \/ PendCheck \/ PendFit \/ PendFree \/ PendSpawn \/ PendSpawnAgain
           \/ PendNeedEvict \/ PendFind \/ PendScan \/ PendExpire \/ PendSend \/ PendUnloaded
           \/ PendIgnore
  <2>1. req' = req /\ pendingCh' = pendingCh
    BY <1>7 DEF PendLook, PendCheck, PendFit, PendFree, PendSpawn, PendSpawnAgain, PendNeedEvict,
                PendFind, PendScan, PendExpire, PendSend, PendUnloaded, PendIgnore, channels
  <2>2. PendKeeps
    <3>1. CASE PendLook
      BY <1>ty, <3>1 DEF PendLook, PendAt, PendOK, PendType, PendKeeps
    <3>2. CASE PendCheck
      BY <1>ty, <3>2 DEF PendCheck, PendAt, PendOK, PendType, PendKeeps
    <3>3. CASE PendFit
      BY <1>ty, <3>3 DEF PendFit, PendAt, PendOK, PendType, PendKeeps
    <3>4. CASE PendFree
      BY <1>ty, <3>4 DEF PendFree, PendAt, PendOK, PendType, PendKeeps
    <3>5. CASE PendSpawn \/ PendSpawnAgain
      BY <1>ty, <3>5 DEF PendSpawn, PendSpawnAgain, PendAt, PendOK, PendType, PendKeeps
    <3>6. CASE PendNeedEvict
      BY <1>ty, <3>6 DEF PendNeedEvict, PendAt, PendOK, PendType, PendKeeps
    <3>7. CASE PendFind
      BY <1>ty, <3>7 DEF PendFind, PendAt, PendOK, PendType, PendKeeps
    <3>8. CASE PendScan
      BY <1>ty, <3>8 DEF PendScan, PendAt, PendOK, PendType, PendKeeps
    <3>9. CASE PendExpire \/ PendSend
      BY <1>ty, <3>9 DEF PendExpire, PendSend, PendAt, PendOK, PendType, PendKeeps
    <3>10. CASE PendUnloaded \/ PendIgnore
      BY <1>ty, <3>10 DEF PendUnloaded, PendIgnore, PendAt, PendOK, PendType, PendKeeps
    <3> QED BY <1>7, <3>1, <3>2, <3>3, <3>4, <3>5, <3>6, <3>7, <3>8, <3>9, <3>10
  <2>3. LoadersKeep
    <3>1. CASE PendNeedEvict
      BY <3>1 DEF PendNeedEvict, LoadersKeep
    <3>2. ~PendNeedEvict => ~PendLoaded
      BY <1>7 DEF PendLook, PendCheck, PendFit, PendFree, PendSpawn, PendSpawnAgain, PendFind, PendScan,
                  PendExpire, PendSend, PendUnloaded, PendIgnore, PendLoaded, PendAt
    <3> QED BY <1>ref, <3>1, <3>2
  <2> QED BY <1>kept, <2>1, <2>2, <2>3, OwnerFrame
<1> QED BY <1>1, <1>2, <1>3, <1>4, <1>5, <1>6, <1>7 DEF Pending

LEMMA OwnerRunner == ASSUME TypeOK, OwnerInv, NEW r \in Runner, RunnerStep(r) PROVE OwnerInv'
<1>ty. ReqOK /\ RefOK
  BY DEF TypeOK
<1>pend. pendingCh' = pendingCh /\ pend' = pend /\ PendKeeps
  BY DEF RunnerStep, LoaderReady, LoaderFails, LoaderSend, TimerFires, TimerLocks, TimerSend, Requeue,
         channels, PendKeeps
<1>ref. LoadersKeep
  <2>1. CASE RefStable
    BY <2>1 DEF RefStable, LoadersKeep
  <2>2. CASE CompOrphan \/ CompUnload
    <3>1. comp.runner \in Runner
      BY <2>2 DEF TypeOK, CompOK, CompOrphan, CompUnload, CompExpiredAt, CompAt
    <3> QED BY <1>ty, <2>2, <3>1, UnloadKeeps DEF CompOrphan, CompUnload
  <2>3. ~PendLoaded
    BY <1>pend DEF PendLoaded, IdlePend, PendAt
  <2> QED BY <2>1, <2>2, <2>3, RefFrame DEF Next
<1>1. CASE LoaderReady(r) \/ LoaderFails(r)
  <2>1. ref[r].load = "wait" /\ ref[r].req \in Req /\ Unanswered(ref[r].req)
    BY <1>1, OwnersIn DEF LoaderReady, LoaderFails, OwnerInv
  <2>2. req' = Refuse(ref[r].req) \/ req' = Grant(ref[r].req, r)
    BY <1>1 DEF LoaderReady, LoaderFails
  <2>3. /\ OthersKeep(ref[r].req)
        /\ req'[ref[r].req].answers = 1 /\ req'[ref[r].req].pc = "waiting"
    BY <1>ty, <2>1, <2>2, AnswerFacts DEF Unanswered
  <2>4. ref'[r].load # "wait"
    <3>1. CASE LoaderReady(r)
      BY <1>ty, <3>1 DEF LoaderReady, Ready, RefOK, RefType
    <3>2. CASE LoaderFails(r)
      BY <1>ty, <3>2 DEF LoaderFails, RefOK, RefType
    <3> QED BY <1>1, <3>1, <3>2
  <2>5. /\ pend'.req # ref[r].req
        /\ \A i \in 1..Len(pendingCh) : pendingCh[i] # ref[r].req
        /\ \A t \in Runner : ref'[t].load = "wait" => ref[t].req # ref[r].req
    BY <1>pend, <1>ref, <2>1, <2>4 DEF OwnerInv, LoadersKeep
  <2> QED BY <1>pend, <1>ref, <2>1, <2>3, <2>5, OwnerAnswers
<1>2. CASE ~(LoaderReady(r) \/ LoaderFails(r))
  <2>1. req' = req
    BY <1>2 DEF RunnerStep, LoaderSend, TimerFires, TimerLocks, TimerSend, Requeue
  <2> QED BY <1>pend, <1>ref, <2>1, OwnerFrame DEF Kept
<1> QED BY <1>1, <1>2

LEMMA OwnerOther ==
    ASSUME TypeOK, OwnerInv, Completed \/ Unloading \/ Stop \/ Resting \/ UNCHANGED vars
    PROVE  OwnerInv'
<1>1. req' = req /\ pendingCh' = pendingCh /\ pend' = pend
  <2>1. CASE Completed
    BY <2>1 DEF Completed, CompFinished, CompRelease, CompSend, CompTakeExpired, CompBusy, CompDuplicate,
                CompOrphan, CompUnload, CompRecovered, CompSendUnloaded, CompExit, channels
  <2>2. CASE Unloading \/ Stop \/ Resting \/ UNCHANGED vars
    BY <2>2 DEF Unloading, ExpireRunner, ExpireRunnerLock, ExpireRunnerSend, Stop, Shutdown,
                UnloadAllRunners, Exit, Resting, vars, channels
  <2> QED BY <2>1, <2>2
<1>2. LoadersKeep
  <2>1. CASE RefStable
    BY <2>1 DEF RefStable, LoadersKeep
  <2>2. CASE CompOrphan \/ CompUnload
    <3>1. comp.runner \in Runner /\ RefOK
      BY <2>2 DEF TypeOK, CompOK, CompOrphan, CompUnload, CompExpiredAt, CompAt
    <3> QED BY <2>2, <3>1, UnloadKeeps DEF CompOrphan, CompUnload
  <2>3. ~PendLoaded
    BY <1>1 DEF PendLoaded, IdlePend, PendAt
  <2> QED BY <2>1, <2>2, <2>3, RefFrame DEF Next
<1> QED BY <1>1, <1>2, OwnerFrame DEF Kept, PendKeeps

LEMMA NextO == ASSUME TypeOK, OwnerInv, [Next]_vars PROVE OwnerInv'
BY OwnerClient, OwnerPending, OwnerRunner, OwnerOther DEF Next

(* A request is answered at most once: at any time at most one goroutine   *)
(* may answer it (OwnerInv), although clients, processPending and the      *)
(* loaders of several runners all send answers.                            *)
THEOREM AnsweredAtMostOnce == Spec => []AnsweredOnce
<1>1. Init => TypeOK /\ OwnerInv
  BY InitT, InitO
<1>2. TypeOK /\ OwnerInv /\ [Next]_vars => (TypeOK /\ OwnerInv)'
  BY NextT, NextO
<1>3. OwnerInv => AnsweredOnce
  BY DEF OwnerInv, AnsweredOnce
<1> QED BY <1>1, <1>2, <1>3, PTL DEF Spec

-----------------------------------------------------------------------------
(* What is loaded *)

(* From the look at the map to the installation of the runner, the model   *)
(* of the pending request has no runner: nobody else installs any.  A      *)
(* subprocess is that of the model it was spawned for as long as it is in  *)
(* the map; the one that is being loaded is not in the map yet, and until  *)
(* the shutdown it is activeLoading.                                       *)
Loading == {"fit", "free", "spawn", "load"}

ActiveInv ==
    activeLoading # NoRunner =>
        /\ activeLoading <= spawned
        /\ srv[activeLoading].state # "none"
        /\ \A m \in Model : loaded[m] # activeLoading
LoadedInv ==
    \A m \in Model : loaded[m] # NoRunner =>
        /\ loaded[m] <= spawned
        /\ srv[loaded[m]].path = m
        /\ ~Stopping => srv[loaded[m]].state = "open"
        /\ ref[loaded[m]].live
PendingInv ==
    /\ pend.pc \in Loading => loaded[PModel] = NoRunner
    /\ pend.pc = "load" => /\ srv[pend.runner].path = PModel
                           /\ srv[pend.runner].state # "none"
                           /\ pend.runner <= spawned
                           /\ ~Stopping => pend.runner = activeLoading
LoadInv == ActiveInv /\ LoadedInv /\ PendingInv /\ NoLeak

LEMMA InitL == Init => LoadInv
BY DEF Init, LoadInv, ActiveInv, LoadedInv, PendingInv, NoLeak, IdlePend, Loading, NoRunner, LoadedRunners

(* A request that left GetRunner keeps its arguments. *)
CallsKeep == \A q \in Req : req[q].pc = "waiting" => req'[q].call = req[q].call

LEMMA CallFrame == ASSUME TypeOK, [Next]_vars PROVE CallsKeep
<1>ty. ReqOK /\ PendOK
  BY DEF TypeOK
<1>same. ASSUME req' = req PROVE CallsKeep
  BY <1>same DEF CallsKeep
<1>ans. ASSUME NEW q, NEW v,
               \/ req' = Refuse(q)
               \/ req' = Grant(q, v)
               \/ req' = [req EXCEPT ![q] = [Answered(@, Failed) EXCEPT !.pc = "waiting"]]
        PROVE  CallsKeep
  <2>1. CASE req' = Refuse(q)
    BY <1>ty, <2>1 DEF Refuse, Answered, ReqOK, RequestType, CallsKeep
  <2>2. CASE req' = Grant(q, v)
    BY <1>ty, <2>2 DEF Grant, Answered, ReqOK, RequestType, CallsKeep
  <2>3. CASE req' = [req EXCEPT ![q] = [Answered(@, Failed) EXCEPT !.pc = "waiting"]]
    BY <1>ty, <2>3 DEF Answered, ReqOK, RequestType, CallsKeep
  <2> QED BY <1>ans, <2>1, <2>2, <2>3
<1>1. ASSUME NEW q \in Req, Client(q) PROVE CallsKeep
  <2>1. CASE GetRunner(q)
    <3>1. PICK rec : req' = [req EXCEPT ![q] = rec]
      BY <2>1 DEF GetRunner
    <3> QED BY <1>ty, <2>1, <3>1 DEF GetRunner, ClientAt, ReqOK, CallsKeep
  <2>2. CASE GetRunnerCheck(q)
    <3>1. PICK b : req' = [req EXCEPT ![q].pc = b]
      BY <2>2 DEF GetRunnerCheck
    <3> QED BY <1>ty, <3>1 DEF ReqOK, RequestType, CallsKeep
  <2>3. CASE GetRunnerUse(q)
    BY <1>ans, <2>3 DEF GetRunnerUse, UseLoadedRunner
  <2>4. CASE GetRunnerEnqueue(q)
    <3>1. CASE req' = [req EXCEPT ![q].pc = "waiting"]
      BY <1>ty, <3>1 DEF ReqOK, RequestType, CallsKeep
    <3> QED BY <1>ans, <2>4, <3>1 DEF GetRunnerEnqueue
  <2>5. CASE ContextDone(q) \/ Finished(q)
    BY <1>ty, <2>5 DEF ContextDone, Finished, ReqOK, RequestType, CallsKeep
  <2> QED BY <1>1, <2>1, <2>2, <2>3, <2>4, <2>5 DEF Client
<1>2. CASE Pending
  <2>1. CASE PendUse
    BY <1>ans, <2>1 DEF PendUse, UseLoadedRunner
  <2>2. CASE PendFitFails \/ PendSpawnFails \/ PendLoadFails
    BY <1>ans, <1>same, <2>2 DEF PendFitFails, PendSpawnFails, PendLoadFails
  <2> QED BY <1>2, <1>same, <2>1, <2>2
          DEF Pending, PendTake, PendLook, PendCheck, PendFit, PendFree, PendSpawn, PendSpawnAgain,
              PendLoaded, PendNeedEvict, PendFind, PendScan, PendExpire, PendSend, PendUnloaded,
              PendIgnore, PendExit
<1>3. ASSUME NEW r \in Runner, RunnerStep(r) PROVE CallsKeep
  BY <1>3, <1>ans, <1>same DEF RunnerStep, LoaderReady, LoaderFails, LoaderSend, TimerFires, TimerLocks,
                               TimerSend, Requeue
<1>4. CASE Completed
  BY <1>4, <1>same
     DEF Completed, CompFinished, CompRelease, CompSend, CompTakeExpired, CompBusy, CompDuplicate,
         CompOrphan, CompUnload, CompRecovered, CompSendUnloaded, CompExit
<1>5. CASE Unloading \/ Stop \/ Resting \/ UNCHANGED vars
  BY <1>5, <1>same
     DEF Unloading, ExpireRunner, ExpireRunnerLock, ExpireRunnerSend, Stop, Shutdown,
         UnloadAllRunners, Exit, Resting, vars
<1> QED BY <1>1, <1>2, <1>3, <1>4, <1>5 DEF Next

(* The request of processPending stays the one it looked up. *)
LEMMA PModelFrame ==
    ASSUME TypeOK, OwnerInv, [Next]_vars, pend.pc \notin {"idle", "exit"}, pend'.req = pend.req
    PROVE  PModel' = PModel
<1>1. pend.req \in Req /\ req[pend.req].pc = "waiting"
  BY DEF TypeOK, PendOK, OwnerInv, Unanswered
<1> QED BY <1>1, CallFrame DEF CallsKeep, PModel

(* Steps that leave the maps alone *)
PendMoves ==
    \/ pend'.pc \notin Loading
    \/ /\ pend.pc \in Loading /\ pend'.req = pend.req /\ pend'.runner = pend.runner
       /\ pend'.pc = "load" => pend.pc = "load"

LEMMA LoadFrame ==
    ASSUME TypeOK, OwnerInv, LoadInv, [Next]_vars, UNCHANGED maps, RefStable, PendMoves,
           Stopping => Stopping'
    PROVE  LoadInv'
<1>maps. UNCHANGED <<srv, spawned, loaded, activeLoading>>
  BY DEF maps
<1>1. ActiveInv'
  BY <1>maps DEF LoadInv, ActiveInv
<1>2. LoadedInv'
  BY <1>maps DEF LoadInv, LoadedInv, RefStable, TypeOK, MapsOK, RefOrNone
<1>3. PendingInv'
  <2>1. CASE pend'.pc \in Loading
    <3>1. /\ pend.pc \in Loading /\ pend'.req = pend.req /\ pend'.runner = pend.runner
          /\ pend'.pc = "load" => pend.pc = "load"
      BY <2>1 DEF PendMoves
    <3>2. PModel' = PModel
      BY <3>1, PModelFrame DEF Loading
    <3> QED BY <1>maps, <3>1, <3>2 DEF LoadInv, PendingInv
  <2> QED BY <2>1 DEF PendingInv, Loading
<1>4. NoLeak'
  BY <1>maps DEF LoadInv, NoLeak, LoadedRunners
<1> QED BY <1>1, <1>2, <1>3, <1>4 DEF LoadInv

(* The steps of processPending that change what is loaded or being loaded *)
LEMMA LoadPending == ASSUME TypeOK, OwnerInv, LoadInv, Pending PROVE LoadInv'
<1>ty. RefOK /\ MapsOK /\ PendOK
  BY DEF TypeOK
<1>next. [Next]_vars
  BY DEF Next
<1>inv. ActiveInv /\ LoadedInv /\ PendingInv /\ NoLeak
  BY DEF LoadInv
<1>stable. ASSUME UNCHANGED ref PROVE RefStable
  BY <1>stable DEF RefStable
<1>1. CASE PendSpawn
  <2>1. /\ pend.pc = "spawn" /\ activeLoading = NoRunner /\ spawned' = spawned + 1
        /\ srv' = [srv EXCEPT ![spawned + 1] = [state |-> "open", path |-> PModel]]
        /\ activeLoading' = spawned + 1
        /\ pend' = [pend EXCEPT !.pc = "load", !.runner = spawned + 1]
        /\ UNCHANGED <<ref, loaded, life>>
    BY <1>1 DEF PendSpawn, PendAt
  <2>2. spawned \in Nat /\ spawned + 1 \in Runner /\ spawned + 1 # NoRunner
    BY <1>ty, <1>1, BoundAssumption DEF PendSpawn, MapsOK, Runner, NoRunner
  <2>3. /\ srv'[spawned + 1].state = "open" /\ srv'[spawned + 1].path = PModel
        /\ \A r \in Runner \ {spawned + 1} : srv'[r] = srv[r]
    BY <1>ty, <2>1, <2>2 DEF MapsOK
  <2>4. pend'.pc = "load" /\ pend'.runner = spawned + 1 /\ pend'.req = pend.req
    BY <1>ty, <2>1 DEF PendOK, PendType
  <2>5. PModel' = PModel
    BY <1>next, <2>1, <2>4, PModelFrame
  <2>6. \A m \in Model : loaded[m] # NoRunner => loaded[m] \in Runner /\ loaded[m] <= spawned
    BY <1>ty, <1>inv DEF MapsOK, RefOrNone, LoadedInv
  <2>7. \A m \in Model : loaded[m] # spawned + 1
    BY <2>2, <2>6 DEF NoRunner, Runner
  <2>8. ActiveInv'
    BY <2>1, <2>2, <2>3, <2>7 DEF ActiveInv
  <2>9. LoadedInv'
    <3>1. \A m \in Model : loaded[m] # NoRunner => srv'[loaded[m]] = srv[loaded[m]] /\ loaded[m] <= spawned + 1
      BY <2>2, <2>3, <2>6, <2>7 DEF Runner
    <3> QED BY <1>inv, <2>1, <3>1 DEF LoadedInv, Stopping
  <2>10. PendingInv'
    BY <1>inv, <2>1, <2>2, <2>3, <2>4, <2>5 DEF PendingInv, Loading
  <2>11. NoLeak'
    <3>1. NoRunner \notin Runner
      BY DEF NoRunner, Runner
    <3> QED BY <1>inv, <2>1, <2>3, <3>1 DEF NoLeak, LoadedRunners, Stopping
  <2> QED BY <2>8, <2>9, <2>10, <2>11 DEF LoadInv
<1>2. CASE PendSpawnAgain
  <2>1. UNCHANGED maps /\ pend.pc = "spawn" /\ activeLoading # NoRunner /\ RefStable
    BY <1>2, <1>stable DEF PendSpawnAgain, PendAt
  <2>2. CASE srv[activeLoading].path = PModel /\ UNCHANGED life
    <3>1. pend' = [pend EXCEPT !.pc = "load", !.runner = activeLoading]
      BY <1>2, <2>2 DEF PendSpawnAgain
    <3>2. pend'.pc = "load" /\ pend'.runner = activeLoading /\ pend'.req = pend.req
      BY <1>ty, <3>1 DEF PendOK, PendType
    <3>3. PModel' = PModel
      BY <1>next, <2>1, <3>2, PModelFrame
    <3>4. PendingInv'
      BY <1>inv, <2>1, <2>2, <3>2, <3>3 DEF PendingInv, ActiveInv, maps, Loading
    <3>5. ActiveInv' /\ NoLeak'
      BY <1>inv, <2>1, <2>2 DEF ActiveInv, NoLeak, LoadedRunners, Stopping, maps
    <3>6. LoadedInv'
      BY <1>ty, <1>inv, <2>1, <2>2 DEF LoadedInv, Stopping, maps, RefStable, MapsOK, RefOrNone
    <3> QED BY <3>4, <3>5, <3>6 DEF LoadInv
  <2>3. CASE life' = "panicked" /\ UNCHANGED pend
    BY <1>next, <2>1, <2>3, LoadFrame DEF PendMoves, Loading, Stopping
  <2> QED BY <1>2, <2>2, <2>3 DEF PendSpawnAgain
<1>3. CASE PendLoaded
  <2>1. /\ pend.pc = "load" /\ "ok" \in LoadResults /\ activeLoading' = NoRunner
        /\ pend' = IdlePend /\ UNCHANGED <<req, spawned, life>>
    BY <1>3 DEF PendLoaded, PendAt
  <2>2. /\ pend.runner \in Runner /\ pend.req \in Req /\ PModel \in Model
        /\ loaded[PModel] = NoRunner
        /\ srv[pend.runner].path = PModel /\ srv[pend.runner].state = "open"
        /\ pend.runner <= spawned
        /\ ~Stopping => pend.runner = activeLoading
    <3>1. pend.runner \in Runner /\ pend.req \in Req
      BY <1>ty, <2>1 DEF PendOK
    <3>2. PModel \in Model
      BY <3>1 DEF TypeOK, ReqOK, RequestType, CallType, PModel
    <3>3. srv[pend.runner].state # "closed"
      BY <2>1 DEF LoadResults
    <3>4. srv[pend.runner].state \in {"none", "open", "closed"}
      BY <1>ty, <3>1 DEF MapsOK
    <3> QED BY <1>inv, <2>1, <3>1, <3>2, <3>3, <3>4 DEF PendingInv, Loading
  <2>3. srv' = srv /\ loaded' = [loaded EXCEPT ![PModel] = pend.runner]
    <3>1. srv' = [x \in Runner |-> IF x = NoRunner THEN [srv[x] EXCEPT !.state = "closed"] ELSE srv[x]]
      BY <1>3, <2>2 DEF PendLoaded
    <3>2. NoRunner \notin Runner
      BY DEF NoRunner, Runner
    <3> QED BY <1>3, <1>ty, <3>1, <3>2 DEF PendLoaded, MapsOK
  <2> DEFINE keep == req[pend.req].call.keep
             new == [BlankRef EXCEPT !.req = pend.req, !.live = TRUE, !.mu = "loader", !.load = "wait",
                                     !.dur = IF keep = Unset THEN DefaultKeep ELSE keep]
  <2>4. new.live = TRUE
    BY DEF BlankRef
  <2>5. /\ ref'[pend.runner].live
        /\ \A r \in Runner \ {pend.runner} : ref'[r] = ref[r]
    <3>1. ref' = [x \in Runner |-> IF x = pend.runner THEN new
                                   ELSE IF x = NoRunner THEN Unloaded(ref[x]) ELSE ref[x]]
      BY <1>3, <2>2 DEF PendLoaded
    <3>2. NoRunner \notin Runner
      BY DEF NoRunner, Runner
    <3> HIDE DEF new
    <3> QED BY <1>ty, <2>2, <2>4, <3>1, <3>2 DEF RefOK
  <2>6. /\ loaded'[PModel] = pend.runner
        /\ \A m \in Model \ {PModel} : loaded'[m] = loaded[m]
    BY <1>ty, <2>2, <2>3 DEF MapsOK
  <2>7. LoadedInv'
    <3>1. ASSUME NEW m \in Model, loaded'[m] # NoRunner
          PROVE  /\ loaded'[m] <= spawned /\ srv[loaded'[m]].path = m
                 /\ ~Stopping => srv[loaded'[m]].state = "open"
                 /\ ref'[loaded'[m]].live
      <4>1. CASE m = PModel
        BY <2>2, <2>5, <2>6, <4>1
      <4>2. CASE m # PModel
        <5>1. loaded'[m] = loaded[m] /\ loaded[m] \in Runner
          BY <1>ty, <2>6, <3>1, <4>2 DEF MapsOK, RefOrNone
        <5>2. loaded[m] # pend.runner
          BY <1>inv, <2>2, <3>1, <4>2, <5>1 DEF LoadedInv
        <5> QED BY <1>inv, <2>5, <3>1, <5>1, <5>2 DEF LoadedInv
      <4> QED BY <4>1, <4>2
    <3> QED BY <2>1, <2>3, <3>1 DEF LoadedInv, Stopping
  <2>8. ActiveInv' /\ PendingInv'
    BY <2>1 DEF ActiveInv, PendingInv, IdlePend, Loading
  <2>9. NoLeak'
    <3>1. ASSUME ~Stopping, NEW r \in Runner, srv[r].state = "open" PROVE \E m \in Model : loaded'[m] = r
      <4>1. CASE r = pend.runner
        BY <2>2, <2>6, <4>1
      <4>2. CASE r # pend.runner
        <5>1. r \in LoadedRunners
          BY <1>inv, <2>2, <3>1, <4>2 DEF NoLeak
        <5> QED BY <2>2, <2>6, <5>1 DEF LoadedRunners
      <4> QED BY <4>1, <4>2
    <3>2. NoRunner \notin Runner
      BY DEF NoRunner, Runner
    <3> QED BY <2>1, <2>3, <3>1, <3>2 DEF NoLeak, LoadedRunners, Stopping
  <2> QED BY <2>7, <2>8, <2>9 DEF LoadInv
<1>4. CASE PendLoadFails
  <2>1. CASE activeLoading = NoRunner
    BY <1>4, <1>next, <1>stable, <2>1, LoadFrame DEF PendLoadFails, PendMoves, PendAt, Loading, Stopping, maps
  <2>2. CASE activeLoading # NoRunner
    <3>1. /\ srv' = [srv EXCEPT ![activeLoading].state = "closed"]
          /\ activeLoading' = NoRunner /\ pend' = IdlePend
          /\ UNCHANGED <<ref, spawned, loaded, life>>
      BY <1>4, <2>2 DEF PendLoadFails
    <3>2. /\ srv'[activeLoading].state = "closed"
          /\ \A r \in Runner \ {activeLoading} : srv'[r] = srv[r]
      BY <1>ty, <2>2, <3>1 DEF MapsOK, RefOrNone
    <3>3. ActiveInv' /\ PendingInv'
      BY <3>1 DEF ActiveInv, PendingInv, IdlePend, Loading
    <3>4. \A m \in Model : loaded[m] # NoRunner => loaded[m] \in Runner \ {activeLoading}
      BY <1>ty, <1>inv, <2>2 DEF ActiveInv, MapsOK, RefOrNone
    <3>5. LoadedInv'
      BY <1>inv, <3>1, <3>2, <3>4 DEF LoadedInv, Stopping
    <3>6. NoLeak'
      BY <1>inv, <3>1, <3>2 DEF NoLeak, LoadedRunners, Stopping
    <3> QED BY <3>3, <3>5, <3>6 DEF LoadInv
  <2> QED BY <2>1, <2>2
<1>5. CASE PendLook
  <2>1. UNCHANGED <<ref, maps, life>> /\ pend.pc = "look"
    BY <1>5 DEF PendLook, PendAt
  <2>2. /\ pend'.req = pend.req /\ pend'.pc \in {"check", "find", "fit"}
        /\ pend'.pc = "fit" => loaded[PModel] = NoRunner
    BY <1>5, <1>ty DEF PendLook, PendOK, PendType
  <2>3. PModel' = PModel
    BY <1>next, <2>1, <2>2, PModelFrame
  <2>4. PendingInv'
    BY <2>1, <2>2, <2>3 DEF PendingInv, Loading, maps
  <2>5. ActiveInv' /\ NoLeak' /\ LoadedInv'
    BY <1>inv, <2>1 DEF ActiveInv, NoLeak, LoadedInv, LoadedRunners, Stopping, maps
  <2> QED BY <2>4, <2>5 DEF LoadInv
<1>6. CASE \/ PendTake \/ PendCheck \/ PendUse \/ PendFit \/ PendFitFails \/ PendFree \/ PendSpawnFails
           \/ PendNeedEvict \/ PendFind \/ PendScan \/ PendExpire \/ PendSend \/ PendUnloaded
           \/ PendIgnore \/ PendExit
  <2>1. UNCHANGED <<maps, life>>
    BY <1>6 DEF PendTake, PendCheck, PendUse, PendFit, PendFitFails, PendFree, PendSpawnFails,
                PendNeedEvict, PendFind, PendScan, PendExpire, PendSend, PendUnloaded, PendIgnore, PendExit
  <2>2. PendMoves
    <3>1. CASE PendTake \/ PendIgnore
      BY <1>ty, <3>1 DEF PendTake, PendIgnore, PendAt, PendOK, PendType, PendMoves, Loading
    <3>2. CASE PendCheck \/ PendExpire \/ PendSend \/ PendUnloaded
      BY <1>ty, <3>2 DEF PendCheck, PendExpire, PendSend, PendUnloaded, PendOK, PendType, PendMoves, Loading
    <3>3. CASE PendUse \/ PendFitFails \/ PendSpawnFails \/ PendExit
      BY <3>3 DEF PendUse, PendFitFails, PendSpawnFails, PendExit, IdlePend, PendMoves, Loading
    <3>4. CASE PendFit
      BY <1>ty, <3>4 DEF PendFit, PendAt, PendOK, PendType, PendMoves, Loading
    <3>5. CASE PendFree
      BY <1>ty, <3>5 DEF PendFree, PendAt, PendOK, PendType, PendMoves, Loading
    <3>6. CASE PendNeedEvict \/ PendFind
      BY <1>ty, <3>6 DEF PendNeedEvict, PendFind, PendOK, PendType, PendMoves, Loading
    <3>7. CASE PendScan
      BY <1>ty, <3>7 DEF PendScan, PendAt, PendOK, PendType, PendMoves, Loading
    <3> QED BY <1>6, <3>1, <3>2, <3>3, <3>4, <3>5, <3>6, <3>7
  <2>3. RefStable
    <3>1. CASE PendNeedEvict
      BY <1>stable, <3>1 DEF PendNeedEvict
    <3>2. ~PendNeedEvict => ~PendLoaded
      BY <1>6 DEF PendTake, PendCheck, PendUse, PendFit, PendFitFails, PendFree, PendSpawnFails, PendFind,
                  PendScan, PendExpire, PendSend, PendUnloaded, PendIgnore, PendExit, PendLoaded, PendAt
    <3> QED BY <3>1, <3>2, RefPending
  <2> QED BY <1>next, <2>1, <2>2, <2>3, LoadFrame DEF Stopping
<1> QED BY <1>1, <1>2, <1>3, <1>4, <1>5, <1>6 DEF Pending

(* The steps of the other goroutines *)
LEMMA LoadCompleted == ASSUME TypeOK, OwnerInv, LoadInv, CompOrphan \/ CompUnload PROVE LoadInv'
<1>ty. RefOK /\ MapsOK /\ comp.runner \in Runner
  BY DEF TypeOK, CompOK, CompOrphan, CompUnload, CompExpiredAt, CompAt
<1>inv. ActiveInv /\ LoadedInv /\ PendingInv /\ NoLeak
  BY DEF LoadInv
<1>1. srv' = Close(comp.runner) /\ UNCHANGED <<req, spawned, activeLoading, pend, life>>
  BY DEF CompOrphan, CompUnload
<1>2. /\ srv'[comp.runner].state = "closed" /\ srv'[comp.runner].path = srv[comp.runner].path
      /\ \A r \in Runner \ {comp.runner} : srv'[r] = srv[r]
  BY <1>ty, <1>1 DEF Close, MapsOK
<1>3. \A r \in Runner \ {comp.runner} : ref'[r] = ref[r]
  BY <1>ty, UnloadKeeps DEF CompOrphan, CompUnload
<1>4. \A m \in Model : loaded'[m] # comp.runner /\ loaded'[m] \in {NoRunner, loaded[m]}
  <2>1. \A m \in Model : loaded[m] = comp.runner => srv[comp.runner].path = m
    BY <1>ty, <1>inv DEF LoadedInv, Runner, NoRunner
  <2>2. CASE CompOrphan
    BY <2>1, <2>2 DEF CompOrphan, CompTarget
  <2>3. CASE CompUnload
    BY <1>ty, <2>1, <2>3 DEF CompUnload, MapsOK, Runner, NoRunner
  <2> QED BY <2>2, <2>3
<1>5. \A m \in Model : loaded[m] \notin {NoRunner, comp.runner} => loaded'[m] = loaded[m]
  <2>1. CASE CompOrphan
    BY <2>1 DEF CompOrphan
  <2>2. CASE CompUnload
    BY <1>ty, <2>2 DEF CompUnload, CompTarget, MapsOK
  <2> QED BY <2>1, <2>2
<1>6. \A m \in Model : loaded'[m] # NoRunner => loaded'[m] = loaded[m] /\ loaded[m] \in Runner \ {comp.runner}
  BY <1>ty, <1>4 DEF MapsOK, RefOrNone
<1>7. LoadedInv'
  BY <1>inv, <1>1, <1>2, <1>3, <1>6 DEF LoadedInv, Stopping
<1>8. ActiveInv'
  <2>1. activeLoading # NoRunner => srv'[activeLoading].state # "none"
    BY <1>ty, <1>inv, <1>2 DEF ActiveInv, MapsOK, RefOrNone
  <2> QED BY <1>inv, <1>1, <1>4, <2>1 DEF ActiveInv
<1>9. PendingInv'
  <2>1. pend.pc \in Loading => PModel \in Model
    BY DEF TypeOK, PendOK, ReqOK, RequestType, CallType, PModel, Loading
  <2>2. PModel' = PModel
    BY <1>1 DEF PModel
  <2>3. pend.pc \in Loading => loaded'[PModel] = NoRunner
    BY <1>inv, <1>4, <2>1 DEF PendingInv
  <2>4. pend.pc = "load" => srv'[pend.runner].path = srv[pend.runner].path /\ srv'[pend.runner].state # "none"
    BY <1>inv, <1>2 DEF PendingInv, TypeOK, PendOK
  <2> QED BY <1>inv, <1>1, <2>2, <2>3, <2>4 DEF PendingInv, Stopping
<1>10. NoLeak'
  BY <1>inv, <1>1, <1>2, <1>5 DEF NoLeak, LoadedRunners, Stopping
<1> QED BY <1>7, <1>8, <1>9, <1>10 DEF LoadInv

LEMMA LoadStop == ASSUME TypeOK, OwnerInv, LoadInv, UnloadAllRunners PROVE LoadInv'
<1>ty. MapsOK
  BY DEF TypeOK
<1>inv. LoadedInv /\ PendingInv
  BY DEF LoadInv
<1>1. /\ life' = "unloaded" /\ activeLoading' = NoRunner
      /\ UNCHANGED <<req, ref, spawned, loaded, pend>>
      /\ Stopping'
  BY DEF UnloadAllRunners, Stopping
<1>2. \A r \in Runner : srv'[r].path = srv[r].path /\ srv'[r].state \in {srv[r].state, "closed"}
  BY <1>ty DEF UnloadAllRunners, MapsOK
<1>3. \A m \in Model : loaded[m] # NoRunner => srv'[loaded[m]].path = srv[loaded[m]].path
  BY <1>ty, <1>2 DEF MapsOK, RefOrNone
<1>4. PModel' = PModel
  BY <1>1 DEF PModel
<1>5. pend.pc = "load" => srv'[pend.runner].path = srv[pend.runner].path /\ srv'[pend.runner].state # "none"
  BY <1>inv, <1>2 DEF PendingInv, TypeOK, PendOK
<1>6. LoadedInv'
  BY <1>inv, <1>1, <1>3 DEF LoadedInv
<1>7. PendingInv'
  BY <1>inv, <1>1, <1>4, <1>5 DEF PendingInv
<1>8. ActiveInv' /\ NoLeak'
  BY <1>1 DEF ActiveInv, NoLeak
<1> QED BY <1>6, <1>7, <1>8 DEF LoadInv

LEMMA NextL == ASSUME TypeOK, OwnerInv, LoadInv, [Next]_vars PROVE LoadInv'
<1>1. CASE Pending
  BY <1>1, LoadPending
<1>2. CASE CompOrphan \/ CompUnload
  BY <1>2, LoadCompleted
<1>3. CASE UnloadAllRunners
  BY <1>3, LoadStop
<1>4. CASE ~Pending /\ ~CompOrphan /\ ~CompUnload /\ ~UnloadAllRunners
  <2>1. RefStable
    BY <1>4, RefFrame DEF Pending
  <2>2. UNCHANGED <<maps, pend>> /\ (Stopping => Stopping')
    <3>1. ASSUME NEW q \in Req, Client(q) PROVE UNCHANGED <<maps, pend, life>>
      BY <3>1 DEF Client, GetRunner, GetRunnerCheck, GetRunnerUse, GetRunnerEnqueue, ContextDone, Finished
    <3>2. ASSUME NEW r \in Runner, RunnerStep(r) PROVE UNCHANGED <<maps, pend, life>>
      BY <3>2 DEF RunnerStep, LoaderReady, LoaderFails, LoaderSend, TimerFires, TimerLocks, TimerSend, Requeue
    <3>3. CASE Completed
      BY <1>4, <3>3 DEF Completed, CompFinished, CompRelease, CompSend, CompTakeExpired, CompBusy,
                CompDuplicate, CompRecovered, CompSendUnloaded, CompExit, Stopping
    <3>4. CASE Unloading \/ Resting \/ UNCHANGED vars
      BY <3>4 DEF Unloading, ExpireRunner, ExpireRunnerLock, ExpireRunnerSend, Resting, vars, Stopping
    <3>5. CASE Stop
      BY <1>4, <3>5 DEF Stop, Shutdown, Exit, Stopping
    <3> QED BY <1>4, <3>1, <3>2, <3>3, <3>4, <3>5 DEF Next, Stopping
  <2>3. PendMoves
    BY <2>2 DEF PendMoves
  <2> QED BY <2>1, <2>2, <2>3, LoadFrame
<1> QED BY <1>1, <1>2, <1>3, <1>4

SchedInv == TypeOK /\ OwnerInv /\ LoadInv

LEMMA SchedInvariant == Spec => []SchedInv
<1>1. Init => SchedInv
  BY InitT, InitO, InitL DEF SchedInv
<1>2. SchedInv /\ [Next]_vars => SchedInv'
  BY NextT, NextO, NextL DEF SchedInv
<1> QED BY <1>1, <1>2, PTL DEF Spec

(* Until the shutdown every runner in the map is that of its model, up and *)
(* with its options set: an orphan's expiry, a failed load and an eviction *)
(* only take their own runner down.                                        *)
THEOREM LoadedRunnersAreUp == Spec => []LoadedIsUp
<1>1. SchedInv => LoadedIsUp
  <2>1. ASSUME MapsOK, NEW m \in Model, loaded[m] # NoRunner,
               srv[loaded[m]].path = m, srv[loaded[m]].state = "open"
        PROVE  srv[loaded[m]] = [state |-> "open", path |-> m]
    BY <2>1 DEF MapsOK, RefOrNone
  <2> QED BY <2>1 DEF SchedInv, TypeOK, LoadInv, LoadedInv, LoadedIsUp
<1> QED BY <1>1, SchedInvariant, PTL

(* Until the shutdown no subprocess is lost: each one that is up is in the *)
(* map or is the one that is being loaded.                                 *)
THEOREM NoSubprocessLeaks == Spec => []NoLeak
<1>1. SchedInv => NoLeak
  BY DEF SchedInv, LoadInv
<1> QED BY <1>1, SchedInvariant, PTL

(* load never finds a runner in the place where it installs its own: "model *)
(* was still loaded" is dead code.                                          *)
THEOREM NeverOverwrites == Spec => NoOverwrite
<1> DEFINE Step == \A m \in Model : loaded[m] # NoRunner => loaded'[m] \in {NoRunner, loaded[m]}
<1>1. SchedInv /\ [Next]_vars => [Step]_vars
  <2> SUFFICES ASSUME SchedInv, Next PROVE Step
    BY DEF vars, maps
  <2>1. MapsOK
    BY DEF SchedInv, TypeOK
  <2>2. CASE PendLoaded
    <3>1. loaded[PModel] = NoRunner /\ loaded' = [loaded EXCEPT ![PModel] = pend.runner]
      BY <2>2 DEF SchedInv, LoadInv, PendingInv, Loading, PendLoaded, PendAt
    <3> QED BY <2>1, <3>1 DEF MapsOK
  <2>3. CASE CompUnload
    BY <2>1, <2>3 DEF CompUnload, MapsOK
  <2>4. CASE ~PendLoaded /\ ~CompUnload
    <3>1. ASSUME NEW q \in Req, Client(q) PROVE loaded' = loaded
      BY <3>1 DEF Client, GetRunner, GetRunnerCheck, GetRunnerUse, GetRunnerEnqueue, ContextDone, Finished, maps
    <3>2. ASSUME NEW r \in Runner, RunnerStep(r) PROVE loaded' = loaded
      BY <3>2 DEF RunnerStep, LoaderReady, LoaderFails, LoaderSend, TimerFires, TimerLocks, TimerSend,
                  Requeue, maps
    <3>3. CASE Pending
      BY <2>4, <3>3 DEF Pending, PendTake, PendLook, PendCheck, PendUse, PendFit, PendFitFails, PendFree,
                PendSpawn, PendSpawnFails, PendSpawnAgain, PendNeedEvict, PendLoadFails, PendFind,
                PendScan, PendExpire, PendSend, PendUnloaded, PendIgnore, PendExit, maps
    <3>4. CASE Completed
      BY <2>4, <3>4 DEF Completed, CompFinished, CompRelease, CompSend, CompTakeExpired, CompBusy,
                CompDuplicate, CompOrphan, CompRecovered, CompSendUnloaded, CompExit, maps
    <3>5. CASE Unloading \/ Resting \/ Stop
      BY <3>5 DEF Unloading, ExpireRunner, ExpireRunnerLock, ExpireRunnerSend, Resting, vars, maps,
                  Stop, Shutdown, UnloadAllRunners, Exit
    <3> QED BY <3>1, <3>2, <3>3, <3>4, <3>5 DEF Next
  <2> QED BY <2>2, <2>3, <2>4
<1> QED BY <1>1, SchedInvariant, PTL DEF Spec, NoOverwrite

=============================================================================
