--------------------------------- MODULE Pull ---------------------------------
(***************************************************************************)
(* Pulling models (PullModel in server/images.go) through the downloads    *)
(* that pulls share (server/download.go).  A download is an object in      *)
(* blobDownloadManager: the pull that stored it prepares it, a goroutine   *)
(* runs it, and any pull may join and wait.  Its progress is kept in files *)
(* beside the blob, so that it survives a cancelled pull or a crash.       *)
(*                                                                         *)
(* A blob consists of NParts parts of Size units.  The registry sends the  *)
(* right bytes or fails; a manifest is the set of its blobs.               *)
(***************************************************************************)
EXTENDS Integers, Sequences, FiniteSets, FiniteSetsExt

CONSTANTS Pulls, ModelOf,    \* the pulls, each of one model
          Registry,          \* per model: the layers of its manifest there, in order
          Blobs,
          Had,               \* per model: the blobs of its manifest on disk at first, {} for none
          NParts, Size,      \* a blob's parts, and the units of a part
          Writes,            \* whether a write to the disk succeeds: a set of Booleans
          NoPrune,           \* OLLAMA_NOPRUNE
          MaxTries, MaxCrashes,  \* bounds: pulls of one client, and crashes
          None

Models == DOMAIN Registry
PartIds == 0 .. NParts - 1
NoFile == -1                        \* for a part file, beside its Completed
Empty == -2                         \* a part file that was not written
Obj == Pulls \X (1 .. MaxTries)     \* the download that a pull's n-th try has stored

VARIABLES disk,     \* blob: "none", "whole" or "short" under its final name;
                    \* file: per part the units in the -partial file; part: the
                    \* part files; man: the manifests, corrupt or not, {} for none
          pull,     \* per pull: pc, layer i, cache hits, deleteMap, the download waited for
          gone,     \* the pulls whose client has cancelled
          mgr,      \* blobDownloadManager: per blob its download or None
          obj,      \* the downloads
          crashes

vars == <<disk, pull, gone, mgr, obj, crashes>>

Idle == [st |-> "ended", blob |-> None, comp |-> << >>, next |-> 0, cancelled |-> FALSE]
NoWait == [of |-> None, res |-> "live"]
Fresh == [pc |-> "new", i |-> 1, hit |-> {}, del |-> {}, on |-> NoWait, try |-> 1]

Init ==
    /\ disk = [blob |-> [d \in Blobs |-> IF \E m \in Models : d \in Had[m] THEN "whole" ELSE "none"],
               file |-> [d \in Blobs |-> [n \in PartIds |-> 0]],
               part |-> [d \in Blobs |-> [n \in PartIds |-> NoFile]],
               man |-> [m \in Models |-> [bad |-> FALSE, of |-> Had[m]]]]
    /\ pull = [p \in Pulls |-> Fresh]
    /\ gone = {} /\ crashes = 0
    /\ mgr = [d \in Blobs |-> None]
    /\ obj = [o \in Obj |-> Idle]

Layers(p) == Registry[ModelOf[p]]
Layer(p) == Layers(p)[pull[p].i]
Me(p) == <<p, pull[p].try>>
Goto(p, pc) == pull' = [pull EXCEPT ![p].pc = pc]
Ended(p) == [pull[p] EXCEPT !.pc = "ended", !.on = NoWait]
Advance(r, n) == IF r.i < n THEN [r EXCEPT !.i = @ + 1, !.pc = "stat", !.on = NoWait]
                            ELSE [r EXCEPT !.i = 1, !.pc = "verify", !.on = NoWait]

-----------------------------------------------------------------------------
(* A download, prepared by the pull that stored it. *)

\* Prepare has failed: the download leaves the manager, and done is never
\* closed for the pulls that have joined it.
PrepareFails(p) ==
    /\ mgr' = [mgr EXCEPT ![Layer(p)] = None]
    /\ obj' = [obj EXCEPT ![Me(p)] = Idle]
    /\ pull' = [q \in Pulls |-> IF q = p THEN Ended(p)
                                ELSE IF pull[q].on = [of |-> Me(p), res |-> "live"] THEN [pull[q] EXCEPT !.on.res = "orphan"]
                                ELSE pull[q]]

Spawn(p, comp) ==
    /\ obj' = [obj EXCEPT ![Me(p)] = [@ EXCEPT !.st = "spawned", !.comp = comp]]
    /\ pull' = [pull EXCEPT ![p].pc = "join", ![p].on = [of |-> Me(p), res |-> "live"]]
    /\ UNCHANGED mgr

\* The part files that are there are all the parts.
ReadParts(p) ==
    LET part == disk.part[Layer(p)]
        found == {n \in PartIds : part[n] # NoFile}
    IN  /\ pull[p].pc = "prepare" /\ obj[Me(p)].st = "new"
        /\ IF \E n \in found : part[n] = Empty THEN PrepareFails(p)
           ELSE IF found # {} THEN Spawn(p, [n \in found |-> part[n]])
           ELSE obj' = [obj EXCEPT ![Me(p)].st = "head"] /\ UNCHANGED <<pull, mgr>>
        /\ UNCHANGED <<disk, gone, crashes>>

\* The HEAD request, under the pull's own context.
HeadRequest(p) ==
    /\ pull[p].pc = "prepare" /\ obj[Me(p)].st = "head"
    /\ \/ PrepareFails(p)
       \/ p \notin gone /\ obj' = [obj EXCEPT ![Me(p)].st = "parts"] /\ UNCHANGED <<pull, mgr>>
    /\ UNCHANGED <<disk, gone, crashes>>

NewPart(p) ==
    LET d == Layer(p)
        o == obj[Me(p)]
    IN  /\ pull[p].pc = "prepare" /\ o.st = "parts"
        /\ \E ok \in Writes :
              IF ~ok
              THEN /\ PrepareFails(p)
                   /\ \E left \in {NoFile, Empty} : disk' = [disk EXCEPT !.part[d][o.next] = left]
              ELSE /\ disk' = [disk EXCEPT !.part[d][o.next] = 0]
                   /\ IF o.next + 1 < NParts
                      THEN obj' = [obj EXCEPT ![Me(p)].next = @ + 1] /\ UNCHANGED <<pull, mgr>>
                      ELSE Spawn(p, [n \in PartIds |-> 0])
        /\ UNCHANGED <<gone, crashes>>

-----------------------------------------------------------------------------
(* A download, run by its goroutine. *)

\* run returns: out of the manager, and done is closed
RunEnds(o, res) ==
    /\ mgr' = [mgr EXCEPT ![obj[o].blob] = None]
    /\ obj' = [obj EXCEPT ![o] = Idle]
    /\ pull' = [q \in Pulls |-> IF pull[q].on = [of |-> o, res |-> "live"]
                                THEN [pull[q] EXCEPT !.on.res = res] ELSE pull[q]]

\* CancelFunc is set, and the file is given the parts' total size
RunStart(o) ==
    LET d == obj[o].blob
        total == Cardinality(DOMAIN obj[o].comp) * Size
    IN  /\ obj[o].st = "spawned"
        /\ obj' = [obj EXCEPT ![o].st = "url"]
        /\ disk' = [disk EXCEPT !.file[d] = [n \in PartIds |-> Min({@[n], Max({total - n * Size, 0})})]]
        /\ UNCHANGED <<pull, gone, mgr, crashes>>

RunUrl(o) ==
    /\ obj[o].st = "url"
    /\ \/ ~obj[o].cancelled /\ obj' = [obj EXCEPT ![o].st = "chunks"] /\ UNCHANGED <<pull, mgr>>
       \/ RunEnds(o, IF obj[o].cancelled THEN "canceled" ELSE "err")
    /\ UNCHANGED <<disk, gone, crashes>>

Missing(o) == {n \in DOMAIN obj[o].comp : obj[o].comp[n] < Size}

\* k more units of a part have arrived when its request ends: with the part,
\* cut off, stalled or cancelled (what came is kept), or with another error
\* (it is not counted, and comes again).  On a full disk the part file is
\* left empty and the download fails.
DownloadChunk(o, n, k) ==
    LET d == obj[o].blob
        to == obj[o].comp[n] + k
    IN  /\ obj[o].st = "chunks" /\ n \in Missing(o) /\ to <= Size
        /\ \E kept \in BOOLEAN, ok \in Writes :
              /\ disk' = [disk EXCEPT !.file[d][n] = Max({@, to}),
                                      !.part[d][n] = IF ~kept THEN @ ELSE IF ok THEN to ELSE Empty]
              /\ IF kept /\ ~ok THEN RunEnds(o, "err")
                 ELSE /\ obj' = IF kept THEN [obj EXCEPT ![o].comp[n] = to] ELSE obj
                      /\ UNCHANGED <<pull, mgr>>
        /\ UNCHANGED <<gone, crashes>>

\* Cancelled, or a part has no try left
RunFails(o) ==
    /\ obj[o].st = "chunks" /\ Missing(o) # {}
    /\ RunEnds(o, IF obj[o].cancelled THEN "canceled" ELSE "err")
    /\ UNCHANGED <<disk, gone, crashes>>

\* The part files are removed, by their number from 0; then the rename.
RemovePart(o) ==
    LET d == obj[o].blob
        i == obj[o].next
    IN  /\ obj[o].st \in {"chunks", "remove"} /\ Missing(o) = {}
        /\ IF obj[o].st = "chunks"
           THEN obj' = [obj EXCEPT ![o].st = "remove", ![o].next = 0] /\ UNCHANGED <<disk, pull, mgr>>
           ELSE IF i = Cardinality(DOMAIN obj[o].comp)
           THEN /\ disk' = [disk EXCEPT
                        !.blob[d] = IF \A n \in PartIds : disk.file[d][n] = Size THEN "whole" ELSE "short",
                        !.file[d] = [n \in PartIds |-> 0]]
                /\ RunEnds(o, "ok")
           ELSE IF disk.part[d][i] = NoFile
           THEN RunEnds(o, "err") /\ UNCHANGED disk
           ELSE /\ disk' = [disk EXCEPT !.part[d][i] = NoFile]
                /\ obj' = [obj EXCEPT ![o].next = @ + 1]
                /\ UNCHANGED <<pull, mgr>>
        /\ UNCHANGED <<gone, crashes>>

Run(o) == \/ RunStart(o) \/ RunUrl(o) \/ RunFails(o) \/ RemovePart(o)
          \/ \E n \in PartIds, k \in 1 .. Size : DownloadChunk(o, n, k)

-----------------------------------------------------------------------------
(***************************************************************************)
(* A crash ends every pull and download; a file that was being written is  *)
(* left empty.  The start after it prunes the files beside the blobs and   *)
(* the blobs that no manifest names, unless told not to or a manifest is   *)
(* corrupt.                                                                *)
(***************************************************************************)
Used(man) == UNION {man[m].of : m \in {x \in Models : ~man[x].bad}}

Pruned(dk) ==
    IF NoPrune \/ \E m \in Models : dk.man[m].bad THEN dk
    ELSE [dk EXCEPT !.file = [d \in Blobs |-> [n \in PartIds |-> 0]],
                    !.part = [d \in Blobs |-> [n \in PartIds |-> NoFile]],
                    !.blob = [d \in Blobs |-> IF d \in Used(dk.man) THEN @[d] ELSE "none"]]

Writing == {<<obj[e[1]].blob, e[2]>> :
               e \in {x \in Obj \X PartIds : LET o == obj[x[1]]
                                           IN  \/ o.st = "parts" /\ x[2] = o.next
                                               \/ o.st = "chunks" /\ x[2] \in Missing(x[1])}}
Restart ==
    /\ \E W \in SUBSET Writing :
          disk' = Pruned([disk EXCEPT !.part = [d \in Blobs |-> [n \in PartIds |->
                                                   IF <<d, n>> \in W THEN Empty ELSE @[d][n]]]])
    /\ pull' = [p \in Pulls |-> IF pull[p].pc \in {"new", "ended", "done"} THEN pull[p] ELSE Ended(p)]
    /\ mgr' = [d \in Blobs |-> None]
    /\ obj' = [o \in Obj |-> Idle]

Crash ==
    /\ crashes < MaxCrashes /\ crashes' = crashes + 1
    /\ Restart
    /\ UNCHANGED gone

-----------------------------------------------------------------------------
(* A pull. *)

Begin(p) ==
    /\ pull[p].pc = "new"
    /\ \/ Goto(p, "ended")                   \* no manifest from the registry
       \/ LET old == disk.man[ModelOf[p]]
          IN  pull' = [pull EXCEPT ![p].pc = "stat", ![p].del = IF old.bad THEN {} ELSE old.of]
    /\ UNCHANGED <<disk, gone, mgr, obj, crashes>>

\* downloadBlob: the blob is there, whoever has put it there
Stat(p) ==
    /\ pull[p].pc = "stat"
    /\ IF disk.blob[Layer(p)] = "none" THEN Goto(p, "load")
       ELSE pull' = [pull EXCEPT ![p] = Advance([@ EXCEPT !.hit = @ \cup {Layer(p)}, !.del = @ \ {Layer(p)}],
                                                Len(Layers(p)))]
    /\ UNCHANGED <<disk, gone, mgr, obj, crashes>>

LoadOrStore(p) ==
    LET d == Layer(p)
    IN  /\ pull[p].pc = "load"
        /\ IF mgr[d] = None
           THEN /\ mgr' = [mgr EXCEPT ![d] = Me(p)]
                /\ obj' = [obj EXCEPT ![Me(p)] = [Idle EXCEPT !.st = "new", !.blob = d]]
                /\ Goto(p, "prepare")
           ELSE /\ pull' = [pull EXCEPT ![p].pc = "join", ![p].on = [of |-> mgr[d], res |-> "live"]]
                /\ UNCHANGED <<mgr, obj>>
        /\ UNCHANGED <<disk, gone, crashes>>

Acquire(p) == pull[p].pc = "join" /\ Goto(p, "wait") /\ UNCHANGED <<disk, gone, mgr, obj, crashes>>

References(on) == Cardinality({q \in Pulls : pull[q].pc = "wait" /\ pull[q].on = on})

\* Wait returns when the download is done.
WaitDone(p) ==
    /\ pull[p].pc = "wait" /\ pull[p].on.res \in {"ok", "err", "canceled"}
    /\ pull' = [pull EXCEPT ![p] = IF @.on.res = "ok" THEN Advance([@ EXCEPT !.del = @ \ {Layer(p)}], Len(Layers(p)))
                                   ELSE Ended(p)]
    /\ UNCHANGED <<disk, gone, mgr, obj, crashes>>

\* Or when its client cancels: the last to leave calls CancelFunc, which is
\* nil before run has set it.
WaitCancelled(p) ==
    LET o == pull[p].on.of
        res == pull[p].on.res
        last == References(pull[p].on) = 1
    IN  /\ pull[p].pc = "wait" /\ p \in gone /\ res \in {"live", "orphan"}
        /\ IF last /\ (res = "orphan" \/ obj[o].st \in {"new", "head", "parts", "spawned"})
           THEN Restart
           ELSE /\ obj' = IF last THEN [obj EXCEPT ![o].cancelled = TRUE] ELSE obj
                /\ pull' = [pull EXCEPT ![p] = Ended(p)]
                /\ UNCHANGED <<disk, mgr>>
        /\ UNCHANGED <<gone, crashes>>

\* verifyBlob of each layer that was no cache hit
VerifyBlob(p) ==
    LET d == Layer(p)
    IN  /\ pull[p].pc = "verify"
        /\ IF d \notin pull[p].hit /\ disk.blob[d] # "whole"
           THEN disk' = [disk EXCEPT !.blob[d] = "none"] /\ pull' = [pull EXCEPT ![p] = Ended(p)]
           ELSE /\ pull' = [pull EXCEPT ![p] = IF @.i < Len(Layers(p)) THEN [@ EXCEPT !.i = @ + 1]
                                                                      ELSE [@ EXCEPT !.pc = "open"]]
                /\ UNCHANGED disk
        /\ UNCHANGED <<gone, mgr, obj, crashes>>

\* os.WriteFile empties the manifest and writes it, or fails
WriteManifest(p) ==
    LET m == ModelOf[p]
    IN  /\ \/ /\ pull[p].pc = "open"
              /\ disk' = [disk EXCEPT !.man[m].bad = TRUE] /\ Goto(p, "write")
           \/ pull[p].pc = "write" /\ FALSE \in Writes /\ Goto(p, "ended") /\ UNCHANGED disk
           \/ /\ pull[p].pc = "write"
              /\ disk' = [disk EXCEPT !.man[m] = [bad |-> FALSE, of |-> {Layers(p)[i] : i \in 1 .. Len(Layers(p))}]]
              /\ Goto(p, IF NoPrune \/ pull[p].del = {} THEN "done" ELSE "manifests")
        /\ UNCHANGED <<gone, mgr, obj, crashes>>

\* deleteUnusedLayers: reads the manifests, then removes what is left
DeleteUnusedLayers(p) ==
    /\ \/ /\ pull[p].pc = "manifests"
          /\ pull' = [pull EXCEPT ![p].pc = "remove", ![p].del = @ \ Used(disk.man)]
          /\ UNCHANGED disk
       \/ /\ pull[p].pc = "remove"
          /\ disk' = [disk EXCEPT !.blob = [d \in Blobs |-> IF d \in pull[p].del THEN "none" ELSE @[d]]]
          /\ Goto(p, "done")
    /\ UNCHANGED <<gone, mgr, obj, crashes>>

Cancel(p) ==
    /\ p \notin gone /\ pull[p].pc \notin {"new", "ended", "done"}
    /\ gone' = gone \cup {p}
    /\ UNCHANGED <<disk, pull, mgr, obj, crashes>>

\* The client pulls again.
Again(p) ==
    /\ pull[p].pc = "ended" /\ pull[p].try < MaxTries
    /\ pull' = [pull EXCEPT ![p] = [Fresh EXCEPT !.try = pull[p].try + 1]]
    /\ gone' = gone \ {p}
    /\ UNCHANGED <<disk, mgr, obj, crashes>>

Step(p) == \/ Begin(p) \/ Stat(p) \/ LoadOrStore(p) \/ ReadParts(p) \/ HeadRequest(p) \/ NewPart(p)
           \/ Acquire(p) \/ WaitDone(p) \/ WaitCancelled(p) \/ VerifyBlob(p) \/ WriteManifest(p)
           \/ DeleteUnusedLayers(p)

Next == \/ \E p \in Pulls : Step(p) \/ Cancel(p) \/ Again(p)
        \/ \E o \in Obj : Run(o)
        \/ Crash

Spec == Init /\ [][Next]_vars

-----------------------------------------------------------------------------
(***************************************************************************)
(* Every blob that a manifest names is there, and whole: a download that   *)
(* broke off, was resumed, shared or interrupted by a crash is finished,   *)
(* or found out by verifyBlob before a manifest counts on it.              *)
(***************************************************************************)
ManifestIntact == \A d \in Used(disk.man) : disk.blob[d] = "whole"
=============================================================================
