----------------------------- MODULE NodeAllocate -----------------------------
(***************************************************************************)
(* One GPU node: the plugin's Allocate handlers, one step per call to the  *)
(* API server; the API objects they read and patch (the node's lock, the   *)
(* pods' annotations); and, as environment, the HAMi scheduler and the     *)
(* kubelet.  A call to the API server takes effect at once; it may fail,   *)
(* and a patch may also fail after it was applied.                         *)
(***************************************************************************)
EXTENDS CuBitmap, Sequences

CONSTANTS
  Pods,             \* pods that may be placed on the node
  Foreign,          \* the pods another scheduler places, without HAMi's annotations
  GPUs,             \* DeviceInfo.ID of the registered GPUs
  TotalCUs, Unit,   \* per GPU: its CUs, and the CUs a mask enables together
  Jobs,             \* the device requests a pod may carry, see IsJob
  Handlers,         \* identities for Allocate calls in progress
  ReleaseAttempts,  \* DefaultStrategy.Steps of the lock release
  MaxFaults,        \* bound on failed API calls and refused requests
  MaxLosses,        \* bound on plugin crashes and forced deletions of pods
  MaxRestarts,      \* bound on kubelet restarts
  LockExpires,      \* may HAMi take over an expired lock?
  NoPod, NoHandler

\* A container's demand on one GPU: Usedcores, and whether Usedmem covers the GPU.
DemandType == [cores : Nat, mem : {"part", "full"}]
\* A job: the slots of the init containers, then of the app containers; a slot is
\* the container's demand on each GPU it was given, with an empty domain if none.
IsJob(j) ==
  /\ j \in Seq({j[c] : c \in DOMAIN j})
  /\ \A c \in DOMAIN j : /\ DOMAIN j[c] \subseteq GPUs
                         /\ \A g \in DOMAIN j[c] : j[c][g] \in DemandType
  /\ \E c \in DOMAIN j : DOMAIN j[c] # {}

ASSUME ConstantsAssumption ==
  /\ NoPod \notin Pods /\ NoHandler \notin Handlers /\ Foreign \subseteq Pods
  /\ TotalCUs \in [GPUs -> Nat \ {0}] /\ Unit \in [GPUs -> Nat \ {0}]
  /\ \A j \in Jobs : IsJob(j)
  /\ ReleaseAttempts \in Nat \ {0} /\ MaxFaults \in Nat
  /\ MaxLosses \in Nat /\ MaxRestarts \in Nat
  /\ LockExpires \in BOOLEAN

VARIABLES
  lock,       \* owner named by the node annotation hami.io/mutex.lock, or NoPod
  phase,      \* of each pod; "rejected" is Pending for the API, refused by kubelet
  bindPhase,  \* annotation hami.io/bind-phase
  job,        \* the pod's device request, as assigned by the scheduler
  todo,       \* slots still non-empty in hami.io/amd-devices-to-allocate
  cu,         \* annotation hami.io/amd-cu-allocated: CUs per GPU, {} if no entry
  kcall,      \* the handler whose answer kubelet waits for, or NoHandler
  got,        \* the answers kubelet received, one per admitted container
  pc, loc,    \* where each handler is, and its local variables
  faults, losses, restarts  \* how often the environment has interfered, see the bounds

api  == <<lock, phase, bindPhase, job, todo, cu>>
bounds == <<faults, losses, restarts>>
vars == <<api, kcall, got, pc, loc, bounds>>

NoCUs   == [g \in GPUs |-> {}]
NoSlots == [g \in {} |-> 0]

-------------------------------------------------------------------------------
(* Derived state and helpers                                               *)

\* The pod object is on the API server; a patch of a missing one is NotFound.
Exists(p) == phase[p] # "gone"
\* Bound to the node and not in a terminated state.
Live(p) == phase[p] \in {"pending", "rejected", "running"}

Wants(p)  == {c \in DOMAIN job[p] : DOMAIN job[p][c] # {}}
Served(p) == {a.ctr : a \in {b \in got : b.pod = p}}
First(S)  == CHOOSE x \in S : \A y \in S : x <= y

\* isWholeGPU for one device.
IsWhole(g, d) == d.mem = "full" /\ ~(d.cores > 0 /\ d.cores < TotalCUs[g])
\* The cores Allocate hands to AllocateN; 0 for a memory-only slice, which holds none.
Cores(g, d) == IF d.cores = 0 /\ IsWhole(g, d) THEN TotalCUs[g] ELSE d.cores

Phases == {"unbound", "pending", "rejected", "running", "done", "gone"}
Labels == {"idle", "getNode", "getPod", "listPending", "rebuild", "erase", "compute",
           "validate", "commit", "readBack", "trySuccess", "phase", "release",
           "releaseRetry", "releasePatch", "answer"}
Locals == [pod : Pods \cup {NoPod}, ctr : Nat, cur : Pods \cup {NoPod},
           todo : SUBSET Nat, own : [GPUs -> SUBSET Nat], slot : Nat,
           used : [GPUs -> SUBSET Nat], plan : [GPUs -> SUBSET Nat],
           mask : [GPUs -> SUBSET Nat], sliced : BOOLEAN, ok : BOOLEAN,
           tries : Nat, fresh : BOOLEAN]
NoLocals == [pod |-> NoPod, ctr |-> 0, cur |-> NoPod, todo |-> {}, own |-> NoCUs,
             slot |-> 0, used |-> NoCUs, plan |-> NoCUs, mask |-> NoCUs,
             sliced |-> FALSE, ok |-> TRUE, tries |-> 0, fresh |-> FALSE]

Goto(h, s) == pc' = [pc EXCEPT ![h] = s]
Set(h, l)  == loc' = [loc EXCEPT ![h] = l]
Fault      == faults < MaxFaults /\ faults' = faults + 1
NoFault    == UNCHANGED faults
Loss       == losses < MaxLosses /\ losses' = losses + 1
\* A call made with the request's context also fails once kubelet hung up.
CtxError(h) == Fault \/ (h # kcall /\ NoFault)
\* PodAllocationFailed: without a tracked pod it changes nothing.
Fail(h) ==
  /\ Goto(h, IF loc[h].cur = NoPod THEN "answer" ELSE "phase")
  /\ Set(h, [loc[h] EXCEPT !.ok = FALSE])
\* Another write to the node object makes a read resourceVersion stale.
Stale == [h \in Handlers |-> [loc[h] EXCEPT !.fresh = FALSE]]

-------------------------------------------------------------------------------
(* Environment: HAMi's scheduler                                           *)

Users(j, g)  == {c \in DOMAIN j : g \in DOMAIN j[c]}
\* What job j books on g: whole WGPs, as custominfo.cuPerWGP tells the scheduler; the
\* CUs booked are numbered container by container.
Booking(j, g) ==
  UNION {{c} \X (1 .. RoundUp(Cores(g, j[c][g]), Unit[g])) : c \in Users(j, g)}
Booked(j, g) == Cardinality(Booking(j, g))
TakesAll(j, g) == \E c \in Users(j, g) : IsWhole(g, j[c][g])

\* HAMi's Fit: cores do not exceed the GPU, and a whole GPU is shared with nobody.
FitsNode(p, j) ==
  \A g \in GPUs :
    LET on == {q \in Pods \ (Foreign \cup {p}) : Live(q) /\ Users(job[q], g) # {}}
        booked == UNION {{q} \X Booking(job[q], g) : q \in on}
    IN  /\ Cardinality(booked) + Booked(j, g) <= TotalCUs[g]
        /\ TakesAll(j, g) => on = {} /\ Cardinality(Users(j, g)) = 1
        /\ Users(j, g) # {} => \A q \in on : ~TakesAll(job[q], g)

\* Bind: the lock is free or, after NodeLockTimeout, taken over.
Bind(p) ==
  /\ p \notin Foreign /\ phase[p] = "unbound"
  /\ lock = NoPod \/ LockExpires
  /\ \E j \in Jobs :
       /\ FitsNode(p, j)
       /\ job' = [job EXCEPT ![p] = j]
       /\ todo' = [todo EXCEPT ![p] = {c \in DOMAIN j : DOMAIN j[c] # {}}]
  /\ lock' = p
  /\ phase' = [phase EXCEPT ![p] = "pending"]
  /\ bindPhase' = [bindPhase EXCEPT ![p] = "allocating"]
  /\ loc' = Stale
  /\ UNCHANGED <<cu, kcall, got, pc, bounds>>

\* A pod placed on the node without HAMi.
PlaceForeign(p) ==
  /\ p \in Foreign /\ phase[p] = "unbound"
  /\ \E j \in Jobs : job' = [job EXCEPT ![p] = j]
  /\ phase' = [phase EXCEPT ![p] = "pending"]
  /\ UNCHANGED <<lock, bindPhase, todo, cu, kcall, got, pc, loc, bounds>>

-------------------------------------------------------------------------------
(* Environment: kubelet.  It admits one container at a time, in order.     *)

Admitting(p) == phase[p] = "pending" /\ Served(p) # {} /\ Served(p) # Wants(p)

Call(h, p) ==
  /\ kcall = NoHandler /\ pc[h] = "idle"
  /\ phase[p] = "pending" /\ Served(p) # Wants(p)
  /\ \A q \in Pods \ {p} : ~Admitting(q)
  /\ kcall' = h
  /\ Goto(h, "getNode")
  /\ Set(h, [NoLocals EXCEPT !.pod = p, !.ctr = First(Wants(p) \ Served(p))])
  /\ UNCHANGED <<api, got, bounds>>

Start(p) ==
  /\ phase[p] = "pending" /\ Served(p) = Wants(p)
  /\ phase' = [phase EXCEPT ![p] = "running"]
  /\ UNCHANGED <<lock, bindPhase, job, todo, cu, kcall, got, pc, loc, bounds>>

\* A running pod ends, or kubelet reports the pod it refused as Failed.
Finish(p) ==
  /\ phase[p] \in {"running", "rejected"}
  /\ phase' = [phase EXCEPT ![p] = "done"]
  /\ UNCHANGED <<lock, bindPhase, job, todo, cu, kcall, got, pc, loc, bounds>>

\* The pod object is deleted; a pending one by force, a running one only ends first.
Remove(p) ==
  /\ phase[p] \in {"pending", "rejected", "done"} /\ Loss
  /\ phase' = [phase EXCEPT ![p] = "gone"]
  /\ UNCHANGED <<lock, bindPhase, job, todo, cu, kcall, got, pc, loc, faults, restarts>>

\* kubelet restarts during a call: nobody waits for the handler, which goes on.
KubeletRestart ==
  /\ kcall # NoHandler /\ restarts < MaxRestarts
  /\ restarts' = restarts + 1 /\ kcall' = NoHandler
  /\ UNCHANGED <<api, got, pc, loc, faults, losses>>

Reject(p) == IF phase[p] = "pending" THEN [phase EXCEPT ![p] = "rejected"] ELSE phase

\* The plugin crashes: every handler is lost, and kubelet's call fails.
Crash ==
  /\ \E h \in Handlers : pc[h] # "idle"
  /\ Loss
  /\ phase' = IF kcall = NoHandler THEN phase ELSE Reject(loc[kcall].pod)
  /\ kcall' = NoHandler
  /\ pc' = [h \in Handlers |-> "idle"]
  /\ loc' = [h \in Handlers |-> NoLocals]
  /\ UNCHANGED <<lock, bindPhase, job, todo, cu, got, faults, restarts>>

-------------------------------------------------------------------------------
(* GetPendingPod: the lock owner, else a pod HAMi is binding, else nobody  *)

\* An error here is returned as it is, without PodAllocationFailed.
GiveUp(h) ==
  /\ CtxError(h) /\ Goto(h, "answer")
  /\ Set(h, [loc[h] EXCEPT !.cur = NoPod, !.ok = FALSE])
  /\ UNCHANGED <<api, kcall, got, losses, restarts>>

\* The pod object is read once; its annotations are never refreshed after this.
Snapshot(h, p) ==
  /\ Goto(h, "rebuild")
  /\ Set(h, [loc[h] EXCEPT !.cur = p, !.todo = todo[p], !.own = cu[p]])

GetNode(h) ==
  /\ pc[h] = "getNode"
  /\ \/ /\ Goto(h, IF lock = NoPod THEN "listPending" ELSE "getPod")
        /\ Set(h, [loc[h] EXCEPT !.cur = lock])
        /\ NoFault /\ UNCHANGED <<api, kcall, got, losses, restarts>>
     \/ GiveUp(h)

GetPod(h) ==
  /\ pc[h] = "getPod"
  /\ \/ /\ Exists(loc[h].cur) /\ Snapshot(h, loc[h].cur)
        /\ NoFault /\ UNCHANGED <<api, kcall, got, losses, restarts>>
     \/ /\ ~Exists(loc[h].cur) /\ Goto(h, "listPending")
        /\ Set(h, [loc[h] EXCEPT !.cur = NoPod])
        /\ NoFault /\ UNCHANGED <<api, kcall, got, losses, restarts>>
     \/ GiveUp(h)

Binding(p) == phase[p] \in {"pending", "rejected"} /\ bindPhase[p] = "allocating"

ListPending(h) ==
  /\ pc[h] = "listPending"
  /\ \/ /\ \E p \in Pods : Binding(p) /\ Snapshot(h, p)
        /\ NoFault /\ UNCHANGED <<api, kcall, got, losses, restarts>>
     \/ /\ \A p \in Pods : ~Binding(p)
        /\ Goto(h, "rebuild")
        /\ NoFault /\ UNCHANGED <<api, kcall, got, loc, losses, restarts>>
     \/ GiveUp(h)

-------------------------------------------------------------------------------
(* Allocate: occupancy, the container's slot, its CUs                      *)

\* buildCUAllocations refuses pods whose persisted CUs overlap.
Overlap == \E p, q \in Pods : /\ p # q /\ Live(p) /\ Live(q)
                              /\ \E g \in GPUs : cu[p][g] \cap cu[q][g] # {}
\* Mutant: pods kubelet has not started yet are not counted.
OccupiedByRunning == [g \in GPUs |-> UNION {cu[p][g] : p \in {q \in Pods : phase[q] = "running"}}]
\* Mutant: the CUs of terminated pods are still counted.
OccupiedByAll == [g \in GPUs |-> UNION {cu[p][g] : p \in {q \in Pods : Exists(q)}}]
Occupied == [g \in GPUs |-> UNION {cu[p][g] : p \in {q \in Pods : Live(q)}}]

\* Mutant: no slot left is reported as -1.
NextSlotMinusOne(l) == IF l.cur = NoPod \/ l.todo = {} THEN -1 ELSE First(l.todo)
\* GetNextDeviceRequest: the first slot left in the snapshot, if it names as many
\* devices as kubelet passed; 0 falls back to kubelet's ids.
NextSlot(l) ==
  IF l.cur = NoPod \/ l.todo = {} THEN 0
  ELSE LET c == First(l.todo)
       IN  IF Cardinality(DOMAIN job[l.cur][c]) = Cardinality(DOMAIN job[l.pod][l.ctr])
           THEN c ELSE 0

Rebuild(h) ==
  /\ pc[h] = "rebuild"
  /\ \/ /\ ~Overlap
        /\ Set(h, [loc[h] EXCEPT !.used = Occupied, !.slot = NextSlot(loc[h])])
        /\ Goto(h, IF NextSlot(loc[h]) = 0 THEN "compute" ELSE "erase")
        /\ NoFault
     \/ Overlap /\ Fail(h) /\ NoFault
     \/ CtxError(h) /\ Fail(h)
  /\ UNCHANGED <<api, kcall, got, losses, restarts>>

\* Mutant: the annotation is written back as it was read.
ErasedNothing(l) == [todo EXCEPT ![l.cur] = l.todo]
\* EraseNextDeviceTypeFromAnnotation writes the whole annotation from the snapshot.
Erased(l) == [todo EXCEPT ![l.cur] = l.todo \ {l.slot}]

Erase(h) ==
  /\ pc[h] = "erase"
  /\ \/ /\ Exists(loc[h].cur) /\ todo' = Erased(loc[h])
        /\ \/ NoFault /\ Goto(h, "compute") /\ UNCHANGED loc
           \/ Fault /\ Fail(h)
     \/ /\ (~Exists(loc[h].cur) /\ NoFault) \/ Fault
        /\ Fail(h) /\ UNCHANGED todo
  /\ UNCHANGED <<lock, phase, bindPhase, job, cu, kcall, got, losses, restarts>>

\* The demands served: the slot's, or whole GPUs among those kubelet chose.
Request(l) ==
  IF l.slot # 0 THEN {job[l.cur][l.slot]}
  ELSE {[g \in S |-> [cores |-> 0, mem |-> "full"]] :
          S \in {T \in SUBSET GPUs \ {{}} :
                   Cardinality(T) <= Cardinality(DOMAIN job[l.pod][l.ctr])}}

\* Mutant: the occupancy is looked up by another id for every device.
UsedForNothing(l, g) == {}
\* A fallback id "<bdf>#<slot>" is not a key of the occupancy, so it finds all free.
UsedFor(l, g) == IF l.slot = 0 THEN {} ELSE l.used[g]
DeltaFor(l, r, g) ==
  IF g \in DOMAIN r /\ Cores(g, r[g]) > 0
  THEN AllocateN(UsedFor(l, g), TotalCUs[g], Cores(g, r[g]), Unit[g]) ELSE {}
\* Every device gets its CUs, and they merge with those the pod holds already.
Allocatable(l, r) ==
  \A g \in DOMAIN r : Cores(g, r[g]) > 0 =>
    /\ CanAllocate(UsedFor(l, g), TotalCUs[g], Cores(g, r[g]), Unit[g])
    /\ l.slot # 0 => CanAdd(l.own[g], DeltaFor(l, r, g))
\* Mutant: the CUs of the pod's earlier containers are overwritten.
PlannedAlone(l, r) == [g \in GPUs |-> IF l.slot = 0 THEN l.own[g] ELSE DeltaFor(l, r, g)]
Planned(l, r) == [g \in GPUs |-> IF l.slot = 0 THEN l.own[g]
                                 ELSE l.own[g] \cup DeltaFor(l, r, g)]
Masked(l, r) ==
  [g \in GPUs |-> IF g \in DOMAIN r /\ Cores(g, r[g]) = 0 THEN CUs(TotalCUs[g])
                  ELSE DeltaFor(l, r, g)]
\* Some device of the container is a core or memory slice.
Sliced(r) == \E g \in DOMAIN r : ~IsWhole(g, r[g])

Done(l) == IF l.cur = NoPod THEN "answer" ELSE "trySuccess"

\* Fault: a device is unknown, or libcheck refuses the image.
Compute(h) ==
  /\ pc[h] = "compute"
  /\ \/ \E r \in Request(loc[h]) :
          LET l == [loc[h] EXCEPT !.plan = Planned(loc[h], r), !.mask = Masked(loc[h], r),
                                  !.sliced = Sliced(r), !.used = NoCUs]
          IN  /\ NoFault
              /\ IF ~Allocatable(loc[h], r) THEN Fail(h)
                 ELSE /\ Set(h, l)
                      /\ Goto(h, IF l.sliced /\ l.plan # NoCUs THEN "validate" ELSE Done(l))
     \/ Fault /\ Fail(h)
  /\ UNCHANGED <<api, kcall, got, losses, restarts>>

-------------------------------------------------------------------------------
(* Allocate: the commit, guarded by the node lock                          *)

Validate(h) ==
  /\ pc[h] = "validate"
  /\ \/ lock = loc[h].cur /\ Goto(h, "commit") /\ NoFault /\ UNCHANGED loc
     \/ lock # loc[h].cur /\ Fail(h) /\ NoFault
     \/ CtxError(h) /\ Fail(h)
  /\ UNCHANGED <<api, kcall, got, losses, restarts>>

Commit(h) ==
  /\ pc[h] = "commit"
  /\ \/ /\ Exists(loc[h].cur) /\ cu' = [cu EXCEPT ![loc[h].cur] = loc[h].plan]
        /\ \/ NoFault /\ Goto(h, "trySuccess")
           \/ Fault /\ Goto(h, "readBack")
     \/ /\ (~Exists(loc[h].cur) /\ NoFault) \/ Fault
        /\ Goto(h, "readBack") /\ UNCHANGED cu
  /\ UNCHANGED <<lock, phase, bindPhase, job, todo, kcall, got, loc, losses, restarts>>

\* Mutant: an error of the patch is taken for a lost answer.
ReadBackTrusts(h) ==
  /\ pc[h] = "readBack" /\ Goto(h, "trySuccess")
  /\ NoFault /\ UNCHANGED <<api, kcall, got, loc, losses, restarts>>
\* hasPersistedCUAllocation
ReadBack(h) ==
  LET persisted == Exists(loc[h].cur) /\ cu[loc[h].cur] = loc[h].plan
  IN  /\ pc[h] = "readBack"
      /\ \/ persisted /\ Goto(h, "trySuccess") /\ NoFault /\ UNCHANGED loc
         \/ ~persisted /\ Fail(h) /\ NoFault
         \/ CtxError(h) /\ Fail(h)
      /\ UNCHANGED <<api, kcall, got, losses, restarts>>

-------------------------------------------------------------------------------
(* PodAllocationTrySuccess, PodAllocationFailed, ReleaseNodeLock           *)

\* Mutant: the lock is released after every container.
TrySuccessEarly(h) ==
  /\ pc[h] = "trySuccess"
  /\ Goto(h, IF ~Exists(loc[h].cur) THEN "answer"
             ELSE IF todo[loc[h].cur] = {} THEN "phase" ELSE "release")
  /\ NoFault /\ UNCHANGED <<api, kcall, got, loc, losses, restarts>>
\* Mutant: it waits until every container's slot is erased.
TrySuccessWaits(h) ==
  /\ pc[h] = "trySuccess" /\ Exists(loc[h].cur) /\ todo[loc[h].cur] = {}
  /\ Goto(h, "phase")
  /\ NoFault /\ UNCHANGED <<api, kcall, got, loc, losses, restarts>>
\* The lock stays while a slot is left, and when the pod cannot be read.
TrySuccess(h) ==
  /\ pc[h] = "trySuccess"
  /\ \/ /\ NoFault
        /\ Goto(h, IF Exists(loc[h].cur) /\ todo[loc[h].cur] = {} THEN "phase" ELSE "answer")
     \/ Fault /\ Goto(h, "answer")
  /\ UNCHANGED <<api, kcall, got, loc, losses, restarts>>

\* Mutant: the lock is kept after the phase was patched.
PatchPhaseOnly(h) ==
  /\ pc[h] = "phase" /\ Goto(h, "answer")
  /\ bindPhase' = [bindPhase EXCEPT ![loc[h].cur] = IF loc[h].ok THEN "success" ELSE "failed"]
  /\ NoFault /\ UNCHANGED <<lock, phase, job, todo, cu, kcall, got, loc, losses, restarts>>
\* A failed patch of the phase does not keep the lock from being released.
PatchPhase(h) ==
  /\ pc[h] = "phase" /\ Goto(h, "release")
  /\ \/ /\ Exists(loc[h].cur)
        /\ bindPhase' = [bindPhase EXCEPT ![loc[h].cur] =
                           IF loc[h].ok THEN "success" ELSE "failed"]
        /\ NoFault
     \/ /\ (~Exists(loc[h].cur) /\ NoFault) \/ Fault
        /\ UNCHANGED bindPhase
  /\ UNCHANGED <<lock, phase, job, todo, cu, kcall, got, loc, losses, restarts>>

\* Holding the per-node mutex of nodeLockManager.
InRelease(h) == pc[h] \in {"releaseRetry", "releasePatch"}
\* One attempt is used up; after the last one the lock is left as it is.
Retry(h) ==
  /\ Set(h, [loc[h] EXCEPT !.tries = @ + 1])
  /\ Goto(h, IF loc[h].tries + 1 >= ReleaseAttempts THEN "answer" ELSE "releaseRetry")

\* Mutant: a lock that is gone or another pod's is waited for, holding the mutex.
ReleaseGetWaits(h) ==
  /\ \/ pc[h] = "release" /\ \A k \in Handlers : ~InRelease(k)
     \/ pc[h] = "releaseRetry"
  /\ \/ lock = loc[h].cur /\ Goto(h, "releasePatch") /\ NoFault
        /\ Set(h, [loc[h] EXCEPT !.fresh = TRUE])
     \/ lock # loc[h].cur /\ Goto(h, "releaseRetry") /\ NoFault /\ UNCHANGED loc
     \/ Fault /\ Retry(h)
  /\ UNCHANGED <<api, kcall, got, losses, restarts>>
\* One attempt reads the node and gives up on a lock that is gone or another pod's.
ReleaseGet(h) ==
  /\ \/ pc[h] = "release" /\ \A k \in Handlers : ~InRelease(k)
     \/ pc[h] = "releaseRetry"
  /\ \/ lock = loc[h].cur /\ Goto(h, "releasePatch") /\ NoFault
        /\ Set(h, [loc[h] EXCEPT !.fresh = TRUE])
     \/ lock # loc[h].cur /\ Goto(h, "answer") /\ NoFault /\ UNCHANGED loc
     \/ Fault /\ Retry(h)
  /\ UNCHANGED <<api, kcall, got, losses, restarts>>

\* Mutant: the patch carries no resourceVersion.
ReleasePatchBlind(h) ==
  /\ pc[h] = "releasePatch" /\ lock' = NoPod
  /\ Goto(h, "answer") /\ loc' = Stale /\ NoFault
  /\ UNCHANGED <<phase, bindPhase, job, todo, cu, kcall, got, losses, restarts>>
\* The patch carries the resourceVersion read, so it conflicts with a later write.
ReleasePatch(h) ==
  /\ pc[h] = "releasePatch"
  /\ \/ /\ loc[h].fresh /\ lock' = NoPod
        /\ \/ NoFault /\ Goto(h, "answer") /\ loc' = Stale
           \/ /\ Fault /\ Goto(h, IF loc[h].tries + 1 >= ReleaseAttempts
                                  THEN "answer" ELSE "releaseRetry")
              /\ loc' = [Stale EXCEPT ![h] = [Stale[h] EXCEPT !.tries = @ + 1]]
     \/ /\ (~loc[h].fresh /\ NoFault) \/ Fault
        /\ Retry(h) /\ UNCHANGED lock
  /\ UNCHANGED <<phase, bindPhase, job, todo, cu, kcall, got, losses, restarts>>

\* The handler returns; kubelet, if it still waits, admits or rejects the container.
Answer(h) ==
  /\ pc[h] = "answer" /\ Goto(h, "idle")
  /\ Set(h, NoLocals)
  /\ kcall' = IF kcall = h THEN NoHandler ELSE kcall
  /\ IF kcall = h /\ phase[loc[h].pod] = "pending" /\ loc[h].ok
     THEN got' = got \cup {[pod |-> loc[h].pod, ctr |-> loc[h].ctr, from |-> loc[h].cur,
                            slot |-> loc[h].slot, mask |-> loc[h].mask]}
     ELSE UNCHANGED got
  /\ phase' = IF kcall = h /\ ~loc[h].ok THEN Reject(loc[h].pod) ELSE phase
  /\ UNCHANGED <<lock, bindPhase, job, todo, cu, bounds>>

-------------------------------------------------------------------------------

Init ==
  /\ lock = NoPod
  /\ phase = [p \in Pods |-> "unbound"]
  /\ bindPhase = [p \in Pods |-> "none"]
  /\ job = [p \in Pods |-> <<>>]
  /\ todo = [p \in Pods |-> {}]
  /\ cu = [p \in Pods |-> NoCUs]
  /\ kcall = NoHandler /\ got = {}
  /\ pc = [h \in Handlers |-> "idle"]
  /\ loc = [h \in Handlers |-> NoLocals]
  /\ faults = 0 /\ losses = 0 /\ restarts = 0

\* One step of the Allocate handler h.
Step(h) ==
  \/ GetNode(h) \/ GetPod(h) \/ ListPending(h) \/ Rebuild(h) \/ Erase(h) \/ Compute(h)
  \/ Validate(h) \/ Commit(h) \/ ReadBack(h) \/ TrySuccess(h) \/ PatchPhase(h)
  \/ ReleaseGet(h) \/ ReleasePatch(h) \/ Answer(h)

Environment ==
  \/ \E p \in Pods : Bind(p) \/ PlaceForeign(p) \/ Start(p) \/ Finish(p) \/ Remove(p)
  \/ \E h \in Handlers, p \in Pods : Call(h, p)
  \/ KubeletRestart \/ Crash

Next == Environment \/ \E h \in Handlers : Step(h)

\* kubelet keeps admitting pods and the plugin's goroutines keep running.
Fairness ==
  /\ WF_vars(\E h \in Handlers, p \in Pods : Call(h, p))
  /\ \A p \in Pods : WF_vars(Start(p)) /\ WF_vars(Finish(p) /\ phase[p] = "rejected")
  /\ \A h \in Handlers : WF_vars(Step(h))

Spec == Init /\ [][Next]_vars
FairSpec == Spec /\ Fairness

-------------------------------------------------------------------------------
(* Properties                                                              *)

\* Every variable keeps its type.
TypeOK ==
  /\ lock \in Pods \cup {NoPod}
  /\ phase \in [Pods -> Phases]
  /\ bindPhase \in [Pods -> {"none", "allocating", "success", "failed"}]
  /\ job \in [Pods -> Jobs \cup {<<>>}]
  /\ todo \in [Pods -> SUBSET Nat]
  /\ cu \in [Pods -> [GPUs -> SUBSET Nat]]
  /\ kcall \in Handlers \cup {NoHandler}
  /\ got \subseteq [pod : Pods, ctr : Nat, from : Pods \cup {NoPod}, slot : Nat,
                    mask : [GPUs -> SUBSET Nat]]
  /\ pc \in [Handlers -> Labels]
  /\ loc \in [Handlers -> Locals]
  /\ faults \in Nat /\ losses \in Nat /\ restarts \in Nat

\* The CUs persisted for two pods that are still alive never overlap, so that
\* buildCUAllocations never refuses the node ("slices never overlap").
DisjointSlices ==
  \A p, q \in Pods : p # q /\ Live(p) /\ Live(q) =>
    \A g \in GPUs : cu[p][g] \cap cu[q][g] = {}

PlanIsFree(h) ==
  \A p, q \in Pods : p # q /\ Live(p) /\ Live(q) /\ loc[h].cur = p =>
    \A g \in GPUs :
      /\ pc[h] \in {"erase", "compute"} => cu[q][g] \subseteq loc[h].used[g]
      /\ pc[h] \in {"validate", "commit"} => loc[h].plan[g] \cap cu[q][g] = {}

\* What a handler read of the other pods, and what it plans for its own, is still
\* right when it commits: no CU it takes for free is given to another pod meanwhile.
PlansStayFree == \A h \in Handlers : PlanIsFree(h)

\* The answer gave its container CUs of g that no other container may use.
HoldsCUs(a, g) ==
  a.slot # 0 /\ g \in DOMAIN job[a.from][a.slot] /\ Cores(g, job[a.from][a.slot][g]) > 0

\* HSA_CU_MASKs handed to containers, slices and whole GPUs alike, do not overlap
\* while their pods live; a whole GPU is never persisted, so this also rests on
\* the slots reaching the containers they were booked for.
MasksNeverOverlap ==
  \A a, b \in got : a # b /\ Live(a.pod) /\ Live(b.pod) =>
    \A g \in GPUs : HoldsCUs(a, g) /\ HoldsCUs(b, g) => a.mask[g] \cap b.mask[g] = {}

\* Allocate knows neither pod nor container; still every container HAMi placed is
\* served from its own pod's slot, at its own position.
SlotServesItsContainer ==
  \A a \in got : a.pod \notin Foreign => a.from = a.pod /\ a.slot = a.ctr

\* The call is for a pod that kubelet still admits; another call's answer is lost.
Admits(h) == pc[h] # "idle" /\ phase[loc[h].pod] = "pending"

\* From the reading of the node's occupancy to the commit computed from it, the
\* node stays locked for the pod (comment above rebuildCUAllocations in Allocate).  A
\* call whose pod was deleted may have read another pod's slot, but commits nothing.
LockedUntilPersisted ==
  \A h \in Handlers : loc[h].slot # 0 =>
    /\ pc[h] \in {"erase", "compute", "validate"} /\ Admits(h) => lock = loc[h].cur
    /\ pc[h] = "commit" => lock = loc[h].cur

\* A pod that the scheduler found room for finds its CUs: whole-WGP rounding and
\* first fit never leave fewer free CUs than were booked.
BookedCUsAreFree ==
  \A h \in Handlers : pc[h] = "compute" /\ Admits(h) =>
    \A r \in Request(loc[h]) : Allocatable(loc[h], r)

\* bind-phase=success on a pod that runs or will means that no slot is left and that a
\* GPU the pod only holds slices of has exactly the booked CUs persisted for it.
SuccessIsComplete ==
  \A p \in Pods : bindPhase[p] = "success" /\ phase[p] \in {"pending", "running"} =>
    /\ todo[p] = {}
    /\ \A g \in GPUs : (\A c \in Users(job[p], g) : ~IsWhole(g, job[p][c][g]))
         => Cardinality(cu[p][g]) = Booked(job[p], g)

\* A live pod never loses a persisted CU: its later containers' commits merge.
PersistedCUsGrow ==
  [][\A p \in Pods : Live(p) => \A g \in GPUs : cu[p][g] \subseteq cu'[p][g]]_vars

\* The lock is deleted only by a handler that serves its owner, whatever happened
\* between the reading of the node and the patch.
ReleasesOnlyOwnLock ==
  [][lock # NoPod /\ lock' = NoPod => \E h \in Handlers : pc[h] = "releasePatch"
                                                       /\ loc[h].cur = lock]_vars

\* The masks given out of persisted slices: a container's CUs on each GPU it holds
\* CUs of, when one of its devices is a slice (a whole-GPU container is not persisted).
ToldMasks ==
  {[pod |-> a.pod, ctr |-> a.ctr,
    mask |-> [g \in GPUs |-> IF HoldsCUs(a, g) THEN a.mask[g] ELSE {}]] :
     a \in {b \in got : /\ Live(b.pod) /\ b.slot # 0
                        /\ Sliced(job[b.from][b.slot])
                        /\ \E g \in GPUs : HoldsCUs(b, g)}}

Ledger == INSTANCE CULedger WITH
  live <- {p \in Pods : Live(p)},
  held <- [p \in Pods |-> IF Live(p) THEN cu[p] ELSE NoCUs],
  told <- ToldMasks

\* Allocate implements the ledger: CUs are persisted before a container is told of
\* them, are free when taken, and stay with the pod until it ends.
ImplementsLedger == Ledger!Spec

\* A lock that a bind took is released as long as no call failed and kubelet did not
\* restart: each of Allocate's returns releases the lock, or leaves the last container's
\* call to do it.  After a failed read of the node GiveUp returns with the lock held.
LockReleasedWithoutFaults ==
  \A p \in Pods : lock = p ~> (lock # p \/ faults > 0 \/ restarts > 0)

\* Every Allocate call kubelet waits for is answered.
CallsAnswered == \A h \in Handlers : kcall = h ~> kcall # h

\* Every pod placed on the node is admitted or refused.
PodsSettle == \A p \in Pods : phase[p] = "pending" ~> phase[p] # "pending"

===============================================================================
