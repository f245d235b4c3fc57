--------------------------- MODULE NodeLedger_proofs ---------------------------
(***************************************************************************)
(* On the order of the slots rests what containers are told: Allocate      *)
(* implements CULedger, the masks of slices and of whole GPUs do not       *)
(* overlap, the CUs the scheduler booked are free when a container comes   *)
(* for them, and a pod reported as allocated has them all, under the same  *)
(* conditions.                                                             *)
(***************************************************************************)
EXTENDS NodeAllocate_proofs

-------------------------------------------------------------------------------
(* Told masks are persisted and disjoint                                   *)

\* The container's request has a slice, so its CUs are persisted.
Slices(a) == Sliced(job[a.from][a.slot])

\* The CUs a container was told of are its pod's.
ToldHeld ==
  \A a \in got : Live(a.pod) /\ Slices(a) => \A g \in GPUs :
    HoldsCUs(a, g) => a.mask[g] \subseteq cu[a.pod][g]

Planning  == {"validate", "commit", "readBack"}
Persisted == {"trySuccess", "phase", "release", "releaseRetry", "releasePatch", "answer"}
\* The call will tell its container of CUs of g that it persists.
Tells(h, g) ==
  /\ Admits(h) /\ loc[h].ok /\ pc[h] \in Planning \cup Persisted
  /\ Slices(Reply(h)) /\ HoldsCUs(Reply(h), g)
\* These CUs are planned or persisted, and no container of the pod was told of them.
CallTells(h) ==
  \A g \in GPUs : Tells(h, g) =>
    /\ pc[h] \in Planning => loc[h].mask[g] \subseteq loc[h].plan[g]
    /\ pc[h] \in Persisted => loc[h].mask[g] \subseteq cu[loc[h].pod][g]
    /\ \A b \in got : b.pod = loc[h].pod /\ Slices(b) /\ HoldsCUs(b, g)
         => loc[h].mask[g] \cap b.mask[g] = {}

TellInv == ToldHeld /\ \A h \in Handlers : CallTells(h)

\* At first nothing was told.
LEMMA TellInit == Init => TellInv
  BY DEF Init, TellInv, ToldHeld, CallTells, Tells, Admits

\* A step that answers nobody keeps what was told: CUs are added, pods end.
ToldStays ==
  /\ got' = got
  /\ \A a \in got : /\ job'[a.from] = job[a.from]
                    /\ Live(a.pod)' => Live(a.pod)
                    /\ \A g \in GPUs : cu[a.pod][g] \subseteq cu'[a.pod][g]

LEMMA ToldHeldStays == ASSUME ToldHeld, ToldStays PROVE ToldHeld'
<1>1. \A a \in got : /\ Slices(a)' <=> Slices(a)
                     /\ \A g \in GPUs : HoldsCUs(a, g)' <=> HoldsCUs(a, g)
  BY DEF ToldStays, Slices, HoldsCUs
<1> QED BY <1>1 DEF ToldHeld, ToldStays

\* A handler keeps what it is about to tell until it has answered.
LEMMA CallTellsStays ==
  ASSUME ToldStays, NEW h \in Handlers, CallTells(h),
         Admits(h)' => Admits(h),
         Admits(h) /\ loc[h].ok /\ pc[h] \in Planning \cup Persisted =>
           job'[loc[h].cur] = job[loc[h].cur],
         SameSlot(loc[h], loc'[h]), loc'[h].mask = loc[h].mask, loc'[h].plan = loc[h].plan,
         pc'[h] \in Planning => pc[h] \in Planning,
         pc'[h] \in Persisted /\ Admits(h) =>
           \/ pc[h] \in Persisted
              /\ \A g \in GPUs : cu[loc[h].pod][g] \subseteq cu'[loc[h].pod][g]
           \/ pc[h] \in Planning
              /\ \A g \in GPUs : loc[h].plan[g] \subseteq cu'[loc[h].pod][g]
  PROVE  CallTells(h)'
<1>1. Reply(h)' = Reply(h)
  BY DEF Reply, SameSlot
<1>2. Reply(h).from = loc[h].cur /\ Reply(h).slot = loc[h].slot
  BY DEF Reply
<1>3. ASSUME NEW g \in GPUs, Tells(h, g)' PROVE Tells(h, g) /\ Admits(h)
  <2>1. Admits(h) /\ loc[h].ok
    BY <1>3 DEF Tells, SameSlot
  <2>2. pc[h] \in Planning \cup Persisted /\ job'[loc[h].cur] = job[loc[h].cur]
    BY <1>3, <2>1 DEF Tells
  <2>3. Slices(Reply(h)) /\ HoldsCUs(Reply(h), g)
    BY <1>1, <1>2, <1>3, <2>2 DEF Tells, Slices, HoldsCUs
  <2> QED BY <2>1, <2>2, <2>3 DEF Tells
<1>4. \A b \in got, g \in GPUs :
        (Slices(b)' <=> Slices(b)) /\ (HoldsCUs(b, g)' <=> HoldsCUs(b, g))
  BY DEF ToldStays, Slices, HoldsCUs
<1>5. loc'[h].pod = loc[h].pod /\ got' = got
  BY DEF SameSlot, ToldStays
<1>6. ASSUME NEW g \in GPUs, Tells(h, g)'
      PROVE  /\ pc'[h] \in Planning => loc'[h].mask[g] \subseteq loc'[h].plan[g]
             /\ pc'[h] \in Persisted => loc'[h].mask[g] \subseteq cu'[loc'[h].pod][g]
             /\ \A b \in got' : b.pod = loc'[h].pod /\ Slices(b)' /\ HoldsCUs(b, g)'
                  => loc'[h].mask[g] \cap b.mask[g] = {}
  <2>1. Tells(h, g) /\ Admits(h)
    BY <1>3, <1>6
  <2>2. /\ pc[h] \in Planning => loc[h].mask[g] \subseteq loc[h].plan[g]
        /\ pc[h] \in Persisted => loc[h].mask[g] \subseteq cu[loc[h].pod][g]
        /\ \A b \in got : b.pod = loc[h].pod /\ Slices(b) /\ HoldsCUs(b, g)
             => loc[h].mask[g] \cap b.mask[g] = {}
    BY <2>1 DEF CallTells
  <2> QED BY <1>4, <1>5, <2>1, <2>2
<1> QED BY <1>6 DEF CallTells

\* A call that has planned its CUs, and has not failed, serves its own pod.
LEMMA TellsOwn ==
  ASSUME SlotInv, NEW h \in Handlers, Admits(h), loc[h].ok, pc[h] \in Planning \cup Persisted
  PROVE  OwnSlot(h)
  BY DEF SlotInv, CallServes, Planning, Persisted

\* What pods, scheduler and kubelet do keeps what was told: only a new pod gets a job.
LEMMA EnvironmentTold ==
  ASSUME Undisturbed, TypeInv, GrowInv, SlotInv, Environment
  PROVE  /\ ToldStays
         /\ \A p \in Pods : phase[p] # "unbound" =>
              /\ job'[p] = job[p] /\ (Live(p)' => Live(p))
              /\ phase'[p] = "pending" => phase[p] = "pending"
<1> DEFINE Old == \A p \in Pods : phase[p] # "unbound" =>
                    /\ job'[p] = job[p] /\ (Live(p)' => Live(p))
                    /\ phase'[p] = "pending" => phase[p] = "pending"
<1>1. got' = got
  BY DEF Environment, Bind, PlaceForeign, Start, Finish, Remove, Call, KubeletRestart, Crash
<1>2. Old
  <2> USE DEF Live, TypeInv, TypeOK
  <2>1. ASSUME NEW p \in Pods, Bind(p) PROVE Old
    BY <2>1 DEF Bind
  <2>2. ASSUME NEW p \in Pods, PlaceForeign(p) PROVE FALSE
    BY <2>2 DEF PlaceForeign, Undisturbed
  <2>3. ASSUME NEW p \in Pods, Start(p) \/ Finish(p) \/ Remove(p) PROVE Old
    BY <2>3 DEF Start, Finish, Remove
  <2>4. ASSUME NEW h \in Handlers, NEW p \in Pods, Call(h, p) PROVE Old
    BY <2>4 DEF Call, api
  <2>5. CASE KubeletRestart
    BY <2>5 DEF KubeletRestart, api
  <2>6. CASE Crash
    BY <2>6 DEF Crash, Reject
  <2> QED BY <2>1, <2>2, <2>3, <2>4, <2>5, <2>6 DEF Environment
<1>3. \A a \in got : a.from = a.pod /\ a.pod \in Pods /\ phase[a.pod] # "unbound"
  BY DEF Undisturbed, SlotInv, SlotServesItsContainer, TypeInv, TypeOK, Placed
<1>4. cu' = cu
  BY EnvironmentGrows
<1> QED BY <1>1, <1>2, <1>3, <1>4 DEF ToldStays

\* What pods, scheduler and kubelet do changes no mask and takes no CU from a live pod.
LEMMA EnvironmentTells ==
  ASSUME Undisturbed, TypeInv, SliceInv, GrowInv, SlotInv, TellInv, Environment PROVE TellInv'
<1>0. loc \in [Handlers -> Locals] /\ pc \in [Handlers -> Labels] /\ cu' = cu
  BY EnvironmentGrows DEF TypeInv, TypeOK
<1>1. /\ ToldStays
      /\ \A p \in Pods : phase[p] # "unbound" =>
           job'[p] = job[p] /\ (phase'[p] = "pending" => phase[p] = "pending")
  BY EnvironmentTold
<1>2. ASSUME pc' = pc,
             \A h \in Handlers : SameSlot(loc[h], loc'[h]) /\ loc'[h].mask = loc[h].mask
                                 /\ loc'[h].plan = loc[h].plan
      PROVE  TellInv'
  <2>1. ASSUME NEW h \in Handlers, Admits(h)' PROVE Admits(h)
    BY <1>1, <1>2, <2>1 DEF Admits, SameSlot, TypeInv, Placed
  <2>2. ASSUME NEW h \in Handlers, Admits(h), loc[h].ok, pc[h] \in Planning \cup Persisted
        PROVE  job'[loc[h].cur] = job[loc[h].cur]
    BY <1>1, <2>2, TellsOwn DEF OwnSlot, Admits, TypeInv, Placed
  <2> QED BY <1>0, <1>1, <1>2, <2>1, <2>2, ToldHeldStays, CallTellsStays DEF TellInv
<1>3. ASSUME NEW p \in Pods, Bind(p) PROVE TellInv'
  <2>1. pc' = pc /\ loc' = Stale
    BY <1>3 DEF Bind
  <2>2. ASSUME NEW h \in Handlers
        PROVE  SameSlot(loc[h], loc'[h]) /\ loc'[h].mask = loc[h].mask /\ loc'[h].plan = loc[h].plan
    <3>1. loc'[h] = [loc[h] EXCEPT !.fresh = FALSE] /\ loc[h] \in Locals
      BY <1>0, <2>1, Zenon DEF Stale
    <3> QED BY <3>1 DEF Locals, SameSlot
  <2> QED BY <1>2, <2>1, <2>2
<1>4. ASSUME UNCHANGED <<pc, loc>> PROVE TellInv'
  BY <1>2, <1>4 DEF SameSlot
<1>5. ASSUME NEW h \in Handlers, NEW p \in Pods, Call(h, p) PROVE TellInv'
  <2>1. \A k \in Handlers : pc[k] = "idle"
    BY <1>5, ConstantsAssumption DEF Call, SliceInv
  <2>2. \A k \in Handlers : pc'[k] \in {"idle", "getNode"}
    BY <1>0, <1>5, <2>1 DEF Call, Goto
  <2>3. \A k \in Handlers : CallTells(k)'
    BY <2>2 DEF CallTells, Tells, Planning, Persisted
  <2> QED BY <1>1, <2>3, ToldHeldStays DEF TellInv
<1>6. CASE Crash
  <2>1. \A k \in Handlers : CallTells(k)'
    BY <1>6 DEF Crash, CallTells, Tells, Admits
  <2> QED BY <1>1, <2>1, ToldHeldStays DEF TellInv
<1> QED BY <1>3, <1>4, <1>5, <1>6
        DEF Environment, PlaceForeign, Start, Finish, Remove, KubeletRestart

\* A handler that plans nothing, or has failed, is about to tell nothing.
LEMMA CallTellsNothing ==
  ASSUME NEW h \in Handlers, pc'[h] \notin Planning \cup Persisted \/ loc'[h].ok = FALSE
  PROVE  CallTells(h)'
  BY DEF CallTells, Tells

\* A failed call has its verdict.
LEMMA FailTells ==
  ASSUME TypeInv, NEW h \in Handlers, Fail(h) \/ GiveUp(h) PROVE CallTells(h)'
<1>1. loc \in [Handlers -> Locals] /\ loc[h] \in Locals
  BY DEF TypeInv, TypeOK
<1>2. CASE Fail(h)
  BY <1>1, <1>2, CallTellsNothing DEF Fail, Set, Locals
<1>3. CASE GiveUp(h)
  BY <1>1, <1>3, CallTellsNothing DEF GiveUp, Set, Locals
<1> QED BY <1>2, <1>3

\* The CUs planned for a container are free on its GPU: neither its siblings nor other
\* pods were told of them; without a commit it is told of none.
LEMMA ComputeTells ==
  ASSUME TypeInv, SliceInv, SlotInv, TellInv, NEW h \in Handlers, Compute(h) PROVE CallTells(h)'
<1>0. /\ loc[h] \in Locals /\ loc \in [Handlers -> Locals] /\ pc \in [Handlers -> Labels]
      /\ pc[h] = "compute" /\ UNCHANGED <<phase, job, got, cu>>
  BY Zenon DEF Compute, api, TypeInv, TypeOK
<1>1. CASE Fail(h)
  BY <1>1, FailTells
<1>2. CASE ~Fail(h)
  <2> DEFINE L(r) == [loc[h] EXCEPT !.plan = Planned(loc[h], r), !.mask = Masked(loc[h], r),
                                    !.sliced = Sliced(r), !.used = NoCUs]
  <2>1. PICK r \in Request(loc[h]) :
          /\ Set(h, L(r)) /\ Allocatable(loc[h], r)
          /\ Goto(h, IF L(r).sliced /\ L(r).plan # NoCUs THEN "validate" ELSE Done(L(r)))
    BY <1>2, Zenon DEF Compute
  <2>2. /\ L(r).pod = loc[h].pod /\ L(r).ctr = loc[h].ctr /\ L(r).cur = loc[h].cur
        /\ L(r).slot = loc[h].slot /\ L(r).plan = Planned(loc[h], r)
        /\ L(r).mask = Masked(loc[h], r) /\ L(r).sliced = Sliced(r)
    BY <1>0 DEF Locals
  <2> HIDE DEF L
  <2>3. loc'[h] = L(r)
    BY <1>0, <2>1 DEF Set
  <2>4. pc'[h] = IF Sliced(r) /\ Planned(loc[h], r) # NoCUs THEN "validate" ELSE Done(L(r))
    BY <1>0, <2>1, <2>2 DEF Goto
  <2>5. SUFFICES ASSUME NEW g \in GPUs, Tells(h, g)'
                 PROVE  /\ pc'[h] \in Planning =>
                             Masked(loc[h], r)[g] \subseteq Planned(loc[h], r)[g]
                        /\ pc'[h] \in Persisted => Masked(loc[h], r)[g] \subseteq cu[loc[h].pod][g]
                        /\ \A b \in got : b.pod = loc[h].pod /\ Slices(b) /\ HoldsCUs(b, g)
                             => Masked(loc[h], r)[g] \cap b.mask[g] = {}
    BY <1>0, <2>2, <2>3 DEF CallTells, Slices, HoldsCUs
  <2>6. Admits(h) /\ loc[h].pod \in Pods
    BY <1>0, <2>2, <2>3, <2>5 DEF Tells, Admits, TypeInv, Placed
  <2>7. loc[h].cur = loc[h].pod /\ loc[h].slot = loc[h].ctr /\ loc[h].slot # 0
    BY <1>0, <2>6, SlotIsPositive DEF SlotInv, CallServes, OwnSlot
  <2>8. r = job[loc[h].cur][loc[h].slot]
    BY <2>1, <2>7 DEF Request
  <2>9. Sliced(r) /\ g \in DOMAIN r /\ Cores(g, r[g]) > 0
    <3>1. /\ Reply(h)'.from = loc[h].cur /\ Reply(h)'.slot = loc[h].slot
      BY <2>2, <2>3 DEF Reply
    <3> QED BY <1>0, <2>5, <2>8, <3>1 DEF Tells, Slices, HoldsCUs
  <2>10. Masked(loc[h], r)[g] = DeltaFor(loc[h], r, g)
    <3>1. Cores(g, r[g]) # 0
      BY <2>9
    <3> QED BY <3>1 DEF Masked
  <2>11. Planned(loc[h], r)[g] = loc[h].own[g] \cup DeltaFor(loc[h], r, g)
    BY <2>7 DEF Planned
  <2>12. loc[h].own = cu[loc[h].pod]
    BY <1>0, <2>6, <2>7 DEF SliceInv, HandlerInv
  <2>13. loc[h].own[g] \cap DeltaFor(loc[h], r, g) = {}
    BY <2>1, <2>7, <2>9 DEF Allocatable, CanAdd
  <2>14. ASSUME NEW b \in got, b.pod = loc[h].pod, Slices(b), HoldsCUs(b, g)
         PROVE  b.mask[g] \subseteq loc[h].own[g]
    BY <2>6, <2>12, <2>14 DEF TellInv, ToldHeld, Admits, Live
  <2>15. pc'[h] \in Persisted => Planned(loc[h], r) = NoCUs
    BY <2>4, <2>9 DEF Persisted
  <2>16. NoCUs[g] = {}
    BY DEF NoCUs
  <2> QED BY <2>10, <2>11, <2>13, <2>14, <2>15, <2>16
<1> QED BY <1>1, <1>2

\* The container is told of what was planned and persisted for it.
LEMMA AnswerTells ==
  ASSUME TypeInv, SliceInv, SlotInv, TellInv, NEW h \in Handlers, Answer(h) PROVE TellInv'
<1>0. /\ pc \in [Handlers -> Labels] /\ OnlyMoves(h) /\ pc[h] = "answer" /\ kcall = h
      /\ UNCHANGED <<cu, job>>
  BY StepOnlyMoves DEF TypeInv, TypeOK, SliceInv, Answer, Step
<1>1. \A k \in Handlers : pc'[k] = "idle"
  BY <1>0, ConstantsAssumption DEF SliceInv, OnlyMoves, Answer, Goto
<1>2. \A k \in Handlers : CallTells(k)'
  BY <1>1 DEF CallTells, Tells, Admits
<1>3. \A p \in Pods : Live(p)' => Live(p)
  BY DEF Answer, Reject, Live, TypeInv, TypeOK
<1>4. PICK a : a = Reply(h)
  OBVIOUS
<1>5. got' = got \/ (got' = got \cup {a} /\ Admits(h) /\ loc[h].ok)
  BY <1>0, <1>4, Zenon DEF Answer, Reply, Admits
<1>6. \A b : (Slices(b)' <=> Slices(b)) /\ \A g \in GPUs : HoldsCUs(b, g)' <=> HoldsCUs(b, g)
  BY <1>0 DEF Slices, HoldsCUs
<1>7. ASSUME NEW b \in got, Live(b.pod)', Slices(b)', NEW g \in GPUs, HoldsCUs(b, g)'
      PROVE  b.mask[g] \subseteq cu'[b.pod][g]
  <2>1. b.pod \in Pods
    BY DEF TypeInv, TypeOK
  <2> QED BY <1>0, <1>3, <1>6, <1>7, <2>1 DEF TellInv, ToldHeld
<1>8. ASSUME Admits(h), loc[h].ok, Slices(a), NEW g \in GPUs, HoldsCUs(a, g)
      PROVE  a.mask[g] \subseteq cu[a.pod][g]
  <2>1. Tells(h, g)
    BY <1>0, <1>4, <1>8 DEF Tells, Persisted
  <2> QED BY <1>0, <1>4, <2>1 DEF TellInv, CallTells, Persisted, Reply
<1>9. ToldHeld'
  BY <1>0, <1>5, <1>6, <1>7, <1>8 DEF ToldHeld
<1> QED BY <1>2, <1>9 DEF TellInv

\* Only an answer changes what kubelet knows; a handler never changes a job.
LEMMA StepKeepsPods ==
  ASSUME NEW h \in Handlers, Step(h), ~Answer(h) PROVE UNCHANGED <<phase, job, got>>
  BY DEF Step, GetNode, GetPod, ListPending, Rebuild, Erase, Compute, Validate, Commit, ReadBack,
         TrySuccess, PatchPhase, ReleaseGet, ReleasePatch, GiveUp, api

\* The release of the lock changes nothing of the answer.
LEMMA ReleaseKeepsReply ==
  ASSUME TypeInv, NEW h \in Handlers, ReleaseGet(h) \/ ReleasePatch(h)
  PROVE  SameSlot(loc[h], loc'[h]) /\ loc'[h].mask = loc[h].mask /\ loc'[h].plan = loc[h].plan
<1>1. loc[h] \in Locals /\ loc \in [Handlers -> Locals]
  BY DEF TypeInv, TypeOK
<1> DEFINE F == [loc[h] EXCEPT !.fresh = FALSE]
<1>2. F \in Locals /\ F.mask = loc[h].mask /\ F.plan = loc[h].plan /\ SameSlot(loc[h], F)
  BY <1>1 DEF Locals, SameSlot
<1>3. Stale[h] = F /\ Stale \in [Handlers -> Locals]
  BY StaleTypes, Zenon DEF Stale, TypeInv, TypeOK
<1> HIDE DEF F
<1>4. CASE Retry(h)
  BY <1>1, <1>4 DEF Retry, Set, Locals, SameSlot
<1>5. CASE ReleaseGet(h) /\ ~Retry(h)
  BY <1>1, <1>5 DEF ReleaseGet, Set, Locals, SameSlot
<1>6. CASE ReleasePatch(h) /\ ~Retry(h)
  <2>1. CASE loc' = Stale
    BY <1>2, <1>3, <2>1
  <2>2. CASE loc' = [Stale EXCEPT ![h] = [Stale[h] EXCEPT !.tries = @ + 1]]
    <3>1. loc'[h] = [F EXCEPT !.tries = @ + 1]
      BY <1>3, <2>2
    <3> QED BY <1>2, <3>1 DEF Locals, SameSlot
  <2> QED BY <1>6, <2>1, <2>2 DEF ReleasePatch
<1> QED BY <1>4, <1>5, <1>6

\* Every step of a call keeps it.
LEMMA HandlerTells ==
  ASSUME TypeInv, SliceInv, GrowInv, SlotInv, TellInv, NEW h \in Handlers, Step(h)
  PROVE  TellInv'
<1>0. /\ loc[h] \in Locals /\ loc \in [Handlers -> Locals] /\ pc \in [Handlers -> Labels]
      /\ OnlyMoves(h) /\ pc[h] # "idle" /\ loc[h].pod \in Pods
      /\ cu \in [Pods -> [GPUs -> SUBSET Nat]]
  BY StepOnlyMoves DEF TypeInv, TypeOK, Placed
<1>1. CASE Answer(h)
  BY <1>1, AnswerTells
<1>2. CASE ~Answer(h)
  <2>1. UNCHANGED <<phase, job, got>>
    BY <1>2, StepKeepsPods
  <2>2. \A p \in Pods, g \in GPUs : cu[p][g] \subseteq cu'[p][g]
    BY HandlerGrows
  <2>3. ToldStays
    BY <2>1, <2>2 DEF ToldStays, Live, TypeInv, TypeOK
  <2>4. \A k \in Handlers \ {h} : CallTells(k)'
    BY <1>0, ConstantsAssumption, CallTellsNothing DEF SliceInv, OnlyMoves, Planning, Persisted
  <2>5. SUFFICES CallTells(h)'
    BY <2>3, <2>4, ToldHeldStays DEF TellInv
  <2>6. ASSUME SameSlot(loc[h], loc'[h]), loc'[h].mask = loc[h].mask, loc'[h].plan = loc[h].plan,
               pc'[h] \in Planning => pc[h] \in Planning,
               pc'[h] \in Persisted /\ Admits(h) =>
                 \/ pc[h] \in Persisted
                 \/ pc[h] \in Planning
                    /\ \A g \in GPUs : loc[h].plan[g] \subseteq cu'[loc[h].pod][g]
        PROVE  CallTells(h)'
    <3>1. Admits(h)' => Admits(h)
      BY <1>0, <2>1, <2>6 DEF Admits, SameSlot
    <3> QED BY <1>0, <2>1, <2>2, <2>3, <2>6, <3>1, CallTellsStays DEF TellInv
  <2>7. CASE Fail(h) \/ GiveUp(h)
    BY <2>7, FailTells
  <2>8. CASE ~Fail(h) /\ (GetNode(h) \/ GetPod(h) \/ ListPending(h) \/ Rebuild(h) \/ Erase(h))
    <3>1. CASE GiveUp(h)
      BY <3>1, FailTells
    <3>2. CASE ~GiveUp(h)
      <4>1. pc'[h] \in {"listPending", "getPod", "rebuild", "erase", "compute"}
        BY <1>0, <2>8, <3>2 DEF GetNode, GetPod, ListPending, Rebuild, Erase, Snapshot, Goto
      <4> QED BY <4>1, CallTellsNothing DEF Planning, Persisted
    <3> QED BY <3>1, <3>2
  <2>9. CASE Compute(h)
    BY <2>9, ComputeTells
  <2>10. CASE ~Fail(h) /\ Validate(h)
    BY <1>0, <2>6, <2>10 DEF Validate, Goto, SameSlot, Planning, Persisted
  <2>11. CASE Commit(h)
    <3>1. loc' = loc /\ pc[h] = "commit"
      BY <2>11 DEF Commit
    <3>2. CASE pc'[h] = "readBack"
      BY <2>6, <3>1, <3>2 DEF SameSlot, Planning, Persisted
    <3>3. CASE pc'[h] # "readBack"
      <4>1. pc'[h] = "trySuccess" /\ cu' = [cu EXCEPT ![loc[h].cur] = loc[h].plan]
        BY <1>0, <2>11, <3>3 DEF Commit, Goto
      <4>2. Admits(h) => loc[h].cur = loc[h].pod
        BY <3>1 DEF SlotInv, CallServes, OwnSlot
      <4>3. Admits(h) => cu'[loc[h].pod] = loc[h].plan
        BY <1>0, <4>1, <4>2
      <4> QED BY <2>6, <3>1, <4>1, <4>3 DEF SameSlot, Planning, Persisted
    <3> QED BY <3>2, <3>3
  <2>12. CASE ~Fail(h) /\ ReadBack(h)
    <3>1. loc' = loc /\ pc[h] = "readBack" /\ pc'[h] = "trySuccess" /\ cu[loc[h].cur] = loc[h].plan
          /\ cu' = cu
      BY <1>0, <2>12 DEF ReadBack, Goto, api
    <3>2. Admits(h) => loc[h].cur = loc[h].pod
      BY <3>1 DEF SlotInv, CallServes, OwnSlot
    <3> QED BY <2>6, <3>1, <3>2 DEF SameSlot, Planning, Persisted
  <2>13. CASE TrySuccess(h) \/ PatchPhase(h)
    <3>1. loc' = loc /\ pc[h] \in Persisted /\ pc'[h] \in Persisted
      BY <1>0, <2>13 DEF TrySuccess, PatchPhase, Goto, Persisted
    <3> QED BY <2>6, <3>1 DEF SameSlot, Planning, Persisted
  <2>14. CASE ReleaseGet(h) \/ ReleasePatch(h)
    <3>1. pc[h] \in Persisted /\ pc'[h] \in Persisted
      BY <1>0, <2>14 DEF ReleaseGet, ReleasePatch, Retry, Goto, Persisted
    <3>2. SameSlot(loc[h], loc'[h]) /\ loc'[h].mask = loc[h].mask /\ loc'[h].plan = loc[h].plan
      BY <2>14, ReleaseKeepsReply
    <3> QED BY <2>6, <3>1, <3>2 DEF Planning, Persisted
  <2> QED BY <1>2, <2>7, <2>8, <2>9, <2>10, <2>11, <2>12, <2>13, <2>14 DEF Step
<1> QED BY <1>1, <1>2

-------------------------------------------------------------------------------
(* Allocate implements the ledger                                          *)

LedgerInv == TypeInv /\ SliceInv /\ LockInv /\ GrowInv /\ SlotInv /\ TellInv

\* The invariants the refinement rests on, kept together.
LEMMA LedgerNext ==
  ASSUME Undisturbed, LedgerInv, [Next]_vars PROVE LedgerInv'
<1> USE DEF LedgerInv
<1>1. CASE Environment
  BY <1>1, EnvironmentTypes, EnvironmentSlices, EnvironmentGrows, EnvironmentSlots,
     EnvironmentTells, LockNext DEF Undisturbed
<1>2. ASSUME NEW h \in Handlers, Step(h) PROVE LedgerInv'
  BY <1>2, HandlerTypes, HandlerSlices, HandlerGrows, HandlerSlots, HandlerTells, LockNext
<1>3. CASE UNCHANGED vars
  <2>1. TypeInv' /\ SliceInv' /\ GrowInv' /\ LockInv'
    <3>1. TypeInv'
      BY <1>3 DEF vars, api, bounds, TypeInv, TypeOK, Placed, Wants
    <3>2. SliceInv'
      BY <1>3 DEF vars, api, bounds, SliceInv, PodsInv, HandlerInv, PlanIsFree,
                  DisjointSlices, Live
    <3>3. GrowInv'
      BY <1>3 DEF vars, api, GrowInv, PlanGrows
    <3> QED BY <3>1, <3>2, <3>3, LockNext
  <2>2. SlotInv'
    BY <1>3, PodsEndSlots DEF vars, api
  <2>3. ToldStays /\ \A h \in Handlers : SameSlot(loc[h], loc'[h]) /\ (Admits(h)' => Admits(h))
    BY <1>3 DEF vars, api, ToldStays, Live, SameSlot, Admits
  <2>4. TellInv'
    BY <1>3, <2>3, ToldHeldStays, CallTellsStays DEF vars, api, TellInv
  <2> QED BY <2>1, <2>2, <2>4
<1> QED BY <1>1, <1>2, <1>3 DEF Next

\* They hold in every reachable state.
LEMMA LedgerInductive == ASSUME Undisturbed PROVE Spec => []LedgerInv
<1>1. Init => LedgerInv
  BY InitTypes, SliceInit, SlotInit, TellInit
  DEF LedgerInv, Init, LockInv, GrowInv, PlanGrows
<1> QED BY <1>1, LedgerNext, PTL DEF Spec

\* The ledger's variables as Allocate keeps them.
LivePods == {p \in Pods : Live(p)}
Held == [p \in Pods |-> IF Live(p) THEN cu[p] ELSE NoCUs]
\* An answer that told its container of CUs of a slice, and what it told.
TellsSlice(a) ==
  /\ Live(a.pod) /\ a.slot # 0 /\ Sliced(job[a.from][a.slot]) /\ \E g \in GPUs : HoldsCUs(a, g)
Told(a) == [pod |-> a.pod, ctr |-> a.ctr,
            mask |-> [g \in GPUs |-> IF HoldsCUs(a, g) THEN a.mask[g] ELSE {}]]

\* The masks told, answer by answer.
LEMMA ToldMasksAre == ToldMasks = {Told(a) : a \in {b \in got : TellsSlice(b)}}
  BY Zenon DEF ToldMasks, Told, TellsSlice

\* Each step of the ledger in these terms.
LEMMA LedgerStays ==
  ASSUME LivePods' = LivePods, Held' = Held, ToldMasks' = ToldMasks
  PROVE  UNCHANGED Ledger!vars
  BY DEF LivePods, Held, Ledger!vars

LEMMA LedgerEnters ==
  ASSUME NEW p \in Pods, p \notin LivePods, LivePods' = LivePods \cup {p}, Held' = Held,
         ToldMasks' = ToldMasks
  PROVE  Ledger!Next
  BY DEF LivePods, Held, Ledger!Next, Ledger!Enter

LEMMA LedgerLeaves ==
  ASSUME NEW p \in Pods, p \in LivePods, LivePods' = LivePods \ {p},
         Held' = [Held EXCEPT ![p] = NoCUs], ToldMasks' = {a \in ToldMasks : a.pod # p}
  PROVE  Ledger!Next
  BY DEF LivePods, Held, NoCUs, Ledger!Next, Ledger!Leave

LEMMA LedgerTakes ==
  ASSUME NEW p \in Pods, p \in LivePods, LivePods' = LivePods, ToldMasks' = ToldMasks,
         \A q \in Pods \ {p} : Held'[q] = Held[q],
         \A g \in GPUs : /\ Held[p][g] \subseteq Held'[p][g]
                         /\ \A q \in Pods \ {p} : Held'[p][g] \cap Held[q][g] = {}
  PROVE  Ledger!Next
  BY DEF LivePods, Held, Ledger!Next, Ledger!Take

LEMMA LedgerTells ==
  ASSUME NEW p \in Pods, p \in LivePods, LivePods' = LivePods, Held' = Held,
         NEW a, ToldMasks' = ToldMasks \cup {a}, a.pod = p,
         \A g \in GPUs : /\ a.mask[g] \subseteq Held[p][g]
                         /\ \A b \in ToldMasks : b.pod = p => a.mask[g] \cap b.mask[g] = {}
  PROVE  Ledger!Next
  BY DEF LivePods, Held, Ledger!Next, Ledger!Tell

\* The masks told stay as long as answers, jobs and lives do.
LEMMA ToldSame ==
  ASSUME got' = got, \A a \in got : job'[a.from] = job[a.from] /\ (Live(a.pod)' <=> Live(a.pod))
  PROVE  ToldMasks' = ToldMasks
<1>1. \A a \in got, g \in GPUs : HoldsCUs(a, g)' <=> HoldsCUs(a, g)
  BY DEF HoldsCUs
<1>2. \A a \in got : (TellsSlice(a)' <=> TellsSlice(a)) /\ Told(a)' = Told(a)
  BY <1>1 DEF TellsSlice, Told
<1>3. ToldMasks' = {Told(a)' : a \in {b \in got' : TellsSlice(b)'}}
  BY Zenon DEF ToldMasks, Told, TellsSlice
<1> QED BY <1>2, <1>3, ToldMasksAre

\* When only p's life ends, only its masks leave.
LEMMA ToldEnds ==
  ASSUME NEW p \in Pods, UNCHANGED <<got, job>>, ~Live(p)',
         \A a \in got : a.pod # p => (Live(a.pod)' <=> Live(a.pod))
  PROVE  ToldMasks' = {m \in ToldMasks : m.pod # p}
<1>1. \A a \in got, g \in GPUs : HoldsCUs(a, g)' <=> HoldsCUs(a, g)
  BY DEF HoldsCUs
<1>2. \A a \in got : Told(a)' = Told(a) /\ Told(a).pod = a.pod
  BY <1>1 DEF Told
<1>3. \A a \in got : TellsSlice(a)' <=> TellsSlice(a) /\ a.pod # p
  BY <1>1 DEF TellsSlice
<1>4. ToldMasks' = {Told(a)' : a \in {b \in got' : TellsSlice(b)'}}
  BY Zenon DEF ToldMasks, Told, TellsSlice
<1> QED BY <1>2, <1>3, <1>4, ToldMasksAre

\* Pods enter the ledger without CUs when HAMi binds them, and leave it when they end.
LEMMA EnvironmentLedger ==
  ASSUME Undisturbed, LedgerInv, Environment PROVE [Ledger!Next]_(Ledger!vars)
<1> USE DEF LedgerInv
<1>0. phase \in [Pods -> Phases] /\ cu \in [Pods -> [GPUs -> SUBSET Nat]] /\ cu' = cu
  BY EnvironmentGrows DEF TypeInv, TypeOK
<1>1. \A a \in got : a.from = a.pod /\ a.pod \in Pods /\ phase[a.pod] # "unbound"
  BY DEF Undisturbed, SlotInv, SlotServesItsContainer, TypeInv, TypeOK, Placed
<1>2. ASSUME UNCHANGED <<got, job>>, \A p \in Pods : Live(p)' <=> Live(p)
      PROVE  UNCHANGED Ledger!vars
  <2>1. LivePods' = LivePods /\ Held' = Held
    BY <1>0, <1>2 DEF LivePods, Held
  <2>2. ToldMasks' = ToldMasks
    BY <1>1, <1>2, ToldSame
  <2> QED BY <2>1, <2>2, LedgerStays
<1>3. ASSUME NEW p \in Pods, Bind(p) PROVE Ledger!Next
  <2>1. /\ got' = got /\ phase[p] = "unbound" /\ phase'[p] = "pending"
        /\ \A q \in Pods \ {p} : phase'[q] = phase[q] /\ job'[q] = job[q]
    BY <1>3 DEF Bind, TypeInv, TypeOK
  <2>2. p \notin LivePods /\ LivePods' = LivePods \cup {p}
    BY <2>1 DEF LivePods, Live
  <2>3. cu[p] = NoCUs
    BY <2>1 DEF SliceInv, PodsInv
  <2>4. Held' = Held
    <3>1. \A q \in Pods : (IF Live(q)' THEN cu'[q] ELSE NoCUs) = (IF Live(q) THEN cu[q] ELSE NoCUs)
      BY <1>0, <2>1, <2>3 DEF Live
    <3>2. NoCUs' = NoCUs
      BY DEF NoCUs
    <3> QED BY <3>1, <3>2 DEF Held
  <2>5. ToldMasks' = ToldMasks
    <3>1. \A a \in got : job'[a.from] = job[a.from] /\ (Live(a.pod)' <=> Live(a.pod))
      BY <1>1, <2>1 DEF Live
    <3> QED BY <2>1, <3>1, ToldSame
  <2> QED BY <2>2, <2>4, <2>5, LedgerEnters
<1>4. ASSUME NEW p \in Pods, PlaceForeign(p) PROVE FALSE
  BY <1>4 DEF PlaceForeign, Undisturbed
<1>5. ASSUME NEW p \in Pods, Start(p) PROVE UNCHANGED Ledger!vars
  BY <1>0, <1>2, <1>5 DEF Start, Live
<1>6. ASSUME NEW p \in Pods, Finish(p) \/ Remove(p) PROVE [Ledger!Next]_(Ledger!vars)
  <2>1. /\ UNCHANGED <<got, job>> /\ ~Live(p)' /\ phase[p] # "unbound"
        /\ \A q \in Pods \ {p} : Live(q)' <=> Live(q)
    BY <1>0, <1>6 DEF Finish, Remove, Live
  <2>2. CASE Live(p)
    <3>1. p \in LivePods /\ LivePods' = LivePods \ {p}
      BY <2>1, <2>2 DEF LivePods
    <3>2. Held' = [Held EXCEPT ![p] = NoCUs]
      BY <1>0, <2>1 DEF Held, NoCUs
    <3>3. ToldMasks' = {m \in ToldMasks : m.pod # p}
      BY <1>1, <2>1, ToldEnds
    <3> QED BY <3>1, <3>2, <3>3, LedgerLeaves
  <2>3. CASE ~Live(p)
    BY <1>2, <2>1, <2>3
  <2> QED BY <2>2, <2>3
<1>7. ASSUME NEW h \in Handlers, NEW p \in Pods, Call(h, p) PROVE UNCHANGED Ledger!vars
  BY <1>2, <1>7 DEF Call, api, Live
<1>8. CASE KubeletRestart
  BY <1>2, <1>8 DEF KubeletRestart, api, Live
<1>9. CASE Crash
  BY <1>0, <1>2, <1>9 DEF Crash, Reject, Live
<1> QED BY <1>3, <1>4, <1>5, <1>6, <1>7, <1>8, <1>9 DEF Environment

\* A commit takes free CUs for its pod; the masks told stay as they are.
LEMMA CommitLedger ==
  ASSUME LedgerInv, NEW h \in Handlers, pc[h] = "commit", UNCHANGED <<phase, job, got>>,
         cu' = [cu EXCEPT ![loc[h].cur] = loc[h].plan]
  PROVE  [Ledger!Next]_(Ledger!vars)
<1> USE DEF LedgerInv
<1>0. /\ phase \in [Pods -> Phases] /\ cu \in [Pods -> [GPUs -> SUBSET Nat]]
      /\ loc[h].plan \in [GPUs -> SUBSET Nat]
  BY DEF TypeInv, TypeOK, Locals
<1>1. PICK p \in Pods : p = loc[h].cur
  BY DEF SlotInv, CallLock, TypeInv, Placed
<1>2. LivePods' = LivePods /\ ToldMasks' = ToldMasks /\ NoCUs' = NoCUs
  BY ToldSame DEF LivePods, Live, NoCUs
<1>3. \A q \in Pods : /\ Held[q] = (IF Live(q) THEN cu[q] ELSE NoCUs)
                      /\ Held'[q] = (IF Live(q) THEN cu'[q] ELSE NoCUs)
  BY <1>2 DEF Held, Live
<1>4. cu'[p] = loc[h].plan /\ \A q \in Pods \ {p} : cu'[q] = cu[q]
  BY <1>0, <1>1
<1>5. CASE Live(p)
  <2>1. \A g \in GPUs : cu[p][g] \subseteq loc[h].plan[g]
    BY <1>1 DEF GrowInv, PlanGrows
  <2>2. ASSUME NEW q \in Pods \ {p}, NEW g \in GPUs PROVE loc[h].plan[g] \cap Held[q][g] = {}
    <3>1. Live(q) => loc[h].plan[g] \cap cu[q][g] = {}
      BY <1>1, <1>5 DEF SliceInv, HandlerInv, PlanIsFree
    <3> QED BY <1>3, <3>1 DEF NoCUs
  <2>3. p \in LivePods
    BY <1>5 DEF LivePods
  <2> QED BY <1>2, <1>3, <1>4, <1>5, <2>1, <2>2, <2>3, LedgerTakes
<1>6. CASE ~Live(p)
  <2>1. Held' = Held
    BY <1>2, <1>4, <1>6 DEF Held, Live
  <2> QED BY <1>2, <2>1, LedgerStays
<1> QED BY <1>5, <1>6

\* An answer tells a container of CUs of its pod that no sibling was told of; an answer
\* without a slice, or to nobody, tells nothing.
LEMMA AnswerLedger ==
  ASSUME LedgerInv, NEW h \in Handlers, Answer(h) PROVE [Ledger!Next]_(Ledger!vars)
<1> USE DEF LedgerInv
<1>0. /\ phase \in [Pods -> Phases] /\ cu \in [Pods -> [GPUs -> SUBSET Nat]]
      /\ pc[h] = "answer" /\ kcall = h /\ UNCHANGED <<cu, job>> /\ loc[h].pod \in Pods
  BY DEF TypeInv, TypeOK, Placed, SliceInv, Answer
<1>1. \A p \in Pods : Live(p)' <=> Live(p)
  BY <1>0 DEF Answer, Reject, Live
<1>2. LivePods' = LivePods /\ Held' = Held
  BY <1>0, <1>1 DEF LivePods, Held, NoCUs
<1>3. \A a \in got : a.pod \in Pods
  BY DEF TypeInv, TypeOK
<1>4. PICK a : a = Reply(h)
  OBVIOUS
<1>5. a.pod = loc[h].pod /\ a.mask = loc[h].mask
  BY <1>4 DEF Reply
<1>6. got' = got \/ (got' = got \cup {a} /\ Admits(h) /\ loc[h].ok)
  BY <1>0, <1>4, Zenon DEF Answer, Reply, Admits
<1>7. CASE got' = got
  BY <1>0, <1>1, <1>2, <1>3, <1>7, ToldSame, LedgerStays
<1>8. CASE got' = got \cup {a} /\ Admits(h) /\ loc[h].ok
  <2>1. \A b \in got' : b.pod \in Pods
    BY <1>0, <1>3, <1>5, <1>8
  <2>2. \A b, g : HoldsCUs(b, g)' <=> HoldsCUs(b, g)
    BY <1>0 DEF HoldsCUs
  <2>3. \A b \in got' : (TellsSlice(b)' <=> TellsSlice(b)) /\ Told(b)' = Told(b)
    BY <1>0, <1>1, <2>1, <2>2 DEF TellsSlice, Told
  <2>4. ToldMasks' = {Told(b)' : b \in {c \in got' : TellsSlice(c)'}}
    BY Zenon DEF ToldMasks, Told, TellsSlice
  <2>5. ToldMasks' = {Told(b) : b \in {c \in got \cup {a} : TellsSlice(c)}}
    BY <1>8, <2>3, <2>4
  <2>6. CASE ~TellsSlice(a)
    <3>1. ToldMasks' = ToldMasks
      BY <2>5, <2>6, ToldMasksAre
    <3> QED BY <1>2, <3>1, LedgerStays
  <2>7. CASE TellsSlice(a)
    <3>1. ToldMasks' = ToldMasks \cup {Told(a)}
      BY <2>5, <2>7, ToldMasksAre
    <3>2. Slices(a) /\ Live(loc[h].pod)
      BY <1>5, <2>7 DEF TellsSlice, Slices
    <3>3. \A g \in GPUs : Held[loc[h].pod][g] = cu[loc[h].pod][g]
      BY <1>0, <3>2 DEF Held
    <3>4. Told(a).pod = loc[h].pod
      BY <1>5 DEF Told
    <3>5. ASSUME NEW g \in GPUs
          PROVE  /\ Told(a).mask[g] \subseteq Held[loc[h].pod][g]
                 /\ \A m \in ToldMasks : m.pod = loc[h].pod => Told(a).mask[g] \cap m.mask[g] = {}
      <4>1. CASE ~HoldsCUs(a, g)
        BY <4>1 DEF Told
      <4>2. CASE HoldsCUs(a, g)
        <5>1. Told(a).mask[g] = loc[h].mask[g]
          BY <1>5, <4>2 DEF Told
        <5>2. Tells(h, g)
          BY <1>0, <1>4, <1>8, <3>2, <4>2 DEF Tells, Persisted
        <5>3. /\ loc[h].mask[g] \subseteq cu[loc[h].pod][g]
              /\ \A b \in got : b.pod = loc[h].pod /\ Slices(b) /\ HoldsCUs(b, g)
                   => loc[h].mask[g] \cap b.mask[g] = {}
          BY <1>0, <5>2 DEF TellInv, CallTells, Persisted
        <5>4. ASSUME NEW m \in ToldMasks, m.pod = loc[h].pod
              PROVE  loc[h].mask[g] \cap m.mask[g] = {}
          <6>1. PICK b \in got : TellsSlice(b) /\ m = Told(b)
            BY ToldMasksAre
          <6>2. /\ b.pod = loc[h].pod /\ Slices(b)
                /\ m.mask[g] = IF HoldsCUs(b, g) THEN b.mask[g] ELSE {}
            BY <5>4, <6>1 DEF Told, TellsSlice, Slices
          <6> QED BY <5>3, <6>2
        <5> QED BY <3>3, <5>1, <5>3, <5>4
      <4> QED BY <4>1, <4>2
    <3>6. loc[h].pod \in LivePods
      BY <1>0, <3>2 DEF LivePods
    <3> QED BY <1>0, <1>2, <3>1, <3>4, <3>5, <3>6, LedgerTells
  <2> QED BY <2>6, <2>7
<1> QED BY <1>6, <1>7, <1>8

\* Every step of a call is a step of the ledger, or none.
LEMMA HandlerLedger ==
  ASSUME LedgerInv, NEW h \in Handlers, Step(h) PROVE [Ledger!Next]_(Ledger!vars)
<1> USE DEF LedgerInv
<1>1. CASE Answer(h)
  BY <1>1, AnswerLedger
<1>2. CASE ~Answer(h)
  <2>1. UNCHANGED <<phase, job, got>>
    BY <1>2, StepKeepsPods
  <2>2. CASE cu' = cu
    <3>1. LivePods' = LivePods /\ Held' = Held
      BY <2>1, <2>2 DEF LivePods, Held, Live, NoCUs
    <3>2. ToldMasks' = ToldMasks
      BY <2>1, ToldSame DEF Live
    <3> QED BY <3>1, <3>2, LedgerStays
  <2>3. CASE pc[h] = "commit" /\ cu' = [cu EXCEPT ![loc[h].cur] = loc[h].plan]
    BY <2>1, <2>3, CommitLedger
  <2> QED BY <2>2, <2>3, CommitsOnly
<1> QED BY <1>1, <1>2

\* Without lock expiry, kubelet restarts and foreign pods, Allocate implements the
\* ledger: CUs are persisted before a container is told of them, are free when taken,
\* and stay until the pod ends.
THEOREM LedgerImplemented ==
  ASSUME Undisturbed PROVE Spec => ImplementsLedger
<1>1. Init => Ledger!Init
  <2> SUFFICES ASSUME Init PROVE Ledger!Init
    OBVIOUS
  <2>1. LivePods = {} /\ Held = [p \in Pods |-> NoCUs] /\ ToldMasks = {}
    BY ToldMasksAre DEF Init, LivePods, Live, Held
  <2> QED BY <2>1 DEF LivePods, Held, NoCUs, Ledger!Init
<1>2. ASSUME LedgerInv, [Next]_vars PROVE [Ledger!Next]_(Ledger!vars)
  <2>1. CASE Environment
    BY <1>2, <2>1, EnvironmentLedger
  <2>2. ASSUME NEW h \in Handlers, Step(h) PROVE [Ledger!Next]_(Ledger!vars)
    BY <1>2, <2>2, HandlerLedger
  <2>3. CASE UNCHANGED vars
    <3>1. LivePods' = LivePods /\ Held' = Held
      BY <2>3 DEF vars, api, LivePods, Held, Live, NoCUs
    <3>2. ToldMasks' = ToldMasks
      BY <2>3, ToldSame DEF vars, api, Live
    <3> QED BY <3>1, <3>2, LedgerStays
  <2> QED BY <1>2, <2>1, <2>2, <2>3 DEF Next
<1> QED BY LedgerInductive, <1>1, <1>2, PTL DEF Spec, ImplementsLedger, Ledger!Spec

-------------------------------------------------------------------------------
(* Masks of slices and whole GPUs                                          *)

\* A GPU that a live pod takes whole is nobody else's, and one container's.
Exclusive ==
  \A p \in Pods, g \in GPUs : Live(p) /\ TakesAll(job[p], g) =>
    /\ \A q \in Pods \ {p} : Live(q) => Users(job[q], g) = {}
    /\ \A c, d \in Users(job[p], g) : c = d

\* A container is answered once, and siblings are told of different CUs.
SiblingsDiffer ==
  \A a, b \in got : a # b /\ a.pod = b.pod =>
    /\ a.ctr # b.ctr
    /\ Live(a.pod) /\ Slices(a) /\ Slices(b) => \A g \in GPUs :
         HoldsCUs(a, g) /\ HoldsCUs(b, g) => a.mask[g] \cap b.mask[g] = {}

MaskInv == Exclusive /\ SiblingsDiffer

\* The scheduler gives a whole GPU to one container of one pod.
LEMMA BindExclusive ==
  ASSUME Undisturbed, TypeInv, Exclusive, NEW p \in Pods, Bind(p) PROVE Exclusive'
<1>1. PICK j \in Jobs : FitsNode(p, j) /\ job' = [job EXCEPT ![p] = j]
  BY Zenon DEF Bind
<1>2. /\ phase[p] = "unbound" /\ job'[p] = j
      /\ \A q \in Pods \ {p} : phase'[q] = phase[q] /\ job'[q] = job[q]
  BY <1>1 DEF Bind, TypeInv, TypeOK
<1>3. ASSUME NEW g \in GPUs
      PROVE  LET on == {q \in Pods \ {p} : Live(q) /\ Users(job[q], g) # {}}
             IN  /\ TakesAll(j, g) => on = {} /\ Cardinality(Users(j, g)) = 1
                 /\ Users(j, g) # {} => \A q \in on : ~TakesAll(job[q], g)
  <2>1. Pods \ (Foreign \cup {p}) = Pods \ {p}
    BY DEF Undisturbed
  <2> QED BY <1>1, <2>1, Zenon DEF FitsNode
<1>4. ASSUME NEW g \in GPUs, TakesAll(j, g) PROVE \A c, d \in Users(j, g) : c = d
  <2>1. Users(j, g) \subseteq 1 .. Len(j)
    <3>1. j \in Seq({j[c] : c \in DOMAIN j})
      BY ConstantsAssumption DEF IsJob
    <3>2. DOMAIN j = 1 .. Len(j)
      BY <3>1
    <3> QED BY <3>2 DEF Users
  <2>2. Len(j) \in Nat
    <3>1. j \in Seq({j[c] : c \in DOMAIN j})
      BY ConstantsAssumption DEF IsJob
    <3> QED BY <3>1
  <2>3. IsFiniteSet(Users(j, g))
    <3>1. IsFiniteSet(1 .. Len(j))
      BY <2>2, FS_Interval
    <3> QED BY <2>1, <3>1, FS_Subset
  <2>4. Cardinality(Users(j, g)) = 1
    BY <1>3, <1>4
  <2>5. \E x : Users(j, g) = {x}
    BY <2>3, <2>4, FS_Singleton
  <2> QED BY <2>5
<1>5. ASSUME NEW q \in Pods, NEW g \in GPUs, Live(q)', TakesAll(job'[q], g)
      PROVE  /\ \A r \in Pods \ {q} : Live(r)' => Users(job'[r], g) = {}
             /\ \A c, d \in Users(job'[q], g) : c = d
  <2>1. CASE q = p
    BY <1>2, <1>3, <1>4, <1>5, <2>1 DEF Live
  <2>2. CASE q # p
    <3>1. Live(q) /\ TakesAll(job[q], g)
      BY <1>2, <1>5, <2>2 DEF Live
    <3>2. Users(job[q], g) # {}
      BY <3>1 DEF TakesAll
    <3>3. Users(j, g) = {}
      BY <1>3, <2>2, <3>1, <3>2
    <3> QED BY <1>2, <2>2, <3>1, <3>3 DEF Exclusive, Live
  <2> QED BY <2>1, <2>2
<1>6. \A q \in Pods, g \in GPUs : TakesAll(job[q], g)' <=> TakesAll(job'[q], g)
  BY DEF TakesAll, Users
<1>7. \A q \in Pods, g \in GPUs : Users(job[q], g)' = Users(job'[q], g)
  BY DEF Users
<1> QED BY <1>5, <1>6, <1>7 DEF Exclusive

\* Pods that only end, and jobs that do not change, keep it.
LEMMA ExclusiveStays ==
  ASSUME Exclusive, job' = job, \A p \in Pods : Live(p)' => Live(p) PROVE Exclusive'
  BY DEF Exclusive, TakesAll, Users

\* A step that answers nobody keeps siblings' answers apart.
LEMMA SiblingsStay == ASSUME SiblingsDiffer, ToldStays PROVE SiblingsDiffer'
<1>1. \A a \in got : /\ Slices(a)' <=> Slices(a)
                     /\ \A g \in GPUs : HoldsCUs(a, g)' <=> HoldsCUs(a, g)
  BY DEF ToldStays, Slices, HoldsCUs
<1> QED BY <1>1 DEF SiblingsDiffer, ToldStays

\* A container is answered after its siblings before it, with CUs none of them has.
LEMMA AnswerSiblings ==
  ASSUME TypeInv, SliceInv, SlotInv, TellInv, SiblingsDiffer, NEW h \in Handlers, Answer(h)
  PROVE  SiblingsDiffer'
<1>0. pc[h] = "answer" /\ kcall = h /\ job' = job /\ loc[h].pod \in Pods
  BY DEF TypeInv, Placed, SliceInv, Answer
<1>1. PICK a : a = Reply(h)
  OBVIOUS
<1>2. a.pod = loc[h].pod /\ a.ctr = loc[h].ctr /\ a.mask = loc[h].mask
  BY <1>1 DEF Reply
<1>3. got' = got \/ (got' = got \cup {a} /\ Admits(h) /\ loc[h].ok)
  BY <1>0, <1>1, Zenon DEF Answer, Reply, Admits
<1>4. \A b : (Slices(b)' <=> Slices(b)) /\ \A g \in GPUs : HoldsCUs(b, g)' <=> HoldsCUs(b, g)
  BY <1>0 DEF Slices, HoldsCUs
<1>5. \A p \in Pods : Live(p)' => Live(p)
  BY DEF Answer, Reject, Live, TypeInv, TypeOK
<1>6. \A b \in got : b.pod \in Pods
  BY DEF TypeInv, TypeOK
<1>7. ASSUME NEW b \in got, NEW c \in got, b # c, b.pod = c.pod
      PROVE  /\ b.ctr # c.ctr
             /\ Live(b.pod)' /\ Slices(b)' /\ Slices(c)' => \A g \in GPUs :
                  HoldsCUs(b, g)' /\ HoldsCUs(c, g)' => b.mask[g] \cap c.mask[g] = {}
  BY <1>4, <1>5, <1>6, <1>7 DEF SiblingsDiffer
<1>8. ASSUME Admits(h), loc[h].ok, NEW b \in got, b.pod = a.pod
      PROVE  /\ b.ctr # a.ctr
             /\ Slices(a)' /\ Slices(b)' => \A g \in GPUs :
                  HoldsCUs(a, g)' /\ HoldsCUs(b, g)' => a.mask[g] \cap b.mask[g] = {}
  <2>1. b.ctr # a.ctr
    <3>1. Left(loc[h].pod) # {} /\ loc[h].ctr = First(Left(loc[h].pod))
      BY <1>8 DEF SlotInv, CallServes
    <3>2. Left(loc[h].pod) \subseteq Nat
      BY <1>0, SlotsAreNaturals DEF Left, Wants, TypeInv, TypeOK
    <3>3. loc[h].ctr \in Left(loc[h].pod)
      BY <3>1, <3>2, FirstInSet
    <3> QED BY <1>2, <1>8, <3>3 DEF Left, Served
  <2>2. ASSUME NEW g \in GPUs, Slices(a), HoldsCUs(a, g), Slices(b), HoldsCUs(b, g)
        PROVE  a.mask[g] \cap b.mask[g] = {}
    <3>1. Tells(h, g)
      BY <1>0, <1>1, <1>8, <2>2 DEF Tells, Persisted
    <3> QED BY <1>2, <1>8, <2>2, <3>1 DEF TellInv, CallTells
  <2> QED BY <1>4, <2>1, <2>2
<1> QED BY <1>3, <1>7, <1>8 DEF SiblingsDiffer

\* Every step keeps whole GPUs exclusive and siblings' answers apart.
LEMMA MaskNext ==
  ASSUME Undisturbed, LedgerInv, MaskInv, [Next]_vars PROVE MaskInv'
<1> USE DEF LedgerInv, MaskInv
<1>1. CASE Environment
  <2>1. ToldStays /\ \A p \in Pods : phase[p] # "unbound" => (Live(p)' => Live(p))
    BY <1>1, EnvironmentTold
  <2>2. ASSUME NEW p \in Pods, Bind(p) PROVE Exclusive'
    BY <2>2, BindExclusive
  <2>3. ASSUME ~\E p \in Pods : Bind(p) PROVE Exclusive'
    <3>1. job' = job /\ \A p \in Pods : Live(p)' => Live(p)
      BY <1>1, <2>3 DEF Environment, PlaceForeign, Start, Finish, Remove, Call, KubeletRestart,
                        Crash, Reject, api, Live, Undisturbed, TypeInv, TypeOK
    <3> QED BY <3>1, ExclusiveStays
  <2> QED BY <2>1, <2>2, <2>3, SiblingsStay
<1>2. ASSUME NEW h \in Handlers, Step(h) PROVE MaskInv'
  <2>1. CASE Answer(h)
    <3>1. job' = job /\ \A p \in Pods : Live(p)' => Live(p)
      BY <2>1 DEF Answer, Reject, Live, TypeInv, TypeOK
    <3> QED BY <2>1, <3>1, ExclusiveStays, AnswerSiblings
  <2>2. CASE ~Answer(h)
    <3>1. UNCHANGED <<phase, job, got>>
      BY <1>2, <2>2, StepKeepsPods
    <3>2. \A p \in Pods, g \in GPUs : cu[p][g] \subseteq cu'[p][g]
      BY <1>2, HandlerGrows
    <3>3. ToldStays
      BY <3>1, <3>2 DEF ToldStays, Live, TypeInv, TypeOK
    <3>4. \A p \in Pods : Live(p)' => Live(p)
      BY <3>1 DEF Live
    <3> QED BY <3>1, <3>3, <3>4, ExclusiveStays, SiblingsStay
  <2> QED BY <2>1, <2>2
<1>3. CASE UNCHANGED vars
  <2>1. ToldStays /\ job' = job /\ \A p \in Pods : Live(p)' => Live(p)
    BY <1>3 DEF vars, api, ToldStays, Live
  <2> QED BY <2>1, ExclusiveStays, SiblingsStay
<1> QED BY <1>1, <1>2, <1>3 DEF Next

\* What is exclusive or persisted does not overlap.
LEMMA MasksDisjoint == ASSUME Undisturbed, LedgerInv, MaskInv PROVE MasksNeverOverlap
<1> USE DEF LedgerInv, MaskInv
<1> SUFFICES ASSUME NEW a \in got, NEW b \in got, a # b, Live(a.pod), Live(b.pod),
                    NEW g \in GPUs, HoldsCUs(a, g), HoldsCUs(b, g)
             PROVE  a.mask[g] \cap b.mask[g] = {}
  BY DEF MasksNeverOverlap
<1>1. ASSUME NEW c \in got, HoldsCUs(c, g)
      PROVE  /\ c.pod \in Pods /\ c.ctr \in Users(job[c.pod], g)
             /\ ~TakesAll(job[c.pod], g) => Slices(c)
  <2>1. c.pod \in Pods /\ c.from = c.pod /\ c.slot = c.ctr /\ c.ctr \in Wants(c.pod)
    BY DEF Undisturbed, SlotInv, SlotServesItsContainer, TypeInv, TypeOK, Placed
  <2>2. c.ctr \in Users(job[c.pod], g)
    BY <1>1, <2>1 DEF HoldsCUs, Users, Wants
  <2>3. ~TakesAll(job[c.pod], g) => ~IsWhole(g, job[c.pod][c.ctr][g])
    BY <2>2 DEF TakesAll
  <2> QED BY <1>1, <2>1, <2>2, <2>3 DEF Slices, Sliced, HoldsCUs
<1>2. ~TakesAll(job[a.pod], g) /\ ~TakesAll(job[b.pod], g)
  <2>1. /\ a.pod \in Pods /\ b.pod \in Pods /\ a.ctr \in Users(job[a.pod], g)
        /\ b.ctr \in Users(job[b.pod], g)
    BY <1>1
  <2>2. a.pod = b.pod => a.ctr # b.ctr
    BY DEF SiblingsDiffer
  <2>3. ASSUME NEW p \in {a.pod, b.pod}, TakesAll(job[p], g) PROVE FALSE
    <3>1. /\ \A q \in Pods \ {p} : Live(q) => Users(job[q], g) = {}
          /\ \A c, d \in Users(job[p], g) : c = d
      BY <2>1, <2>3 DEF Exclusive
    <3> QED BY <2>1, <2>2, <2>3, <3>1
  <2> QED BY <2>3
<1>3. Slices(a) /\ Slices(b)
  BY <1>1, <1>2
<1>4. CASE a.pod = b.pod
  BY <1>3, <1>4 DEF SiblingsDiffer
<1>5. CASE a.pod # b.pod
  <2>1. a.mask[g] \subseteq cu[a.pod][g] /\ b.mask[g] \subseteq cu[b.pod][g]
    BY <1>3 DEF TellInv, ToldHeld
  <2>2. cu[a.pod][g] \cap cu[b.pod][g] = {}
    BY <1>1, <1>5 DEF SliceInv, PodsInv, DisjointSlices
  <2> QED BY <2>1, <2>2
<1> QED BY <1>4, <1>5

\* Under the same conditions the masks of slices and of whole GPUs that containers
\* of live pods were given never overlap.
THEOREM MasksApart ==
  ASSUME Undisturbed PROVE Spec => []MasksNeverOverlap
<1>1. Init => MaskInv
  BY DEF Init, MaskInv, Exclusive, SiblingsDiffer, Live
<1> QED BY LedgerInductive, <1>1, MaskNext, MasksDisjoint, PTL DEF Spec

-------------------------------------------------------------------------------
(* What the scheduler booked is free                                       *)

\* What job j books on g for its slots in C.
BookedFor(j, C, g) == {t \in Booking(j, g) : t[1] \in C}
\* What the jobs of the node's pods book on g.
Claimed(g) == UNION {{p} \X Booking(job[p], g) : p \in LivePods}

\* The scheduler books no more CUs than the GPU has.
NodeFits(g) == IsFiniteSet(Claimed(g)) /\ Cardinality(Claimed(g)) <= TotalCUs[g]

\* The job takes slices of g only.
OnlySlices(j, g) == \A c \in Users(j, g) : ~IsWhole(g, j[c][g])
\* The CUs S are whole units within what j books for its slots in C, and all of that on
\* a GPU that the job takes slices of only.
Fills(S, j, C) ==
  \A g \in GPUs :
    /\ WholeUnits(S[g], TotalCUs[g], Unit[g])
    /\ Cardinality(S[g]) <= Cardinality(BookedFor(j, C, g))
    /\ OnlySlices(j, g) => Cardinality(S[g]) = Cardinality(BookedFor(j, C, g))

\* What is persisted for a pod is within its bookings; between two calls it is what was
\* booked for the containers admitted; and it is complete when the pod runs and on success.
PodBooks(p) ==
  /\ Live(p) => \A g \in GPUs : /\ WholeUnits(cu[p][g], TotalCUs[g], Unit[g])
                                /\ Cardinality(cu[p][g]) <= Cardinality(Booking(job[p], g))
  /\ phase[p] \in {"pending", "running"} /\ Calls(p) = {} => Fills(cu[p], job[p], Served(p))
  /\ phase[p] = "running" => Calls(p) = {} /\ todo[p] = {} /\ Left(p) = {}
  /\ bindPhase[p] = "success" /\ phase[p] \in {"pending", "running"} =>
       /\ todo[p] = {}
       /\ \A g \in GPUs : OnlySlices(job[p], g) => Cardinality(cu[p][g]) = Booked(job[p], g)

\* The occupancy that h read leaves room for what its container has booked.
HasRoom(h) ==
  LET r == job[loc[h].pod][loc[h].ctr]
  IN  \A g \in DOMAIN r :
        /\ WholeUnits(loc[h].used[g], TotalCUs[g], Unit[g])
        /\ loc[h].own[g] \subseteq loc[h].used[g]
        /\ Cardinality(loc[h].used[g]) + RoundUp(Cores(g, r[g]), Unit[g]) <= TotalCUs[g]

Before == {"getNode", "getPod", "rebuild", "erase", "compute", "validate", "commit"}
\* Until the commit the pod has what its earlier containers booked, then this one's too.
CallFills(h) ==
  LET p == loc[h].pod
      then == Served(p) \cup {loc[h].ctr}
  IN  Admits(h) =>
        /\ pc[h] \in Before => Fills(cu[p], job[p], Served(p))
        /\ pc[h] \in {"erase", "compute"} => HasRoom(h)
        /\ pc[h] \in Planning => Fills(loc[h].plan, job[p], then)
        /\ pc[h] \in Persisted /\ loc[h].ok => Fills(cu[p], job[p], then)
        /\ pc[h] \in Before \cup {"readBack", "trySuccess", "phase"} => bindPhase[p] # "success"
\* A call's pod waits or was deleted; of a running pod, a call for another one has read
\* that no slot is left.
CallPods(h) ==
  pc[h] # "idle" =>
    /\ phase[loc[h].pod] \in {"pending", "gone"}
    /\ loc[h].cur \in Pods \ {loc[h].pod} /\ phase[loc[h].cur] = "running" =>
         (pc[h] = "rebuild" => loc[h].todo = {}) /\ pc[h] # "erase"

BookInv ==
  /\ \A g \in GPUs : NodeFits(g)
  /\ \A p \in Pods : PodBooks(p)
  /\ \A h \in Handlers : CallFills(h) /\ CallPods(h)

\* A job's demands, the CUs it asks for and what it books for a container.
LEMMA DemandTypes ==
  ASSUME NEW g \in GPUs, NEW j \in Jobs \cup {<<>>}, NEW c \in Users(j, g)
  PROVE  /\ j[c][g] \in DemandType /\ Cores(g, j[c][g]) \in Nat
         /\ RoundUp(Cores(g, j[c][g]), Unit[g]) \in Nat
<1>1. j \in Jobs
  <2>1. c \in DOMAIN j
    BY DEF Users
  <2> QED BY <2>1
<1>2. j[c][g] \in DemandType /\ TotalCUs[g] \in Nat /\ Unit[g] \in Nat \ {0}
  BY <1>1, ConstantsAssumption DEF IsJob, Users
<1>3. Cores(g, j[c][g]) \in Nat
  BY <1>2 DEF Cores, DemandType
<1> QED BY <1>2, <1>3, RoundsUp

LEMMA BookingFinite ==
  ASSUME NEW g \in GPUs, NEW j \in Jobs \cup {<<>>} PROVE IsFiniteSet(Booking(j, g))
<1> DEFINE B(c) == {c} \X (1 .. RoundUp(Cores(g, j[c][g]), Unit[g]))
           f == [c \in Users(j, g) |-> B(c)]
           S == {B(c) : c \in Users(j, g)}
<1>1. IsFiniteSet(Users(j, g))
  <2>1. IsFiniteSet(DOMAIN j)
    <3>1. CASE j \in Jobs
      <4>1. PICK n \in Nat : DOMAIN j = 1 .. n
        <5>1. j \in Seq({j[c] : c \in DOMAIN j})
          BY <3>1, ConstantsAssumption DEF IsJob
        <5> QED BY <5>1
      <4> QED BY <4>1, FS_Interval
    <3>2. CASE j = <<>>
      <4>1. DOMAIN j = {}
        BY <3>2
      <4> QED BY <4>1, FS_EmptySet
    <3> QED BY <3>1, <3>2
  <2>2. Users(j, g) \in SUBSET DOMAIN j
    BY DEF Users
  <2> QED BY <2>1, <2>2, FS_Subset
<1>2. ASSUME NEW c \in Users(j, g) PROVE IsFiniteSet(B(c))
  <2>1. IsFiniteSet(1 .. RoundUp(Cores(g, j[c][g]), Unit[g])) /\ IsFiniteSet({c})
    <3>1. PICK n \in Nat : n = RoundUp(Cores(g, j[c][g]), Unit[g])
      BY DemandTypes
    <3>2. IsFiniteSet(1 .. n)
      BY FS_Interval
    <3> QED BY <3>1, <3>2, FS_Singleton
  <2> QED BY <2>1, FS_Product
<1>3. Booking(j, g) = UNION S
  BY DEF Booking
<1> HIDE DEF B
<1>4. f \in Surjection(Users(j, g), S)
  <2>1. f \in [Users(j, g) -> S] /\ \A s \in S : \E c \in Users(j, g) : f[c] = s
    OBVIOUS
  <2> QED BY <2>1, Fun_IsSurj
<1>5. IsFiniteSet(S)
  BY <1>1, <1>4, FS_Surjection
<1>6. \A s \in S : IsFiniteSet(s)
  BY <1>2
<1> QED BY <1>3, <1>5, <1>6, FS_UNION

\* The bookings of some slots, counted.
LEMMA BookedForFinite ==
  ASSUME NEW g \in GPUs, NEW j \in Jobs \cup {<<>>}, NEW C
  PROVE  /\ IsFiniteSet(BookedFor(j, C, g)) /\ Cardinality(BookedFor(j, C, g)) \in Nat
         /\ Cardinality(BookedFor(j, C, g)) <= Cardinality(Booking(j, g))
<1>1. BookedFor(j, C, g) \in SUBSET Booking(j, g)
  BY DEF BookedFor
<1> QED BY <1>1, BookingFinite, FS_Subset, FS_CardinalityType

\* One slot more adds what it booked.
LEMMA BookedForOneMore ==
  ASSUME NEW g \in GPUs, NEW j \in Jobs \cup {<<>>}, NEW C, NEW c, c \notin C
  PROVE  LET all == BookedFor(j, C \cup {c}, g)
         IN  /\ c \notin Users(j, g) => all = BookedFor(j, C, g)
             /\ c \in Users(j, g) =>
                  Cardinality(all) = Cardinality(BookedFor(j, C, g))
                                     + RoundUp(Cores(g, j[c][g]), Unit[g])
<1>1. \A t \in Booking(j, g) : t[1] \in Users(j, g)
  BY DEF Booking
<1>2. ASSUME c \notin Users(j, g) PROVE BookedFor(j, C \cup {c}, g) = BookedFor(j, C, g)
  BY <1>1, <1>2 DEF BookedFor
<1>3. ASSUME c \in Users(j, g)
      PROVE  Cardinality(BookedFor(j, C \cup {c}, g)) =
               Cardinality(BookedFor(j, C, g)) + RoundUp(Cores(g, j[c][g]), Unit[g])
  <2>1. PICK n \in Nat : n = RoundUp(Cores(g, j[c][g]), Unit[g])
    BY <1>3, DemandTypes
  <2> DEFINE B == {c} \X (1 .. n)
  <2>2. BookedFor(j, C \cup {c}, g) = BookedFor(j, C, g) \cup B
    BY <1>3, <2>1 DEF BookedFor, Booking
  <2>3. BookedFor(j, C, g) \cap B = {}
    BY DEF BookedFor
  <2>4. IsFiniteSet(B) /\ Cardinality(B) = n
    <3>1. IsFiniteSet(1 .. n) /\ Cardinality(1 .. n) = n
      BY FS_Interval
    <3>2. IsFiniteSet({c}) /\ Cardinality({c}) = 1
      BY FS_Singleton
    <3> QED BY <3>1, <3>2, FS_Product
  <2> HIDE DEF B
  <2>5. /\ Cardinality(BookedFor(j, C, g) \cup B) =
             Cardinality(BookedFor(j, C, g)) + Cardinality(B) - Cardinality({})
        /\ IsFiniteSet(BookedFor(j, C, g)) /\ Cardinality(BookedFor(j, C, g)) \in Nat
    BY <2>3, <2>4, BookedForFinite, FS_Union
  <2>6. Cardinality({}) = 0
    BY FS_EmptySet
  <2>7. PICK k \in Nat : k = Cardinality(BookedFor(j, C, g))
    BY <2>5
  <2>8. Cardinality(BookedFor(j, C \cup {c}, g)) = k + n - 0
    BY <2>2, <2>4, <2>5, <2>6, <2>7, Zenon
  <2> QED BY <2>1, <2>7, <2>8
<1> QED BY <1>2, <1>3

LEMMA BookedForAll ==
  ASSUME NEW g \in GPUs, NEW p \in Pods, NEW C, Wants(p) \subseteq C
  PROVE  BookedFor(job[p], C, g) = Booking(job[p], g)
<1>1. \A t \in Booking(job[p], g) : t[1] \in Wants(p)
  BY DEF Booking, Users, Wants
<1> QED BY <1>1 DEF BookedFor

\* A job that a pod carries, and the GPUs' numbers.
LEMMA JobTypes ==
  ASSUME TypeInv PROVE \A p \in Pods : job[p] \in Jobs \cup {<<>>}
  BY DEF TypeInv, TypeOK

LEMMA GPUTypes ==
  ASSUME NEW g \in GPUs PROVE TotalCUs[g] \in Nat \ {0} /\ Unit[g] \in Nat \ {0}
  BY ConstantsAssumption

\* A fill of the slots C is within the job's bookings.
LEMMA FillsWithin ==
  ASSUME NEW g \in GPUs, NEW j \in Jobs \cup {<<>>}, NEW S, NEW C, Fills(S, j, C)
  PROVE  /\ WholeUnits(S[g], TotalCUs[g], Unit[g]) /\ IsFiniteSet(S[g])
         /\ Cardinality(S[g]) <= Cardinality(Booking(j, g))
<1>1. WholeUnits(S[g], TotalCUs[g], Unit[g])
      /\ Cardinality(S[g]) <= Cardinality(BookedFor(j, C, g))
  BY DEF Fills
<1>2. IsFiniteSet(S[g]) /\ Cardinality(S[g]) \in Nat
  BY <1>1, GPUTypes, WholeUnitsFinite
<1>3. /\ Cardinality(BookedFor(j, C, g)) \in Nat
      /\ Cardinality(BookedFor(j, C, g)) <= Cardinality(Booking(j, g))
      /\ Cardinality(Booking(j, g)) \in Nat
  BY BookedForFinite, BookingFinite, FS_CardinalityType
<1> QED BY <1>1, <1>2, <1>3

\* Nothing fills no slots.
LEMMA NothingFills ==
  ASSUME NEW j \in Jobs \cup {<<>>} PROVE Fills(NoCUs, j, {})
<1>1. ASSUME NEW g \in GPUs
      PROVE  /\ WholeUnits(NoCUs[g], TotalCUs[g], Unit[g])
             /\ Cardinality(NoCUs[g]) <= Cardinality(BookedFor(j, {}, g))
             /\ Cardinality(NoCUs[g]) = Cardinality(BookedFor(j, {}, g))
  <2>1. NoCUs[g] = {} /\ BookedFor(j, {}, g) = {}
    BY DEF NoCUs, BookedFor
  <2>2. WholeUnits({}, TotalCUs[g], Unit[g]) /\ Cardinality({}) <= Cardinality({})
    BY NoUnits, FS_EmptySet
  <2> QED BY <2>1, <2>2
<1> QED BY <1>1 DEF Fills

-------------------------------------------------------------------------------
(* Steps that keep it                                                      *)

\* At first nothing is booked.
LEMMA BookInit == Init => BookInv
<1> SUFFICES ASSUME Init PROVE BookInv
  OBVIOUS
<1>1. ASSUME NEW g \in GPUs PROVE NodeFits(g)
  <2>1. LivePods = {}
    BY DEF Init, LivePods, Live
  <2>2. Claimed(g) = {}
    BY <2>1 DEF Claimed
  <2> QED BY <2>2, FS_EmptySet, GPUTypes DEF NodeFits
<1>2. ASSUME NEW p \in Pods PROVE PodBooks(p)
  BY DEF Init, PodBooks, Live
<1> QED BY <1>1, <1>2 DEF Init, BookInv, CallFills, CallPods, Admits

\* Pods end, and keep their jobs until then.
LEMMA FitsStays ==
  ASSUME NEW g \in GPUs, NodeFits(g), \A p \in Pods : Live(p)' => Live(p) /\ job'[p] = job[p]
  PROVE  NodeFits(g)'
<1>1. Claimed(g)' \in SUBSET Claimed(g)
  BY DEF Claimed, LivePods
<1>2. IsFiniteSet(Claimed(g)) /\ Cardinality(Claimed(g)) \in Nat /\ TotalCUs[g] \in Nat
  BY GPUTypes, FS_CardinalityType DEF NodeFits
<1>3. IsFiniteSet(Claimed(g)') /\ Cardinality(Claimed(g)') <= Cardinality(Claimed(g))
      /\ Cardinality(Claimed(g)') \in Nat
  BY <1>1, <1>2, FS_Subset, FS_CardinalityType
<1> QED BY <1>2, <1>3 DEF NodeFits

\* Fit: what a new pod books finds room besides what is booked.
LEMMA BindFits ==
  ASSUME Undisturbed, TypeInv, NEW g \in GPUs, NodeFits(g), NEW p \in Pods, Bind(p)
  PROVE  NodeFits(g)'
<1>1. PICK j \in Jobs : FitsNode(p, j) /\ job' = [job EXCEPT ![p] = j]
  BY DEF Bind
<1>2. phase[p] = "unbound" /\ phase' = [phase EXCEPT ![p] = "pending"]
  BY DEF Bind
<1> DEFINE on == {q \in Pods \ (Foreign \cup {p}) : Live(q) /\ Users(job[q], g) # {}}
           booked == UNION {{q} \X Booking(job[q], g) : q \in on}
           B == {p} \X Booking(j, g)
<1>3. Cardinality(booked) + Booked(j, g) <= TotalCUs[g]
  BY <1>1 DEF FitsNode
<1>4. booked = Claimed(g)
  <2>1. ASSUME NEW q \in LivePods, NEW t \in Booking(job[q], g) PROVE q \in on
    BY <1>2 DEF LivePods, Live, Undisturbed, Booking
  <2>2. on \subseteq LivePods
    BY DEF LivePods
  <2> HIDE DEF on
  <2> QED BY <2>1, <2>2 DEF Claimed
<1>5. Claimed(g)' = Claimed(g) \cup B
  <2>1. LivePods' = LivePods \cup {p} /\ p \notin LivePods
    BY <1>2 DEF LivePods, Live, TypeInv, TypeOK
  <2>2. job'[p] = j /\ \A q \in LivePods : job'[q] = job[q]
    BY <1>1, <2>1 DEF LivePods, TypeInv, TypeOK
  <2>3. Claimed(g)' = UNION {{q} \X Booking(job'[q], g) : q \in LivePods'}
    BY DEF Claimed
  <2>4. UNION {{q} \X Booking(job'[q], g) : q \in LivePods'} = Claimed(g) \cup B
    BY <2>1, <2>2 DEF Claimed
  <2> QED BY <2>3, <2>4
<1>6. Claimed(g) \cap B = {}
  BY <1>2 DEF Claimed, LivePods, Live
<1>7. IsFiniteSet(B) /\ Cardinality(B) = Cardinality(Booking(j, g)) /\ Cardinality(B) \in Nat
  <2>1. IsFiniteSet(Booking(j, g)) /\ Cardinality(Booking(j, g)) \in Nat
    BY BookingFinite, FS_CardinalityType
  <2>2. IsFiniteSet({p}) /\ Cardinality({p}) = 1
    BY FS_Singleton
  <2>3. Cardinality(B) = 1 * Cardinality(Booking(j, g)) /\ IsFiniteSet(B)
    BY <2>1, <2>2, FS_Product
  <2> HIDE DEF B
  <2> QED BY <2>1, <2>3
<1> HIDE DEF on, booked, B
<1>8. /\ IsFiniteSet(Claimed(g) \cup B)
      /\ Cardinality(Claimed(g) \cup B) = Cardinality(Claimed(g)) + Cardinality(B) - Cardinality({})
      /\ Cardinality(Claimed(g)) \in Nat
  <2>1. IsFiniteSet(Claimed(g)) /\ Cardinality(Claimed(g)) \in Nat
    BY FS_CardinalityType DEF NodeFits
  <2>2. /\ IsFiniteSet(Claimed(g) \cup B)
        /\ Cardinality(Claimed(g) \cup B) =
             Cardinality(Claimed(g)) + Cardinality(B) - Cardinality(Claimed(g) \cap B)
    BY <1>7, <2>1, FS_Union
  <2> QED BY <1>6, <2>1, <2>2
<1>9. Cardinality({}) = 0
  BY FS_EmptySet
<1>10. Cardinality(Claimed(g) \cup B) <= TotalCUs[g]
  BY <1>3, <1>4, <1>7, <1>8, <1>9, GPUTypes DEF Booked
<1> QED BY <1>5, <1>8, <1>10 DEF NodeFits

\* A pod whose slots and CUs stay, and that keeps its phase or ends.
LEMMA PodFrame ==
  ASSUME NEW p \in Pods, PodBooks(p), cu'[p] = cu[p], job'[p] = job[p], todo'[p] = todo[p],
         bindPhase'[p] = bindPhase[p],
         \/ phase'[p] = phase[p] \/ phase'[p] \in {"done", "gone"}
         \/ phase'[p] = "rejected" /\ phase[p] = "pending",
         phase'[p] \in {"pending", "running"} => Calls(p)' = Calls(p) /\ Served(p)' = Served(p)
  PROVE  PodBooks(p)'
<1>1. Live(p)' => Live(p)
  BY DEF Live
<1>2. phase'[p] \in {"pending", "running"} => phase'[p] = phase[p]
  OBVIOUS
<1>3. Left(p)' = Left(p) \/ phase'[p] \notin {"pending", "running"}
  BY DEF Left, Wants
<1> QED BY <1>1, <1>2, <1>3 DEF PodBooks

\* A call that stands still, while its pod stays or is deleted.
LEMMA CallFrame ==
  ASSUME NEW h \in Handlers, CallFills(h), CallPods(h), pc'[h] = pc[h], got' = got,
         SameSlot(loc[h], loc'[h]), SameView(loc[h], loc'[h]),
         pc[h] # "idle" =>
           /\ cu'[loc[h].pod] = cu[loc[h].pod] /\ job'[loc[h].pod] = job[loc[h].pod]
           /\ bindPhase'[loc[h].pod] = bindPhase[loc[h].pod]
           /\ phase'[loc[h].pod] \in {phase[loc[h].pod], "gone"}
           /\ loc[h].cur \in Pods \ {loc[h].pod} /\ phase'[loc[h].cur] = "running" =>
                \/ phase[loc[h].cur] = "running"
                \/ (pc[h] = "rebuild" => loc[h].todo = {}) /\ pc[h] # "erase"
  PROVE  CallFills(h)' /\ CallPods(h)'
<1> USE DEF SameSlot, SameView
<1>1. CallPods(h)'
  BY DEF CallPods
<1>2. CASE ~Admits(h)'
  BY <1>1, <1>2 DEF CallFills
<1>3. CASE Admits(h)'
  <2>1. Admits(h)
    BY <1>3 DEF Admits
  <2>2. Served(loc[h].pod)' = Served(loc[h].pod)
    BY DEF Served
  <2>3. HasRoom(h) => HasRoom(h)'
    BY <2>1 DEF HasRoom, Admits
  <2> QED BY <1>1, <2>1, <2>2, <2>3 DEF CallFills, Admits
<1> QED BY <1>2, <1>3

\* What pods, scheduler and kubelet do: a new pod has nothing yet, a call starts for a pod
\* that has what its admitted containers booked.
LEMMA EnvironmentBooks ==
  ASSUME Undisturbed, LedgerInv, BookInv, Environment PROVE BookInv'
<1> USE DEF LedgerInv
<1>0. /\ loc \in [Handlers -> Locals] /\ pc \in [Handlers -> Labels] /\ phase \in [Pods -> Phases]
      /\ \A p \in Pods : job[p] \in Jobs \cup {<<>>}
      /\ \A h \in Handlers : pc[h] # "idle" => loc[h].pod \in Pods /\ phase[loc[h].pod] # "unbound"
      /\ got' = got
  BY EnvironmentTold DEF TypeInv, TypeOK, Placed, ToldStays
<1>1. ASSUME NEW p \in Pods, Bind(p) PROVE BookInv'
  <2>1. /\ phase[p] = "unbound" /\ phase' = [phase EXCEPT ![p] = "pending"] /\ loc' = Stale
        /\ bindPhase' = [bindPhase EXCEPT ![p] = "allocating"] /\ UNCHANGED <<cu, got, pc>>
        /\ job'[p] \in Jobs
        /\ \A q \in Pods \ {p} : job'[q] = job[q] /\ todo'[q] = todo[q]
    BY <1>1 DEF Bind, TypeInv, TypeOK
  <2>2. ASSUME NEW h \in Handlers PROVE SameSlot(loc[h], loc'[h]) /\ SameView(loc[h], loc'[h])
    <3>1. loc'[h] = [loc[h] EXCEPT !.fresh = FALSE] /\ loc[h] \in Locals
      BY <1>0, <2>1, Zenon DEF Stale
    <3> QED BY <3>1 DEF Locals, SameSlot, SameView
  <2>3. \A q \in Pods : Calls(q)' = Calls(q) /\ Served(q)' = Served(q)
    BY <2>1, <2>2 DEF Calls, Served, SameSlot
  <2>4. ASSUME NEW q \in Pods \ {p} PROVE PodBooks(q)'
    <3>1. bindPhase'[q] = bindPhase[q] /\ phase'[q] = phase[q]
      BY <2>1 DEF TypeInv, TypeOK
    <3> QED BY <2>1, <2>3, <3>1, PodFrame DEF BookInv
  <2>5. PodBooks(p)'
    <3>1. Served(p) = {} /\ cu'[p] = NoCUs /\ phase'[p] = "pending" /\ bindPhase'[p] = "allocating"
      BY <2>1 DEF Served, TypeInv, TypeOK, Placed, SliceInv, PodsInv
    <3>2. Fills(cu'[p], job'[p], Served(p)')
      BY <2>1, <2>3, <3>1, NothingFills
    <3>3. \A g \in GPUs : /\ WholeUnits(cu'[p][g], TotalCUs[g], Unit[g])
                          /\ Cardinality(cu'[p][g]) <= Cardinality(Booking(job'[p], g))
      BY <2>1, <3>2, FillsWithin
    <3> QED BY <3>1, <3>2, <3>3 DEF PodBooks
  <2>6. ASSUME NEW h \in Handlers PROVE CallFills(h)' /\ CallPods(h)'
    <3>1. ASSUME pc[h] # "idle"
          PROVE  /\ cu'[loc[h].pod] = cu[loc[h].pod] /\ job'[loc[h].pod] = job[loc[h].pod]
                 /\ bindPhase'[loc[h].pod] = bindPhase[loc[h].pod]
                 /\ phase'[loc[h].pod] = phase[loc[h].pod]
                 /\ loc[h].cur \in Pods /\ phase'[loc[h].cur] = "running" =>
                      phase[loc[h].cur] = "running"
      BY <1>0, <2>1, <3>1 DEF TypeInv, TypeOK
    <3> QED BY <2>1, <2>2, <3>1, CallFrame DEF BookInv
  <2> QED BY <1>1, <2>4, <2>5, <2>6, BindFits DEF BookInv
\* The other steps place no pod.
<1>2. ASSUME \A p \in Pods : Live(p)' => Live(p) /\ job'[p] = job[p]
      PROVE  \A g \in GPUs : NodeFits(g)'
  BY <1>2, FitsStays DEF BookInv
<1>3. ASSUME NEW p \in Pods, PlaceForeign(p) PROVE FALSE
  BY <1>3 DEF PlaceForeign, Undisturbed
<1>4. ASSUME NEW p \in Pods, Start(p) \/ Finish(p) \/ Remove(p) PROVE BookInv'
  <2>1. /\ UNCHANGED <<lock, bindPhase, job, todo, cu, got, pc, loc>>
        /\ \A q \in Pods \ {p} : phase'[q] = phase[q]
        /\ \/ phase[p] = "pending" /\ phase'[p] = "running" /\ Served(p) = Wants(p)
           \/ phase[p] \in {"running", "rejected", "done"} /\ phase'[p] \in {"done", "gone"}
           \/ phase[p] = "pending" /\ phase'[p] = "gone"
    BY <1>0, <1>4 DEF Start, Finish, Remove
  <2>2. \A q \in Pods : Calls(q)' = Calls(q) /\ Served(q)' = Served(q) /\ Left(q)' = Left(q)
    BY <2>1 DEF Calls, Served, Left, Wants
  <2>3. ASSUME phase'[p] = "running"
        PROVE  /\ Left(p) = {} /\ Calls(p) = {} /\ todo[p] = {}
               /\ \A h \in Handlers : pc[h] # "idle" => loc[h].pod # p
    <3>1. phase[p] = "pending" /\ Left(p) = {}
      BY <2>1, <2>3 DEF Left
    <3>2. ASSUME NEW h \in Handlers, pc[h] # "idle" PROVE loc[h].pod # p
      BY <3>1, <3>2 DEF SlotInv, CallServes, Admits
    <3>3. Calls(p) = {}
      BY <3>2 DEF Calls
    <3> QED BY <3>1, <3>2, <3>3 DEF SlotInv, PodSlots
  <2>4. ASSUME NEW q \in Pods PROVE PodBooks(q)'
    <3>1. CASE q # p \/ phase'[p] # "running"
      <4>1. \/ phase'[q] = phase[q] \/ phase'[q] \in {"done", "gone"}
        BY <2>1, <3>1
      <4> QED BY <2>1, <2>2, <4>1, PodFrame DEF BookInv
    <3>2. CASE q = p /\ phase'[p] = "running"
      <4>1. phase[p] = "pending" /\ Live(p) /\ PodBooks(p)
        BY <2>1, <3>2 DEF Live, BookInv
      <4> QED BY <2>1, <2>2, <2>3, <3>2, <4>1 DEF PodBooks
    <3> QED BY <3>1, <3>2
  <2>5. ASSUME NEW h \in Handlers PROVE CallFills(h)' /\ CallPods(h)'
    <3>1. ASSUME pc[h] # "idle" PROVE phase'[loc[h].pod] \in {phase[loc[h].pod], "gone"}
      <4>1. phase[loc[h].pod] \in {"pending", "gone"}
        BY <3>1 DEF BookInv, CallPods
      <4> QED BY <1>0, <2>1, <2>3, <3>1, <4>1
    <3>2. ASSUME pc[h] # "idle", loc[h].cur \in Pods \ {loc[h].pod}, phase'[loc[h].cur] = "running",
                 phase[loc[h].cur] # "running"
          PROVE  (pc[h] = "rebuild" => loc[h].todo = {}) /\ pc[h] # "erase"
      BY <2>1, <3>2 DEF SlotInv, CallStrays
    <3>3. SameSlot(loc[h], loc'[h]) /\ SameView(loc[h], loc'[h])
      BY <2>1 DEF SameSlot, SameView
    <3> QED BY <2>1, <3>1, <3>2, <3>3, CallFrame DEF BookInv
  <2>6. \A q \in Pods : Live(q)' => Live(q) /\ job'[q] = job[q]
    BY <2>1 DEF Live
  <2> QED BY <1>2, <2>4, <2>5, <2>6 DEF BookInv
<1>5. ASSUME NEW h \in Handlers, NEW p \in Pods, Call(h, p) PROVE BookInv'
  <2>1. /\ UNCHANGED <<lock, phase, bindPhase, job, todo, cu, got>> /\ kcall = NoHandler
        /\ phase[p] = "pending" /\ Served(p) # Wants(p)
        /\ loc' = [loc EXCEPT ![h] = [NoLocals EXCEPT !.pod = p, !.ctr = First(Wants(p) \ Served(p))]]
        /\ pc' = [pc EXCEPT ![h] = "getNode"]
    BY <1>5 DEF Call, api, Set, Goto
  <2>2. \A k \in Handlers : pc[k] = "idle"
    BY <2>1, ConstantsAssumption DEF SliceInv
  <2>3. /\ loc'[h].pod = p /\ loc'[h].cur = NoPod /\ pc'[h] = "getNode"
        /\ \A k \in Handlers \ {h} : pc'[k] = "idle"
    BY <1>0, <2>1, <2>2 DEF NoLocals
  <2>4. \A q \in Pods : Calls(q) = {} /\ (q # p => Calls(q)' = {}) /\ Served(q)' = Served(q)
    BY <2>1, <2>2, <2>3 DEF Calls, Served
  <2>5. ASSUME NEW q \in Pods PROVE PodBooks(q)'
    <3>1. CASE q # p
      BY <2>1, <2>4, <3>1, PodFrame DEF BookInv
    <3>2. CASE q = p
      <4>1. Calls(p)' # {}
        BY <2>3 DEF Calls
      <4>2. PodBooks(p) /\ phase'[p] = "pending" /\ (Live(p)' <=> Live(p))
        BY <2>1 DEF BookInv, Live
      <4> QED BY <2>1, <3>2, <4>1, <4>2 DEF PodBooks
    <3> QED BY <3>1, <3>2
  <2>6. CallFills(h)'
    <3>1. Left(p) # {}
      BY <2>1 DEF Left, Served, TypeInv, Placed
    <3>2. todo[p] # {}
      BY <2>1, <2>4, <3>1 DEF SlotInv, PodSlots
    <3>3. PodBooks(p)
      BY DEF BookInv
    <3>4. bindPhase'[p] # "success" /\ Fills(cu'[p], job'[p], Served(p)')
      BY <2>1, <2>4, <3>2, <3>3 DEF PodBooks
    <3> QED BY <2>3, <3>4 DEF CallFills, Planning, Persisted
  <2>7. CallPods(h)'
    BY <2>1, <2>3, ConstantsAssumption DEF CallPods
  <2>8. ASSUME NEW k \in Handlers \ {h} PROVE CallFills(k)' /\ CallPods(k)'
    BY <2>3 DEF CallFills, CallPods, Admits
  <2>9. \A q \in Pods : Live(q)' => Live(q) /\ job'[q] = job[q]
    BY <2>1 DEF Live
  <2> QED BY <1>2, <2>5, <2>6, <2>7, <2>8, <2>9 DEF BookInv
<1>6. CASE KubeletRestart
  BY <1>6, ConstantsAssumption DEF KubeletRestart, Undisturbed, TypeInv, TypeOK
<1>7. CASE Crash
  <2>1. PICK h \in Handlers : pc[h] # "idle"
    BY <1>7 DEF Crash
  <2>2. kcall = h /\ loc[h].pod \in Pods /\ \A k \in Handlers \ {h} : pc[k] = "idle"
    BY <1>0, <2>1, ConstantsAssumption DEF SliceInv
  <2>3. /\ UNCHANGED <<lock, bindPhase, job, todo, cu, got>> /\ phase' = Reject(loc[h].pod)
        /\ \A k \in Handlers : pc'[k] = "idle"
    BY <1>7, <2>2, ConstantsAssumption DEF Crash
  <2>4. /\ phase'[loc[h].pod] \in {"rejected", "gone"} /\ phase[loc[h].pod] \in {"pending", "gone"}
        /\ phase'[loc[h].pod] = "rejected" => phase[loc[h].pod] = "pending"
        /\ \A q \in Pods \ {loc[h].pod} : phase'[q] = phase[q]
    BY <1>0, <2>1, <2>2, <2>3 DEF Reject, BookInv, CallPods
  <2>5. ASSUME NEW q \in Pods PROVE PodBooks(q)'
    <3>1. CASE q # loc[h].pod
      <4>1. Calls(q)' = {} /\ Calls(q) = {} /\ Served(q)' = Served(q)
        BY <2>2, <2>3, <3>1 DEF Calls, Served
      <4> QED BY <2>3, <2>4, <3>1, <4>1, PodFrame DEF BookInv
    <3>2. CASE q = loc[h].pod
      BY <2>3, <2>4, <3>2, PodFrame DEF BookInv
    <3> QED BY <3>1, <3>2
  <2>6. \A k \in Handlers : CallFills(k)' /\ CallPods(k)'
    BY <2>3 DEF CallFills, CallPods, Admits
  <2>7. \A q \in Pods : Live(q)' => Live(q) /\ job'[q] = job[q]
    BY <2>3, <2>4 DEF Live
  <2> QED BY <1>2, <2>5, <2>6, <2>7 DEF BookInv
<1> QED BY <1>1, <1>3, <1>4, <1>5, <1>6, <1>7 DEF Environment

-------------------------------------------------------------------------------
(* The occupancy leaves room, and a plan fills what was booked             *)

\* As long as a container of p has nothing yet, what is persisted on the node leaves room
\* for what it has booked: every pod is within its bookings, told apart by pod.
LEMMA OccupancyFits ==
  ASSUME TypeInv, BookInv, NEW p \in Pods, Live(p), NEW g \in GPUs, NEW C,
         Fills(cu[p], job[p], C), NEW c \in Users(job[p], g), c \notin C
  PROVE  /\ WholeUnits(Occupied[g], TotalCUs[g], Unit[g])
         /\ cu[p][g] \subseteq Occupied[g]
         /\ Cardinality(Occupied[g]) + RoundUp(Cores(g, job[p][c][g]), Unit[g]) <= TotalCUs[g]
<1> DEFINE a == [q \in LivePods |-> cu[q][g]]
           b == [q \in LivePods |-> IF q = p THEN BookedFor(job[p], C, g) ELSE Booking(job[q], g)]
           D == UNION {{q} \X b[q] : q \in LivePods}
           E == {p} \X BookedFor(job[p], {c}, g)
           R == RoundUp(Cores(g, job[p][c][g]), Unit[g])
<1>1. \A q \in Pods : job[q] \in Jobs \cup {<<>>}
  BY JobTypes
<1>2. p \in LivePods
  BY DEF LivePods
<1>3. Occupied[g] = UNION {a[q] : q \in LivePods}
  BY DEF Occupied, LivePods
<1>4. ASSUME NEW q \in LivePods PROVE WholeUnits(cu[q][g], TotalCUs[g], Unit[g])
  BY DEF BookInv, PodBooks, LivePods
<1>5. WholeUnits(Occupied[g], TotalCUs[g], Unit[g])
  <2>1. \A S \in {a[q] : q \in LivePods} : WholeUnits(S, TotalCUs[g], Unit[g])
    BY <1>4
  <2> HIDE DEF a
  <2>2. WholeUnits(UNION {a[q] : q \in LivePods}, TotalCUs[g], Unit[g])
    BY <2>1, WholeUnitsUnion
  <2> QED BY <1>3, <2>2
<1>6. ASSUME NEW q \in LivePods
      PROVE  /\ IsFiniteSet(a[q]) /\ IsFiniteSet(b[q])
             /\ Cardinality(a[q]) <= Cardinality(b[q]) /\ b[q] \subseteq Booking(job[q], g)
  <2>1. IsFiniteSet(a[q]) /\ q \in Pods
    BY <1>4, GPUTypes, WholeUnitsFinite DEF LivePods
  <2>2. CASE q = p
    <3>1. b[q] = BookedFor(job[p], C, g) /\ a[q] = cu[p][g]
      BY <1>2, <2>2
    <3>2. Cardinality(cu[p][g]) <= Cardinality(BookedFor(job[p], C, g))
      BY DEF Fills
    <3>3. IsFiniteSet(BookedFor(job[p], C, g)) /\ BookedFor(job[p], C, g) \subseteq Booking(job[p], g)
      BY <1>1, BookedForFinite DEF BookedFor
    <3> QED BY <2>1, <2>2, <3>1, <3>2, <3>3
  <2>3. CASE q # p
    <3>1. b[q] = Booking(job[q], g) /\ a[q] = cu[q][g]
      BY <2>3
    <3>2. IsFiniteSet(Booking(job[q], g))
      BY <1>1, <2>1, BookingFinite
    <3>3. Cardinality(cu[q][g]) <= Cardinality(Booking(job[q], g))
      BY DEF BookInv, PodBooks, LivePods
    <3> QED BY <2>1, <3>1, <3>2, <3>3
  <2> QED BY <2>2, <2>3
<1>7. b[p] = BookedFor(job[p], C, g)
  BY <1>2
<1> HIDE DEF a, b
<1>8. D \cup E \in SUBSET Claimed(g) /\ D \cap E = {}
  <2>1. ASSUME NEW t \in D PROVE t \in Claimed(g)
    BY <1>6 DEF Claimed
  <2>2. ASSUME NEW t \in E PROVE t \in Claimed(g)
    BY <1>2 DEF Claimed, BookedFor
  <2>3. ASSUME NEW t \in E PROVE t \notin D
    <3>1. t[1] = p /\ t[2] \in BookedFor(job[p], {c}, g) /\ t[2] \notin BookedFor(job[p], C, g)
      BY DEF BookedFor
    <3>2. ASSUME t \in D PROVE t[2] \in b[p]
      BY <3>1, <3>2
    <3> QED BY <1>7, <3>1, <3>2
  <2> QED BY <2>1, <2>2, <2>3
<1>9. /\ IsFiniteSet(Claimed(g)) /\ Cardinality(Claimed(g)) <= TotalCUs[g]
      /\ Cardinality(Claimed(g)) \in Nat
  BY FS_CardinalityType DEF BookInv, NodeFits
<1> HIDE DEF D, E
<1>10. /\ IsFiniteSet(D) /\ IsFiniteSet(E) /\ Cardinality(D) \in Nat /\ Cardinality(E) \in Nat
       /\ Cardinality(D \cup E) \in Nat /\ Cardinality(D \cup E) <= Cardinality(Claimed(g))
  <2>1. D \in SUBSET Claimed(g) /\ E \in SUBSET Claimed(g)
    BY <1>8
  <2>2. IsFiniteSet(D) /\ IsFiniteSet(E) /\ IsFiniteSet(D \cup E)
    BY <1>8, <1>9, <2>1, FS_Subset
  <2> QED BY <1>8, <1>9, <2>2, FS_Subset, FS_CardinalityType
<1>11. Cardinality(D \cup E) = Cardinality(D) + Cardinality(E)
  <2>1. Cardinality(D \cup E) = Cardinality(D) + Cardinality(E) - Cardinality(D \cap E)
    BY <1>10, FS_Union
  <2>2. Cardinality(D \cap E) = 0
    BY <1>8, FS_EmptySet
  <2> QED BY <1>10, <2>1, <2>2
<1>12. Cardinality(Occupied[g]) <= Cardinality(D) /\ Cardinality(Occupied[g]) \in Nat
  <2>1. \A q \in LivePods : /\ IsFiniteSet(a[q]) /\ IsFiniteSet(b[q])
                           /\ Cardinality(a[q]) <= Cardinality(b[q])
    BY <1>6
  <2>2. \A i \in Occupied[g] : \E q \in LivePods : i \in a[q]
    BY <1>3
  <2>3. \A q \in LivePods : {q} \X b[q] \subseteq D
    BY DEF D
  <2>4. IsFiniteSet(Occupied[g]) /\ Cardinality(Occupied[g]) <= Cardinality(D)
    BY <1>10, <2>1, <2>2, <2>3, WithinBudgets
  <2> QED BY <2>4, FS_CardinalityType
<1>13. Cardinality(E) = R /\ R \in Nat
  <2>1. Cardinality(BookedFor(job[p], {} \cup {c}, g)) = Cardinality(BookedFor(job[p], {}, g)) + R
    BY <1>1, BookedForOneMore
  <2>2. BookedFor(job[p], {}, g) = {} /\ {} \cup {c} = {c}
    BY DEF BookedFor
  <2>3. Cardinality({}) = 0 /\ R \in Nat
    BY <1>1, DemandTypes, FS_EmptySet
  <2> HIDE DEF R
  <2>4. Cardinality(BookedFor(job[p], {c}, g)) = R
    BY <2>1, <2>2, <2>3
  <2>5. IsFiniteSet({p}) /\ Cardinality({p}) = 1 /\ IsFiniteSet(BookedFor(job[p], {c}, g))
    BY <1>1, BookedForFinite, FS_Singleton
  <2>6. Cardinality(E) = 1 * R
    BY <2>4, <2>5, FS_Product DEF E
  <2> QED BY <2>3, <2>6
<1>14. cu[p][g] \subseteq Occupied[g]
  BY DEF Occupied
<1>15. TotalCUs[g] \in Nat
  BY GPUTypes
<1> HIDE DEF R
<1>16. Cardinality(Occupied[g]) + R <= TotalCUs[g]
  BY <1>9, <1>10, <1>11, <1>12, <1>13, <1>15
<1> QED BY <1>5, <1>14, <1>16 DEF R

\* The plan for the next slot: what the pod holds and, per GPU, what the slot booked.
LEMMA PlannedFills ==
  ASSUME NEW j \in Jobs, NEW C, NEW c \in DOMAIN j, c \notin C,
         NEW l, l.slot # 0, Fills(l.own, j, C), Allocatable(l, j[c])
  PROVE  Fills(Planned(l, j[c]), j, C \cup {c})
<1> SUFFICES ASSUME NEW g \in GPUs
             PROVE  LET S == Planned(l, j[c])[g]
                        n == Cardinality(BookedFor(j, C \cup {c}, g))
                    IN  /\ WholeUnits(S, TotalCUs[g], Unit[g]) /\ Cardinality(S) <= n
                        /\ OnlySlices(j, g) => Cardinality(S) = n
  BY DEF Fills
<1> DEFINE d == DeltaFor(l, j[c], g)
           S == l.own[g] \cup d
           k == Cardinality(BookedFor(j, C, g))
           n == Cardinality(BookedFor(j, C \cup {c}, g))
<1>1. Planned(l, j[c])[g] = S
  BY DEF Planned
<1>2. /\ WholeUnits(l.own[g], TotalCUs[g], Unit[g]) /\ Cardinality(l.own[g]) <= k
      /\ OnlySlices(j, g) => Cardinality(l.own[g]) = k
  BY DEF Fills
<1>3. /\ IsFiniteSet(l.own[g]) /\ Cardinality(l.own[g]) \in Nat
      /\ TotalCUs[g] \in Nat /\ Unit[g] \in Nat \ {0} /\ k \in Nat
  BY <1>2, GPUTypes, WholeUnitsFinite, BookedForFinite
<1>4. CASE c \in Users(j, g) /\ Cores(g, j[c][g]) > 0
  <2>1. g \in DOMAIN j[c] /\ Cores(g, j[c][g]) \in Nat
    BY <1>4, DemandTypes DEF Users
  <2>2. PICK m \in Nat : m = Cores(g, j[c][g])
    BY <2>1
  <2>3. d = AllocateN(UsedFor(l, g), TotalCUs[g], m, Unit[g])
    BY <1>4, <2>1, <2>2 DEF DeltaFor
  <2>4. CanAllocate(UsedFor(l, g), TotalCUs[g], m, Unit[g]) /\ l.own[g] \cap d = {}
    BY <1>4, <2>1, <2>2 DEF Allocatable, CanAdd
  <2>5. WholeUnits(d, TotalCUs[g], Unit[g]) /\ Cardinality(d) = RoundUp(m, Unit[g])
    BY <1>3, <2>3, <2>4, AllocateNCounts
  <2>6. IsFiniteSet(d) /\ Cardinality(d) \in Nat
    BY <1>3, <2>5, WholeUnitsFinite
  <2> HIDE DEF d
  <2>7. Cardinality(S) = Cardinality(l.own[g]) + Cardinality(d) - Cardinality(l.own[g] \cap d)
    BY <1>3, <2>6, FS_Union
  <2>8. Cardinality(l.own[g] \cap d) = 0
    BY <2>4, FS_EmptySet
  <2>9. n = k + Cardinality(d)
    BY <1>4, <2>2, <2>5, BookedForOneMore
  <2>10. WholeUnits(S, TotalCUs[g], Unit[g])
    BY <1>2, <2>5, WholeUnitsJoin
  <2>11. PICK x \in Nat, y \in Nat : x = Cardinality(l.own[g]) /\ y = Cardinality(d)
    BY <1>3, <2>6
  <2> HIDE DEF S, k, n
  <2>12. Cardinality(S) = x + y /\ n = k + y /\ x <= k /\ (OnlySlices(j, g) => x = k)
    BY <1>2, <2>7, <2>8, <2>9, <2>11
  <2>13. Cardinality(S) <= n /\ (OnlySlices(j, g) => Cardinality(S) = n)
    BY <1>3, <2>12
  <2> QED BY <1>1, <2>10, <2>13 DEF n
<1>5. CASE ~(c \in Users(j, g) /\ Cores(g, j[c][g]) > 0)
  <2>1. d = {}
    BY <1>5 DEF DeltaFor, Users
  <2>2. n = k
    <3>1. CASE c \notin Users(j, g)
      BY <3>1, BookedForOneMore
    <3>2. CASE c \in Users(j, g)
      <4>1. Cores(g, j[c][g]) = 0
        BY <1>5, <3>2, DemandTypes
      <4>2. RoundUp(0, Unit[g]) = 0
        <5>1. 0 % Unit[g] = 0
          BY <1>3
        <5> QED BY <1>3, <5>1, RoundsUp
      <4>3. n = k + 0
        BY <3>2, <4>1, <4>2, BookedForOneMore
      <4> HIDE DEF n, k
      <4> QED BY <1>3, <4>3
    <3> QED BY <3>1, <3>2
  <2>3. S = l.own[g]
    BY <2>1
  <2> HIDE DEF S, k, n
  <2> QED BY <1>1, <1>2, <2>2, <2>3 DEF n
<1> QED BY <1>4, <1>5

\* Without a commit: the slot takes whole GPUs, which are not persisted, or books no CUs.
LEMMA UnplannedFills ==
  ASSUME NEW j \in Jobs, NEW C, NEW c \in DOMAIN j, c \notin C,
         NEW l, l.slot # 0, Fills(l.own, j, C), Allocatable(l, j[c]),
         ~Sliced(j[c]) \/ Planned(l, j[c]) = NoCUs
  PROVE  Fills(l.own, j, C \cup {c})
<1>1. CASE Planned(l, j[c]) = NoCUs
  <2>1. Fills(NoCUs, j, C \cup {c})
    BY <1>1, PlannedFills
  <2>2. ASSUME NEW g \in GPUs PROVE l.own[g] = NoCUs[g]
    <3>1. l.own[g] \subseteq Planned(l, j[c])[g]
      BY DEF Planned
    <3> QED BY <1>1, <3>1 DEF NoCUs
  <2> QED BY <2>1, <2>2 DEF Fills
<1>2. CASE ~Sliced(j[c])
  <2> SUFFICES ASSUME NEW g \in GPUs
               PROVE  LET n == Cardinality(BookedFor(j, C \cup {c}, g))
                      IN  /\ WholeUnits(l.own[g], TotalCUs[g], Unit[g])
                          /\ Cardinality(l.own[g]) <= n
                          /\ OnlySlices(j, g) => Cardinality(l.own[g]) = n
    BY DEF Fills
  <2>1. CASE c \notin Users(j, g)
    <3>1. BookedFor(j, C \cup {c}, g) = BookedFor(j, C, g)
      BY <2>1, BookedForOneMore
    <3> QED BY <3>1 DEF Fills
  <2>2. CASE c \in Users(j, g)
    <3>1. ~OnlySlices(j, g)
      BY <1>2, <2>2 DEF Sliced, OnlySlices, Users
    <3>2. BookedFor(j, C, g) \in SUBSET BookedFor(j, C \cup {c}, g)
      BY DEF BookedFor
    <3>3. /\ WholeUnits(l.own[g], TotalCUs[g], Unit[g])
          /\ Cardinality(l.own[g]) <= Cardinality(BookedFor(j, C, g))
      BY DEF Fills
    <3>4. Cardinality(l.own[g]) \in Nat
      BY <3>3, GPUTypes, WholeUnitsFinite
    <3>5. /\ Cardinality(BookedFor(j, C, g)) <= Cardinality(BookedFor(j, C \cup {c}, g))
          /\ Cardinality(BookedFor(j, C, g)) \in Nat
          /\ Cardinality(BookedFor(j, C \cup {c}, g)) \in Nat
      BY <3>2, BookedForFinite, FS_Subset
    <3>6. Cardinality(l.own[g]) <= Cardinality(BookedFor(j, C \cup {c}, g))
      BY <3>3, <3>4, <3>5
    <3> QED BY <3>1, <3>3, <3>6
  <2> QED BY <2>1, <2>2
<1> QED BY <1>1, <1>2


-------------------------------------------------------------------------------
(* The steps of a call                                                     *)

\* The container called for has nothing yet, and it is one of its job's.
LEMMA ContainerIsLeft ==
  ASSUME TypeInv, SlotInv, NEW h \in Handlers, Admits(h)
  PROVE  /\ loc[h].pod \in Pods /\ job[loc[h].pod] \in Jobs
         /\ loc[h].ctr \in DOMAIN job[loc[h].pod] /\ loc[h].ctr \notin Served(loc[h].pod)
<1>1. /\ loc[h].pod \in Pods /\ Left(loc[h].pod) # {}
      /\ loc[h].ctr = First(Left(loc[h].pod))
  BY DEF Admits, TypeInv, Placed, SlotInv, CallServes
<1>2. job[loc[h].pod] \in Jobs \cup {<<>>}
  BY <1>1 DEF TypeInv, TypeOK
<1>3. Left(loc[h].pod) \in SUBSET Nat
  BY <1>2, SlotsAreNaturals DEF Left, Wants
<1>4. loc[h].ctr \in Left(loc[h].pod)
  BY <1>1, <1>3, FirstInSet
<1>5. loc[h].ctr \in DOMAIN job[loc[h].pod] /\ loc[h].ctr \notin Served(loc[h].pod)
  BY <1>4 DEF Left, Wants
<1> QED BY <1>1, <1>2, <1>5

\* What is left to show of a step of h that does not answer: its own clauses, and the
\* books of the pods it patches.
LEMMA StepBooks ==
  ASSUME LedgerInv, BookInv, NEW h \in Handlers, pc[h] # "idle", OnlyMoves(h),
         pc'[h] # "idle", loc'[h].pod = loc[h].pod, UNCHANGED <<phase, job, got>>,
         \A p \in Pods : \/ cu'[p] = cu[p] /\ todo'[p] = todo[p] /\ bindPhase'[p] = bindPhase[p]
                         \/ PodBooks(p)',
         CallFills(h)', CallPods(h)'
  PROVE  BookInv'
<1>1. \A k \in Handlers \ {h} : pc[k] = "idle" /\ pc'[k] = "idle"
  BY ConstantsAssumption DEF LedgerInv, SliceInv, OnlyMoves
<1>2. \A g \in GPUs : NodeFits(g)'
  BY FitsStays DEF BookInv, Live
<1>3. ASSUME NEW p \in Pods PROVE PodBooks(p)'
  <2>1. Calls(p)' = Calls(p) /\ Served(p)' = Served(p)
    BY <1>1 DEF Calls, Served
  <2> QED BY <2>1, PodFrame DEF BookInv
<1>4. \A k \in Handlers \ {h} : CallFills(k)' /\ CallPods(k)'
  BY <1>1 DEF CallFills, CallPods, Admits
<1> QED BY <1>2, <1>3, <1>4 DEF BookInv

\* A call moves on within what it planned or persisted.
LEMMA CallMoves ==
  ASSUME NEW h \in Handlers, CallFills(h), CallPods(h), pc[h] # "idle",
         UNCHANGED <<phase, job, got>>, loc'[h].pod = loc[h].pod, loc'[h].ctr = loc[h].ctr,
         cu'[loc[h].pod] = cu[loc[h].pod],
         Admits(h) =>
           /\ pc'[h] \in Before => pc[h] \in Before
           /\ pc'[h] \in {"erase", "compute"} => HasRoom(h)'
           /\ pc'[h] \in Planning => pc[h] \in Planning /\ loc'[h].plan = loc[h].plan
           /\ pc'[h] \in Persisted /\ loc'[h].ok => pc[h] \in Persisted /\ loc[h].ok
           /\ pc'[h] \in Before \cup {"readBack", "trySuccess", "phase"} =>
                /\ pc[h] \in Before \cup {"readBack", "trySuccess", "phase"}
                /\ bindPhase'[loc[h].pod] = bindPhase[loc[h].pod],
         loc'[h].cur \in Pods \ {loc[h].pod} /\ phase[loc'[h].cur] = "running" =>
           (pc'[h] = "rebuild" => loc'[h].todo = {}) /\ pc'[h] # "erase"
  PROVE  CallFills(h)' /\ CallPods(h)'
<1>1. CallPods(h)'
  BY DEF CallPods
<1>2. ASSUME Admits(h)' PROVE CallFills(h)'
  <2>1. Admits(h)
    BY <1>2 DEF Admits
  <2>2. Served(loc[h].pod)' = Served(loc[h].pod)
    BY DEF Served
  <2> QED BY <2>1, <2>2 DEF CallFills
<1> QED BY <1>1, <1>2 DEF CallFills

\* A call that fails has only to report it.
LEMMA FailBooks ==
  ASSUME LedgerInv, BookInv, NEW h \in Handlers, pc[h] # "idle", OnlyMoves(h),
         UNCHANGED <<phase, job, got, cu, bindPhase>>,
         \A p \in Pods : todo'[p] = todo[p] \/ PodBooks(p)',
         GiveUp(h) \/ (Fail(h) /\ pc[h] \in Before \cup {"readBack"})
  PROVE  BookInv'
<1>1. loc[h] \in Locals /\ loc \in [Handlers -> Locals] /\ pc \in [Handlers -> Labels]
  BY DEF LedgerInv, TypeInv, TypeOK
<1>2. /\ pc'[h] \in {"answer", "phase"} /\ loc'[h].ok = FALSE
      /\ loc'[h].pod = loc[h].pod /\ loc'[h].ctr = loc[h].ctr
      /\ pc'[h] = "phase" => pc[h] \in Before \cup {"readBack"}
  <2>1. CASE Fail(h) /\ pc[h] \in Before \cup {"readBack"}
    BY <1>1, <2>1 DEF Fail, Set, Goto, Locals
  <2>2. CASE GiveUp(h)
    BY <1>1, <2>2 DEF GiveUp, Set, Goto, Locals
  <2> QED BY <2>1, <2>2
<1>3. CallFills(h)' /\ CallPods(h)'
  BY <1>2, CallMoves DEF BookInv, Before, Planning
<1> QED BY <1>2, <1>3, StepBooks

\* A call reads which pod to serve.
LEMMA ReadBooks ==
  ASSUME LedgerInv, BookInv, NEW h \in Handlers, GetNode(h) \/ GetPod(h) \/ ListPending(h)
  PROVE  BookInv'
<1>0. /\ loc[h] \in Locals /\ loc \in [Handlers -> Locals] /\ pc \in [Handlers -> Labels]
      /\ OnlyMoves(h) /\ pc[h] # "idle" /\ loc[h].pod \in Pods
  BY StepOnlyMoves DEF LedgerInv, TypeInv, TypeOK, Placed, Step
<1>1. UNCHANGED <<phase, job, got, cu, bindPhase, todo, lock>>
  BY DEF GetNode, GetPod, ListPending, GiveUp, Snapshot, api
<1>2. CallLock(h) /\ CallServes(h) /\ CallFills(h) /\ CallPods(h)
  BY DEF LedgerInv, SlotInv, BookInv
<1>3. CASE GiveUp(h)
  BY <1>0, <1>1, <1>3, FailBooks
<1>4. CASE GetNode(h) /\ ~GiveUp(h)
  <2>1. lock = loc[h].pod /\ pc[h] = "getNode"
    BY <1>2, <1>4 DEF GetNode, CallLock
  <2>2. /\ loc'[h].pod = loc[h].pod /\ loc'[h].ctr = loc[h].ctr /\ loc'[h].cur = loc[h].pod
        /\ pc'[h] = "getPod"
    BY <1>0, <1>4, <2>1, ConstantsAssumption DEF GetNode, Goto, Set, Locals
  <2>3. CallFills(h)' /\ CallPods(h)'
    BY <1>1, <1>2, <2>1, <2>2, CallMoves DEF Before, Planning, Persisted
  <2> QED BY <1>0, <1>1, <2>2, <2>3, StepBooks
<1>5. CASE GetPod(h) /\ ~GiveUp(h)
  <2>1. loc[h].cur = loc[h].pod /\ pc[h] = "getPod"
    BY <1>2, <1>5 DEF GetPod, CallLock
  <2>2. /\ loc'[h].pod = loc[h].pod /\ loc'[h].ctr = loc[h].ctr
        /\ loc'[h].cur \in {loc[h].pod, NoPod} /\ pc'[h] \in {"rebuild", "listPending"}
    <3>1. CASE Snapshot(h, loc[h].cur)
      BY <1>0, <2>1, <3>1 DEF Snapshot, Goto, Set, Locals
    <3>2. CASE Goto(h, "listPending") /\ Set(h, [loc[h] EXCEPT !.cur = NoPod])
      BY <1>0, <2>1, <3>2 DEF Goto, Set, Locals
    <3> QED BY <1>5, <3>1, <3>2 DEF GetPod
  <2>3. CallFills(h)' /\ CallPods(h)'
    BY <1>1, <1>2, <2>1, <2>2, CallMoves, ConstantsAssumption DEF Before, Planning, Persisted
  <2> QED BY <1>0, <1>1, <2>2, <2>3, StepBooks
<1>6. CASE ListPending(h) /\ ~GiveUp(h)
  <2>1. pc[h] = "listPending" /\ ~Admits(h) /\ loc[h].cur = NoPod
    BY <1>2, <1>6 DEF ListPending, CallServes, LedgerInv, SliceInv, HandlerInv
  <2>2. /\ loc'[h].pod = loc[h].pod /\ loc'[h].ctr = loc[h].ctr /\ pc'[h] = "rebuild"
        /\ loc'[h].cur \in Pods => phase[loc'[h].cur] # "running"
    <3>1. CASE UNCHANGED loc /\ Goto(h, "rebuild")
      BY <1>0, <2>1, <3>1, ConstantsAssumption DEF Goto
    <3>2. ASSUME NEW p \in Pods, Binding(p), Snapshot(h, p)
          PROVE  /\ loc'[h].pod = loc[h].pod /\ loc'[h].ctr = loc[h].ctr /\ pc'[h] = "rebuild"
                 /\ loc'[h].cur = p /\ phase[p] # "running"
      BY <1>0, <3>2 DEF Snapshot, Binding, Goto, Set, Locals
    <3> QED BY <1>6, <3>1, <3>2 DEF ListPending
  <2>3. CallFills(h)' /\ CallPods(h)'
    BY <1>1, <1>2, <2>1, <2>2, CallMoves
  <2> QED BY <1>0, <1>1, <2>2, <2>3, StepBooks
<1> QED BY <1>3, <1>4, <1>5, <1>6

\* The occupancy read leaves room for what the container has booked.
LEMMA RebuildBooks ==
  ASSUME LedgerInv, BookInv, NEW h \in Handlers, Rebuild(h) PROVE BookInv'
<1>0. /\ loc[h] \in Locals /\ loc \in [Handlers -> Locals] /\ pc \in [Handlers -> Labels]
      /\ OnlyMoves(h) /\ pc[h] = "rebuild" /\ loc[h].pod \in Pods
      /\ UNCHANGED <<phase, job, got, cu, bindPhase, todo, lock>>
  BY StepOnlyMoves DEF LedgerInv, TypeInv, TypeOK, Placed, Step, Rebuild, api
<1>1. CallServes(h) /\ CallFills(h) /\ CallPods(h)
  BY DEF LedgerInv, SlotInv, BookInv
<1>2. CASE Fail(h)
  BY <1>0, <1>2, FailBooks DEF Before
<1>3. CASE ~Fail(h)
  <2> DEFINE l == [loc[h] EXCEPT !.used = Occupied, !.slot = NextSlot(loc[h])]
  <2>1. Set(h, l)
    BY <1>3 DEF Rebuild
  <2>2. /\ l.pod = loc[h].pod /\ l.ctr = loc[h].ctr /\ l.cur = loc[h].cur /\ l.own = loc[h].own
        /\ l.ok = loc[h].ok /\ l.todo = loc[h].todo /\ l.used = Occupied
    BY <1>0 DEF Locals
  <2> HIDE DEF l
  <2>3. loc'[h] = l
    BY <1>0, <2>1 DEF Set
  <2>4. pc'[h] = IF NextSlot(loc[h]) = 0 THEN "compute" ELSE "erase"
    BY <1>0, <1>3 DEF Rebuild, Goto
  <2>5. ASSUME Admits(h) PROVE HasRoom(h)'
    <3> DEFINE p == loc[h].pod
               c == loc[h].ctr
    <3>1. /\ loc[h].cur = p /\ loc[h].own = cu[p] /\ Live(p) /\ Fills(cu[p], job[p], Served(p))
      BY <1>0, <1>1, <2>5
      DEF CallServes, CallFills, Before, LedgerInv, SliceInv, HandlerInv, Admits, Live
    <3>2. job[p] \in Jobs /\ c \in DOMAIN job[p] /\ c \notin Served(p)
      BY <2>5, ContainerIsLeft DEF LedgerInv
    <3>3. ASSUME NEW g \in DOMAIN job[p][c]
          PROVE  /\ WholeUnits(Occupied[g], TotalCUs[g], Unit[g]) /\ cu[p][g] \subseteq Occupied[g]
                 /\ Cardinality(Occupied[g]) + RoundUp(Cores(g, job[p][c][g]), Unit[g])
                      <= TotalCUs[g]
      <4>1. g \in GPUs /\ c \in Users(job[p], g)
        BY <3>2, <3>3, ConstantsAssumption DEF IsJob, Users
      <4> QED BY <1>0, <3>1, <3>2, <4>1, OccupancyFits DEF LedgerInv
    <3> QED BY <1>0, <2>2, <2>3, <3>1, <3>3 DEF HasRoom
  <2>6. loc[h].todo = {} => pc'[h] = "compute"
    BY <2>4 DEF NextSlot
  <2>7. CallFills(h)' /\ CallPods(h)'
    <3>1. pc'[h] \in {"erase", "compute"} /\ loc'[h].pod = loc[h].pod /\ loc'[h].ctr = loc[h].ctr
          /\ loc'[h].cur = loc[h].cur
      BY <2>2, <2>3, <2>4
    <3>2. loc[h].cur \in Pods \ {loc[h].pod} /\ phase[loc[h].cur] = "running" => pc'[h] # "erase"
      BY <1>0, <1>1, <2>6 DEF CallPods
    <3> QED BY <1>0, <1>1, <2>5, <3>1, <3>2, CallMoves DEF Before, Planning, Persisted
  <2> QED BY <1>0, <2>2, <2>3, <2>4, <2>7, StepBooks
<1> QED BY <1>2, <1>3

\* Only the call's own pod, or one that kubelet has done with, loses a slot.
LEMMA EraseBooks ==
  ASSUME LedgerInv, BookInv, NEW h \in Handlers, Erase(h) PROVE BookInv'
<1>0. /\ loc[h] \in Locals /\ loc \in [Handlers -> Locals] /\ pc \in [Handlers -> Labels]
      /\ OnlyMoves(h) /\ pc[h] = "erase" /\ loc[h].pod \in Pods
      /\ UNCHANGED <<phase, job, got, cu, bindPhase, lock>>
  BY StepOnlyMoves DEF LedgerInv, TypeInv, TypeOK, Placed, Step, Erase
<1>1. CallServes(h) /\ CallFills(h) /\ CallPods(h) /\ CallStrays(h)
  BY DEF LedgerInv, SlotInv, BookInv
<1>2. ASSUME NEW p \in Pods PROVE todo'[p] = todo[p] \/ PodBooks(p)'
  <2>1. CASE p # loc[h].cur
    BY <1>0, <2>1 DEF Erase, Erased, LedgerInv, TypeInv, TypeOK
  <2>2. CASE p = loc[h].cur
    <3>1. phase[p] # "running"
      BY <1>0, <1>1, <2>2 DEF CallPods
    <3>2. phase[p] = "pending" => bindPhase[p] # "success" /\ Calls(p)' # {}
      <4>1. SUFFICES ASSUME phase[p] = "pending" PROVE bindPhase[p] # "success" /\ Calls(p)' # {}
        OBVIOUS
      <4>2. p = loc[h].pod
        BY <1>0, <1>1, <2>2, <4>1 DEF CallStrays
      <4>3. bindPhase[p] # "success"
        BY <1>0, <1>1, <4>1, <4>2 DEF CallFills, Admits, Before
      <4>4. pc'[h] # "idle" /\ loc'[h].pod = p
        BY <1>0, <4>2 DEF Erase, Goto, Fail, Set, Locals
      <4> QED BY <4>3, <4>4 DEF Calls
    <3>3. Live(p)' <=> Live(p)
      BY <1>0 DEF Live
    <3> QED BY <1>0, <3>1, <3>2, <3>3 DEF PodBooks, BookInv
  <2> QED BY <2>1, <2>2
<1>3. CASE Fail(h)
  BY <1>0, <1>2, <1>3, FailBooks DEF Before
<1>4. CASE ~Fail(h)
  <2>1. loc' = loc /\ pc'[h] = "compute"
    BY <1>0, <1>4 DEF Erase, Goto
  <2>2. HasRoom(h) => HasRoom(h)'
    BY <1>0, <2>1 DEF HasRoom
  <2>3. CallFills(h)' /\ CallPods(h)'
    BY <1>0, <1>1, <2>1, <2>2, CallMoves DEF CallFills, Before, Planning, Persisted
  <2> QED BY <1>0, <1>2, <2>1, <2>3, StepBooks
<1> QED BY <1>3, <1>4

\* The plan is what the earlier containers and this one booked.
LEMMA ComputeBooks ==
  ASSUME LedgerInv, BookInv, NEW h \in Handlers, Compute(h) PROVE BookInv'
<1>0. /\ loc[h] \in Locals /\ loc \in [Handlers -> Locals] /\ pc \in [Handlers -> Labels]
      /\ pc[h] = "compute" /\ UNCHANGED <<phase, job, got, cu, bindPhase, todo>>
  BY Zenon DEF Compute, api, LedgerInv, TypeInv, TypeOK
<1>1. OnlyMoves(h)
  BY StepOnlyMoves DEF LedgerInv, Step
<1>2. CallServes(h) /\ CallFills(h) /\ CallPods(h)
  BY DEF LedgerInv, SlotInv, BookInv
<1>3. CASE Fail(h)
  BY <1>0, <1>1, <1>3, FailBooks DEF Before
<1>4. CASE ~Fail(h)
  <2> DEFINE L(r) == [loc[h] EXCEPT !.plan = Planned(loc[h], r), !.mask = Masked(loc[h], r),
                                    !.sliced = Sliced(r), !.used = NoCUs]
  <2>1. PICK r \in Request(loc[h]) :
          /\ Set(h, L(r)) /\ Allocatable(loc[h], r)
          /\ Goto(h, IF L(r).sliced /\ L(r).plan # NoCUs THEN "validate" ELSE Done(L(r)))
    BY <1>4, Zenon DEF Compute
  <2>2. /\ L(r).pod = loc[h].pod /\ L(r).ctr = loc[h].ctr /\ L(r).cur = loc[h].cur
        /\ L(r).plan = Planned(loc[h], r) /\ L(r).sliced = Sliced(r)
    BY <1>0 DEF Locals
  <2> HIDE DEF L
  <2>3. loc'[h] = L(r)
    BY <1>0, <2>1 DEF Set
  <2>4. pc'[h] = IF Sliced(r) /\ Planned(loc[h], r) # NoCUs THEN "validate" ELSE Done(L(r))
    BY <1>0, <2>1, <2>2 DEF Goto
  <2>5. ASSUME Admits(h)
        PROVE  LET p == loc[h].pod
                   then == Served(p) \cup {loc[h].ctr}
               IN  /\ Fills(Planned(loc[h], r), job[p], then)
                   /\ ~Sliced(r) \/ Planned(loc[h], r) = NoCUs => Fills(cu[p], job[p], then)
    <3> DEFINE p == loc[h].pod
               c == loc[h].ctr
    <3>1. /\ loc[h].cur = p /\ loc[h].slot = c /\ c # 0
      BY <1>0, <1>2, <2>5, SlotIsPositive DEF CallServes, OwnSlot, LedgerInv
    <3>2. p \in Pods /\ job[p] \in Jobs /\ c \in DOMAIN job[p] /\ c \notin Served(p)
      BY <2>5, ContainerIsLeft DEF LedgerInv
    <3>3. loc[h].own = cu[p]
      BY <1>0, <3>1, <3>2 DEF LedgerInv, SliceInv, HandlerInv
    <3>4. Fills(loc[h].own, job[p], Served(p))
      BY <1>0, <1>2, <2>5, <3>3 DEF CallFills, Before
    <3>5. r = job[p][c]
      BY <2>1, <3>1 DEF Request
    <3>6. Allocatable(loc[h], job[p][c]) /\ loc[h].slot # 0
      BY <2>1, <3>1, <3>5
    <3>7. Fills(Planned(loc[h], job[p][c]), job[p], Served(p) \cup {c})
      BY <3>2, <3>4, <3>6, PlannedFills
    <3>8. ~Sliced(job[p][c]) \/ Planned(loc[h], job[p][c]) = NoCUs
            => Fills(loc[h].own, job[p], Served(p) \cup {c})
      BY <3>2, <3>4, <3>6, UnplannedFills
    <3> QED BY <3>3, <3>5, <3>7, <3>8
  <2>6. CallFills(h)'
    <3> SUFFICES ASSUME Admits(h)' PROVE CallFills(h)'
      BY DEF CallFills
    <3>1. Admits(h) /\ loc[h].pod \in Pods
      BY <1>0, <2>2, <2>3 DEF Admits, LedgerInv, TypeInv, Placed
    <3>2. pc'[h] # "validate" => ~Sliced(r) \/ Planned(loc[h], r) = NoCUs
      BY <2>4
    <3>3. bindPhase[loc[h].pod] # "success"
      BY <1>0, <1>2, <3>1 DEF CallFills, Before
    <3>4. Served(loc[h].pod)' = Served(loc[h].pod)
      BY <1>0, <2>2, <2>3 DEF Served
    <3>5. pc'[h] \in {"validate", "trySuccess", "answer"}
      BY <2>4 DEF Done
    <3>6. loc'[h].pod = loc[h].pod /\ loc'[h].ctr = loc[h].ctr /\ loc'[h].plan = Planned(loc[h], r)
      BY <2>2, <2>3
    <3>7. pc'[h] = "validate" => Fills(cu[loc[h].pod], job[loc[h].pod], Served(loc[h].pod))
      BY <1>0, <1>2, <3>1 DEF CallFills, Before
    <3> QED BY <1>0, <2>5, <3>1, <3>2, <3>3, <3>4, <3>5, <3>6, <3>7
            DEF CallFills, Before, Planning, Persisted
  <2>7. pc'[h] \in {"validate", "trySuccess", "answer"} /\ loc'[h].pod = loc[h].pod
    BY <2>2, <2>3, <2>4 DEF Done
  <2>8. CallPods(h)'
    BY <1>0, <1>2, <2>7 DEF CallPods
  <2> QED BY <1>0, <1>1, <2>6, <2>7, <2>8, StepBooks
<1> QED BY <1>3, <1>4

\* Up to the commit, and after the patch's answer was lost, the plan stands.
LEMMA CommitBooks ==
  ASSUME LedgerInv, BookInv, NEW h \in Handlers, Validate(h) \/ Commit(h) \/ ReadBack(h)
  PROVE  BookInv'
<1>0. /\ loc[h] \in Locals /\ loc \in [Handlers -> Locals] /\ pc \in [Handlers -> Labels]
      /\ OnlyMoves(h) /\ pc[h] # "idle" /\ loc[h].pod \in Pods
      /\ UNCHANGED <<phase, job, got, bindPhase, todo>>
  BY StepOnlyMoves
     DEF LedgerInv, TypeInv, TypeOK, Placed, Step, Validate, Commit, ReadBack, api
<1>1. CallLock(h) /\ CallServes(h) /\ CallFills(h) /\ CallPods(h)
  BY DEF LedgerInv, SlotInv, BookInv
<1>2. CASE (Validate(h) \/ ReadBack(h)) /\ Fail(h)
  BY <1>0, <1>2, FailBooks DEF Validate, ReadBack, Before, api
<1>3. CASE Validate(h) /\ ~Fail(h)
  <2>1. loc' = loc /\ cu' = cu /\ pc[h] = "validate" /\ pc'[h] = "commit"
    BY <1>0, <1>3 DEF Validate, Goto, api
  <2>2. CallFills(h)' /\ CallPods(h)'
    BY <1>0, <1>1, <2>1, CallMoves DEF CallPods, Before, Planning, Persisted
  <2> QED BY <1>0, <2>1, <2>2, StepBooks
<1>4. CASE ReadBack(h) /\ ~Fail(h)
  <2>1. /\ loc' = loc /\ cu' = cu /\ pc[h] = "readBack" /\ pc'[h] = "trySuccess"
        /\ cu[loc[h].cur] = loc[h].plan
    BY <1>0, <1>4 DEF ReadBack, Goto, api
  <2>2. Admits(h) => cu[loc[h].pod] = loc[h].plan
    BY <1>1, <2>1 DEF CallServes, OwnSlot
  <2>3. CallPods(h)'
    BY <1>0, <1>1, <2>1 DEF CallPods
  <2>4. CallFills(h)'
    <3>1. Served(loc[h].pod)' = Served(loc[h].pod) /\ (Admits(h)' <=> Admits(h))
      BY <1>0, <2>1 DEF Served, Admits
    <3> QED BY <1>0, <1>1, <2>1, <2>2, <3>1 DEF CallFills, Before, Planning, Persisted
  <2> QED BY <1>0, <2>1, <2>3, <2>4, StepBooks
<1>5. CASE Commit(h)
  <2>1. /\ loc' = loc /\ pc[h] = "commit" /\ pc'[h] \in {"trySuccess", "readBack"}
        /\ loc[h].cur = loc[h].pod
    BY <1>0, <1>1, <1>5 DEF Commit, Goto, CallLock
  <2>2. CallPods(h)'
    BY <1>0, <1>1, <2>1 DEF CallPods
  <2>3. Served(loc[h].pod)' = Served(loc[h].pod) /\ (Admits(h)' <=> Admits(h))
    BY <1>0, <2>1 DEF Served, Admits
  <2>4. CASE cu' = cu
    <3>1. pc'[h] = "readBack" \/ cu'[loc[h].pod] = loc[h].plan \/ ~Admits(h)
      BY <1>0, <1>5, <2>1 DEF Commit, Goto, LedgerInv, TypeInv, TypeOK
    <3>2. CallFills(h)'
      BY <1>0, <1>1, <2>1, <2>3, <2>4, <3>1 DEF CallFills, Before, Planning, Persisted
    <3> QED BY <1>0, <2>1, <2>2, <2>4, <3>2, StepBooks
  <2>5. CASE cu' # cu
    <3>1. /\ cu' = [cu EXCEPT ![loc[h].pod] = loc[h].plan] /\ phase[loc[h].pod] # "gone"
      BY <1>5, <2>1, <2>5 DEF Commit, Exists
    <3>2. /\ cu'[loc[h].pod] = loc[h].plan
          /\ \A p \in Pods \ {loc[h].pod} : cu'[p] = cu[p]
      BY <1>0, <3>1 DEF LedgerInv, TypeInv, TypeOK
    <3>3. Admits(h)
      BY <1>0, <1>1, <3>1 DEF CallPods, Admits
    <3>4. /\ Fills(loc[h].plan, job[loc[h].pod], Served(loc[h].pod) \cup {loc[h].ctr})
          /\ bindPhase[loc[h].pod] # "success"
      BY <1>1, <2>1, <3>3 DEF CallFills, Before, Planning
    <3>5. CallFills(h)'
      BY <1>0, <2>1, <2>3, <3>2, <3>4 DEF CallFills, Before, Planning, Persisted
    <3>6. PodBooks(loc[h].pod)'
      <4>1. PICK p \in Pods : p = loc[h].pod
        BY <1>0
      <4>2. \A g \in GPUs : /\ WholeUnits(cu'[p][g], TotalCUs[g], Unit[g])
                            /\ Cardinality(cu'[p][g]) <= Cardinality(Booking(job'[p], g))
        BY <1>0, <3>2, <3>3, <3>4, <4>1, ContainerIsLeft, FillsWithin DEF LedgerInv
      <4>3. h \in Calls(p)' /\ phase'[p] = "pending" /\ bindPhase'[p] # "success"
        BY <1>0, <2>1, <3>3, <3>4, <4>1 DEF Calls, Admits
      <4> HIDE DEF Calls
      <4>4. PodBooks(p)'
        BY <4>2, <4>3 DEF PodBooks
      <4> QED BY <2>1, <4>1, <4>4
    <3>7. \A p \in Pods : cu'[p] = cu[p] \/ PodBooks(p)'
      BY <2>1, <3>2, <3>6
    <3> QED BY <1>0, <2>1, <2>2, <3>5, <3>7, StepBooks
  <2> QED BY <2>4, <2>5
<1> QED BY <1>2, <1>3, <1>4, <1>5

\* When no slot is left, all that was booked is persisted: bind-phase=success is due.
LEMMA PhaseBooks ==
  ASSUME LedgerInv, BookInv, NEW h \in Handlers, TrySuccess(h) \/ PatchPhase(h) PROVE BookInv'
<1>0. /\ pc \in [Handlers -> Labels] /\ OnlyMoves(h) /\ pc[h] # "idle" /\ loc[h].pod \in Pods
      /\ UNCHANGED <<phase, job, got, cu, todo, loc>> /\ \A p \in Pods : job[p] \in Jobs \cup {<<>>}
  BY StepOnlyMoves
     DEF LedgerInv, TypeInv, TypeOK, Placed, Step, TrySuccess, PatchPhase, api
<1>1. CallServes(h) /\ CallStrays(h) /\ CallFills(h) /\ CallPods(h)
  BY DEF LedgerInv, SlotInv, BookInv
<1>2. CASE TrySuccess(h)
  <2>1. pc[h] = "trySuccess" /\ pc'[h] \in {"phase", "answer"} /\ bindPhase' = bindPhase
    BY <1>0, <1>2 DEF TrySuccess, Goto, api
  <2>2. CallFills(h)' /\ CallPods(h)'
    BY <1>0, <1>1, <2>1, CallMoves DEF Before, Planning, Persisted
  <2> QED BY <1>0, <2>1, <2>2, StepBooks
<1>3. CASE PatchPhase(h)
  <2>1. pc[h] = "phase" /\ pc'[h] = "release"
    BY <1>0, <1>3 DEF PatchPhase, Goto
  <2>2. CallFills(h)' /\ CallPods(h)'
    BY <1>0, <1>1, <2>1, CallMoves DEF Before, Planning, Persisted
  <2>3. ASSUME NEW p \in Pods, bindPhase'[p] # bindPhase[p] PROVE PodBooks(p)'
    <3>1. /\ p = loc[h].cur
          /\ bindPhase'[p] = IF loc[h].ok THEN "success" ELSE "failed"
      BY <1>3, <2>3 DEF PatchPhase, LedgerInv, TypeInv, TypeOK
    <3>2. PodBooks(p) /\ Calls(p)' = Calls(p) \cup (IF loc[h].pod = p THEN {h} ELSE {})
      <4>1. \A k \in Handlers : (pc'[k] # "idle") <=> (pc[k] # "idle")
        BY <1>0, <2>1 DEF OnlyMoves
      <4> QED BY <1>0, <4>1 DEF Calls, BookInv
    <3>3. Served(p)' = Served(p) /\ Left(p)' = Left(p) /\ (Live(p)' <=> Live(p))
      BY <1>0 DEF Served, Left, Wants, Live
    <3>4. ASSUME loc[h].ok, phase[p] \in {"pending", "running"}
          PROVE  /\ todo[p] = {}
                 /\ \E C : Wants(p) \subseteq C /\ Fills(cu[p], job[p], C)
      <4>1. CASE p = loc[h].pod
        <5>1. Admits(h)
          BY <1>0, <1>1, <3>4, <4>1 DEF CallPods, Admits
        <5>2. todo[p] = {} /\ Left(p) \ {loc[h].ctr} = {}
          BY <1>1, <2>1, <3>4, <4>1, <5>1 DEF CallServes, OwnSlot
        <5>3. Fills(cu[p], job[p], Served(p) \cup {loc[h].ctr})
          BY <1>1, <2>1, <3>4, <4>1, <5>1 DEF CallFills, Persisted
        <5>4. Wants(p) \subseteq Served(p) \cup {loc[h].ctr}
          BY <5>2 DEF Left
        <5> QED BY <5>2, <5>3, <5>4
      <4>2. CASE p # loc[h].pod
        <5>1. Calls(p) = {}
          BY <1>0, <4>2, ConstantsAssumption DEF Calls, LedgerInv, SliceInv
        <5>2. todo[p] = {} /\ Left(p) = {}
          BY <1>0, <1>1, <3>1, <3>2, <3>4, <4>2 DEF CallStrays, PodBooks
        <5>3. Fills(cu[p], job[p], Served(p)) /\ Wants(p) \subseteq Served(p)
          BY <3>2, <3>4, <5>1, <5>2 DEF PodBooks, Left
        <5> QED BY <5>2, <5>3
      <4> QED BY <4>1, <4>2
    <3>5. ASSUME loc[h].ok, phase[p] \in {"pending", "running"},
                 NEW g \in GPUs, OnlySlices(job[p], g)
          PROVE  Cardinality(cu[p][g]) = Booked(job[p], g)
      <4>1. PICK C : Wants(p) \subseteq C /\ Fills(cu[p], job[p], C)
        BY <3>4, <3>5
      <4>2. BookedFor(job[p], C, g) = Booking(job[p], g)
        BY <4>1, BookedForAll
      <4> QED BY <3>5, <4>1, <4>2 DEF Fills, Booked
    <3>6. loc[h].pod = p => phase[p] # "running"
      BY <1>0, <1>1 DEF CallPods
    <3>7. Calls(p)' = {} => Calls(p) = {}
      BY <3>2
    <3>8. phase[p] = "running" => Calls(p)' = {} /\ todo'[p] = {} /\ Left(p)' = {}
      BY <1>0, <3>2, <3>3, <3>6 DEF PodBooks
    <3>9. bindPhase'[p] = "success" /\ phase[p] \in {"pending", "running"} =>
            /\ todo'[p] = {}
            /\ \A g \in GPUs : OnlySlices(job[p], g) => Cardinality(cu[p][g]) = Booked(job[p], g)
      BY <1>0, <3>1, <3>4, <3>5
    <3> QED BY <1>0, <3>2, <3>3, <3>7, <3>8, <3>9 DEF PodBooks
  <2> QED BY <1>0, <2>1, <2>2, <2>3, StepBooks
<1> QED BY <1>2, <1>3

\* The release of the lock is nothing to the books.
LEMMA ReleaseBooks ==
  ASSUME LedgerInv, BookInv, NEW h \in Handlers, ReleaseGet(h) \/ ReleasePatch(h) PROVE BookInv'
<1>1. /\ pc \in [Handlers -> Labels] /\ OnlyMoves(h) /\ pc[h] # "idle"
      /\ UNCHANGED <<phase, job, got, cu, todo, bindPhase>>
  BY StepOnlyMoves
     DEF LedgerInv, TypeInv, TypeOK, Step, ReleaseGet, ReleasePatch, api
<1>2. /\ pc[h] \in {"release", "releaseRetry", "releasePatch"}
      /\ pc'[h] \in {"releaseRetry", "releasePatch", "answer"}
  BY <1>1 DEF ReleaseGet, ReleasePatch, Retry, Goto
<1>3. SameSlot(loc[h], loc'[h])
  BY ReleaseKeepsReply DEF LedgerInv
<1>4. CallFills(h)' /\ CallPods(h)'
  BY <1>1, <1>2, <1>3, CallMoves DEF BookInv, SameSlot, Before, Planning, Persisted
<1> QED BY <1>1, <1>2, <1>3, <1>4, StepBooks DEF SameSlot

\* With the answer the container's share of the books counts as its pod's.
LEMMA AnswerBooks ==
  ASSUME LedgerInv, BookInv, NEW h \in Handlers, Answer(h) PROVE BookInv'
<1>0. /\ pc \in [Handlers -> Labels] /\ OnlyMoves(h) /\ pc[h] = "answer" /\ kcall = h
      /\ loc[h].pod \in Pods /\ UNCHANGED <<cu, job, todo, bindPhase>>
      /\ phase \in [Pods -> Phases]
  BY StepOnlyMoves DEF LedgerInv, TypeInv, TypeOK, Placed, SliceInv, Answer, Step
<1>1. PICK o \in Pods : o = loc[h].pod
  BY <1>0
<1>2. \A k \in Handlers : pc'[k] = "idle" /\ (k # h => pc[k] = "idle")
  BY <1>0, ConstantsAssumption DEF LedgerInv, SliceInv, OnlyMoves, Answer, Goto
<1>3. \A k \in Handlers : CallFills(k)' /\ CallPods(k)'
  BY <1>2 DEF CallFills, CallPods, Admits
<1>4. /\ phase' = IF ~loc[h].ok THEN Reject(loc[h].pod) ELSE phase
      /\ got' = IF phase[loc[h].pod] = "pending" /\ loc[h].ok THEN got \cup {Reply(h)} ELSE got
  BY <1>0, Zenon DEF Answer, Reply
<1>5. \A p \in Pods : Live(p)' => Live(p)
  BY <1>0, <1>4 DEF Reject, Live
<1>6. ASSUME NEW p \in Pods, p # o PROVE PodBooks(p)'
  <2>1. phase'[p] = phase[p]
    BY <1>0, <1>1, <1>4, <1>6 DEF Reject
  <2>2. Calls(p)' = Calls(p)
    BY <1>1, <1>2, <1>6 DEF Calls
  <2>3. Served(p)' = Served(p)
    <3>1. Reply(h).pod = o
      BY <1>1 DEF Reply
    <3> QED BY <1>4, <1>6, <3>1 DEF Served
  <2> QED BY <1>0, <2>1, <2>2, <2>3, PodFrame DEF BookInv
<1>7. PodBooks(o)'
  <2>1. CASE Admits(h) /\ loc[h].ok
    <3>1. phase' = phase /\ phase[o] = "pending" /\ got' = got \cup {Reply(h)}
      BY <1>1, <1>4, <2>1 DEF Admits
    <3>2. Reply(h).pod = o /\ Reply(h).ctr = loc[h].ctr
      BY <1>1 DEF Reply
    <3>3. Served(o)' = Served(o) \cup {loc[h].ctr}
      BY <3>1, <3>2 DEF Served
    <3>4. Fills(cu[o], job[o], Served(o) \cup {loc[h].ctr})
      BY <1>0, <1>1, <2>1 DEF BookInv, CallFills, Persisted
    <3>5. PodBooks(o) /\ Live(o)
      BY <3>1 DEF BookInv, Live
    <3> QED BY <1>0, <3>1, <3>3, <3>4, <3>5 DEF PodBooks
  <2>2. CASE ~(Admits(h) /\ loc[h].ok)
    <3>1. phase[o] \in {"pending", "gone"}
      BY <1>0, <1>1 DEF BookInv, CallPods
    <3>2. \/ phase'[o] = "gone"
          \/ phase'[o] = "rejected" /\ phase[o] = "pending"
      BY <1>0, <1>1, <1>4, <2>2, <3>1 DEF Reject, Admits
    <3> QED BY <1>0, <3>2, PodFrame DEF BookInv
  <2> QED BY <2>1, <2>2
<1>8. \A g \in GPUs : NodeFits(g)'
  BY <1>0, <1>5, FitsStays DEF BookInv
<1> QED BY <1>3, <1>6, <1>7, <1>8 DEF BookInv

LEMMA BookNext == ASSUME Undisturbed, LedgerInv, BookInv, [Next]_vars PROVE BookInv'
<1>1. CASE Environment
  BY <1>1, EnvironmentBooks
<1>2. ASSUME NEW h \in Handlers, Step(h) PROVE BookInv'
  BY <1>2, ReadBooks, RebuildBooks, EraseBooks, ComputeBooks, CommitBooks, PhaseBooks,
     ReleaseBooks, AnswerBooks DEF Step
<1>3. CASE UNCHANGED vars
  <2>1. UNCHANGED <<lock, phase, bindPhase, job, todo, cu, got, pc, loc>>
    BY <1>3 DEF vars, api
  <2>2. \A p \in Pods : Calls(p)' = Calls(p) /\ Served(p)' = Served(p)
    BY <2>1 DEF Calls, Served
  <2>3. \A p \in Pods : PodBooks(p)'
    BY <2>1, <2>2, PodFrame DEF BookInv
  <2>4. ASSUME NEW h \in Handlers PROVE CallFills(h)' /\ CallPods(h)'
    BY <2>1, CallFrame DEF BookInv, SameSlot, SameView
  <2>5. \A g \in GPUs : NodeFits(g)'
    BY <2>1, FitsStays DEF BookInv, Live
  <2> QED BY <2>3, <2>4, <2>5 DEF BookInv
<1> QED BY <1>1, <1>2, <1>3 DEF Next

LEMMA BooksKept == ASSUME Undisturbed PROVE Spec => [](LedgerInv /\ BookInv)
<1>1. LedgerInv /\ BookInv /\ [Next]_vars => BookInv'
  BY BookNext
<1> QED BY <1>1, LedgerInductive, BookInit, PTL DEF Spec

\* Without lock expiry, kubelet restarts and foreign pods, a pod that the scheduler found
\* room for finds its CUs, whatever calls fail and pods end: first fit by whole units never
\* leaves fewer free CUs than were booked.
THEOREM BookedFree ==
  ASSUME Undisturbed PROVE Spec => []BookedCUsAreFree
<1>1. ASSUME LedgerInv, BookInv, NEW h \in Handlers, pc[h] = "compute", Admits(h),
             NEW r \in Request(loc[h])
      PROVE  Allocatable(loc[h], r)
  <2> DEFINE p == loc[h].pod
             c == loc[h].ctr
  <2>1. loc[h].cur = p /\ loc[h].slot = c /\ c # 0
    BY <1>1, SlotIsPositive DEF LedgerInv, SlotInv, CallServes, OwnSlot
  <2>2. r = job[p][c]
    BY <1>1, <2>1 DEF Request
  <2>3. HasRoom(h)
    BY <1>1 DEF BookInv, CallFills
  <2>4. job[p] \in Jobs /\ c \in DOMAIN job[p]
    BY <1>1, ContainerIsLeft DEF LedgerInv
  <2>5. ASSUME NEW g \in DOMAIN r, Cores(g, r[g]) > 0
        PROVE  /\ CanAllocate(UsedFor(loc[h], g), TotalCUs[g], Cores(g, r[g]), Unit[g])
               /\ CanAdd(loc[h].own[g], DeltaFor(loc[h], r, g))
    <3>1. g \in GPUs /\ c \in Users(job[p], g)
      BY <2>2, <2>4, <2>5, ConstantsAssumption DEF IsJob, Users
    <3>2. Cores(g, r[g]) \in Nat /\ TotalCUs[g] \in Nat /\ Unit[g] \in Nat \ {0}
      BY <2>2, <2>4, <3>1, DemandTypes, GPUTypes
    <3>3. UsedFor(loc[h], g) = loc[h].used[g]
      BY <2>1 DEF UsedFor
    <3>4. /\ WholeUnits(loc[h].used[g], TotalCUs[g], Unit[g])
          /\ loc[h].own[g] \subseteq loc[h].used[g]
          /\ Cardinality(loc[h].used[g]) + RoundUp(Cores(g, r[g]), Unit[g]) <= TotalCUs[g]
      BY <2>2, <2>3, <2>5 DEF HasRoom
    <3>5. CanAllocate(loc[h].used[g], TotalCUs[g], Cores(g, r[g]), Unit[g])
      BY <2>5, <3>2, <3>4, FirstFitSucceeds
    <3>6. DeltaFor(loc[h], r, g) \cap loc[h].used[g] = {}
      BY <3>2, <3>3, AllocateNIsFree DEF DeltaFor
    <3> QED BY <3>3, <3>4, <3>5, <3>6 DEF CanAdd
  <2> QED BY <2>5 DEF Allocatable
<1>2. LedgerInv /\ BookInv => BookedCUsAreFree
  BY <1>1 DEF BookedCUsAreFree
<1> QED BY <1>2, BooksKept, PTL

\* Under the same conditions bind-phase=success on a pod that runs or will means that
\* every slot was handed out and all the CUs booked for its slices are persisted.
THEOREM SuccessComplete ==
  ASSUME Undisturbed PROVE Spec => []SuccessIsComplete
<1>1. LedgerInv /\ BookInv => SuccessIsComplete
  BY DEF BookInv, PodBooks, OnlySlices, SuccessIsComplete
<1> QED BY <1>1, BooksKept, PTL

===============================================================================
