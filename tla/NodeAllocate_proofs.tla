-------------------------- MODULE NodeAllocate_proofs --------------------------
(***************************************************************************)
(* Proofs about NodeAllocate for every set of pods, GPUs, jobs and         *)
(* handlers and all bounds: its variables keep their types; the CUs        *)
(* persisted for live pods are disjoint as long as kubelet waits for one   *)
(* Allocate call at a time; a lock is deleted only by a call that serves   *)
(* its owner; and the lock makes the slots reach their containers.         *)
(***************************************************************************)
EXTENDS NodeAllocate, CuBitmap_proofs

-------------------------------------------------------------------------------
(* Types                                                                   *)

\* What the types rest on: a call is for a container of a pod that was placed, an
\* answered container is one of its pod's, and only an owner of the lock is read.
Placed ==
  /\ \A a \in got : phase[a.pod] # "unbound" /\ a.ctr \in Wants(a.pod)
  /\ \A h \in Handlers : pc[h] # "idle" =>
       /\ loc[h].pod \in Pods /\ phase[loc[h].pod] # "unbound"
       /\ loc[h].ctr \in Wants(loc[h].pod)
  /\ \A h \in Handlers : pc[h] = "getPod" => loc[h].cur \in Pods

TypeInv == TypeOK /\ Placed

\* The first slot of a set of slots is one of them (First, as GetNextDeviceRequest
\* takes the first slot left).
LEMMA FirstInSet == ASSUME NEW S \in SUBSET Nat, S # {} PROVE First(S) \in S
<1>1. \E x \in S : \A y \in S : x <= y
  BY LeastNatural
<1> QED BY <1>1 DEF First

\* The slots of a job are naturals.
LEMMA SlotsAreNaturals ==
  ASSUME NEW j \in Jobs \cup {<<>>} PROVE DOMAIN j \subseteq Nat
<1>1. CASE j \in Jobs
  <2>1. j \in Seq({j[c] : c \in DOMAIN j})
    BY <1>1, ConstantsAssumption DEF IsJob
  <2> QED BY <2>1
<1>2. CASE j = <<>>
  BY <1>2
<1> QED BY <1>1, <1>2

\* A stale resourceVersion changes nothing else in a handler's locals.
LEMMA StaleTypes ==
  ASSUME loc \in [Handlers -> Locals]
  PROVE  /\ Stale \in [Handlers -> Locals]
         /\ \A h \in Handlers : /\ Stale[h].pod = loc[h].pod /\ Stale[h].ctr = loc[h].ctr
                                /\ Stale[h].cur = loc[h].cur /\ Stale[h].own = loc[h].own
                                /\ Stale[h].used = loc[h].used /\ Stale[h].plan = loc[h].plan
<1>1. ASSUME NEW l \in Locals
      PROVE  /\ [l EXCEPT !.fresh = FALSE] \in Locals
             /\ [l EXCEPT !.fresh = FALSE].pod = l.pod
             /\ [l EXCEPT !.fresh = FALSE].ctr = l.ctr
             /\ [l EXCEPT !.fresh = FALSE].cur = l.cur
             /\ [l EXCEPT !.fresh = FALSE].own = l.own
             /\ [l EXCEPT !.fresh = FALSE].used = l.used
             /\ [l EXCEPT !.fresh = FALSE].plan = l.plan
  BY DEF Locals
<1> QED BY <1>1, Zenon DEF Stale

LEMMA InitTypes == Init => TypeInv
  BY ConstantsAssumption
  DEF Init, TypeInv, TypeOK, Phases, Labels, Placed, NoCUs, NoLocals, Locals

LEMMA EnvironmentTypes == TypeInv /\ Environment => TypeInv'
<1> SUFFICES ASSUME TypeInv, Environment PROVE TypeInv'
  OBVIOUS
<1> USE DEF TypeInv, Phases, Labels, Set
<1>1. ASSUME NEW p \in Pods, Bind(p) PROVE TypeInv'
  <2>1. PICK j \in Jobs : /\ job' = [job EXCEPT ![p] = j]
                          /\ todo' = [todo EXCEPT ![p] = {c \in DOMAIN j : DOMAIN j[c] # {}}]
    BY <1>1 DEF Bind
  <2>2. DOMAIN j \subseteq Nat
    BY SlotsAreNaturals
  <2>3. loc' \in [Handlers -> Locals]
    BY <1>1, StaleTypes DEF Bind, TypeOK
  <2>4. TypeOK'
    BY <1>1, <2>1, <2>2, <2>3 DEF Bind, TypeOK, bounds
  <2>5. Placed'
    <3>1. \A q \in Pods : phase[q] # "unbound" => phase'[q] # "unbound" /\ Wants(q)' = Wants(q)
      BY <1>1, <2>1 DEF Bind, TypeOK, Wants
    <3>2. \A h \in Handlers : /\ loc'[h].pod = loc[h].pod /\ loc'[h].ctr = loc[h].ctr
                              /\ loc'[h].cur = loc[h].cur
      BY <1>1, StaleTypes DEF Bind, TypeOK
    <3>3. got' = got /\ pc' = pc /\ \A a \in got : a.pod \in Pods
      BY <1>1 DEF Bind, TypeOK
    <3> QED BY <3>1, <3>2, <3>3 DEF Placed
  <2> QED BY <2>4, <2>5
<1>2. ASSUME NEW p \in Pods, PlaceForeign(p) PROVE TypeInv'
  BY <1>2 DEF PlaceForeign, TypeOK, Placed, Wants, bounds
<1>3. ASSUME NEW p \in Pods, Start(p) PROVE TypeInv'
  BY <1>3 DEF Start, TypeOK, Placed, Wants, bounds
<1>4. ASSUME NEW p \in Pods, Finish(p) PROVE TypeInv'
  BY <1>4 DEF Finish, TypeOK, Placed, Wants, bounds
<1>5. ASSUME NEW p \in Pods, Remove(p) PROVE TypeInv'
  BY <1>5 DEF Remove, Loss, TypeOK, Placed, Wants
<1>6. ASSUME NEW h \in Handlers, NEW p \in Pods, Call(h, p) PROVE TypeInv'
  <2>1. Wants(p) \subseteq Nat
    BY SlotsAreNaturals DEF Wants, TypeOK
  <2>2. Wants(p) \ Served(p) # {}
    BY <1>6 DEF Call, Served, Placed
  <2>3. First(Wants(p) \ Served(p)) \in Wants(p)
    BY <2>1, <2>2, FirstInSet
  <2>4. loc' \in [Handlers -> Locals]
    BY <1>6, <2>1, <2>3 DEF Call, TypeOK, Locals, NoLocals, NoCUs
  <2>5. TypeOK'
    BY <1>6, <2>4 DEF Call, Goto, TypeOK, api, bounds
  <2>6. Placed'
    BY <1>6, <2>3 DEF Call, Goto, NoLocals, TypeOK, Placed, Wants, api, bounds
  <2> QED BY <2>5, <2>6
<1>7. CASE KubeletRestart
  BY <1>7 DEF KubeletRestart, TypeOK, Placed, Wants, api
<1>8. CASE Crash
  <2>1. phase' \in [Pods -> Phases]
    BY <1>8 DEF Crash, Reject, TypeOK
  <2>2. \A q \in Pods : phase[q] # "unbound" => phase'[q] # "unbound"
    BY <1>8 DEF Crash, Reject, TypeOK
  <2>3. TypeOK'
    BY <1>8, <2>1 DEF Crash, Loss, NoLocals, NoCUs, TypeOK, Locals
  <2>4. Placed'
    BY <1>8, <2>2 DEF Crash, NoLocals, TypeOK, Placed, Wants
  <2> QED BY <2>3, <2>4
<1> QED BY <1>1, <1>2, <1>3, <1>4, <1>5, <1>6, <1>7, <1>8 DEF Environment


-------------------------------------------------------------------------------
(* A handler's locals stay typed, and it serves the same container         *)

\* What an assignment to the locals of h does.
LEMMA SetKeeps ==
  ASSUME loc \in [Handlers -> Locals], NEW h \in Handlers, NEW l \in Locals, Set(h, l)
  PROVE  /\ loc' \in [Handlers -> Locals]
         /\ loc'[h] = l
         /\ \A k \in Handlers \ {h} : loc'[k] = loc[k]
  BY DEF Set

LEMMA GotoKeeps ==
  ASSUME pc \in [Handlers -> Labels], NEW h \in Handlers, NEW s \in Labels, Goto(h, s)
  PROVE  /\ pc' \in [Handlers -> Labels]
         /\ pc'[h] = s
         /\ \A k \in Handlers \ {h} : pc'[k] = pc[k]
  BY DEF Goto

\* Every update a step makes to the locals keeps their types and the call served.
SameCall(l, m) == m \in Locals /\ m.pod = l.pod /\ m.ctr = l.ctr

LEMMA UpdateTypes ==
  ASSUME NEW l \in Locals
  PROVE  /\ SameCall(l, l)
         /\ SameCall(l, [l EXCEPT !.ok = FALSE])
         /\ SameCall(l, [l EXCEPT !.fresh = FALSE])
         /\ SameCall(l, [l EXCEPT !.fresh = TRUE])
         /\ SameCall(l, [l EXCEPT !.tries = @ + 1])
         /\ SameCall(l, [l EXCEPT !.cur = NoPod, !.ok = FALSE])
         /\ \A p \in Pods \cup {NoPod} : SameCall(l, [l EXCEPT !.cur = p])
         /\ \A p \in Pods, S \in SUBSET Nat, f \in [GPUs -> SUBSET Nat] :
              SameCall(l, [l EXCEPT !.cur = p, !.todo = S, !.own = f])
         /\ \A f \in [GPUs -> SUBSET Nat], n \in Nat :
              SameCall(l, [l EXCEPT !.used = f, !.slot = n])
         /\ \A f, m \in [GPUs -> SUBSET Nat], b \in BOOLEAN :
              SameCall(l, [l EXCEPT !.plan = f, !.mask = m, !.sliced = b, !.used = NoCUs])
<1> USE DEF SameCall, Locals
<1>1. SameCall(l, l) /\ SameCall(l, [l EXCEPT !.ok = FALSE])
  OBVIOUS
<1>2. SameCall(l, [l EXCEPT !.fresh = FALSE]) /\ SameCall(l, [l EXCEPT !.fresh = TRUE])
  OBVIOUS
<1>3. SameCall(l, [l EXCEPT !.tries = @ + 1])
  OBVIOUS
<1>4. ASSUME NEW p \in Pods \cup {NoPod} PROVE SameCall(l, [l EXCEPT !.cur = p])
  OBVIOUS
<1>5. SameCall(l, [l EXCEPT !.cur = NoPod, !.ok = FALSE])
  OBVIOUS
<1>6. ASSUME NEW p \in Pods, NEW S \in SUBSET Nat, NEW f \in [GPUs -> SUBSET Nat]
      PROVE  SameCall(l, [l EXCEPT !.cur = p, !.todo = S, !.own = f])
  OBVIOUS
<1>7. ASSUME NEW f \in [GPUs -> SUBSET Nat], NEW n \in Nat
      PROVE  SameCall(l, [l EXCEPT !.used = f, !.slot = n])
  OBVIOUS
<1>8. ASSUME NEW f \in [GPUs -> SUBSET Nat], NEW m \in [GPUs -> SUBSET Nat], NEW b \in BOOLEAN
      PROVE  SameCall(l, [l EXCEPT !.plan = f, !.mask = m, !.sliced = b, !.used = NoCUs])
  BY DEF NoCUs
<1> HIDE DEF SameCall, Locals
<1> QED BY <1>1, <1>2, <1>3, <1>4, <1>5, <1>6, <1>7, <1>8

StepKeeps ==
  /\ loc' \in [Handlers -> Locals] /\ pc' \in [Handlers -> Labels]
  /\ \A k \in Handlers : /\ loc'[k].pod = loc[k].pod /\ loc'[k].ctr = loc[k].ctr
                         /\ pc'[k] # "idle" => pc[k] # "idle"
                         /\ pc'[k] = "getPod" => loc'[k].cur \in Pods

LEMMA MoveKeeps ==
  ASSUME TypeInv, NEW h \in Handlers, NEW l, NEW s \in Labels,
         pc[h] # "idle", SameCall(loc[h], l), s = "getPod" => l.cur \in Pods,
         Set(h, l), Goto(h, s)
  PROVE  StepKeeps
<1>1. l \in Locals /\ l.pod = loc[h].pod /\ l.ctr = loc[h].ctr
  BY DEF SameCall
<1>2. /\ loc' \in [Handlers -> Locals] /\ loc'[h] = l
      /\ \A k \in Handlers \ {h} : loc'[k] = loc[k]
  BY <1>1, SetKeeps DEF TypeInv, TypeOK
<1>3. /\ pc' \in [Handlers -> Labels] /\ pc'[h] = s
      /\ \A k \in Handlers \ {h} : pc'[k] = pc[k]
  BY GotoKeeps DEF TypeInv, TypeOK
<1> QED BY <1>1, <1>2, <1>3 DEF StepKeeps, TypeInv, Placed

LEMMA StayKeeps ==
  ASSUME TypeInv, NEW h \in Handlers, NEW s \in Labels,
         pc[h] # "idle", s # "getPod", UNCHANGED loc, Goto(h, s)
  PROVE  StepKeeps
<1>1. /\ pc' \in [Handlers -> Labels] /\ pc'[h] = s
      /\ \A k \in Handlers \ {h} : pc'[k] = pc[k]
  BY GotoKeeps DEF TypeInv, TypeOK
<1> QED BY <1>1 DEF StepKeeps, TypeInv, TypeOK, Placed

LEMMA FailKeeps ==
  ASSUME TypeInv, NEW h \in Handlers, pc[h] # "idle", Fail(h) PROVE StepKeeps
<1>1. SameCall(loc[h], [loc[h] EXCEPT !.ok = FALSE])
  BY UpdateTypes DEF TypeInv, TypeOK
<1>2. CASE loc[h].cur = NoPod
  BY <1>1, <1>2, MoveKeeps DEF Fail, Labels
<1>3. CASE loc[h].cur # NoPod
  BY <1>1, <1>3, MoveKeeps DEF Fail, Labels
<1> QED BY <1>2, <1>3

LEMMA RetryKeeps ==
  ASSUME TypeInv, NEW h \in Handlers, pc[h] # "idle", Retry(h) PROVE StepKeeps
<1>1. SameCall(loc[h], [loc[h] EXCEPT !.tries = @ + 1])
  BY UpdateTypes DEF TypeInv, TypeOK
<1>2. PICK s \in {"answer", "releaseRetry"} : Goto(h, s)
  BY DEF Retry
<1> QED BY <1>1, <1>2, MoveKeeps DEF Retry, Labels

\* After a release the resourceVersions read are stale, and h may have used an attempt.
LEMMA ReleasedTypes ==
  ASSUME TypeInv, NEW h \in Handlers,
         loc' = Stale \/ loc' = [Stale EXCEPT ![h] = [Stale[h] EXCEPT !.tries = @ + 1]]
  PROVE  \A k \in Handlers : SameCall(loc[k], loc'[k]) /\ loc'[k].cur = loc[k].cur
<1>1. /\ Stale \in [Handlers -> Locals]
      /\ \A k \in Handlers : SameCall(loc[k], Stale[k]) /\ Stale[k].cur = loc[k].cur
  BY StaleTypes DEF SameCall, TypeInv, TypeOK
<1>2. SameCall(Stale[h], [Stale[h] EXCEPT !.tries = @ + 1])
  BY <1>1, UpdateTypes
<1>3. [Stale[h] EXCEPT !.tries = @ + 1].cur = Stale[h].cur
  BY <1>1 DEF Locals
<1>4. CASE loc' = Stale
  BY <1>1, <1>4
<1>5. CASE loc' = [Stale EXCEPT ![h] = [Stale[h] EXCEPT !.tries = @ + 1]]
  <2>1. /\ loc'[h] = [Stale[h] EXCEPT !.tries = @ + 1]
        /\ \A k \in Handlers \ {h} : loc'[k] = Stale[k]
    <3>1. Stale \in [Handlers -> Locals]
      BY <1>1
    <3>2. h \in DOMAIN Stale /\ Handlers = DOMAIN Stale
      BY <3>1
    <3> QED BY <1>5, <3>2
  <2> QED BY <1>1, <1>2, <1>3, <2>1 DEF SameCall
<1> QED BY <1>4, <1>5

LEMMA GiveUpKeeps ==
  ASSUME TypeInv, NEW h \in Handlers, pc[h] # "idle", GiveUp(h) PROVE StepKeeps
<1>1. SameCall(loc[h], [loc[h] EXCEPT !.cur = NoPod, !.ok = FALSE])
  BY UpdateTypes DEF TypeInv, TypeOK
<1> QED BY <1>1, MoveKeeps DEF GiveUp, Labels

LEMMA SnapshotKeeps ==
  ASSUME TypeInv, NEW h \in Handlers, NEW p \in Pods, pc[h] # "idle", Snapshot(h, p)
  PROVE  StepKeeps
<1>1. SameCall(loc[h], [loc[h] EXCEPT !.cur = p, !.todo = todo[p], !.own = cu[p]])
  BY UpdateTypes DEF TypeInv, TypeOK
<1> QED BY <1>1, MoveKeeps DEF Snapshot, Labels

LEMMA PlacedKept ==
  ASSUME TypeInv, StepKeeps, UNCHANGED <<job, phase, got>> PROVE Placed'
  BY DEF TypeInv, TypeOK, StepKeeps, Placed, Wants

\* What Rebuild and Compute work out has the right types.
LEMMA RebuildTypes ==
  ASSUME TypeInv, NEW l \in Locals
  PROVE  Occupied \in [GPUs -> SUBSET Nat] /\ NextSlot(l) \in Nat
<1>1. Occupied \in [GPUs -> SUBSET Nat]
  BY DEF Occupied, TypeInv, TypeOK
<1>2. l.todo # {} => First(l.todo) \in Nat
  BY FirstInSet DEF Locals
<1>3. NextSlot(l) \in Nat
  BY <1>2 DEF NextSlot
<1> QED BY <1>1, <1>3

LEMMA ComputeTypes ==
  ASSUME TypeInv, NEW l \in Locals, NEW r
  PROVE  /\ Planned(l, r) \in [GPUs -> SUBSET Nat]
         /\ Masked(l, r) \in [GPUs -> SUBSET Nat]
         /\ Sliced(r) \in BOOLEAN
<1>1. ASSUME NEW g \in GPUs
      PROVE  DeltaFor(l, r, g) \in SUBSET Nat /\ CUs(TotalCUs[g]) \in SUBSET Nat
  <2>1. TotalCUs[g] \in Nat /\ Unit[g] \in Nat /\ CUs(TotalCUs[g]) \in SUBSET Nat
    BY ConstantsAssumption DEF CUs
  <2>2. AllocateN(UsedFor(l, g), TotalCUs[g], Cores(g, r[g]), Unit[g]) \subseteq CUs(TotalCUs[g])
    BY <2>1, AllocateNIsFree
  <2> QED BY <2>1, <2>2 DEF DeltaFor
<1>2. l.own \in [GPUs -> SUBSET Nat]
  BY DEF Locals
<1> QED BY <1>1, <1>2 DEF Planned, Masked, Sliced

LEMMA HandlerTypes ==
  ASSUME TypeInv, NEW h \in Handlers, Step(h) PROVE TypeInv'
<1> USE DEF TypeInv
<1>0. loc[h] \in Locals
  BY DEF TypeOK
<1>1. ASSUME GetNode(h) PROVE TypeInv'
  <2>1. StepKeeps
    <3>1. CASE GiveUp(h)
      BY <1>1, <3>1, GiveUpKeeps DEF GetNode
    <3>2. CASE ~GiveUp(h)
      <4>1. SameCall(loc[h], [loc[h] EXCEPT !.cur = lock])
        BY <1>0, UpdateTypes DEF TypeOK
      <4>2. lock # NoPod => [loc[h] EXCEPT !.cur = lock].cur \in Pods
        BY <1>0 DEF TypeOK, Locals
      <4> QED BY <1>1, <3>2, <4>1, <4>2, MoveKeeps DEF GetNode, Labels
    <3> QED BY <3>1, <3>2
  <2>2. UNCHANGED <<job, phase, got>>
    BY <1>1 DEF GetNode, GiveUp, api
  <2>3. TypeOK'
    BY <1>1, <2>1 DEF GetNode, GiveUp, CtxError, Fault, NoFault, StepKeeps, TypeOK, api
  <2> QED BY <2>1, <2>2, <2>3, PlacedKept
<1>2. ASSUME GetPod(h) PROVE TypeInv'
  <2>1. loc[h].cur \in Pods
    BY <1>2 DEF GetPod, Placed
  <2>2. StepKeeps
    <3>1. CASE GiveUp(h)
      BY <1>2, <3>1, GiveUpKeeps DEF GetPod
    <3>2. CASE Snapshot(h, loc[h].cur)
      BY <1>2, <2>1, <3>2, SnapshotKeeps DEF GetPod
    <3>3. CASE ~GiveUp(h) /\ ~Snapshot(h, loc[h].cur)
      <4>1. SameCall(loc[h], [loc[h] EXCEPT !.cur = NoPod])
        BY <1>0, UpdateTypes
      <4> QED BY <1>2, <3>3, <4>1, MoveKeeps DEF GetPod, Labels
    <3> QED BY <3>1, <3>2, <3>3
  <2>3. UNCHANGED <<job, phase, got>>
    BY <1>2 DEF GetPod, GiveUp, api
  <2>4. TypeOK'
    BY <1>2, <2>2 DEF GetPod, GiveUp, CtxError, Fault, NoFault, StepKeeps, TypeOK, api
  <2> QED BY <2>2, <2>3, <2>4, PlacedKept
<1>3. ASSUME ListPending(h) PROVE TypeInv'
  <2>1. StepKeeps
    <3>1. CASE GiveUp(h)
      BY <1>3, <3>1, GiveUpKeeps DEF ListPending
    <3>2. ASSUME NEW p \in Pods, Snapshot(h, p) PROVE StepKeeps
      BY <1>3, <3>2, SnapshotKeeps DEF ListPending
    <3>3. CASE UNCHANGED loc /\ Goto(h, "rebuild")
      BY <1>3, <3>3, StayKeeps DEF ListPending, Labels
    <3> QED BY <1>3, <3>1, <3>2, <3>3 DEF ListPending
  <2>2. UNCHANGED <<job, phase, got>>
    BY <1>3 DEF ListPending, GiveUp, api
  <2>3. TypeOK'
    BY <1>3, <2>1 DEF ListPending, GiveUp, CtxError, Fault, NoFault, StepKeeps, TypeOK, api
  <2> QED BY <2>1, <2>2, <2>3, PlacedKept
<1>4. ASSUME Rebuild(h) PROVE TypeInv'
  <2>1. StepKeeps
    <3>1. CASE Fail(h)
      BY <1>4, <3>1, FailKeeps DEF Rebuild
    <3>2. CASE ~Fail(h)
      <4>1. SameCall(loc[h], [loc[h] EXCEPT !.used = Occupied, !.slot = NextSlot(loc[h])])
        BY <1>0, RebuildTypes, UpdateTypes
      <4>2. PICK s \in {"compute", "erase"} : Goto(h, s)
        BY <1>4, <3>2 DEF Rebuild
      <4> QED BY <1>4, <3>2, <4>1, <4>2, MoveKeeps DEF Rebuild, Labels
    <3> QED BY <3>1, <3>2
  <2>2. UNCHANGED <<job, phase, got>>
    BY <1>4 DEF Rebuild, api
  <2>3. TypeOK'
    BY <1>4, <2>1 DEF Rebuild, CtxError, Fault, NoFault, StepKeeps, TypeOK, api
  <2> QED BY <2>1, <2>2, <2>3, PlacedKept
<1>5. ASSUME Erase(h) PROVE TypeInv'
  <2>1. StepKeeps
    <3>1. CASE Fail(h)
      BY <1>5, <3>1, FailKeeps DEF Erase
    <3>2. CASE ~Fail(h)
      BY <1>5, <3>2, StayKeeps DEF Erase, Labels
    <3> QED BY <3>1, <3>2
  <2>2. UNCHANGED <<job, phase, got>>
    BY <1>5 DEF Erase
  <2>3. todo' \in [Pods -> SUBSET Nat]
    <3>1. loc[h].todo \in SUBSET Nat
      BY <1>0 DEF Locals
    <3> QED BY <1>5, <3>1 DEF Erase, Erased, TypeOK
  <2>4. TypeOK'
    BY <1>5, <2>1, <2>3 DEF Erase, Fault, NoFault, StepKeeps, TypeOK
  <2> QED BY <2>1, <2>2, <2>4, PlacedKept
<1>6. ASSUME Compute(h) PROVE TypeInv'
  <2>1. StepKeeps
    <3>1. CASE Fail(h)
      BY <1>6, <3>1, FailKeeps DEF Compute
    <3>2. CASE ~Fail(h)
      <4> DEFINE L(r) == [loc[h] EXCEPT !.plan = Planned(loc[h], r), !.mask = Masked(loc[h], r),
                                        !.sliced = Sliced(r), !.used = NoCUs]
      <4>1. PICK r \in Request(loc[h]) :
              /\ Set(h, L(r))
              /\ Goto(h, IF L(r).sliced /\ L(r).plan # NoCUs THEN "validate" ELSE Done(L(r)))
        BY <1>6, <3>2, Zenon DEF Compute
      <4>2. SameCall(loc[h], L(r))
        BY <1>0, ComputeTypes, UpdateTypes
      <4> HIDE DEF L
      <4>3. PICK s \in {"validate", "answer", "trySuccess"} : Goto(h, s)
        BY <4>1 DEF Done
      <4>4. pc[h] # "idle"
        BY <1>6 DEF Compute
      <4> QED BY <4>1, <4>2, <4>3, <4>4, MoveKeeps DEF Labels
    <3> QED BY <3>1, <3>2
  <2>2. UNCHANGED <<job, phase, got>>
    BY <1>6 DEF Compute, api
  <2>3. UNCHANGED <<api, kcall, got, losses, restarts>> /\ (Fault \/ NoFault)
    BY <1>6, Zenon DEF Compute
  <2>4. TypeOK'
    BY <2>1, <2>3 DEF Fault, NoFault, StepKeeps, TypeOK, api
  <2> QED BY <2>1, <2>2, <2>4, PlacedKept
<1>7. ASSUME Validate(h) PROVE TypeInv'
  <2>1. StepKeeps
    <3>1. CASE Fail(h)
      BY <1>7, <3>1, FailKeeps DEF Validate
    <3>2. CASE ~Fail(h)
      BY <1>7, <3>2, StayKeeps DEF Validate, Labels
    <3> QED BY <3>1, <3>2
  <2>2. UNCHANGED <<job, phase, got>>
    BY <1>7 DEF Validate, api
  <2>3. TypeOK'
    BY <1>7, <2>1 DEF Validate, CtxError, Fault, NoFault, StepKeeps, TypeOK, api
  <2> QED BY <2>1, <2>2, <2>3, PlacedKept
<1>8. ASSUME Commit(h) PROVE TypeInv'
  <2>1. PICK s \in {"trySuccess", "readBack"} : Goto(h, s)
    BY <1>8 DEF Commit
  <2>2. StepKeeps
    BY <1>8, <2>1, StayKeeps DEF Commit, Labels
  <2>3. UNCHANGED <<job, phase, got>>
    BY <1>8 DEF Commit
  <2>4. cu' \in [Pods -> [GPUs -> SUBSET Nat]]
    <3>1. loc[h].plan \in [GPUs -> SUBSET Nat]
      BY <1>0 DEF Locals
    <3> QED BY <1>8, <3>1 DEF Commit, TypeOK
  <2>5. TypeOK'
    BY <1>8, <2>2, <2>4 DEF Commit, Fault, NoFault, StepKeeps, TypeOK
  <2> QED BY <2>2, <2>3, <2>5, PlacedKept
<1>9. ASSUME ReadBack(h) PROVE TypeInv'
  <2>1. StepKeeps
    <3>1. CASE Fail(h)
      BY <1>9, <3>1, FailKeeps DEF ReadBack
    <3>2. CASE ~Fail(h)
      BY <1>9, <3>2, StayKeeps DEF ReadBack, Labels
    <3> QED BY <3>1, <3>2
  <2>2. UNCHANGED <<job, phase, got>>
    BY <1>9 DEF ReadBack, api
  <2>3. TypeOK'
    BY <1>9, <2>1 DEF ReadBack, CtxError, Fault, NoFault, StepKeeps, TypeOK, api
  <2> QED BY <2>1, <2>2, <2>3, PlacedKept
<1>10. ASSUME TrySuccess(h) PROVE TypeInv'
  <2>1. PICK s \in {"phase", "answer"} : Goto(h, s)
    BY <1>10 DEF TrySuccess
  <2>2. StepKeeps
    BY <1>10, <2>1, StayKeeps DEF TrySuccess, Labels
  <2>3. UNCHANGED <<job, phase, got>>
    BY <1>10 DEF TrySuccess, api
  <2>4. TypeOK'
    BY <1>10, <2>2 DEF TrySuccess, Fault, NoFault, StepKeeps, TypeOK, api
  <2> QED BY <2>2, <2>3, <2>4, PlacedKept
<1>11. ASSUME PatchPhase(h) PROVE TypeInv'
  <2>1. StepKeeps
    BY <1>11, StayKeeps DEF PatchPhase, Labels
  <2>2. UNCHANGED <<job, phase, got>>
    BY <1>11 DEF PatchPhase
  <2>3. TypeOK'
    BY <1>11, <2>1 DEF PatchPhase, Fault, NoFault, StepKeeps, TypeOK
  <2> QED BY <2>1, <2>2, <2>3, PlacedKept
<1>12. ASSUME ReleaseGet(h) PROVE TypeInv'
  <2>1. pc[h] # "idle"
    BY <1>12 DEF ReleaseGet
  <2>2. StepKeeps
    <3>1. CASE Retry(h)
      BY <2>1, <3>1, RetryKeeps
    <3>2. CASE UNCHANGED loc /\ Goto(h, "answer")
      BY <2>1, <3>2, StayKeeps DEF Labels
    <3>3. CASE Set(h, [loc[h] EXCEPT !.fresh = TRUE]) /\ Goto(h, "releasePatch")
      <4>1. SameCall(loc[h], [loc[h] EXCEPT !.fresh = TRUE])
        BY <1>0, UpdateTypes
      <4> QED BY <2>1, <3>3, <4>1, MoveKeeps DEF Labels
    <3> QED BY <1>12, <3>1, <3>2, <3>3 DEF ReleaseGet
  <2>3. UNCHANGED <<job, phase, got>>
    BY <1>12 DEF ReleaseGet, api
  <2>4. TypeOK'
    BY <1>12, <2>2 DEF ReleaseGet, Fault, NoFault, StepKeeps, TypeOK, api
  <2> QED BY <2>2, <2>3, <2>4, PlacedKept
<1>13. ASSUME ReleasePatch(h) PROVE TypeInv'
  <2>1. pc[h] # "idle"
    BY <1>13 DEF ReleasePatch
  <2>2. StepKeeps
    <3>1. CASE Retry(h)
      BY <2>1, <3>1, RetryKeeps
    <3>2. CASE ~Retry(h)
      <4>1. PICK s \in {"answer", "releaseRetry"} : Goto(h, s)
        BY <1>13, <3>2 DEF ReleasePatch
      <4>2. \A k \in Handlers : SameCall(loc[k], loc'[k])
        BY <1>13, <3>2, ReleasedTypes DEF ReleasePatch
      <4>3. loc' = [k \in Handlers |-> loc'[k]]
        BY <1>13, <3>2 DEF ReleasePatch, Stale
      <4>4. loc' \in [Handlers -> Locals]
        BY <4>2, <4>3, Zenon DEF SameCall
      <4>5. /\ pc' \in [Handlers -> Labels] /\ pc'[h] = s
            /\ \A k \in Handlers \ {h} : pc'[k] = pc[k]
        BY <4>1, GotoKeeps DEF TypeOK, Labels
      <4>6. \A k \in Handlers : loc'[k].cur = loc[k].cur
        BY <1>13, <3>2, ReleasedTypes DEF ReleasePatch
      <4> QED BY <2>1, <4>2, <4>4, <4>5, <4>6 DEF SameCall, StepKeeps, Placed
    <3> QED BY <3>1, <3>2
  <2>3. UNCHANGED <<job, phase, got>>
    BY <1>13 DEF ReleasePatch
  <2>4. TypeOK'
    BY <1>13, <2>2 DEF ReleasePatch, Fault, NoFault, StepKeeps, TypeOK
  <2> QED BY <2>2, <2>3, <2>4, PlacedKept
<1>14. ASSUME Answer(h) PROVE TypeInv'
  <2>1. /\ loc' \in [Handlers -> Locals] /\ loc'[h] = NoLocals
        /\ \A k \in Handlers \ {h} : loc'[k] = loc[k]
    <3>1. NoLocals \in Locals
      BY DEF NoLocals, Locals, NoCUs
    <3> QED BY <1>14, <3>1, SetKeeps DEF Answer, TypeOK
  <2>2. /\ pc' \in [Handlers -> Labels] /\ pc'[h] = "idle"
        /\ \A k \in Handlers \ {h} : pc'[k] = pc[k]
    BY <1>14, GotoKeeps DEF Answer, TypeOK, Labels
  <2>3. loc[h].pod \in Pods /\ loc[h].ctr \in Wants(loc[h].pod) /\ phase[loc[h].pod] # "unbound"
    BY <1>14 DEF Answer, Placed
  <2>4. phase' \in [Pods -> Phases] /\ \A q \in Pods : phase[q] # "unbound" => phase'[q] # "unbound"
    BY <1>14 DEF Answer, Reject, TypeOK, Phases
  <2> DEFINE a == [pod |-> loc[h].pod, ctr |-> loc[h].ctr, from |-> loc[h].cur,
                     slot |-> loc[h].slot, mask |-> loc[h].mask]
  <2>6. got' = got \/ got' = got \cup {a}
    BY <1>14, Zenon DEF Answer
  <2>7. a \in [pod : Pods, ctr : Nat, from : Pods \cup {NoPod}, slot : Nat,
               mask : [GPUs -> SUBSET Nat]]
    BY <1>0, <2>3 DEF Locals
  <2>8. a.pod = loc[h].pod /\ a.ctr = loc[h].ctr
    OBVIOUS
  <2> HIDE DEF a
  <2>9. job' = job
    BY <1>14 DEF Answer
  <2>10. TypeOK'
    BY <1>14, <2>1, <2>2, <2>4, <2>6, <2>7 DEF Answer, TypeOK, bounds
  <2>11. Placed'
    BY <2>1, <2>2, <2>3, <2>4, <2>6, <2>8, <2>9 DEF Placed, Wants, TypeOK
  <2> QED BY <2>10, <2>11
<1> QED BY <1>1, <1>2, <1>3, <1>4, <1>5, <1>6, <1>7, <1>8, <1>9, <1>10, <1>11, <1>12, <1>13, <1>14
        DEF Step

\* Every variable of NodeAllocate keeps its type, whatever the pods, the faults and
\* the restarts.
THEOREM TypeCorrect == Spec => []TypeOK
<1>1. TypeInv /\ [Next]_vars => TypeInv'
  <2> SUFFICES ASSUME TypeInv, [Next]_vars PROVE TypeInv'
    OBVIOUS
  <2>1. CASE Environment
    BY <2>1, EnvironmentTypes
  <2>2. ASSUME NEW h \in Handlers, Step(h) PROVE TypeInv'
    BY <2>2, HandlerTypes
  <2>3. CASE UNCHANGED vars
    BY <2>3 DEF vars, api, bounds, TypeInv, TypeOK, Placed, Wants
  <2> QED BY <2>1, <2>2, <2>3 DEF Next
<1>2. TypeInv => TypeOK
  BY DEF TypeInv
<1> QED BY InitTypes, <1>1, <1>2, PTL DEF Spec

-------------------------------------------------------------------------------
(* The slices of live pods are disjoint                                    *)

\* A pod has no CUs before it is placed, and only a placed pod owns the lock.
PodsInv ==
  /\ \A p \in Pods : phase[p] = "unbound" => cu[p] = NoCUs
  /\ lock \in Pods => phase[lock] # "unbound"
  /\ DisjointSlices

\* A handler serves a placed pod; the CUs it read as that pod's own are still the
\* persisted ones; what it read as free, or plans to take, is.
HandlerInv(h) ==
  /\ loc[h].cur \in Pods => phase[loc[h].cur] # "unbound"
  /\ pc[h] = "listPending" => loc[h].cur = NoPod
  /\ pc[h] \in {"rebuild", "erase", "compute"} /\ loc[h].cur \in Pods
       => loc[h].own = cu[loc[h].cur]
  /\ PlanIsFree(h)

\* Only the handler kubelet waits for is running: without it another handler could
\* commit between the reading of the occupancy and the commit.
SliceInv ==
  /\ PodsInv
  /\ \A h \in Handlers : HandlerInv(h) /\ (pc[h] # "idle" => kcall = h)

\* A step that persists nothing: pods are placed without CUs, or end.
PodsMoveOn ==
  /\ cu' = cu
  /\ \A p \in Pods : phase[p] # "unbound" => phase'[p] # "unbound"
  /\ \A p \in Pods : Live(p)' => Live(p) \/ phase[p] = "unbound"
  /\ lock' \in Pods => phase'[lock'] # "unbound"

LEMMA PodsFrame == ASSUME TypeInv, PodsInv, PodsMoveOn PROVE PodsInv'
<1>1. \A p \in Pods, g \in GPUs : cu[p] = NoCUs => cu[p][g] = {}
  BY DEF NoCUs
<1>2. DisjointSlices'
  BY <1>1 DEF PodsInv, PodsMoveOn, DisjointSlices
<1>3. \A p \in Pods : phase'[p] = "unbound" => cu'[p] = NoCUs
  BY DEF PodsInv, PodsMoveOn
<1> QED BY <1>2, <1>3 DEF PodsInv, PodsMoveOn

SameView(l, m) == m.cur = l.cur /\ m.own = l.own /\ m.used = l.used /\ m.plan = l.plan

\* A handler that does not move keeps its invariant.
LEMMA HandlerFrame ==
  ASSUME TypeInv, PodsInv, PodsMoveOn, NEW h \in Handlers, HandlerInv(h),
         pc'[h] = pc[h], SameView(loc[h], loc'[h])
  PROVE  HandlerInv(h)'
<1>1. \A p \in Pods, g \in GPUs : cu[p] = NoCUs => cu[p][g] = {}
  BY DEF NoCUs
<1>2. PlanIsFree(h)'
  <2> SUFFICES ASSUME NEW p \in Pods, NEW q \in Pods,
                      p # q, Live(p)', Live(q)', loc'[h].cur = p, NEW g \in GPUs
               PROVE  /\ pc'[h] \in {"erase", "compute"} => cu'[q][g] \subseteq loc'[h].used[g]
                      /\ pc'[h] \in {"validate", "commit"} => loc'[h].plan[g] \cap cu'[q][g] = {}
    BY DEF PlanIsFree
  <2>1. cu' = cu /\ loc[h].cur = p /\ phase[p] # "unbound"
    BY DEF HandlerInv, PodsMoveOn, SameView
  <2>2. Live(p) /\ (Live(q) \/ phase[q] = "unbound")
    BY <2>1 DEF PodsMoveOn
  <2>3. CASE Live(q)
    BY <2>1, <2>2, <2>3 DEF HandlerInv, PlanIsFree, SameView
  <2>4. CASE phase[q] = "unbound"
    BY <1>1, <2>1, <2>4 DEF PodsInv
  <2> QED BY <2>2, <2>3, <2>4
<1> QED BY <1>2 DEF HandlerInv, PodsMoveOn, SameView

\* A handler that does not look at CUs after the step, whatever it did before.
LEMMA HandlerAway ==
  ASSUME NEW h \in Handlers,
         pc'[h] \notin {"rebuild", "erase", "compute", "validate", "commit"},
         pc'[h] = "listPending" => loc'[h].cur = NoPod,
         loc'[h].cur \in Pods => phase'[loc'[h].cur] # "unbound"
  PROVE  HandlerInv(h)'
  BY DEF HandlerInv, PlanIsFree

LEMMA SliceInit == Init => SliceInv
  BY ConstantsAssumption
  DEF Init, SliceInv, PodsInv, HandlerInv, PlanIsFree, DisjointSlices, Live, NoLocals

\* What pods, scheduler and kubelet do; kubelet does not restart.
LEMMA EnvironmentSlices ==
  ASSUME MaxRestarts = 0, TypeInv, SliceInv, Environment PROVE SliceInv'
<1> USE DEF SliceInv, Phases
<1>0. \A h \in Handlers : loc[h] \in Locals
  BY DEF TypeInv, TypeOK
<1>A. ASSUME PodsMoveOn, UNCHANGED <<pc, kcall>>,
             \A h \in Handlers : SameView(loc[h], loc'[h])
      PROVE  SliceInv'
  BY <1>A, PodsFrame, HandlerFrame
<1>1. ASSUME NEW p \in Pods, Bind(p) PROVE SliceInv'
  <2>1. PodsMoveOn
    BY <1>1 DEF Bind, PodsMoveOn, Live, TypeInv, TypeOK
  <2>2. \A h \in Handlers : SameView(loc[h], loc'[h])
    BY <1>1, StaleTypes DEF Bind, SameView, TypeInv, TypeOK
  <2> QED BY <1>1, <1>A, <2>1, <2>2 DEF Bind
<1>2. ASSUME NEW p \in Pods, PlaceForeign(p) PROVE SliceInv'
  <2>1. PodsMoveOn
    BY <1>2 DEF PlaceForeign, PodsMoveOn, PodsInv, Live, TypeInv, TypeOK
  <2> QED BY <1>2, <1>A, <2>1 DEF PlaceForeign, SameView
<1>3. ASSUME NEW p \in Pods, Start(p) \/ Finish(p) \/ Remove(p) PROVE SliceInv'
  <2>1. PodsMoveOn
    BY <1>3 DEF Start, Finish, Remove, PodsMoveOn, PodsInv, Live, TypeInv, TypeOK
  <2> QED BY <1>3, <1>A, <2>1 DEF Start, Finish, Remove, SameView
<1>4. ASSUME NEW h \in Handlers, NEW p \in Pods, Call(h, p) PROVE SliceInv'
  <2>1. PodsMoveOn
    BY <1>4 DEF Call, PodsMoveOn, PodsInv, api, Live
  <2>2. ASSUME NEW k \in Handlers PROVE pc[k] = "idle"
    BY <1>4, ConstantsAssumption DEF Call
  <2>3. ASSUME NEW k \in Handlers \ {h}
        PROVE  pc'[k] = pc[k] /\ SameView(loc[k], loc'[k])
    BY <1>4 DEF Call, Goto, Set, SameView, TypeInv, TypeOK
  <2>4. pc'[h] = "getNode" /\ loc'[h].cur = NoPod
    BY <1>4 DEF Call, Goto, Set, NoLocals, TypeInv, TypeOK
  <2>5. HandlerInv(h)'
    BY <2>4, HandlerAway, ConstantsAssumption
  <2>6. kcall' = h
    BY <1>4 DEF Call
  <2> QED BY <2>1, <2>2, <2>3, <2>5, <2>6, PodsFrame, HandlerFrame
<1>5. CASE KubeletRestart
  BY <1>5, ConstantsAssumption DEF KubeletRestart, TypeInv, TypeOK
<1>6. CASE Crash
  <2>1. PodsMoveOn
    BY <1>6 DEF Crash, Reject, PodsMoveOn, PodsInv, Live, TypeInv, TypeOK
  <2>2. ASSUME NEW k \in Handlers PROVE pc'[k] = "idle" /\ loc'[k].cur = NoPod
    BY <1>6 DEF Crash, NoLocals
  <2> QED BY <2>1, <2>2, PodsFrame, HandlerAway, ConstantsAssumption
<1> QED BY <1>1, <1>2, <1>3, <1>4, <1>5, <1>6 DEF Environment

\* A step of h leaves the other handlers, which are all idle, as they are.
OnlyMoves(h) ==
  \A k \in Handlers \ {h} : pc'[k] = pc[k] /\ loc'[k].cur = loc[k].cur

LEMMA StepOnlyMoves ==
  ASSUME TypeInv, NEW h \in Handlers, Step(h) PROVE OnlyMoves(h) /\ pc[h] # "idle"
<1> USE DEF TypeInv, TypeOK
<1>1. ASSUME NEW s, Goto(h, s) PROVE \A k \in Handlers \ {h} : pc'[k] = pc[k]
  BY <1>1 DEF Goto
<1>2. ASSUME NEW l, Set(h, l) PROVE \A k \in Handlers \ {h} : loc'[k].cur = loc[k].cur
  BY <1>2 DEF Set
<1>3. ASSUME GiveUp(h) \/ Fail(h) \/ Retry(h) PROVE OnlyMoves(h)
  BY <1>1, <1>2, <1>3 DEF GiveUp, Fail, Retry, OnlyMoves
<1>4. CASE GetNode(h)
  BY <1>1, <1>2, <1>3, <1>4 DEF GetNode, OnlyMoves
<1>5. CASE GetPod(h)
  BY <1>1, <1>2, <1>3, <1>5 DEF GetPod, Snapshot, OnlyMoves
<1>6. CASE ListPending(h)
  BY <1>1, <1>2, <1>3, <1>6 DEF ListPending, Snapshot, OnlyMoves
<1>7. CASE Rebuild(h)
  BY <1>1, <1>2, <1>3, <1>7 DEF Rebuild, OnlyMoves
<1>8. CASE Erase(h)
  BY <1>1, <1>3, <1>8 DEF Erase, OnlyMoves
<1>9. CASE Compute(h)
  BY <1>1, <1>2, <1>3, <1>9 DEF Compute, OnlyMoves
<1>10. CASE Validate(h) \/ ReadBack(h)
  BY <1>1, <1>3, <1>10 DEF Validate, ReadBack, OnlyMoves
<1>11. CASE Commit(h) \/ TrySuccess(h) \/ PatchPhase(h)
  BY <1>1, <1>11 DEF Commit, TrySuccess, PatchPhase, OnlyMoves
<1>12. CASE ReleaseGet(h)
  BY <1>1, <1>2, <1>3, <1>12 DEF ReleaseGet, OnlyMoves
<1>13. CASE ReleasePatch(h)
  BY <1>1, <1>3, <1>13, ReleasedTypes DEF ReleasePatch, OnlyMoves
<1>14. CASE Answer(h)
  BY <1>1, <1>2, <1>14 DEF Answer, OnlyMoves
<1> QED BY <1>4, <1>5, <1>6, <1>7, <1>8, <1>9, <1>10, <1>11, <1>12, <1>13, <1>14 DEF Step

\* What is left to show of a step of h: its own invariant, and the pods'.
LEMMA StepSlices ==
  ASSUME TypeInv, SliceInv, NEW h \in Handlers, pc[h] # "idle", OnlyMoves(h),
         pc'[h] # "idle" => kcall' = kcall,
         \A p \in Pods : phase[p] # "unbound" => phase'[p] # "unbound",
         PodsInv', HandlerInv(h)'
  PROVE  SliceInv'
<1>1. kcall = h
  BY DEF SliceInv
<1>2. ASSUME NEW k \in Handlers \ {h} PROVE pc'[k] = "idle" /\ HandlerInv(k)'
  <2>1. pc[k] = "idle"
    BY <1>1 DEF SliceInv
  <2>2. pc'[k] = "idle" /\ loc'[k].cur = loc[k].cur
    BY <2>1 DEF OnlyMoves
  <2>3. loc'[k].cur \in Pods => phase'[loc'[k].cur] # "unbound"
    BY <2>2 DEF SliceInv, HandlerInv
  <2> QED BY <2>2, <2>3, HandlerAway
<1> QED BY <1>1, <1>2 DEF SliceInv

\* The handler gives up, or goes on to its answer, without having persisted anything.
LEMMA AwaySlices ==
  ASSUME TypeInv, SliceInv, NEW h \in Handlers, pc[h] # "idle", OnlyMoves(h),
         cu' = cu, lock' \in {lock, NoPod},
         \A p \in Pods : phase'[p] = phase[p] \/ (phase[p] = "pending" /\ phase'[p] = "rejected"),
         pc'[h] # "idle" => kcall' = kcall,
         pc'[h] \notin {"rebuild", "erase", "compute", "validate", "commit"},
         pc'[h] = "listPending" => loc'[h].cur = NoPod,
         loc'[h].cur \in {loc[h].cur, lock, NoPod}
  PROVE  SliceInv'
<1>1. PodsMoveOn
  BY ConstantsAssumption DEF PodsMoveOn, SliceInv, PodsInv, Live
<1>2. loc'[h].cur \in Pods => phase'[loc'[h].cur] # "unbound"
  BY <1>1, ConstantsAssumption DEF PodsMoveOn, SliceInv, PodsInv, HandlerInv
<1>3. PodsInv' /\ HandlerInv(h)'
  BY <1>1, <1>2, PodsFrame, HandlerAway DEF SliceInv
<1> QED BY <1>1, <1>3, StepSlices DEF PodsMoveOn

LEMMA FailSlices ==
  ASSUME TypeInv, SliceInv, NEW h \in Handlers, pc[h] # "idle", OnlyMoves(h),
         UNCHANGED <<cu, lock, phase, kcall>>, Fail(h) \/ GiveUp(h)
  PROVE  SliceInv'
<1>1. loc[h] \in Locals /\ loc \in [Handlers -> Locals] /\ pc \in [Handlers -> Labels]
  BY DEF TypeInv, TypeOK
<1>2. pc'[h] \in {"answer", "phase"}
  BY <1>1 DEF Fail, GiveUp, Goto
<1>3. loc'[h].cur \in {loc[h].cur, NoPod}
  BY <1>1 DEF Fail, GiveUp, Set, Locals
<1> QED BY <1>2, <1>3, AwaySlices

LEMMA SnapshotSlices ==
  ASSUME TypeInv, SliceInv, NEW h \in Handlers, pc[h] # "idle", OnlyMoves(h),
         UNCHANGED <<cu, lock, phase, kcall>>,
         NEW p \in Pods, phase[p] # "unbound", Snapshot(h, p)
  PROVE  SliceInv'
<1>1. pc'[h] = "rebuild" /\ loc'[h].cur = p /\ loc'[h].own = cu[p]
  BY DEF Snapshot, Goto, Set, TypeInv, TypeOK, Locals
<1>2. PodsInv'
  BY DEF SliceInv, PodsInv, DisjointSlices, Live
<1>3. HandlerInv(h)'
  BY <1>1 DEF HandlerInv, PlanIsFree
<1> QED BY <1>2, <1>3, StepSlices

\* A step of the handler from the reading of the occupancy to the commit.
LEMMA BusySlices ==
  ASSUME TypeInv, SliceInv, NEW h \in Handlers, pc[h] # "idle", OnlyMoves(h),
         UNCHANGED <<cu, lock, phase, kcall>>,
         pc'[h] # "listPending", loc'[h].cur = loc[h].cur,
         pc'[h] \in {"rebuild", "erase", "compute"} /\ loc[h].cur \in Pods
           => loc'[h].own = cu[loc[h].cur],
         PlanIsFree(h)'
  PROVE  SliceInv'
<1>1. PodsInv'
  BY DEF SliceInv, PodsInv, DisjointSlices, Live
<1>2. HandlerInv(h)'
  BY DEF SliceInv, HandlerInv
<1> QED BY <1>1, <1>2, StepSlices

\* The CUs a handler plans are its pod's own or were free on the node.
LEMMA PlannedIsFree ==
  ASSUME TypeInv, SliceInv, NEW h \in Handlers, pc[h] = "compute", NEW r,
         NEW p \in Pods, NEW q \in Pods, p # q, Live(p), Live(q), loc[h].cur = p,
         NEW g \in GPUs
  PROVE  Planned(loc[h], r)[g] \cap cu[q][g] = {}
<1>1. cu[q][g] \subseteq loc[h].used[g]
  BY DEF SliceInv, HandlerInv, PlanIsFree
<1>2. loc[h].own[g] \cap cu[q][g] = {}
  BY DEF SliceInv, HandlerInv, PodsInv, DisjointSlices
<1>3. loc[h].slot # 0 => DeltaFor(loc[h], r, g) \cap loc[h].used[g] = {}
  <2>1. TotalCUs[g] \in Nat /\ Unit[g] \in Nat
    BY ConstantsAssumption
  <2>2. AllocateN(loc[h].used[g], TotalCUs[g], Cores(g, r[g]), Unit[g]) \cap loc[h].used[g] = {}
    BY <2>1, AllocateNIsFree
  <2> QED BY <2>2 DEF DeltaFor, UsedFor
<1> QED BY <1>1, <1>2, <1>3 DEF Planned

LEMMA HandlerSlices ==
  ASSUME TypeInv, SliceInv, NEW h \in Handlers, Step(h) PROVE SliceInv'
<1>0. /\ loc[h] \in Locals /\ loc \in [Handlers -> Locals] /\ pc \in [Handlers -> Labels]
      /\ OnlyMoves(h) /\ pc[h] # "idle"
  BY StepOnlyMoves DEF TypeInv, TypeOK
<1>1. CASE GetNode(h)
  <2>1. UNCHANGED <<cu, lock, phase, kcall>>
    BY <1>1 DEF GetNode, GiveUp, api
  <2>2. CASE GiveUp(h)
    BY <1>0, <2>1, <2>2, FailSlices
  <2>3. CASE ~GiveUp(h)
    <3>1. loc'[h].cur = lock
      BY <1>0, <1>1, <2>3 DEF GetNode, Set, Locals
    <3>2. pc'[h] = IF lock = NoPod THEN "listPending" ELSE "getPod"
      BY <1>0, <1>1, <2>3 DEF GetNode, Goto
    <3> QED BY <1>0, <2>1, <3>1, <3>2, AwaySlices
  <2> QED BY <2>2, <2>3
<1>2. CASE GetPod(h)
  <2>1. UNCHANGED <<cu, lock, phase, kcall>>
    BY <1>2 DEF GetPod, GiveUp, api
  <2>2. CASE GiveUp(h)
    BY <1>0, <2>1, <2>2, FailSlices
  <2>3. CASE Snapshot(h, loc[h].cur)
    <3>1. loc[h].cur \in Pods /\ phase[loc[h].cur] # "unbound"
      BY <1>2 DEF GetPod, TypeInv, Placed, SliceInv, HandlerInv
    <3> QED BY <1>0, <2>1, <2>3, <3>1, SnapshotSlices
  <2>4. CASE Goto(h, "listPending") /\ Set(h, [loc[h] EXCEPT !.cur = NoPod])
    <3>1. pc'[h] = "listPending" /\ loc'[h].cur = NoPod
      BY <1>0, <2>4 DEF Goto, Set, Locals
    <3> QED BY <1>0, <2>1, <3>1, AwaySlices
  <2> QED BY <1>2, <2>2, <2>3, <2>4 DEF GetPod
<1>3. CASE ListPending(h)
  <2>1. UNCHANGED <<cu, lock, phase, kcall>>
    BY <1>3 DEF ListPending, GiveUp, api
  <2>2. CASE GiveUp(h)
    BY <1>0, <2>1, <2>2, FailSlices
  <2>3. ASSUME NEW p \in Pods, Binding(p), Snapshot(h, p) PROVE SliceInv'
    <3>1. phase[p] # "unbound"
      BY <2>3 DEF Binding
    <3> QED BY <1>0, <2>1, <2>3, <3>1, SnapshotSlices
  <2>4. CASE Goto(h, "rebuild") /\ UNCHANGED loc
    <3>1. pc'[h] = "rebuild" /\ loc[h].cur = NoPod
      BY <1>0, <1>3, <2>4 DEF Goto, ListPending, SliceInv, HandlerInv
    <3>2. PlanIsFree(h)'
      BY <3>1 DEF PlanIsFree
    <3> QED BY <1>0, <2>1, <2>4, <3>1, <3>2, BusySlices, ConstantsAssumption
  <2> QED BY <1>3, <2>2, <2>3, <2>4 DEF ListPending
<1>4. CASE Rebuild(h)
  <2>1. UNCHANGED <<cu, lock, phase, kcall>>
    BY <1>4 DEF Rebuild, api
  <2>2. CASE Fail(h)
    BY <1>0, <2>1, <2>2, FailSlices
  <2>3. CASE ~Fail(h)
    <3>1. /\ loc'[h].cur = loc[h].cur /\ loc'[h].own = loc[h].own
          /\ loc'[h].used = Occupied
      <4> DEFINE l == [loc[h] EXCEPT !.used = Occupied, !.slot = NextSlot(loc[h])]
      <4>1. Set(h, l)
        BY <1>4, <2>3 DEF Rebuild
      <4>2. l.cur = loc[h].cur /\ l.own = loc[h].own /\ l.used = Occupied
        BY <1>0 DEF Locals
      <4> HIDE DEF l
      <4> QED BY <1>0, <4>1, <4>2 DEF Set
    <3>2. pc'[h] \in {"compute", "erase"}
      BY <1>0, <1>4, <2>3 DEF Rebuild, Goto
    <3>3. \A q \in Pods, g \in GPUs : Live(q) => cu[q][g] \subseteq Occupied[g]
      BY DEF Occupied
    <3>4. PlanIsFree(h)'
      BY <2>1, <3>1, <3>2, <3>3 DEF PlanIsFree, Live
    <3>5. loc[h].cur \in Pods => loc'[h].own = cu[loc[h].cur]
      BY <1>4, <3>1 DEF Rebuild, SliceInv, HandlerInv
    <3> QED BY <1>0, <2>1, <3>1, <3>2, <3>4, <3>5, BusySlices
  <2> QED BY <2>2, <2>3
<1>5. CASE Erase(h)
  <2>1. UNCHANGED <<cu, lock, phase, kcall>>
    BY <1>5 DEF Erase
  <2>2. CASE Fail(h)
    BY <1>0, <2>1, <2>2, FailSlices
  <2>3. CASE ~Fail(h)
    <3>1. pc[h] = "erase" /\ pc'[h] = "compute" /\ loc' = loc
      BY <1>0, <1>5, <2>3 DEF Erase, Goto
    <3>2. PlanIsFree(h)'
      BY <2>1, <3>1 DEF SliceInv, HandlerInv, PlanIsFree, Live
    <3> QED BY <1>0, <2>1, <3>1, <3>2, BusySlices DEF SliceInv, HandlerInv
  <2> QED BY <2>2, <2>3
<1>6. CASE Compute(h)
  <2>1. UNCHANGED <<cu, lock, phase, kcall>> /\ pc[h] = "compute"
    BY <1>6, Zenon DEF Compute, api
  <2>2. CASE Fail(h)
    BY <1>0, <2>1, <2>2, FailSlices
  <2>3. CASE ~Fail(h)
    <3> DEFINE L(r) == [loc[h] EXCEPT !.plan = Planned(loc[h], r), !.mask = Masked(loc[h], r),
                                      !.sliced = Sliced(r), !.used = NoCUs]
    <3>1. PICK r \in Request(loc[h]) :
            /\ Set(h, L(r))
            /\ Goto(h, IF L(r).sliced /\ L(r).plan # NoCUs THEN "validate" ELSE Done(L(r)))
      BY <1>6, <2>3, Zenon DEF Compute
    <3>2. L(r).cur = loc[h].cur /\ L(r).plan = Planned(loc[h], r)
      BY <1>0 DEF Locals
    <3> HIDE DEF L
    <3>3. loc'[h].cur = loc[h].cur /\ loc'[h].plan = Planned(loc[h], r)
      BY <1>0, <3>1, <3>2 DEF Set
    <3>4. pc'[h] \in {"validate", "answer", "trySuccess"}
      BY <1>0, <3>1 DEF Goto, Done
    <3>5. PlanIsFree(h)'
      <4> SUFFICES ASSUME NEW p \in Pods, NEW q \in Pods, p # q, Live(p), Live(q),
                          loc[h].cur = p, NEW g \in GPUs
                   PROVE  loc'[h].plan[g] \cap cu[q][g] = {}
        BY <2>1, <3>3, <3>4 DEF PlanIsFree, Live
      <4> QED BY <2>1, <3>3, PlannedIsFree
    <3> QED BY <1>0, <2>1, <3>3, <3>4, <3>5, BusySlices
  <2> QED BY <2>2, <2>3
<1>7. CASE Validate(h)
  <2>1. UNCHANGED <<cu, lock, phase, kcall>>
    BY <1>7 DEF Validate, api
  <2>2. CASE Fail(h)
    BY <1>0, <2>1, <2>2, FailSlices
  <2>3. CASE ~Fail(h)
    <3>1. pc[h] = "validate" /\ pc'[h] = "commit" /\ loc' = loc
      BY <1>0, <1>7, <2>3 DEF Validate, Goto
    <3>2. PlanIsFree(h)'
      BY <2>1, <3>1 DEF SliceInv, HandlerInv, PlanIsFree, Live
    <3> QED BY <1>0, <2>1, <3>1, <3>2, BusySlices
  <2> QED BY <2>2, <2>3
<1>8. CASE Commit(h)
  <2>1. UNCHANGED <<lock, phase, kcall, loc>> /\ pc[h] = "commit"
    BY <1>8 DEF Commit
  <2>2. pc'[h] \in {"trySuccess", "readBack"}
    BY <1>0, <1>8 DEF Commit, Goto
  <2>3. \A q \in Pods : cu'[q] = cu[q] \/ (q = loc[h].cur /\ cu'[q] = loc[h].plan)
    BY <1>8 DEF Commit, TypeInv, TypeOK
  <2>4. \A p \in Pods : phase'[p] = "unbound" => cu'[p] = NoCUs
    BY <2>1, <2>3 DEF SliceInv, PodsInv, HandlerInv
  <2>5. DisjointSlices'
    <3> SUFFICES ASSUME NEW p \in Pods, NEW q \in Pods, p # q, Live(p), Live(q), NEW g \in GPUs
                 PROVE  cu'[p][g] \cap cu'[q][g] = {}
      BY <2>1 DEF DisjointSlices, Live
    <3>1. cu[p][g] \cap cu[q][g] = {}
      BY DEF SliceInv, PodsInv, DisjointSlices
    <3>2. p = loc[h].cur => loc[h].plan[g] \cap cu[q][g] = {}
      BY <2>1 DEF SliceInv, HandlerInv, PlanIsFree
    <3>3. q = loc[h].cur => loc[h].plan[g] \cap cu[p][g] = {}
      BY <2>1 DEF SliceInv, HandlerInv, PlanIsFree
    <3> QED BY <2>3, <3>1, <3>2, <3>3
  <2>6. PodsInv'
    BY <2>1, <2>4, <2>5 DEF SliceInv, PodsInv
  <2>7. HandlerInv(h)'
    BY <2>1, <2>2, HandlerAway DEF SliceInv, HandlerInv
  <2> QED BY <1>0, <2>1, <2>6, <2>7, StepSlices
<1>9. CASE ReadBack(h)
  <2>1. UNCHANGED <<cu, lock, phase, kcall>>
    BY <1>9 DEF ReadBack, api
  <2>2. CASE Fail(h)
    BY <1>0, <2>1, <2>2, FailSlices
  <2>3. CASE ~Fail(h)
    <3>1. pc'[h] = "trySuccess" /\ loc' = loc
      BY <1>0, <1>9, <2>3 DEF ReadBack, Goto
    <3> QED BY <1>0, <2>1, <3>1, AwaySlices
  <2> QED BY <2>2, <2>3
<1>10. CASE TrySuccess(h) \/ PatchPhase(h)
  <2>1. UNCHANGED <<cu, lock, phase, kcall, loc>>
    BY <1>10 DEF TrySuccess, PatchPhase, api
  <2>2. pc'[h] \in {"answer", "phase", "release"}
    BY <1>0, <1>10 DEF TrySuccess, PatchPhase, Goto
  <2> QED BY <1>0, <2>1, <2>2, AwaySlices
<1>11. CASE ReleaseGet(h)
  <2>1. UNCHANGED <<cu, lock, phase, kcall>>
    BY <1>11 DEF ReleaseGet, api
  <2>2. pc'[h] \in {"releasePatch", "answer", "releaseRetry"}
    BY <1>0, <1>11 DEF ReleaseGet, Retry, Goto
  <2>3. loc'[h].cur = loc[h].cur
    BY <1>0, <1>11 DEF ReleaseGet, Retry, Set, Locals
  <2> QED BY <1>0, <2>1, <2>2, <2>3, AwaySlices
<1>12. CASE ReleasePatch(h)
  <2>1. UNCHANGED <<cu, phase, kcall>> /\ lock' \in {lock, NoPod}
    BY <1>12 DEF ReleasePatch
  <2>2. pc'[h] \in {"answer", "releaseRetry"}
    BY <1>0, <1>12 DEF ReleasePatch, Retry, Goto
  <2>3. loc'[h].cur = loc[h].cur
    <3>1. CASE Retry(h)
      BY <1>0, <3>1 DEF Retry, Set, Locals
    <3>2. CASE ~Retry(h)
      BY <1>12, <3>2, ReleasedTypes DEF ReleasePatch
    <3> QED BY <3>1, <3>2
  <2> QED BY <1>0, <2>1, <2>2, <2>3, AwaySlices
<1>13. CASE Answer(h)
  <2>1. UNCHANGED <<cu, lock>>
    BY <1>13 DEF Answer
  <2>2. pc'[h] = "idle" /\ loc'[h].cur = NoPod
    BY <1>0, <1>13 DEF Answer, Goto, Set, NoLocals
  <2>3. \A p \in Pods : phase'[p] = phase[p] \/ (phase[p] = "pending" /\ phase'[p] = "rejected")
    BY <1>13 DEF Answer, Reject, TypeInv, TypeOK
  <2> QED BY <1>0, <2>1, <2>2, <2>3, AwaySlices
<1> QED BY <1>1, <1>2, <1>3, <1>4, <1>5, <1>6, <1>7, <1>8, <1>9, <1>10, <1>11, <1>12, <1>13
        DEF Step

LEMMA SlicesInductive ==
  ASSUME MaxRestarts = 0 PROVE Spec => [](TypeInv /\ SliceInv)
<1>1. TypeInv /\ SliceInv /\ [Next]_vars => (TypeInv /\ SliceInv)'
  <2> SUFFICES ASSUME TypeInv, SliceInv, [Next]_vars PROVE TypeInv' /\ SliceInv'
    OBVIOUS
  <2>1. CASE Environment
    BY <2>1, EnvironmentTypes, EnvironmentSlices
  <2>2. ASSUME NEW h \in Handlers, Step(h) PROVE TypeInv' /\ SliceInv'
    BY <2>2, HandlerTypes, HandlerSlices
  <2>3. CASE UNCHANGED vars
    <3>1. TypeInv'
      BY <2>3 DEF vars, api, bounds, TypeInv, TypeOK, Placed, Wants
    <3>2. SliceInv'
      BY <2>3 DEF vars, api, bounds, SliceInv, PodsInv, HandlerInv, PlanIsFree,
                  DisjointSlices, Live
    <3> QED BY <3>1, <3>2
  <2> QED BY <2>1, <2>2, <2>3 DEF Next
<1> QED BY InitTypes, SliceInit, <1>1, PTL DEF Spec

\* As long as kubelet does not restart during a call, the CUs persisted for live pods
\* never overlap, although locks expire, calls fail and pods bypass HAMi.
THEOREM SlicesDisjoint ==
  ASSUME MaxRestarts = 0 PROVE Spec => []DisjointSlices
<1>1. TypeInv /\ SliceInv => DisjointSlices
  BY DEF SliceInv, PodsInv
<1> QED BY SlicesInductive, <1>1, PTL

\* What the handlers plan stays free until they commit, under the same condition.
THEOREM PlansFree ==
  ASSUME MaxRestarts = 0 PROVE Spec => []PlansStayFree
<1>1. TypeInv /\ SliceInv => PlansStayFree
  BY DEF SliceInv, HandlerInv, PlansStayFree
<1> QED BY SlicesInductive, <1>1, PTL

-------------------------------------------------------------------------------
(* Commits merge                                                           *)

\* A plan holds what its pod has.
PlanGrows(h) ==
  pc[h] \in {"validate", "commit"} /\ loc[h].cur \in Pods =>
    \A g \in GPUs : cu[loc[h].cur][g] \subseteq loc[h].plan[g]
GrowInv == \A h \in Handlers : PlanGrows(h)

LEMMA EnvironmentGrows ==
  ASSUME TypeInv, GrowInv, Environment PROVE GrowInv' /\ cu' = cu
<1> USE DEF GrowInv, PlanGrows
<1>1. ASSUME UNCHANGED <<cu, pc>>,
             \A h \in Handlers : loc'[h].cur = loc[h].cur /\ loc'[h].plan = loc[h].plan
      PROVE  GrowInv'
  BY <1>1
<1>2. ASSUME NEW p \in Pods, Bind(p) PROVE GrowInv' /\ cu' = cu
  <2>1. \A h \in Handlers : loc'[h].cur = loc[h].cur /\ loc'[h].plan = loc[h].plan
    BY <1>2, StaleTypes DEF Bind, TypeInv, TypeOK
  <2> QED BY <1>1, <1>2, <2>1 DEF Bind
<1>3. ASSUME NEW p \in Pods, PlaceForeign(p) \/ Start(p) \/ Finish(p) \/ Remove(p)
      PROVE  GrowInv' /\ cu' = cu
  BY <1>1, <1>3 DEF PlaceForeign, Start, Finish, Remove
<1>4. ASSUME NEW h \in Handlers, NEW p \in Pods, Call(h, p) PROVE GrowInv' /\ cu' = cu
  BY <1>4 DEF Call, Goto, Set, api, TypeInv, TypeOK
<1>5. CASE KubeletRestart \/ Crash
  BY <1>5 DEF KubeletRestart, Crash, api
<1> QED BY <1>2, <1>3, <1>4, <1>5 DEF Environment

\* Only a commit changes what is persisted, and only its pod's.
LEMMA CommitsOnly ==
  ASSUME TypeInv, NEW h \in Handlers, Step(h)
  PROVE  \/ cu' = cu
         \/ pc[h] = "commit" /\ cu' = [cu EXCEPT ![loc[h].cur] = loc[h].plan]
  BY DEF Step, GetNode, GetPod, ListPending, Rebuild, Erase, Compute, Validate, Commit, ReadBack,
         TrySuccess, PatchPhase, ReleaseGet, ReleasePatch, Answer, GiveUp, api

LEMMA HandlerGrows ==
  ASSUME TypeInv, SliceInv, GrowInv, NEW h \in Handlers, Step(h)
  PROVE  GrowInv' /\ \A p \in Pods, g \in GPUs : cu[p][g] \subseteq cu'[p][g]
<1>0. /\ loc \in [Handlers -> Locals] /\ pc \in [Handlers -> Labels] /\ loc[h] \in Locals
      /\ OnlyMoves(h) /\ pc[h] # "idle" /\ \A k \in Handlers \ {h} : pc'[k] = "idle"
  BY StepOnlyMoves DEF TypeInv, TypeOK, SliceInv, OnlyMoves
<1>1. \A p \in Pods, g \in GPUs : cu[p][g] \subseteq cu'[p][g]
  BY CommitsOnly DEF GrowInv, PlanGrows, TypeInv, TypeOK
<1>2. SUFFICES PlanGrows(h)'
  BY <1>0, <1>1 DEF GrowInv, PlanGrows
<1>3. CASE Compute(h)
  <2>1. cu' = cu /\ pc[h] = "compute"
    BY <1>3, Zenon DEF Compute, api
  <2>2. CASE Fail(h)
    <3>1. pc'[h] \in {"answer", "phase"}
      BY <1>0, <2>2 DEF Fail, Goto
    <3> QED BY <3>1 DEF PlanGrows
  <2>3. CASE ~Fail(h)
    <3> DEFINE L(r) == [loc[h] EXCEPT !.plan = Planned(loc[h], r), !.mask = Masked(loc[h], r),
                                      !.sliced = Sliced(r), !.used = NoCUs]
    <3>1. PICK r \in Request(loc[h]) : Set(h, L(r))
      BY <1>3, <2>3, Zenon DEF Compute
    <3>2. L(r).cur = loc[h].cur /\ L(r).plan = Planned(loc[h], r)
      BY <1>0 DEF Locals
    <3> HIDE DEF L
    <3>3. loc'[h].cur = loc[h].cur /\ loc'[h].plan = Planned(loc[h], r)
      BY <1>0, <3>1, <3>2 DEF Set
    <3>4. loc[h].cur \in Pods => loc[h].own = cu[loc[h].cur]
      BY <2>1 DEF SliceInv, HandlerInv
    <3>5. \A g \in GPUs : loc[h].own[g] \subseteq Planned(loc[h], r)[g]
      BY DEF Planned
    <3> QED BY <2>1, <3>3, <3>4, <3>5 DEF PlanGrows
  <2> QED BY <2>2, <2>3
<1>4. CASE Validate(h)
  <2>1. cu' = cu /\ pc[h] = "validate"
    BY <1>4 DEF Validate, api
  <2>2. \/ loc' = loc
        \/ pc'[h] \in {"answer", "phase"}
    BY <1>0, <1>4 DEF Validate, Fail, Goto
  <2> QED BY <2>1, <2>2 DEF GrowInv, PlanGrows
<1>5. CASE ~Compute(h) /\ ~Validate(h)
  <2>1. pc'[h] \notin {"validate", "commit"}
    BY <1>0, <1>5 DEF Step, GetNode, GetPod, ListPending, Rebuild, Erase, Commit, ReadBack,
       TrySuccess, PatchPhase, ReleaseGet, ReleasePatch, Answer, GiveUp, Fail, Snapshot, Retry, Goto
  <2> QED BY <2>1 DEF PlanGrows
<1> QED BY <1>3, <1>4, <1>5

\* As long as kubelet does not restart during a call, no commit takes a CU from a pod that
\* has it: the commits of its containers merge.
THEOREM PersistedGrow ==
  ASSUME MaxRestarts = 0 PROVE Spec => PersistedCUsGrow
<1>1. Init => GrowInv
  BY DEF Init, GrowInv, PlanGrows
<1>2. ASSUME TypeInv, SliceInv, GrowInv, [Next]_vars
      PROVE  GrowInv' /\ \A p \in Pods, g \in GPUs : cu[p][g] \subseteq cu'[p][g]
  <2>1. CASE Environment
    BY <1>2, <2>1, EnvironmentGrows
  <2>2. ASSUME NEW h \in Handlers, Step(h)
        PROVE  GrowInv' /\ \A p \in Pods, g \in GPUs : cu[p][g] \subseteq cu'[p][g]
    BY <1>2, <2>2, HandlerGrows
  <2>3. CASE UNCHANGED vars
    BY <1>2, <2>3 DEF vars, api, GrowInv, PlanGrows
  <2> QED BY <1>2, <2>1, <2>2, <2>3 DEF Next
<1>3. TypeInv /\ SliceInv /\ GrowInv /\ [Next]_vars =>
        [\A p \in Pods : Live(p) => \A g \in GPUs : cu[p][g] \subseteq cu'[p][g]]_vars
  BY <1>2
<1> QED BY SlicesInductive, <1>1, <1>2, <1>3, PTL DEF Spec, PersistedCUsGrow

-------------------------------------------------------------------------------
(* The lock                                                                *)

\* What a handler read before it patches the node is still so, if its resourceVersion is.
LockInv ==
  \A h \in Handlers : pc[h] = "releasePatch" /\ loc[h].fresh => lock = loc[h].cur

\* The steps that neither read nor release the lock for its deletion.
LEMMA LockFrame ==
  ASSUME TypeInv, NEW h \in Handlers, Step(h), ~ReleaseGet(h), ~ReleasePatch(h)
  PROVE  /\ lock' = lock /\ pc'[h] # "releasePatch"
         /\ \A k \in Handlers \ {h} : pc'[k] = pc[k] /\ loc'[k] = loc[k]
<1> USE DEF TypeInv, TypeOK
<1>1. ASSUME NEW s, Goto(h, s)
      PROVE  (\A k \in Handlers \ {h} : pc'[k] = pc[k]) /\ pc'[h] = s
  BY <1>1 DEF Goto
<1>2. ASSUME NEW l, Set(h, l) PROVE \A k \in Handlers \ {h} : loc'[k] = loc[k]
  BY <1>2 DEF Set
<1>3. ASSUME GiveUp(h) \/ Fail(h)
      PROVE  /\ pc'[h] # "releasePatch"
             /\ \A k \in Handlers \ {h} : pc'[k] = pc[k] /\ loc'[k] = loc[k]
  BY <1>1, <1>2, <1>3 DEF GiveUp, Fail
<1>4. CASE GetNode(h)
  BY <1>1, <1>2, <1>3, <1>4 DEF GetNode, GiveUp, api
<1>5. CASE GetPod(h)
  BY <1>1, <1>2, <1>3, <1>5 DEF GetPod, GiveUp, Snapshot, api
<1>6. CASE ListPending(h)
  BY <1>1, <1>2, <1>3, <1>6 DEF ListPending, GiveUp, Snapshot, api
<1>7. CASE Rebuild(h)
  BY <1>1, <1>2, <1>3, <1>7 DEF Rebuild, api
<1>8. CASE Erase(h)
  BY <1>1, <1>3, <1>8 DEF Erase
<1>9. CASE Compute(h)
  <2>1. lock' = lock
    BY <1>9, Zenon DEF Compute, api
  <2>2. CASE ~Fail(h)
    <3> DEFINE L(r) == [loc[h] EXCEPT !.plan = Planned(loc[h], r), !.mask = Masked(loc[h], r),
                                      !.sliced = Sliced(r), !.used = NoCUs]
    <3>1. PICK r \in Request(loc[h]) :
            /\ Set(h, L(r))
            /\ Goto(h, IF L(r).sliced /\ L(r).plan # NoCUs THEN "validate" ELSE Done(L(r)))
      BY <1>9, <2>2, Zenon DEF Compute
    <3> HIDE DEF L
    <3> QED BY <1>1, <1>2, <2>1, <3>1 DEF Done
  <2> QED BY <1>3, <2>1, <2>2
<1>10. CASE Validate(h) \/ ReadBack(h)
  BY <1>1, <1>3, <1>10 DEF Validate, ReadBack, api
<1>11. CASE Commit(h) \/ TrySuccess(h) \/ PatchPhase(h)
  BY <1>1, <1>11 DEF Commit, TrySuccess, PatchPhase, api
<1>12. CASE Answer(h)
  BY <1>1, <1>2, <1>12 DEF Answer
<1> QED BY <1>4, <1>5, <1>6, <1>7, <1>8, <1>9, <1>10, <1>11, <1>12 DEF Step

LEMMA ReleaseKeepsLock ==
  ASSUME TypeInv, LockInv, NEW h \in Handlers, ReleaseGet(h) \/ ReleasePatch(h)
  PROVE  LockInv' /\ (lock' = lock \/ (pc[h] = "releasePatch" /\ lock = loc[h].cur))
<1>0. loc \in [Handlers -> Locals] /\ pc \in [Handlers -> Labels] /\ loc[h] \in Locals
  BY DEF TypeInv, TypeOK
<1>1. ASSUME Retry(h), lock' = lock PROVE LockInv'
  BY <1>0, <1>1 DEF Retry, Goto, Set, LockInv
<1>2. CASE ReleaseGet(h)
  <2>1. lock' = lock
    BY <1>2 DEF ReleaseGet, api
  <2>2. CASE lock = loc[h].cur /\ Goto(h, "releasePatch") /\ Set(h, [loc[h] EXCEPT !.fresh = TRUE])
    <3>1. loc'[h].cur = loc[h].cur
      BY <1>0, <2>2 DEF Set, Locals
    <3> QED BY <1>0, <2>1, <2>2, <3>1 DEF Goto, Set, LockInv
  <2>3. CASE Goto(h, "answer") /\ loc' = loc
    BY <1>0, <2>1, <2>3 DEF Goto, LockInv
  <2> QED BY <1>1, <1>2, <2>1, <2>2, <2>3 DEF ReleaseGet
<1>3. CASE ReleasePatch(h)
  <2>1. CASE Retry(h) /\ lock' = lock
    BY <1>1, <2>1
  <2>2. CASE ~(Retry(h) /\ lock' = lock)
    <3>1. pc[h] = "releasePatch" /\ loc[h].fresh /\ pc'[h] \in {"answer", "releaseRetry"}
      BY <1>0, <1>3, <2>2 DEF ReleasePatch, Goto
    <3>2. \A k \in Handlers \ {h} : loc'[k].fresh = FALSE
      <4>1. \A k \in Handlers : Stale[k].fresh = FALSE /\ Stale \in [Handlers -> Locals]
        BY <1>0, StaleTypes DEF Stale, Locals
      <4>2. \/ loc' = Stale
            \/ loc' = [Stale EXCEPT ![h] = [Stale[h] EXCEPT !.tries = @ + 1]]
        BY <1>3, <2>2 DEF ReleasePatch
      <4> QED BY <4>1, <4>2
    <3> QED BY <3>1, <3>2 DEF LockInv
  <2> QED BY <2>1, <2>2
<1> QED BY <1>2, <1>3

\* What the patch of the node may have done to the lock.
ReleasesOwn == lock' = lock \/ lock' # NoPod
               \/ \E h \in Handlers : pc[h] = "releasePatch" /\ loc[h].cur = lock

LEMMA LockNext == ASSUME TypeInv, LockInv, [Next]_vars PROVE LockInv' /\ ReleasesOwn
<1> USE DEF ReleasesOwn
<1>1. ASSUME NEW p \in Pods, Bind(p) PROVE LockInv' /\ ReleasesOwn
  <2>1. \A h \in Handlers : loc'[h].fresh = FALSE
    BY <1>1 DEF Bind, Stale, TypeInv, TypeOK, Locals
  <2>2. lock' # NoPod
    BY <1>1, ConstantsAssumption DEF Bind
  <2> QED BY <2>1, <2>2 DEF LockInv
<1>2. CASE UNCHANGED <<lock, pc, loc>>
  BY <1>2 DEF LockInv
<1>3. ASSUME NEW p \in Pods, PlaceForeign(p) \/ Start(p) \/ Finish(p) \/ Remove(p)
      PROVE  LockInv' /\ ReleasesOwn
  BY <1>2, <1>3 DEF PlaceForeign, Start, Finish, Remove
<1>4. ASSUME NEW h \in Handlers, NEW p \in Pods, Call(h, p) PROVE LockInv' /\ ReleasesOwn
  BY <1>4 DEF Call, Goto, Set, api, LockInv, TypeInv, TypeOK
<1>5. CASE KubeletRestart
  BY <1>2, <1>5 DEF KubeletRestart, api
<1>6. CASE Crash
  BY <1>6 DEF Crash, LockInv
<1>7. ASSUME NEW h \in Handlers, Step(h) PROVE LockInv' /\ ReleasesOwn
  <2>1. CASE ReleaseGet(h) \/ ReleasePatch(h)
    BY <2>1, ReleaseKeepsLock
  <2>2. CASE ~ReleaseGet(h) /\ ~ReleasePatch(h)
    BY <1>7, <2>2, LockFrame DEF LockInv
  <2> QED BY <2>1, <2>2
<1>8. CASE UNCHANGED vars
  BY <1>2, <1>8 DEF vars, api
<1> QED BY <1>1, <1>3, <1>4, <1>5, <1>6, <1>7, <1>8 DEF Next, Environment

LEMMA LockOwned == Spec => [](TypeInv /\ LockInv)
<1>1. Init => LockInv
  BY DEF Init, LockInv
<1>2. TypeInv /\ [Next]_vars => TypeInv'
  BY EnvironmentTypes, HandlerTypes DEF Next, vars, api, bounds, TypeInv, TypeOK, Placed, Wants
<1> QED BY InitTypes, <1>1, <1>2, LockNext, PTL DEF Spec

\* No handler deletes the lock of a pod it does not serve, whatever expires, fails or
\* restarts, and however many handlers run.
THEOREM OwnLockReleased == Spec => ReleasesOnlyOwnLock
<1>1. TypeInv /\ LockInv /\ [Next]_vars =>
        [lock # NoPod /\ lock' = NoPod => \E h \in Handlers : pc[h] = "releasePatch"
                                                             /\ loc[h].cur = lock]_vars
  BY LockNext DEF ReleasesOwn
<1> QED BY LockOwned, <1>1, PTL DEF Spec, ReleasesOnlyOwnLock

-------------------------------------------------------------------------------
(* What the node lock gives, as long as locks do not expire, all pods are  *)
(* HAMi's and kubelet does not restart during a call: the slots reach      *)
(* their containers, and the lock is kept until the commit.                *)

\* The conditions under which the lock does its work.
Undisturbed == MaxRestarts = 0 /\ LockExpires = FALSE /\ Foreign = {}

-------------------------------------------------------------------------------
(* The invariant: whose slots are left, and who holds the lock             *)

\* The containers of p that kubelet has still to admit.
Left(p) == Wants(p) \ Served(p)
Calls(p) == {h \in Handlers : pc[h] # "idle" /\ loc[h].pod = p}

\* Between two calls the annotation lists exactly the containers left, and the node
\* is locked for the pod while there are any.
PodSlots(p) ==
  phase[p] = "pending" /\ Calls(p) = {} =>
    todo[p] = Left(p) /\ (Left(p) # {} => lock = p)

\* The lock is the call's pod's until the call releases it.
CallLock(h) ==
  /\ pc[h] \notin {"idle", "releaseRetry", "releasePatch", "answer"} => lock = loc[h].pod
  /\ pc[h] = "commit" => lock = loc[h].cur
  /\ pc[h] = "getPod" => loc[h].cur = loc[h].pod

\* A call that took another pod than its own can only have met one whose slots are
\* used up, or one that kubelet no longer admits.
CallStrays(h) ==
  pc[h] # "idle" /\ loc[h].cur \in Pods \ {loc[h].pod} /\ phase[loc[h].cur] = "pending" =>
    /\ Left(loc[h].cur) = {} /\ todo[loc[h].cur] = {}
    /\ pc[h] = "rebuild" => loc[h].todo = {}
    /\ pc[h] # "erase"

\* The call works on its own container's slot, which is erased already.
OwnSlot(h) ==
  /\ loc[h].cur = loc[h].pod /\ loc[h].slot = loc[h].ctr
  /\ todo[loc[h].pod] = Left(loc[h].pod) \ {loc[h].ctr}

\* The call of a pod that kubelet admits: which slot it looks at, and which are left.
CallServes(h) ==
  Admits(h) =>
    /\ Left(loc[h].pod) # {} /\ loc[h].ctr = First(Left(loc[h].pod))
    /\ pc[h] \notin {"phase", "release", "releaseRetry", "releasePatch", "answer"} => loc[h].ok
    /\ pc[h] # "listPending"
    /\ pc[h] \in {"getNode", "getPod", "rebuild", "erase"} => todo[loc[h].pod] = Left(loc[h].pod)
    /\ pc[h] \in {"rebuild", "erase"} =>
         loc[h].cur = loc[h].pod /\ loc[h].todo = Left(loc[h].pod)
    /\ pc[h] = "erase" => loc[h].slot = loc[h].ctr
    /\ pc[h] \in {"compute", "validate", "commit", "readBack", "trySuccess"} => OwnSlot(h)
    /\ pc[h] \in {"phase", "release", "releaseRetry", "releasePatch"} /\ loc[h].ok =>
         OwnSlot(h) /\ todo[loc[h].pod] = {}
    /\ pc[h] = "answer" /\ loc[h].ok =>
         OwnSlot(h) /\ (todo[loc[h].pod] # {} => lock = loc[h].pod)

SlotInv ==
  /\ SlotServesItsContainer
  /\ \A p \in Pods : PodSlots(p)
  /\ \A h \in Handlers : CallLock(h) /\ CallStrays(h) /\ CallServes(h)

-------------------------------------------------------------------------------
(* Steps that keep it                                                      *)

\* At first nothing is placed and nobody is called.
LEMMA SlotInit == Init => SlotInv
  BY ConstantsAssumption
  DEF Init, SlotInv, SlotServesItsContainer, PodSlots, CallLock, CallStrays, CallServes, Admits

\* What the slot invariant reads of a handler's locals.
SameSlot(l, m) ==
  /\ m.pod = l.pod /\ m.ctr = l.ctr /\ m.cur = l.cur /\ m.slot = l.slot
  /\ m.ok = l.ok /\ m.todo = l.todo

\* A stale resourceVersion is none of it.
LEMMA StaleSlots ==
  ASSUME TypeInv, NEW h \in Handlers PROVE SameSlot(loc[h], Stale[h])
<1>1. loc[h] \in Locals
  BY DEF TypeInv, TypeOK
<1>2. Stale[h] = [loc[h] EXCEPT !.fresh = FALSE]
  BY Zenon DEF Stale
<1> QED BY <1>1, <1>2 DEF Locals, SameSlot

\* The handlers stand still, no pod is placed, and no lock or slot of a pending pod moves.
LEMMA PodsEndSlots ==
  ASSUME TypeInv, SlotInv, UNCHANGED <<lock, job, todo, got, pc, loc>>,
         \A p \in Pods : phase'[p] = "pending" => phase[p] = "pending"
  PROVE  SlotInv'
<1> USE DEF TypeInv, TypeOK, Left, Wants, Served
<1>1. \A p \in Pods : PodSlots(p)'
  BY DEF SlotInv, PodSlots, Calls
<1>2. \A h \in Handlers : CallLock(h)' /\ CallStrays(h)'
  BY DEF SlotInv, CallLock, CallStrays
<1>3. ASSUME NEW h \in Handlers PROVE CallServes(h)'
  <2>1. Admits(h)' => Admits(h)
    BY DEF Admits, Placed
  <2>2. Left(loc[h].pod)' = Left(loc[h].pod) /\ (OwnSlot(h)' <=> OwnSlot(h))
    BY DEF OwnSlot
  <2>3. CallServes(h)
    BY DEF SlotInv
  <2> HIDE DEF TypeInv, TypeOK, Left, Wants, Served
  <2> QED BY <2>1, <2>2, <2>3 DEF CallServes
<1>4. SlotServesItsContainer'
  BY DEF SlotInv, SlotServesItsContainer
<1> QED BY <1>1, <1>2, <1>3, <1>4 DEF SlotInv

\* What pods, scheduler and kubelet do: an expired lock is not taken over, and only
\* the pod that owns the lock is called for.
LEMMA EnvironmentSlots ==
  ASSUME Undisturbed, TypeInv, SliceInv, SlotInv, Environment PROVE SlotInv'
<1> USE DEF Undisturbed
<1>0. loc \in [Handlers -> Locals] /\ pc \in [Handlers -> Labels]
  BY DEF TypeInv, TypeOK
<1>1. ASSUME NEW p \in Pods, Bind(p) PROVE SlotInv'
  <2>1. /\ lock = NoPod /\ lock' = p /\ phase[p] = "unbound" /\ phase'[p] = "pending"
        /\ todo'[p] = Wants(p)' /\ got' = got /\ pc' = pc
        /\ \A q \in Pods \ {p} : phase'[q] = phase[q] /\ todo'[q] = todo[q] /\ job'[q] = job[q]
    BY <1>1 DEF Bind, Wants, TypeInv, TypeOK
  <2>2. \A h \in Handlers : SameSlot(loc[h], loc'[h])
    BY <1>1, StaleSlots, Zenon DEF Bind
  <2>3. Left(p)' = Wants(p)'
    <3>1. \A a \in got : a.pod # p
      BY <2>1 DEF TypeInv, Placed
    <3> QED BY <2>1, <3>1 DEF Left, Served
  <2>4. \A q \in Pods \ {p} : Left(q)' = Left(q)
    BY <2>1 DEF Left, Wants, Served
  <2>5. \A h \in Handlers : pc[h] # "idle" => loc[h].pod \in Pods \ {p}
    BY <2>1 DEF TypeInv, Placed
  <2>6. \A q \in Pods : PodSlots(q)'
    <3>1. PodSlots(p)'
      BY <2>1, <2>3 DEF PodSlots
    <3>2. ASSUME NEW q \in Pods \ {p} PROVE PodSlots(q)'
      <4>1. Calls(q)' = Calls(q)
        BY <2>1, <2>2 DEF Calls, SameSlot
      <4>2. lock # q
        BY <2>1, ConstantsAssumption
      <4> QED BY <2>1, <2>4, <4>1, <4>2 DEF SlotInv, PodSlots
    <3> QED BY <3>1, <3>2
  <2>7. ASSUME NEW h \in Handlers, pc[h] # "idle"
        PROVE  pc[h] \in {"releaseRetry", "releasePatch", "answer"}
    <3>1. lock # loc[h].pod
      BY <2>1, <2>5, <2>7, ConstantsAssumption
    <3> QED BY <2>7, <3>1 DEF SlotInv, CallLock
  <2>8. ASSUME NEW h \in Handlers PROVE CallLock(h)'
    BY <2>1, <2>7, <2>8 DEF CallLock
  <2>9. ASSUME NEW h \in Handlers PROVE CallStrays(h)'
    <3>1. loc[h].cur # p
      BY <2>1 DEF SliceInv, HandlerInv
    <3> QED BY <2>1, <2>2, <2>4, <2>9, <3>1 DEF SlotInv, CallStrays, SameSlot
  <2>10. ASSUME NEW h \in Handlers PROVE CallServes(h)'
    <3> SUFFICES ASSUME Admits(h)' PROVE CallServes(h)'
      BY DEF CallServes
    <3>1. pc[h] # "idle" /\ loc[h].pod \in Pods \ {p} /\ SameSlot(loc[h], loc'[h])
      BY <2>1, <2>2, <2>5 DEF Admits
    <3>2. Admits(h)
      BY <2>1, <3>1 DEF Admits, SameSlot
    <3>3. Left(loc[h].pod)' = Left(loc[h].pod) /\ todo'[loc'[h].pod] = todo[loc[h].pod]
      BY <2>1, <2>4, <3>1 DEF SameSlot
    <3>4. OwnSlot(h)' <=> OwnSlot(h)
      BY <3>1, <3>3 DEF OwnSlot, SameSlot
    <3>5. lock # loc[h].pod
      BY <2>1, <3>1, ConstantsAssumption
    <3>6. CallServes(h)
      BY DEF SlotInv
    <3> QED BY <2>1, <2>7, <3>1, <3>2, <3>3, <3>4, <3>5, <3>6 DEF CallServes, SameSlot
  <2>11. SlotServesItsContainer'
    BY <2>1 DEF SlotInv, SlotServesItsContainer
  <2> QED BY <2>6, <2>8, <2>9, <2>10, <2>11 DEF SlotInv
<1>2. ASSUME NEW p \in Pods, PlaceForeign(p) PROVE FALSE
  BY <1>2 DEF PlaceForeign
<1>3. ASSUME NEW p \in Pods, Start(p) \/ Finish(p) \/ Remove(p) PROVE SlotInv'
  BY <1>3, PodsEndSlots DEF Start, Finish, Remove, TypeInv, TypeOK
<1>4. ASSUME NEW h \in Handlers, NEW p \in Pods, Call(h, p) PROVE SlotInv'
  <2>1. /\ UNCHANGED <<lock, phase, job, todo, got>> /\ phase[p] = "pending"
        /\ pc'[h] = "getNode" /\ \A k \in Handlers \ {h} : pc'[k] = pc[k]
    BY <1>0, <1>4 DEF Call, Goto, api
  <2>2. /\ loc'[h].pod = p /\ loc'[h].ctr = First(Left(p)) /\ loc'[h].cur = NoPod
        /\ loc'[h].ok
    BY <1>0, <1>4 DEF Call, Set, NoLocals, Left
  <2>3. \A k \in Handlers : pc[k] = "idle"
    BY <1>4, ConstantsAssumption DEF Call, SliceInv
  <2>4. Left(p) # {}
    BY <1>4 DEF Call, Left, Served, TypeInv, Placed
  <2>5. todo[p] = Left(p) /\ lock = p
    BY <2>1, <2>3, <2>4 DEF SlotInv, PodSlots, Calls
  <2>6. \A q \in Pods : Left(q)' = Left(q)
    BY <2>1 DEF Left, Wants, Served
  <2>7. \A q \in Pods : PodSlots(q)'
    BY <2>1, <2>3, <2>6 DEF SlotInv, PodSlots, Calls
  <2>8. CallLock(h)' /\ CallStrays(h)'
    BY <2>1, <2>2, <2>5, ConstantsAssumption DEF CallLock, CallStrays
  <2>9. CallServes(h)'
    BY <2>1, <2>2, <2>4, <2>5, <2>6 DEF CallServes
  <2>10. \A k \in Handlers \ {h} : CallLock(k)' /\ CallStrays(k)' /\ CallServes(k)'
    BY <2>1, <2>3 DEF CallLock, CallStrays, CallServes, Admits
  <2>11. SlotServesItsContainer'
    BY <2>1 DEF SlotInv, SlotServesItsContainer
  <2> QED BY <2>7, <2>8, <2>9, <2>10, <2>11 DEF SlotInv
<1>5. CASE KubeletRestart
  BY <1>5, ConstantsAssumption DEF KubeletRestart, TypeInv, TypeOK
<1>6. CASE Crash
  <2>1. /\ UNCHANGED <<lock, job, todo, got>> /\ \A k \in Handlers : pc'[k] = "idle"
        /\ \A p \in Pods : phase'[p] = "pending" => phase[p] = "pending"
    BY <1>6 DEF Crash, Reject, TypeInv, TypeOK
  <2>2. ASSUME NEW p \in Pods, phase'[p] = "pending" PROVE Calls(p) = {}
    <3> SUFFICES ASSUME NEW h \in Handlers, pc[h] # "idle", loc[h].pod = p PROVE FALSE
      BY DEF Calls
    <3>1. kcall = h /\ h # NoHandler
      BY ConstantsAssumption DEF SliceInv
    <3> QED BY <1>6, <2>2, <3>1 DEF Crash, Reject, TypeInv, TypeOK
  <2>3. ASSUME NEW p \in Pods PROVE PodSlots(p)'
    <3>1. Left(p)' = Left(p)
      BY <2>1 DEF Left, Wants, Served
    <3> QED BY <2>1, <2>2, <3>1 DEF SlotInv, PodSlots
  <2>4. \A k \in Handlers : CallLock(k)' /\ CallStrays(k)' /\ CallServes(k)'
    BY <2>1 DEF CallLock, CallStrays, CallServes, Admits
  <2>5. SlotServesItsContainer'
    BY <2>1 DEF SlotInv, SlotServesItsContainer
  <2> QED BY <2>3, <2>4, <2>5 DEF SlotInv
<1> QED BY <1>1, <1>2, <1>3, <1>4, <1>5, <1>6 DEF Environment

\* What is left to show of a step of h that does not answer: the clauses about h, and
\* that the pods of other calls keep their slots and their lock.
LEMMA StepSlots ==
  ASSUME TypeInv, SliceInv, SlotInv, NEW h \in Handlers, pc[h] # "idle", OnlyMoves(h),
         pc'[h] # "idle", loc'[h].pod = loc[h].pod, UNCHANGED <<phase, job, got>>,
         \A p \in Pods : phase[p] = "pending" /\ p # loc[h].pod =>
           todo'[p] = todo[p] /\ (lock = p /\ Left(p) # {} => lock' = p),
         CallLock(h)', CallStrays(h)', CallServes(h)'
  PROVE  SlotInv'
<1>1. \A k \in Handlers \ {h} : pc[k] = "idle" /\ pc'[k] = "idle"
  BY ConstantsAssumption DEF SliceInv, OnlyMoves
<1>2. \A p \in Pods : Left(p)' = Left(p)
  BY DEF Left, Wants, Served
<1>3. ASSUME NEW p \in Pods PROVE PodSlots(p)'
  <2>1. CASE p = loc[h].pod
    BY <2>1 DEF PodSlots, Calls
  <2>2. CASE p # loc[h].pod
    <3>1. Calls(p) = {}
      BY <1>1, <2>2 DEF Calls
    <3> QED BY <1>2, <2>2, <3>1 DEF SlotInv, PodSlots
  <2> QED BY <2>1, <2>2
<1>4. \A k \in Handlers \ {h} : CallLock(k)' /\ CallStrays(k)' /\ CallServes(k)'
  BY <1>1 DEF CallLock, CallStrays, CallServes, Admits
<1>5. SlotServesItsContainer'
  BY DEF SlotInv, SlotServesItsContainer
<1> QED BY <1>3, <1>4, <1>5 DEF SlotInv

\* A call that fails: its pod, if kubelet still admits it, is going to be rejected.
LEMMA FailSlots ==
  ASSUME TypeInv, SliceInv, SlotInv, NEW h \in Handlers,
         pc[h] \in {"getNode", "getPod", "listPending", "rebuild", "erase", "compute",
                    "validate", "readBack"},
         OnlyMoves(h), UNCHANGED <<lock, phase, job, got>>, Fail(h) \/ GiveUp(h),
         \A p \in Pods : phase[p] = "pending" /\ p # loc[h].pod => todo'[p] = todo[p]
  PROVE  SlotInv'
<1>1. loc[h] \in Locals /\ loc \in [Handlers -> Locals] /\ pc \in [Handlers -> Labels]
  BY DEF TypeInv, TypeOK
<1>2. pc'[h] \in {"answer", "phase"}
  BY <1>1 DEF Fail, GiveUp, Goto
<1>3. /\ loc'[h].pod = loc[h].pod /\ loc'[h].ctr = loc[h].ctr /\ loc'[h].ok = FALSE
      /\ loc'[h].cur \in {loc[h].cur, NoPod}
  <2>1. CASE Fail(h)
    BY <1>1, <2>1 DEF Fail, Set, Locals
  <2>2. CASE GiveUp(h)
    BY <1>1, <2>2 DEF GiveUp, Set, Locals
  <2> QED BY <2>1, <2>2
<1>4. \A p \in Pods : Left(p)' = Left(p)
  BY DEF Left, Wants, Served
<1>5. CallLock(h)'
  BY <1>2, <1>3 DEF SlotInv, CallLock
<1>6. CallStrays(h)'
  BY <1>2, <1>3, <1>4, ConstantsAssumption DEF SlotInv, CallStrays
<1>7. CallServes(h)'
  <2>1. loc[h].pod \in Pods
    BY DEF TypeInv, Placed
  <2> QED BY <1>2, <1>3, <1>4, <2>1 DEF SlotInv, CallServes, Admits
<1> QED BY <1>2, <1>3, <1>5, <1>6, <1>7, StepSlots

\* A call reads a pod: its own, with the slots left, or one that has none left.
LEMMA SnapshotSlots ==
  ASSUME TypeInv, SliceInv, SlotInv, NEW h \in Handlers, pc[h] \in {"getPod", "listPending"},
         OnlyMoves(h), UNCHANGED <<lock, phase, job, got, todo>>,
         NEW p \in Pods, Snapshot(h, p), Admits(h) => p = loc[h].pod
  PROVE  SlotInv'
<1>1. loc[h] \in Locals /\ loc \in [Handlers -> Locals] /\ pc \in [Handlers -> Labels]
  BY DEF TypeInv, TypeOK
<1>2. pc'[h] = "rebuild"
  BY <1>1 DEF Snapshot, Goto
<1>3. /\ loc'[h].pod = loc[h].pod /\ loc'[h].ctr = loc[h].ctr /\ loc'[h].ok = loc[h].ok
      /\ loc'[h].cur = p /\ loc'[h].todo = todo[p]
  BY <1>1 DEF Snapshot, Set, Locals
<1>4. \A q \in Pods : Left(q)' = Left(q)
  BY DEF Left, Wants, Served
<1>5. CallLock(h)' /\ lock = loc[h].pod
  BY <1>2, <1>3 DEF SlotInv, CallLock
<1>6. CallStrays(h)'
  <2> SUFFICES ASSUME p # loc[h].pod, phase[p] = "pending" PROVE Left(p) = {} /\ todo[p] = {}
    BY <1>2, <1>3, <1>4 DEF CallStrays
  <2>1. Calls(p) = {}
    BY ConstantsAssumption DEF Calls, SliceInv
  <2> QED BY <1>5, <2>1 DEF SlotInv, PodSlots
<1>7. CallServes(h)'
  <2>1. loc[h].pod \in Pods
    BY DEF TypeInv, Placed
  <2>2. CallServes(h)
    BY DEF SlotInv
  <2>3. CASE Admits(h)
    <3>1. pc[h] = "getPod"
      BY <2>2, <2>3 DEF CallServes
    <3> QED BY <1>2, <1>3, <1>4, <2>1, <2>2, <2>3, <3>1 DEF CallServes
  <2>4. CASE ~Admits(h)
    BY <1>3, <2>4 DEF CallServes, Admits
  <2> QED BY <2>3, <2>4
<1> QED BY <1>2, <1>3, <1>5, <1>6, <1>7, StepSlots

\* The slots of a job count from 1: 0 is left for a call without a slot.
LEMMA SlotIsPositive ==
  ASSUME TypeInv, NEW h \in Handlers, pc[h] # "idle" PROVE loc[h].ctr # 0
<1>1. loc[h].pod \in Pods /\ loc[h].ctr \in Wants(loc[h].pod)
  BY DEF TypeInv, Placed
<1>2. job[loc[h].pod] \in Jobs \cup {<<>>}
  BY <1>1 DEF TypeInv, TypeOK
<1>3. loc[h].ctr \in DOMAIN job[loc[h].pod]
  BY <1>1 DEF Wants
<1>4. ASSUME NEW j \in Jobs \cup {<<>>} PROVE 0 \notin DOMAIN j
  <2>1. CASE j \in Jobs
    <3>1. j \in Seq({j[c] : c \in DOMAIN j})
      BY <2>1, ConstantsAssumption DEF IsJob
    <3> QED BY <3>1
  <2>2. CASE j = <<>>
    BY <2>2
  <2> QED BY <2>1, <2>2
<1> QED BY <1>2, <1>3, <1>4

\* GetNextDeviceRequest finds the slot of the container that is called for: the pod's
\* first slot left is the first container kubelet has not admitted.
LEMMA NextSlotServes ==
  ASSUME TypeInv, SlotInv, NEW h \in Handlers, pc[h] = "rebuild", Admits(h)
  PROVE  NextSlot(loc[h]) = loc[h].ctr /\ loc[h].ctr # 0
<1>1. /\ loc[h].cur = loc[h].pod /\ loc[h].todo = Left(loc[h].pod) /\ Left(loc[h].pod) # {}
      /\ loc[h].ctr = First(Left(loc[h].pod))
  BY DEF SlotInv, CallServes
<1>2. loc[h].pod \in Pods
  BY DEF Admits, TypeInv, Placed
<1> QED BY <1>1, <1>2, SlotIsPositive, ConstantsAssumption DEF NextSlot

\* A step of h within a stage: it keeps the call, the pod read and the verdict.
SameCallSlot(h) ==
  loc'[h].pod = loc[h].pod /\ loc'[h].ctr = loc[h].ctr /\ loc'[h].cur = loc[h].cur
  /\ loc'[h].slot = loc[h].slot /\ loc'[h].ok = loc[h].ok

\* The steps after the slot was erased, up to the answer.
LEMMA LateSlots ==
  ASSUME TypeInv, SliceInv, SlotInv, NEW h \in Handlers, OnlyMoves(h),
         UNCHANGED <<phase, job, got, todo>>, SameCallSlot(h),
         pc[h] \in {"compute", "validate", "commit", "readBack", "trySuccess",
                    "phase", "release", "releaseRetry", "releasePatch"},
         pc'[h] \in {"validate", "commit", "readBack", "trySuccess",
                     "phase", "release", "releaseRetry", "releasePatch", "answer"},
         pc[h] \in {"releaseRetry", "releasePatch"}
           => pc'[h] \in {"releaseRetry", "releasePatch", "answer"},
         pc[h] = "release" => pc'[h] \in {"releaseRetry", "releasePatch", "answer"},
         pc[h] = "phase" => pc'[h] = "release",
         pc'[h] = "phase" /\ Admits(h) => pc[h] = "trySuccess" /\ todo[loc[h].cur] = {},
         pc'[h] = "release" => pc[h] = "phase",
         pc'[h] \in {"releaseRetry", "releasePatch"} =>
           pc[h] \in {"release", "releaseRetry", "releasePatch"},
         pc'[h] = "answer" /\ Admits(h)
           => pc[h] \notin {"compute", "validate", "commit", "readBack"},
         pc'[h] = "commit" => lock = loc[h].cur,
         lock' = lock \/ (pc[h] = "releasePatch" /\ lock = loc[h].cur)
  PROVE  SlotInv'
<1> USE DEF SameCallSlot
<1>1. \A p \in Pods : Left(p)' = Left(p)
  BY DEF Left, Wants, Served
<1>2. CallLock(h) /\ CallStrays(h) /\ CallServes(h) /\ loc[h].pod \in Pods
  BY DEF SlotInv, TypeInv, Placed
<1>3. CallLock(h)'
  BY <1>2 DEF CallLock
<1>4. CallStrays(h)'
  BY <1>1, <1>2 DEF CallStrays
<1>5. OwnSlot(h)' <=> OwnSlot(h)
  BY <1>1, <1>2 DEF OwnSlot
<1>6. CallServes(h)'
  <2> SUFFICES ASSUME Admits(h)' PROVE CallServes(h)'
    BY DEF CallServes
  <2>1. Admits(h)
    BY DEF Admits
  <2>2. loc[h].ok => OwnSlot(h)
    BY <1>2, <2>1 DEF CallServes
  <2>3. Left(loc[h].pod) # {} /\ loc[h].ctr = First(Left(loc[h].pod))
    BY <1>2, <2>1 DEF CallServes
  <2>4. pc'[h] \in {"validate", "commit", "readBack", "trySuccess"} => loc[h].ok
    BY <1>2, <2>1 DEF CallServes
  <2>5. pc'[h] \in {"phase", "release", "releaseRetry", "releasePatch"} /\ loc[h].ok
          => todo[loc[h].pod] = {}
    BY <1>2, <2>1, <2>2 DEF CallServes, OwnSlot
  <2>6. pc'[h] = "answer" /\ loc[h].ok /\ todo[loc[h].pod] # {} => lock' = loc[h].pod
    BY <1>2, <2>1 DEF CallServes, CallLock
  <2> QED BY <1>1, <1>2, <1>5, <2>2, <2>3, <2>4, <2>5, <2>6 DEF CallServes
<1>7. ASSUME NEW p \in Pods, phase[p] = "pending", p # loc[h].pod, lock = p, Left(p) # {}
      PROVE  lock' = p
  BY <1>2, <1>7 DEF CallStrays
<1> QED BY <1>3, <1>4, <1>6, <1>7, StepSlots

\* After a release the resourceVersions read are stale, and h may have used an attempt.
LEMMA ReleasedSlots ==
  ASSUME TypeInv, NEW h \in Handlers,
         loc' = Stale \/ loc' = [Stale EXCEPT ![h] = [Stale[h] EXCEPT !.tries = @ + 1]]
  PROVE  SameCallSlot(h)
<1>1. SameSlot(loc[h], Stale[h]) /\ Stale \in [Handlers -> Locals] /\ Stale[h] \in Locals
  BY StaleSlots, StaleTypes DEF TypeInv, TypeOK
<1>2. CASE loc' = Stale
  BY <1>1, <1>2 DEF SameCallSlot, SameSlot
<1>3. CASE loc' = [Stale EXCEPT ![h] = [Stale[h] EXCEPT !.tries = @ + 1]]
  <2>1. loc'[h] = [Stale[h] EXCEPT !.tries = @ + 1]
    <3>1. h \in DOMAIN Stale
      BY <1>1
    <3> QED BY <1>3, <3>1
  <2> QED BY <1>1, <2>1 DEF SameCallSlot, SameSlot, Locals
<1> QED BY <1>2, <1>3

\* The answer h would give now.
Reply(h) == [pod |-> loc[h].pod, ctr |-> loc[h].ctr, from |-> loc[h].cur,
             slot |-> loc[h].slot, mask |-> loc[h].mask]

\* kubelet admits the container that was called for, out of its own slot; or it rejects
\* the pod; or nobody waits for the answer.
LEMMA AnswerSlots ==
  ASSUME TypeInv, SliceInv, SlotInv, NEW h \in Handlers, Answer(h) PROVE SlotInv'
<1>0. /\ loc[h] \in Locals /\ pc \in [Handlers -> Labels] /\ loc[h].pod \in Pods
      /\ OnlyMoves(h) /\ pc[h] = "answer" /\ kcall = h /\ phase \in [Pods -> Phases]
  BY StepOnlyMoves DEF TypeInv, TypeOK, Placed, SliceInv, Answer, Step
<1>o. PICK o \in Pods : o = loc[h].pod
  BY <1>0
<1>1. UNCHANGED <<lock, job, todo>>
  BY DEF Answer
<1>2. \A k \in Handlers : pc'[k] = "idle"
  BY <1>0, ConstantsAssumption DEF SliceInv, OnlyMoves, Answer, Goto
<1>3. \A k \in Handlers : CallLock(k)' /\ CallStrays(k)' /\ CallServes(k)'
  BY <1>2 DEF CallLock, CallStrays, CallServes, Admits
<1>4. /\ phase' = IF ~loc[h].ok THEN Reject(loc[h].pod) ELSE phase
      /\ got' = IF phase[loc[h].pod] = "pending" /\ loc[h].ok THEN got \cup {Reply(h)} ELSE got
  BY <1>0, Zenon DEF Answer, Reply
<1>5. CASE phase[loc[h].pod] = "pending" /\ loc[h].ok
  <2>1. /\ loc[h].cur = loc[h].pod /\ loc[h].slot = loc[h].ctr
        /\ todo[loc[h].pod] = Left(loc[h].pod) \ {loc[h].ctr}
        /\ todo[loc[h].pod] # {} => lock = loc[h].pod
    BY <1>0, <1>5 DEF SlotInv, CallServes, Admits, OwnSlot
  <2>2. /\ got' = got \cup {Reply(h)} /\ phase' = phase
        /\ Reply(h).pod = loc[h].pod /\ Reply(h).ctr = loc[h].ctr
        /\ Reply(h).from = loc[h].cur /\ Reply(h).slot = loc[h].slot
    BY <1>4, <1>5 DEF Reply
  <2>3. SlotServesItsContainer'
    BY <2>1, <2>2 DEF SlotInv, SlotServesItsContainer
  <2>4. Left(o)' = Left(o) \ {loc[h].ctr}
    BY <1>o, <1>1, <2>2 DEF Left, Wants, Served
  <2>5. \A p \in Pods \ {o} : Left(p)' = Left(p)
    BY <1>o, <1>1, <2>2 DEF Left, Wants, Served
  <2>6. ASSUME NEW p \in Pods PROVE PodSlots(p)'
    <3>1. CASE p = o
      BY <1>o, <1>1, <2>1, <2>4, <3>1 DEF PodSlots
    <3>2. CASE p # o
      <4>1. Calls(p) = {}
        BY <1>0, <1>o, <3>2, ConstantsAssumption DEF Calls, SliceInv
      <4> QED BY <1>1, <2>2, <2>5, <3>2, <4>1 DEF SlotInv, PodSlots
    <3> QED BY <3>1, <3>2
  <2> QED BY <1>3, <2>3, <2>6 DEF SlotInv
<1>6. CASE ~(phase[loc[h].pod] = "pending" /\ loc[h].ok)
  <2>1. got' = got
    BY <1>4, <1>6
  <2>2. \A p \in Pods : Left(p)' = Left(p)
    BY <1>1, <2>1 DEF Left, Wants, Served
  <2>3. /\ phase'[loc[h].pod] # "pending"
        /\ \A p \in Pods \ {loc[h].pod} : phase'[p] = phase[p]
    BY <1>0, <1>4, <1>6 DEF Reject
  <2>4. ASSUME NEW p \in Pods, p # o PROVE PodSlots(p)'
    <3>1. Calls(p) = {}
      BY <1>0, <1>o, <2>4, ConstantsAssumption DEF Calls, SliceInv
    <3> QED BY <1>o, <1>1, <2>2, <2>3, <2>4, <3>1 DEF SlotInv, PodSlots
  <2>5. PodSlots(o)'
    BY <1>o, <2>3 DEF PodSlots
  <2>6. SlotServesItsContainer'
    BY <2>1 DEF SlotInv, SlotServesItsContainer
  <2>7. \A p \in Pods : PodSlots(p)'
    BY <2>4, <2>5
  <2> QED BY <1>3, <2>6, <2>7 DEF SlotInv
<1> QED BY <1>5, <1>6

\* Every step of a call keeps it.
LEMMA HandlerSlots ==
  ASSUME TypeInv, SliceInv, LockInv, SlotInv, NEW h \in Handlers, Step(h) PROVE SlotInv'
<1>0. /\ loc[h] \in Locals /\ loc \in [Handlers -> Locals] /\ pc \in [Handlers -> Labels]
      /\ OnlyMoves(h) /\ pc[h] # "idle" /\ loc[h].pod \in Pods
  BY StepOnlyMoves DEF TypeInv, TypeOK, Placed
<1>1. CallLock(h) /\ CallStrays(h) /\ CallServes(h)
  BY DEF SlotInv
<1>2. \A p \in Pods : (UNCHANGED <<job, got>>) => Left(p)' = Left(p)
  BY DEF Left, Wants, Served
<1>3. CASE GetNode(h)
  <2>1. UNCHANGED <<lock, phase, job, todo, got>> /\ pc[h] = "getNode"
    BY <1>3 DEF GetNode, GiveUp, api
  <2>2. CASE GiveUp(h)
    BY <1>0, <2>1, <2>2, FailSlots
  <2>3. CASE ~GiveUp(h)
    <3>1. lock = loc[h].pod
      BY <1>1, <2>1 DEF CallLock
    <3>2. /\ loc'[h].pod = loc[h].pod /\ loc'[h].ctr = loc[h].ctr /\ loc'[h].ok = loc[h].ok
          /\ loc'[h].cur = loc[h].pod
      BY <1>0, <1>3, <2>3, <3>1 DEF GetNode, Set, Locals
    <3>3. pc'[h] = "getPod"
      BY <1>0, <1>3, <2>3, <3>1, ConstantsAssumption DEF GetNode, Goto
    <3>4. CallLock(h)' /\ CallStrays(h)'
      BY <2>1, <3>1, <3>2, <3>3 DEF CallLock, CallStrays
    <3>5. CallServes(h)'
      BY <1>0, <1>1, <1>2, <2>1, <3>2, <3>3 DEF CallServes, Admits
    <3> QED BY <1>0, <2>1, <3>2, <3>3, <3>4, <3>5, StepSlots
  <2> QED BY <2>2, <2>3
<1>4. CASE GetPod(h)
  <2>1. UNCHANGED <<lock, phase, job, todo, got>> /\ pc[h] = "getPod"
    BY <1>4 DEF GetPod, GiveUp, Snapshot, api
  <2>2. loc[h].cur = loc[h].pod
    BY <1>1, <2>1 DEF CallLock
  <2>3. CASE GiveUp(h)
    BY <1>0, <2>1, <2>3, FailSlots
  <2>4. CASE Snapshot(h, loc[h].cur)
    BY <1>0, <2>1, <2>2, <2>4, SnapshotSlots
  <2>5. CASE ~Exists(loc[h].cur) /\ Goto(h, "listPending") /\ Set(h, [loc[h] EXCEPT !.cur = NoPod])
    <3>1. /\ loc'[h].pod = loc[h].pod /\ loc'[h].cur = NoPod /\ pc'[h] = "listPending"
      BY <1>0, <2>5 DEF Goto, Set, Locals
    <3>2. phase[loc[h].pod] # "pending"
      BY <2>2, <2>5 DEF Exists
    <3>3. CallLock(h)' /\ CallStrays(h)' /\ CallServes(h)'
      BY <1>1, <2>1, <3>1, <3>2, ConstantsAssumption DEF CallLock, CallStrays, CallServes, Admits
    <3> QED BY <1>0, <2>1, <3>1, <3>3, StepSlots
  <2> QED BY <1>4, <2>3, <2>4, <2>5 DEF GetPod
<1>5. CASE ListPending(h)
  <2>1. UNCHANGED <<lock, phase, job, todo, got>> /\ pc[h] = "listPending"
    BY <1>5 DEF ListPending, GiveUp, Snapshot, api
  <2>2. ~Admits(h)
    BY <1>1, <2>1 DEF CallServes
  <2>3. CASE GiveUp(h)
    BY <1>0, <2>1, <2>3, FailSlots
  <2>4. ASSUME NEW p \in Pods, Snapshot(h, p) PROVE SlotInv'
    BY <1>0, <2>1, <2>2, <2>4, SnapshotSlots
  <2>5. CASE Goto(h, "rebuild") /\ UNCHANGED loc
    <3>1. pc'[h] = "rebuild" /\ loc[h].cur = NoPod /\ loc' = loc
      BY <1>0, <2>1, <2>5 DEF Goto, SliceInv, HandlerInv
    <3>2. CallLock(h)' /\ CallStrays(h)' /\ CallServes(h)'
      BY <1>0, <1>1, <2>1, <2>2, <3>1, ConstantsAssumption
         DEF CallLock, CallStrays, CallServes, Admits
    <3> QED BY <1>0, <2>1, <3>1, <3>2, StepSlots
  <2> QED BY <1>5, <2>3, <2>4, <2>5 DEF ListPending
<1>6. CASE Rebuild(h)
  <2>1. UNCHANGED <<lock, phase, job, todo, got>> /\ pc[h] = "rebuild"
    BY <1>6 DEF Rebuild, api
  <2>2. CASE Fail(h)
    BY <1>0, <2>1, <2>2, FailSlots
  <2>3. CASE ~Fail(h)
    <3> DEFINE l == [loc[h] EXCEPT !.used = Occupied, !.slot = NextSlot(loc[h])]
    <3>1. Set(h, l)
      BY <1>6, <2>3 DEF Rebuild
    <3>2. /\ l.pod = loc[h].pod /\ l.ctr = loc[h].ctr /\ l.cur = loc[h].cur
          /\ l.ok = loc[h].ok /\ l.todo = loc[h].todo /\ l.slot = NextSlot(loc[h])
      BY <1>0 DEF Locals
    <3> HIDE DEF l
    <3>3. loc'[h] = l
      BY <1>0, <3>1 DEF Set
    <3>4. pc'[h] = IF NextSlot(loc[h]) = 0 THEN "compute" ELSE "erase"
      BY <1>0, <1>6, <2>3 DEF Rebuild, Goto
    <3>5. CallLock(h)'
      BY <1>1, <2>1, <3>2, <3>3, <3>4 DEF CallLock
    <3>6. CallStrays(h)'
      <4> SUFFICES ASSUME loc[h].cur \in Pods \ {loc[h].pod}, phase[loc[h].cur] = "pending"
                   PROVE  /\ Left(loc[h].cur) = {} /\ todo[loc[h].cur] = {}
                          /\ pc'[h] # "erase"
        BY <1>2, <2>1, <3>2, <3>3, <3>4 DEF CallStrays
      <4>1. NextSlot(loc[h]) = 0
        BY <1>1, <2>1 DEF CallStrays, NextSlot
      <4> QED BY <1>1, <2>1, <3>4, <4>1 DEF CallStrays
    <3>7. CallServes(h)'
      <4> SUFFICES ASSUME Admits(h)' PROVE CallServes(h)'
        BY DEF CallServes
      <4>1. Admits(h)
        BY <1>0, <2>1, <3>2, <3>3 DEF Admits
      <4>2. NextSlot(loc[h]) = loc[h].ctr /\ pc'[h] = "erase"
        BY <2>1, <3>4, <4>1, NextSlotServes
      <4> QED BY <1>0, <1>1, <1>2, <2>1, <3>2, <3>3, <4>1, <4>2 DEF CallServes
    <3> QED BY <1>0, <2>1, <3>2, <3>3, <3>4, <3>5, <3>6, <3>7, StepSlots
  <2> QED BY <2>2, <2>3
<1>7. CASE Erase(h)
  <2>1. UNCHANGED <<lock, phase, job, got>> /\ pc[h] = "erase" /\ todo' \in {todo, Erased(loc[h])}
    BY <1>7 DEF Erase
  <2>2. \A p \in Pods : phase[p] = "pending" /\ p # loc[h].pod => todo'[p] = todo[p]
    BY <1>1, <2>1 DEF Erased, CallStrays, TypeInv, TypeOK
  <2>3. CASE Fail(h)
    BY <1>0, <2>1, <2>2, <2>3, FailSlots
  <2>4. CASE ~Fail(h)
    <3>1. todo' = Erased(loc[h]) /\ loc' = loc /\ pc'[h] = "compute"
      BY <1>0, <1>7, <2>4 DEF Erase, Goto
    <3>2. CallLock(h)' /\ CallStrays(h)'
      BY <1>1, <1>2, <2>1, <2>2, <3>1 DEF CallLock, CallStrays
    <3>3. CallServes(h)'
      <4> SUFFICES ASSUME Admits(h)' PROVE CallServes(h)'
        BY DEF CallServes
      <4>1. Admits(h)
        BY <1>0, <2>1, <3>1 DEF Admits
      <4>2. todo'[loc[h].pod] = Left(loc[h].pod) \ {loc[h].ctr}
        BY <1>0, <1>1, <2>1, <3>1, <4>1 DEF CallServes, Erased, TypeInv, TypeOK
      <4> QED BY <1>0, <1>1, <1>2, <2>1, <3>1, <4>1, <4>2 DEF CallServes, OwnSlot
    <3> QED BY <1>0, <2>1, <2>2, <3>1, <3>2, <3>3, StepSlots
  <2> QED BY <2>3, <2>4
<1>8. CASE Compute(h)
  <2>1. UNCHANGED <<lock, phase, job, todo, got>> /\ pc[h] = "compute"
    BY <1>8, Zenon DEF Compute, api
  <2>2. CASE Fail(h)
    BY <1>0, <2>1, <2>2, FailSlots
  <2>3. CASE ~Fail(h)
    <3> DEFINE L(r) == [loc[h] EXCEPT !.plan = Planned(loc[h], r), !.mask = Masked(loc[h], r),
                                      !.sliced = Sliced(r), !.used = NoCUs]
    <3>1. PICK r \in Request(loc[h]) :
            /\ Set(h, L(r))
            /\ Goto(h, IF L(r).sliced /\ L(r).plan # NoCUs THEN "validate" ELSE Done(L(r)))
      BY <1>8, <2>3, Zenon DEF Compute
    <3>2. /\ L(r).pod = loc[h].pod /\ L(r).ctr = loc[h].ctr /\ L(r).cur = loc[h].cur
          /\ L(r).slot = loc[h].slot /\ L(r).ok = loc[h].ok
      BY <1>0 DEF Locals
    <3> HIDE DEF L
    <3>3. SameCallSlot(h)
      BY <1>0, <3>1, <3>2 DEF Set, SameCallSlot
    <3>4. /\ pc'[h] \in {"validate", "trySuccess", "answer"}
          /\ loc[h].cur # NoPod => pc'[h] # "answer"
      BY <1>0, <3>1, <3>2 DEF Goto, Done
    <3>5. Admits(h) => loc[h].cur # NoPod
      BY <1>0, <1>1, <2>1, ConstantsAssumption DEF CallServes, OwnSlot
    <3> QED BY <1>0, <2>1, <3>3, <3>4, <3>5, LateSlots
  <2> QED BY <2>2, <2>3
<1>9. CASE Validate(h)
  <2>1. UNCHANGED <<lock, phase, job, todo, got>> /\ pc[h] = "validate"
    BY <1>9 DEF Validate, api
  <2>2. CASE Fail(h)
    BY <1>0, <2>1, <2>2, FailSlots
  <2>3. CASE ~Fail(h)
    <3>1. loc' = loc /\ pc'[h] = "commit" /\ lock = loc[h].cur
      BY <1>0, <1>9, <2>3 DEF Validate, Goto
    <3> QED BY <1>0, <2>1, <3>1, LateSlots DEF SameCallSlot
  <2> QED BY <2>2, <2>3
<1>10. CASE Commit(h)
  <2>1. UNCHANGED <<lock, phase, job, todo, got, loc>> /\ pc[h] = "commit"
    BY <1>10 DEF Commit
  <2>2. pc'[h] \in {"trySuccess", "readBack"}
    BY <1>0, <1>10 DEF Commit, Goto
  <2> QED BY <1>0, <2>1, <2>2, LateSlots DEF SameCallSlot
<1>11. CASE ReadBack(h)
  <2>1. UNCHANGED <<lock, phase, job, todo, got>> /\ pc[h] = "readBack"
    BY <1>11 DEF ReadBack, api
  <2>2. CASE Fail(h)
    BY <1>0, <2>1, <2>2, FailSlots
  <2>3. CASE ~Fail(h)
    <3>1. loc' = loc /\ pc'[h] = "trySuccess"
      BY <1>0, <1>11, <2>3 DEF ReadBack, Goto
    <3> QED BY <1>0, <2>1, <3>1, LateSlots DEF SameCallSlot
  <2> QED BY <2>2, <2>3
<1>12. CASE TrySuccess(h)
  <2>1. UNCHANGED <<lock, phase, job, todo, got, loc>> /\ pc[h] = "trySuccess"
    BY <1>12 DEF TrySuccess, api
  <2>2. pc'[h] = "answer" \/ (pc'[h] = "phase" /\ todo[loc[h].cur] = {})
    BY <1>0, <1>12 DEF TrySuccess, Goto
  <2> QED BY <1>0, <2>1, <2>2, LateSlots DEF SameCallSlot
<1>13. CASE PatchPhase(h)
  <2>1. UNCHANGED <<lock, phase, job, todo, got, loc>> /\ pc[h] = "phase" /\ pc'[h] = "release"
    BY <1>0, <1>13 DEF PatchPhase, Goto
  <2> QED BY <1>0, <2>1, LateSlots DEF SameCallSlot
<1>14. CASE ReleaseGet(h)
  <2>1. /\ UNCHANGED <<lock, phase, job, todo, got>> /\ pc[h] \in {"release", "releaseRetry"}
    BY <1>14 DEF ReleaseGet, api
  <2>2. pc'[h] \in {"releaseRetry", "releasePatch", "answer"}
    BY <1>0, <1>14 DEF ReleaseGet, Retry, Goto
  <2>3. SameCallSlot(h)
    BY <1>0, <1>14 DEF ReleaseGet, Retry, Set, Locals, SameCallSlot
  <2> QED BY <1>0, <2>1, <2>2, <2>3, LateSlots
<1>15. CASE ReleasePatch(h)
  <2>1. /\ UNCHANGED <<phase, job, todo, got>> /\ pc[h] = "releasePatch"
    BY <1>15 DEF ReleasePatch
  <2>2. pc'[h] \in {"releaseRetry", "answer"}
    BY <1>0, <1>15 DEF ReleasePatch, Retry, Goto
  <2>3. lock' = lock \/ lock = loc[h].cur
    BY <1>15, ReleaseKeepsLock
  <2>4. SameCallSlot(h)
    <3>1. CASE Retry(h)
      BY <1>0, <3>1 DEF Retry, Set, Locals, SameCallSlot
    <3>2. CASE ~Retry(h)
      BY <1>15, <3>2, ReleasedSlots DEF ReleasePatch
    <3> QED BY <3>1, <3>2
  <2> QED BY <1>0, <2>1, <2>2, <2>3, <2>4, LateSlots
<1>16. CASE Answer(h)
  BY <1>16, AnswerSlots
<1> QED BY <1>3, <1>4, <1>5, <1>6, <1>7, <1>8, <1>9, <1>10, <1>11, <1>12, <1>13, <1>14, <1>15,
           <1>16 DEF Step

\* It holds in every reachable state.
LEMMA SlotsInductive ==
  ASSUME Undisturbed PROVE Spec => [](TypeInv /\ SliceInv /\ SlotInv)
<1>1. Spec => [](TypeInv /\ SliceInv)
  BY SlicesInductive DEF Undisturbed
<1>2. TypeInv /\ SliceInv /\ LockInv /\ SlotInv /\ [Next]_vars => SlotInv'
  <2> SUFFICES ASSUME TypeInv, SliceInv, LockInv, SlotInv, [Next]_vars PROVE SlotInv'
    OBVIOUS
  <2>1. CASE Environment
    BY <2>1, EnvironmentSlots
  <2>2. ASSUME NEW h \in Handlers, Step(h) PROVE SlotInv'
    BY <2>2, HandlerSlots
  <2>3. CASE UNCHANGED vars
    BY <2>3, PodsEndSlots DEF vars, api
  <2> QED BY <2>1, <2>2, <2>3 DEF Next
<1> QED BY <1>1, <1>2, LockOwned, SlotInit, PTL DEF Spec

\* Without lock expiry, kubelet restarts and foreign pods, every container is served
\* from its own pod's slot, at its own position, although Allocate is told neither and
\* calls fail.
THEOREM SlotsServed ==
  ASSUME Undisturbed PROVE Spec => []SlotServesItsContainer
<1>1. TypeInv /\ SliceInv /\ SlotInv => SlotServesItsContainer
  BY DEF SlotInv
<1> QED BY SlotsInductive, <1>1, PTL

\* Under the same conditions the node is locked for the pod from the reading of the
\* occupancy to the commit.
THEOREM LockedToCommit ==
  ASSUME Undisturbed PROVE Spec => []LockedUntilPersisted
<1>1. TypeInv /\ SliceInv /\ SlotInv => LockedUntilPersisted
  BY DEF SlotInv, LockedUntilPersisted, CallLock, CallServes, OwnSlot
<1> QED BY SlotsInductive, <1>1, PTL

===============================================================================
