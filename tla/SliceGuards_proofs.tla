-------------------------- MODULE SliceGuards_proofs ---------------------------
(***************************************************************************)
(* Proofs about SliceGuards for all pods, GPUs, plans, images and bounds.  *)
(***************************************************************************)
EXTENDS SliceGuards, TLAPS

-------------------------------------------------------------------------------
(* Types                                                                   *)

Phases == {"pending", "admitted", "running", "refused", "ended"}
Calls  == [pc : Pcs, c : Nat \ {0}, libc : Libc]
Writes == [pod : Pods, c : Nat \ {0}, gpu : GPUs, mem : Nat \ {NoCap},
           tries : 0 .. Tries - 1, end : Ends]

\* The parts of TypeOK: pods with their calls, containerd, and the guards.
PodsOK ==
  /\ pod \in [Pods -> Phases] /\ call \in [Pods -> Calls] /\ cgroup \in [Pods -> BOOLEAN]
  /\ \A p \in Pods : /\ call[p].c <= Len(Plan[p])
                     /\ call[p].pc # "idle" => pod[p] = "pending"
                     /\ cgroup[p] => pod[p] \in {"admitted", "running"}
ImagesOK == present \subseteq Images /\ pulling \subseteq Images /\ pulls \in [Images -> Nat]
GuardsOK ==
  /\ guards \in [Pods -> Seq({"hook", "cap"})] /\ cap \in [Pods -> [GPUs -> Nat]]
  /\ writers \subseteq Writes
RestOK ==
  /\ checking \in BOOLEAN /\ dmemEnabled \in BOOLEAN /\ content \in Contents
  /\ faults \in 0 .. MaxFaults

TypeInv == PodsOK /\ ImagesOK /\ GuardsOK /\ RestOK

LEMMA InvTypes == TypeInv => TypeOK
BY DEF TypeInv, TypeOK, PodsOK, ImagesOK, GuardsOK, RestOK, Phases, Calls, Writes, At

\* A pod's plan has a container for every position of its call.
LEMMA PlannedContainers ==
  ASSUME NEW p \in Pods
  PROVE  /\ Len(Plan[p]) \in Nat \ {0}
         /\ \A c \in 1 .. Len(Plan[p]) : Plan[p][c] \in Container
BY GuardAssumption

LEMMA Current ==
  ASSUME PodsOK, NEW p \in Pods PROVE Ctr(p) \in Container /\ Image(p) \in Images
<1>1. call[p].c \in 1 .. Len(Plan[p])
  BY PlannedContainers DEF PodsOK, Calls
<1>2. Ctr(p) \in Container
  BY <1>1, PlannedContainers DEF Ctr
<1> QED BY <1>2 DEF Image, Images, Container

\* Inspect has an answer for every image.
LEMMA InspectTypes == ASSUME NEW i PROVE InspectRoot(i) \in Libc \cup {"error"}
BY DEF InspectRoot, FindLibc, GlibcVersion, Libc

\* A pod and its call take a step.
LEMMA PodStep ==
  ASSUME PodsOK, NEW p \in Pods, NEW r \in Calls, NEW s \in Phases,
         call' = [call EXCEPT ![p] = r], pod' = [pod EXCEPT ![p] = s], UNCHANGED cgroup,
         r.c <= Len(Plan[p]), r.pc # "idle" => s = "pending",
         cgroup[p] => s \in {"admitted", "running"}
  PROVE  PodsOK'
BY DEF PodsOK

LEMMA IdleIsCall == Idle \in Calls /\ Idle.c = 1 /\ Idle.pc = "idle"
BY DEF Idle, Calls, Pcs, Libc

\* The steps a call takes: it fails, it goes on, it begins with a container.
LEMMA RefuseStep ==
  ASSUME PodsOK, NEW p \in Pods, ~At(p, "idle"), Refuse(p), UNCHANGED cgroup PROVE PodsOK'
<1>1. ~cgroup[p]
  BY DEF PodsOK, At
<1>2. Idle.c <= Len(Plan[p])
  BY IdleIsCall, PlannedContainers
<1>3. "refused" \in Phases
  BY DEF Phases
<1>4. call' = [call EXCEPT ![p] = Idle] /\ pod' = [pod EXCEPT ![p] = "refused"]
  BY DEF Refuse
<1> QED BY <1>1, <1>2, <1>3, <1>4, PodStep, IdleIsCall

LEMMA GoStep ==
  ASSUME PodsOK, NEW p \in Pods, ~At(p, "idle"), NEW l \in Pcs \ {"idle"}, NEW b \in Libc,
         call' = [call EXCEPT ![p] = [call[p] EXCEPT !.pc = l, !.libc = b]],
         UNCHANGED <<pod, cgroup>>
  PROVE  PodsOK'
<1> DEFINE r == [call[p] EXCEPT !.pc = l, !.libc = b]
<1>1. call[p] \in Calls /\ call[p].c <= Len(Plan[p]) /\ pod[p] = "pending" /\ ~cgroup[p]
  BY DEF PodsOK, At
<1>2. r \in Calls /\ r.c = call[p].c
  BY <1>1 DEF Calls
<1>3. pod' = [pod EXCEPT ![p] = "pending"]
  BY <1>1 DEF PodsOK
<1> QED BY <1>1, <1>2, <1>3, PodStep DEF Phases

LEMMA BeginStep ==
  ASSUME PodsOK, NEW p \in Pods, pod[p] = "pending", NEW c \in 1 .. Len(Plan[p]), Begin(p, c),
         UNCHANGED <<pod, cgroup>>
  PROVE  PodsOK'
<1> DEFINE r == [Idle EXCEPT !.c = c, !.pc = IF checking THEN "inspect" ELSE "decide"]
<1>0. c \in Nat \ {0} /\ c <= Len(Plan[p])
  BY PlannedContainers
<1>1. r \in Calls /\ r.c = c
  <2>1. (IF checking THEN "inspect" ELSE "decide") \in Pcs
    BY DEF Pcs
  <2> QED BY <1>0, <2>1, IdleIsCall DEF Calls
<1>2. pod' = [pod EXCEPT ![p] = "pending"] /\ ~cgroup[p]
  BY DEF PodsOK
<1>3. call' = [call EXCEPT ![p] = r]
  BY DEF Begin
<1>4. "pending" \in Phases
  BY DEF Phases
<1> HIDE DEF r
<1> QED BY <1>0, <1>1, <1>2, <1>3, <1>4, PodStep

LEMMA InitTypes == Init => TypeInv
<1> SUFFICES ASSUME Init PROVE TypeInv
  OBVIOUS
<1>1. PodsOK
  BY IdleIsCall, PlannedContainers DEF Init, PodsOK, Phases
<1>2. ImagesOK /\ GuardsOK
  BY DEF Init, ImagesOK, GuardsOK, NoCap
<1>3. RestOK
  BY GuardAssumption DEF Init, RestOK
<1> QED BY <1>1, <1>2, <1>3 DEF TypeInv

LEMMA HandleTypes ==
  ASSUME TypeInv, NEW p \in Pods, Handle(p) PROVE TypeInv'
<1>0. PodsOK /\ ImagesOK /\ GuardsOK /\ RestOK
  BY DEF TypeInv
<1>1. CASE Inspect(p)
  <2>1. PodsOK'
    <3>1. CASE Image(p) \notin present
      <4>1. call' = [call EXCEPT ![p] = [call[p] EXCEPT !.pc = "pull", !.libc = call[p].libc]]
        BY <1>0, <1>1, <3>1 DEF Inspect, Go, PodsOK, Calls
      <4>2. call[p].libc \in Libc
        BY <1>0 DEF PodsOK, Calls
      <4> QED BY <1>0, <1>1, <3>1, <4>1, <4>2, GoStep DEF Inspect, At, Pcs
    <3>2. CASE Image(p) \in present /\ InspectRoot(Image(p)) = "error"
      BY <1>0, <1>1, <3>2, RefuseStep DEF Inspect, At
    <3>3. CASE Image(p) \in present /\ InspectRoot(Image(p)) # "error"
      <4>1. call' = [call EXCEPT ![p] = [call[p] EXCEPT !.pc = "decide",
                                                        !.libc = InspectRoot(Image(p))]]
        BY <1>0, <1>1, <3>3 DEF Inspect, PodsOK, Calls
      <4> QED BY <1>0, <1>1, <3>3, <4>1, GoStep, InspectTypes DEF Inspect, At, Pcs
    <3> QED BY <3>1, <3>2, <3>3
  <2>2. (ImagesOK /\ GuardsOK /\ RestOK)'
    BY <1>0, <1>1 DEF Inspect, ImagesOK, GuardsOK, RestOK, settings, containerd
  <2> QED BY <2>1, <2>2 DEF TypeInv
<1>2. CASE PullInBackground(p)
  <2>1. PodsOK'
    BY <1>0, <1>2, RefuseStep DEF PullInBackground, At
  <2>2. ImagesOK'
    BY <1>0, <1>2, Current DEF PullInBackground, ImagesOK
  <2>3. (GuardsOK /\ RestOK)'
    BY <1>0, <1>2 DEF PullInBackground, GuardsOK, RestOK, settings
  <2> QED BY <2>1, <2>2, <2>3 DEF TypeInv
<1>3. CASE Decide(p)
  <2>1. CASE Guard(p) = "cap" /\ ~CapHolds(p)
    <3>1. PodsOK'
      BY <1>0, <1>3, <2>1, RefuseStep DEF Decide, At
    <3>2. (ImagesOK /\ GuardsOK /\ RestOK)'
      BY <1>0, <1>3, <2>1 DEF Decide, ImagesOK, GuardsOK, RestOK, settings, containerd
    <3> QED BY <3>1, <3>2 DEF TypeInv
  <2>2. CASE ~(Guard(p) = "cap" /\ ~CapHolds(p))
    <3>1. PodsOK'
      <4>1. call' = [call EXCEPT ![p] = [call[p] EXCEPT !.pc = "answer", !.libc = call[p].libc]]
        BY <1>0, <1>3, <2>2 DEF Decide, Go, PodsOK, Calls
      <4>2. call[p].libc \in Libc
        BY <1>0 DEF PodsOK, Calls
      <4> QED BY <1>0, <1>3, <2>2, <4>1, <4>2, GoStep DEF Decide, At, Pcs
    <3>2. \A g \in Ctr(p).gpus : Writer(p, g) \in Writes
      <4>1. call[p].c \in Nat \ {0}
        BY <1>0 DEF PodsOK, Calls
      <4> QED BY <1>0, <4>1, Current, GuardAssumption DEF Writer, Writes, Container, Ends
    <3>3. guards' \in [Pods -> Seq({"hook", "cap"})]
      <4>1. guards[p] \in Seq({"hook", "cap"}) /\ Guard(p) \in {"hook", "cap"}
        BY <1>0 DEF GuardsOK, Guard
      <4>2. Append(guards[p], Guard(p)) \in Seq({"hook", "cap"})
        BY <4>1
      <4>3. guards' = [guards EXCEPT ![p] = Append(guards[p], Guard(p))]
        BY <1>3, <2>2 DEF Decide
      <4> QED BY <1>0, <4>2, <4>3 DEF GuardsOK
    <3>4. GuardsOK'
      BY <1>0, <1>3, <2>2, <3>2, <3>3 DEF Decide, GuardsOK
    <3>5. (ImagesOK /\ RestOK)'
      BY <1>0, <1>3 DEF Decide, ImagesOK, RestOK, settings, containerd
    <3> QED BY <3>1, <3>4, <3>5 DEF TypeInv
  <2> QED BY <2>1, <2>2
<1>4. CASE Answer(p)
  <2>1. PodsOK'
    <3>1. call[p].c \in 1 .. Len(Plan[p]) /\ pod[p] = "pending" /\ ~cgroup[p]
      BY <1>0, <1>4, PlannedContainers DEF Answer, At, PodsOK, Calls
    <3>2. CASE call[p].c < Len(Plan[p])
      <4>1. call[p].c + 1 \in 1 .. Len(Plan[p])
        BY <3>1, <3>2, PlannedContainers
      <4> QED BY <1>0, <1>4, <3>1, <3>2, <4>1, BeginStep DEF Answer
    <3>3. CASE ~(call[p].c < Len(Plan[p]))
      BY <1>0, <1>4, <3>1, <3>3, PodStep, IdleIsCall, PlannedContainers DEF Answer, Phases
    <3> QED BY <3>2, <3>3
  <2>2. (ImagesOK /\ GuardsOK /\ RestOK)'
    BY <1>0, <1>4 DEF Answer, ImagesOK, GuardsOK, RestOK, settings, containerd
  <2> QED BY <2>1, <2>2 DEF TypeInv
<1> QED BY <1>1, <1>2, <1>3, <1>4 DEF Handle

LEMMA FaultTypes == faults \in 0 .. MaxFaults /\ Fault => faults' \in 0 .. MaxFaults
<1>1. MaxFaults \in Nat
  BY GuardAssumption
<1> QED BY <1>1 DEF Fault

LEMMA EndTypes ==
  ASSUME GuardsOK, NEW w \in writers, NEW e \in Ends, End(w, e) PROVE writers' \subseteq Writes
<1>1. w \in Writes
  BY DEF GuardsOK
<1>2. [w EXCEPT !.end = e] \in Writes
  BY <1>1 DEF Writes
<1> QED BY <1>2 DEF End, GuardsOK

LEMMA BackgroundTypes ==
  ASSUME TypeInv, NEW w \in writers, Background(w) \/ WriteFails(w) PROVE TypeInv'
<1>0. PodsOK /\ ImagesOK /\ GuardsOK /\ RestOK /\ w \in Writes
  BY DEF TypeInv, GuardsOK
<1>1. (PodsOK /\ ImagesOK /\ RestOK)'
  <2>1. faults' \in 0 .. MaxFaults
    BY <1>0, FaultTypes DEF Background, NoRegion, Write, Retry, WriteFails, RestOK
  <2> QED BY <1>0, <2>1 DEF Background, NoRegion, Write, Retry, WriteFails, PodsOK, ImagesOK, RestOK,
              settings, containerd, node
<1>2. writers' \subseteq Writes
  <2>1. CASE NoRegion(w) \/ Write(w) \/ WriteFails(w)
    BY <1>0, <2>1, EndTypes DEF NoRegion, Write, WriteFails, Ends
  <2>2. CASE Retry(w) /\ w.tries = Tries - 1
    BY <1>0, <2>2, EndTypes DEF Retry, Ends
  <2>3. CASE Retry(w) /\ w.tries # Tries - 1
    <3>1. w.tries + 1 \in 0 .. Tries - 1
      <4>1. Tries \in Nat /\ w.tries \in 0 .. Tries - 1 /\ w.tries # Tries - 1
        BY <1>0, <2>3, GuardAssumption DEF Writes
      <4> QED BY <4>1
    <3>2. [w EXCEPT !.tries = @ + 1] \in Writes
      BY <1>0, <3>1 DEF Writes
    <3> QED BY <1>0, <2>3, <3>2 DEF Retry, GuardsOK
  <2> QED BY <2>1, <2>2, <2>3 DEF Background
<1>3. cap' \in [Pods -> [GPUs -> Nat]]
  <2>1. CASE Write(w)
    <3>1. w.pod \in Pods /\ w.gpu \in GPUs /\ w.mem \in Nat
      BY <1>0 DEF Writes
    <3> QED BY <1>0, <2>1, <3>1 DEF Write, GuardsOK
  <2>2. CASE NoRegion(w) \/ Retry(w) \/ WriteFails(w)
    BY <1>0, <2>2 DEF NoRegion, Retry, WriteFails, GuardsOK
  <2> QED BY <2>1, <2>2 DEF Background
<1>4. guards' = guards
  BY DEF Background, NoRegion, Write, Retry, WriteFails
<1> QED BY <1>0, <1>1, <1>2, <1>3, <1>4 DEF TypeInv, GuardsOK

LEMMA OtherTypes ==
  ASSUME TypeInv,
         \/ \E p \in Pods : Kubelet(p) \/ InspectFails(p) \/ AnswerFails(p) \/ Finish(p)
         \/ \E i \in Images : PullEnds(i) \/ ForgetPull(i)
         \/ Crash
  PROVE  TypeInv'
<1>0. PodsOK /\ ImagesOK /\ GuardsOK /\ RestOK
  BY DEF TypeInv
<1>1. ASSUME NEW p \in Pods, InspectFails(p) \/ AnswerFails(p) PROVE TypeInv'
  <2>1. PodsOK'
    BY <1>0, <1>1, RefuseStep DEF InspectFails, AnswerFails, At
  <2>2. (ImagesOK /\ GuardsOK /\ RestOK)'
    BY <1>0, <1>1, GuardAssumption
    DEF InspectFails, AnswerFails, Fault, ImagesOK, GuardsOK, RestOK, settings, containerd
  <2> QED BY <2>1, <2>2 DEF TypeInv
<1>2. ASSUME NEW p \in Pods, Admit(p) PROVE TypeInv'
  <2>1. PodsOK'
    BY <1>0, <1>2, BeginStep, PlannedContainers DEF Admit, node
  <2>2. (ImagesOK /\ GuardsOK /\ RestOK)'
    BY <1>0, <1>2 DEF Admit, ImagesOK, GuardsOK, RestOK, settings, containerd
  <2> QED BY <2>1, <2>2 DEF TypeInv
<1>3. ASSUME NEW p \in Pods, CreateCgroup(p) PROVE TypeInv'
  BY <1>0, <1>3 DEF CreateCgroup, TypeInv, PodsOK, ImagesOK, GuardsOK, RestOK, settings, containerd
<1>4. ASSUME NEW p \in Pods, Run(p) PROVE TypeInv'
  <2>1. {ImageOf[Plan[p][c].name] : c \in DOMAIN Plan[p]} \subseteq Images
    <3>1. \A c \in DOMAIN Plan[p] : Plan[p][c] \in Container
      BY PlannedContainers, GuardAssumption
    <3> QED BY <3>1 DEF Container, Images
  <2>2. ImagesOK'
    BY <1>0, <1>4, <2>1 DEF Run, ImagesOK
  <2>3. (PodsOK /\ GuardsOK /\ RestOK)'
    BY <1>0, <1>4 DEF Run, PodsOK, GuardsOK, RestOK, settings, Phases
  <2> QED BY <2>2, <2>3 DEF TypeInv
<1>5. ASSUME NEW p \in Pods, Finish(p) PROVE TypeInv'
  <2>1. PodsOK'
    BY <1>0, <1>5 DEF Finish, PodsOK, Phases
  <2>2. (ImagesOK /\ GuardsOK /\ RestOK)'
    BY <1>0, <1>5 DEF Finish, ImagesOK, GuardsOK, RestOK, settings, containerd, NoCap
  <2> QED BY <2>1, <2>2 DEF TypeInv
<1>6. ASSUME NEW i \in Images, PullEnds(i) \/ ForgetPull(i) PROVE TypeInv'
  <2>1. faults' \in 0 .. MaxFaults
    BY <1>0, <1>6, FaultTypes DEF PullEnds, ForgetPull, RestOK
  <2>2. ImagesOK'
    BY <1>0, <1>6 DEF PullEnds, ForgetPull, ImagesOK
  <2> QED BY <1>0, <1>6, <2>1, <2>2
          DEF PullEnds, ForgetPull, TypeInv, PodsOK, GuardsOK, RestOK, settings, node
<1>7. CASE Crash
  <2>1. PodsOK'
    BY <1>0, <1>7, IdleIsCall, PlannedContainers DEF Crash, PodsOK, Phases, At
  <2>2. writers' \subseteq Writes
    <3>1. ASSUME NEW w \in writers
          PROVE  [w EXCEPT !.end = IF @ = "none" THEN "killed" ELSE @] \in Writes
      BY <1>0 DEF GuardsOK, Writes, Ends
    <3> QED BY <1>7, <3>1 DEF Crash
  <2>3. (ImagesOK /\ GuardsOK /\ RestOK)'
    BY <1>0, <1>7, <2>2, GuardAssumption DEF Crash, Fault, ImagesOK, GuardsOK, RestOK, settings
  <2> QED BY <2>1, <2>3 DEF TypeInv
<1> QED BY <1>1, <1>2, <1>3, <1>4, <1>5, <1>6, <1>7 DEF Kubelet

LEMMA StutterTypes == TypeInv /\ UNCHANGED vars => TypeInv'
BY DEF TypeInv, PodsOK, ImagesOK, GuardsOK, RestOK, vars, settings, containerd, node

LEMMA TypesKept == TypeInv /\ [Next]_vars => TypeInv'
BY HandleTypes, BackgroundTypes, OtherTypes, StutterTypes DEF Next

\* Every variable keeps its type, and a pod in a call is one kubelet has not admitted, for
\* all plans, images and bounds.
THEOREM TypeCorrect == Spec => []TypeOK
<1>1. Init => TypeInv
  BY InitTypes
<1>2. TypeInv /\ [Next]_vars => TypeInv'
  BY TypesKept
<1> QED BY <1>1, <1>2, InvTypes, PTL DEF Spec

-------------------------------------------------------------------------------
(* Pulls                                                                   *)

\* A process that pulls an image is the only one, and is in the inspector's map.
PullInv == \A i \in Images : pulls[i] <= 1 /\ (pulls[i] > 0 => i \in pulling)

LEMMA PullsKept == TypeInv /\ PullInv /\ [Next]_vars => PullInv'
<1> SUFFICES ASSUME TypeInv, PullInv, [Next]_vars PROVE PullInv'
  OBVIOUS
<1>0. pulls \in [Images -> Nat]
  BY DEF TypeInv, ImagesOK
<1>1. ASSUME NEW p \in Pods, PullInBackground(p) PROVE PullInv'
  <2>1. CASE Image(p) \in pulling
    BY <1>1, <2>1 DEF PullInBackground, PullInv
  <2>2. CASE Image(p) \notin pulling
    <3>1. Image(p) \in Images => pulls[Image(p)] = 0
      BY <1>0, <2>2 DEF PullInv
    <3> QED BY <1>0, <1>1, <2>2, <3>1 DEF PullInBackground, PullInv
  <2> QED BY <2>1, <2>2
<1>2. ASSUME NEW i \in Images, PullEnds(i) \/ ForgetPull(i) PROVE PullInv'
  BY <1>0, <1>2 DEF PullEnds, ForgetPull, PullInv
<1>3. CASE Crash
  BY <1>3 DEF Crash, PullInv
<1>4. CASE UNCHANGED <<pulling, pulls>>
  BY <1>4 DEF PullInv
<1> QED BY <1>1, <1>2, <1>3, <1>4
        DEF Next, Handle, Kubelet, Background, Inspect, Decide, Answer, Admit, CreateCgroup, Run,
            InspectFails, AnswerFails, Finish, NoRegion, Write, Retry, WriteFails, containerd, vars

\* Concurrent inspections start one pull of an image, for all images, names and pods, with
\* pulls that fail and a process that crashes.
THEOREM PullsOnce == Spec => []OnePull
<1>1. Init => TypeInv /\ PullInv
  BY InitTypes DEF Init, PullInv
<1>2. TypeInv /\ PullInv /\ [Next]_vars => (TypeInv /\ PullInv)'
  BY TypesKept, PullsKept
<1>3. PullInv => OnePull
  BY DEF PullInv, OnePull
<1> QED BY <1>1, <1>2, <1>3, PTL DEF Spec

-------------------------------------------------------------------------------
(* Caps                                                                    *)

Written(w) == w.end = "written"

\* A writer that has written met the pod's cgroup, and a cap is that of a writer.
CapInv ==
  /\ \A w \in writers : Written(w) => cgroup[w.pod] \/ pod[w.pod] = "ended"
  /\ \A w \in writers : Written(w) /\ cgroup[w.pod] => cap[w.pod][w.gpu] # NoCap
  /\ \A p \in Pods, g \in GPUs : cap[p][g] # NoCap =>
       /\ cgroup[p]
       /\ \E w \in writers : w.pod = p /\ w.gpu = g /\ Written(w) /\ w.mem = cap[p][g]

LEMMA CapsKept == TypeInv /\ CapInv /\ [Next]_vars => CapInv'
<1> SUFFICES ASSUME TypeInv, CapInv, [Next]_vars PROVE CapInv'
  OBVIOUS
<1>0. /\ PodsOK /\ cap \in [Pods -> [GPUs -> Nat]] /\ writers \subseteq Writes
      /\ \A w \in writers : w.pod \in Pods /\ w.gpu \in GPUs /\ w.mem \in Nat \ {NoCap}
  BY DEF TypeInv, GuardsOK, Writes
\* Calls start writers, refuse and admit pods that have no cgroup yet.
<1>1. ASSUME UNCHANGED <<cap, cgroup>>,
             \A w \in writers' : Written(w) => w \in writers, writers \subseteq writers',
             \A p \in Pods : pod[p] = "ended" => pod'[p] = "ended"
      PROVE  CapInv'
  BY <1>0, <1>1 DEF CapInv
<1>2. ASSUME NEW p \in Pods, Decide(p) PROVE CapInv'
  <2>1. \A w \in writers' : Written(w) => w \in writers
    BY <1>2 DEF Decide, Writer, Written
  <2>2. \A q \in Pods : pod[q] = "ended" => pod'[q] = "ended"
    BY <1>0, <1>2 DEF Decide, Refuse, At, PodsOK
  <2>3. writers \subseteq writers' /\ UNCHANGED <<cap, cgroup>>
    BY <1>2 DEF Decide
  <2> QED BY <2>1, <2>2, <2>3, <1>1
<1>3. ASSUME NEW p \in Pods,
             \/ Inspect(p) \/ PullInBackground(p) \/ Answer(p) \/ InspectFails(p) \/ AnswerFails(p)
             \/ Admit(p) \/ Run(p)
      PROVE  CapInv'
  <2>1. \A q \in Pods : pod[q] = "ended" => pod'[q] = "ended"
    BY <1>0, <1>3 DEF Inspect, PullInBackground, Answer, InspectFails, AnswerFails, Admit, Run,
                      Refuse, At, PodsOK, node
  <2>2. UNCHANGED <<writers, cap, cgroup>>
    BY <1>3 DEF Inspect, PullInBackground, Answer, InspectFails, AnswerFails, Admit, Run, node
  <2> QED BY <2>1, <2>2, <1>1
<1>4. ASSUME NEW p \in Pods, CreateCgroup(p) PROVE CapInv'
  <2>1. \A w \in writers : Written(w) => w.pod # p
    BY <1>0, <1>4 DEF CreateCgroup, CapInv
  <2> QED BY <1>0, <1>4, <2>1 DEF CreateCgroup, CapInv, PodsOK
<1>5. ASSUME NEW p \in Pods, Finish(p) PROVE CapInv'
  BY <1>0, <1>5 DEF Finish, CapInv, PodsOK
\* Writers that end otherwise, or try again.
<1>6. ASSUME NEW w \in writers, NoRegion(w) \/ Retry(w) \/ WriteFails(w) PROVE CapInv'
  <2>1. ~Written(w) /\ UNCHANGED <<cap, cgroup, pod>>
    BY <1>6 DEF NoRegion, Retry, WriteFails, Written, node
  <2>2. PICK v : ~Written(v) /\ writers' = (writers \ {w}) \cup {v}
    <3>1. w \in Writes
      BY <1>0
    <3>2. \A e \in {"noregion", "failed", "gaveup"} : ~Written([w EXCEPT !.end = e])
      BY <3>1 DEF Written, Writes
    <3>3. ~Written([w EXCEPT !.tries = @ + 1])
      BY <2>1, <3>1 DEF Written, Writes
    <3> QED BY <1>6, <3>2, <3>3 DEF NoRegion, Retry, WriteFails, End
  <2> QED BY <1>0, <2>1, <2>2 DEF CapInv
<1>7. ASSUME NEW w \in writers, Write(w) PROVE CapInv'
  <2> DEFINE v == [w EXCEPT !.end = "written"]
  <2>1. /\ v.pod = w.pod /\ v.gpu = w.gpu /\ v.mem = w.mem /\ Written(v)
    BY <1>0 DEF Writes, Written
  <2>2. /\ writers' = (writers \ {w}) \cup {v} /\ UNCHANGED <<cgroup, pod>> /\ cgroup[w.pod]
        /\ cap' = [cap EXCEPT ![w.pod][w.gpu] = w.mem] /\ ~Written(w)
    BY <1>7 DEF Write, End, node, Written
  <2>3. w.pod \in Pods /\ w.gpu \in GPUs /\ w.mem # NoCap
    BY <1>0
  <2> HIDE DEF v
  <2>4. \A x \in writers' : Written(x) => cgroup'[x.pod] \/ pod'[x.pod] = "ended"
    BY <2>1, <2>2 DEF CapInv
  <2>5. \A p \in Pods, g \in GPUs :
          cap'[p][g] = IF p = w.pod /\ g = w.gpu THEN w.mem ELSE cap[p][g]
    BY <1>0, <2>2, <2>3
  <2>6. \A x \in writers' : Written(x) /\ cgroup'[x.pod] => cap'[x.pod][x.gpu] # NoCap
    BY <1>0, <2>1, <2>2, <2>3, <2>5 DEF CapInv
  <2>7. \A p \in Pods, g \in GPUs : cap'[p][g] # NoCap =>
          /\ cgroup'[p]
          /\ \E x \in writers' : x.pod = p /\ x.gpu = g /\ Written(x) /\ x.mem = cap'[p][g]
    BY <2>1, <2>2, <2>5 DEF CapInv
  <2> QED BY <2>4, <2>6, <2>7 DEF CapInv
<1>8. CASE Crash
  <2> DEFINE K(w) == [w EXCEPT !.end = IF @ = "none" THEN "killed" ELSE @]
  <2>1. \A w \in writers : Written(w) => K(w) = w
    BY <1>0 DEF Written, Writes
  <2>2. \A w \in writers : Written(K(w)) => K(w) = w
    BY <1>0 DEF Written, Writes
  <2>3. writers' = {K(w) : w \in writers}
    BY <1>8 DEF Crash
  <2>4. /\ \A x \in writers' : Written(x) => x \in writers
        /\ \A x \in writers : Written(x) => x \in writers'
    BY <2>1, <2>2, <2>3
  <2>5. UNCHANGED <<cap, cgroup>> /\ \A p \in Pods : pod[p] = "ended" => pod'[p] = "ended"
    BY <1>0, <1>8 DEF Crash, PodsOK, At
  <2> QED BY <1>0, <2>4, <2>5 DEF CapInv
<1>9. CASE UNCHANGED <<pod, cgroup, cap, writers>>
  BY <1>9 DEF CapInv
<1> QED BY <1>2, <1>3, <1>4, <1>5, <1>6, <1>7, <1>8, <1>9
        DEF Next, Handle, Kubelet, Background, PullEnds, ForgetPull, node, vars

LEMMA InitCaps == Init => CapInv
BY DEF Init, CapInv

\* The cap of a pod on a GPU is the limit of one of its containers whose writer has ended,
\* and there is none before, for all plans and however late the cgroup appears.
THEOREM CapsOwned == Spec => []CapsAreTheirPods
<1>1. Init => TypeInv /\ CapInv
  BY InitTypes, InitCaps
<1>2. TypeInv /\ CapInv /\ [Next]_vars => (TypeInv /\ CapInv)'
  BY TypesKept, CapsKept
<1>3. TypeInv /\ CapInv => CapsAreTheirPods
  BY DEF CapInv, CapsAreTheirPods, Written
<1> QED BY <1>1, <1>2, <1>3, PTL DEF Spec

-------------------------------------------------------------------------------
(* Protection                                                              *)

\* A hook the inspection allows is one an ordinary program of the image loads.
LEMMA GlibcLoads ==
  ASSUME content \in Contents, NEW i \in Images, InspectRoot(i) = "glibc", Ordinary(i)
  PROVE  Loads(i)
<1>1. content[i] \in Built
  BY GuardAssumption
<1>2. /\ content[i].base \in {"debian", "centos7", "alpine", "static", "loader"}
      /\ content[i].extra \in {"none", "musl", "vendored"}
  BY <1>1 DEF Built
<1> DEFINE L == Loaders(i)
<1>3. /\ "libcStd" \in L <=> content[i].base = "debian"
      /\ "libcStdOld" \in L <=> content[i].base = "centos7"
      /\ "musl" \in L <=> content[i].base = "alpine" \/ content[i].extra = "musl"
      /\ "glibcStd" \in L <=> content[i].base \in {"debian", "centos7", "loader"}
      /\ "libcOther" \in L <=> content[i].extra = "vendored"
  BY <1>2 DEF Loaders
<1> HIDE DEF L
<1>4. FindLibc(L) = "glibc" /\ GlibcVersion(L) = "new"
  BY DEF InspectRoot, L
<1>5. "glibcStd" \in L \/ "musl" \notin L
  BY <1>4 DEF FindLibc
<1>6. "libcStd" \in L \/ ("libcStdOld" \notin L /\ "libcOther" \in L)
  BY <1>4 DEF GlibcVersion
<1> QED BY <1>2, <1>3, <1>5, <1>6 DEF Loads, Ordinary

Covers(w, p, c, g) ==
  w.pod = p /\ w.c = c /\ w.gpu = g /\ w.mem = Plan[p][c].mem

\* A container that was answered has a hook that was inspected, or its caps are written.
Guarded(p, c) ==
  IF guards[p][c] = "hook" THEN InspectRoot(ImageOf[Plan[p][c].name]) = "glibc"
  ELSE \A g \in Plan[p][c].gpus : g \in Capped /\ \E w \in writers : Covers(w, p, c, g)

\* How many containers were answered, by the position of the call.
Answered(p) ==
  IF pod[p] = "pending"
  THEN Len(guards[p]) = CASE At(p, "idle")   -> 0
                          [] At(p, "answer") -> call[p].c
                          [] OTHER           -> call[p].c - 1
  ELSE pod[p] \in {"admitted", "running"} => Len(guards[p]) = Len(Plan[p])

ProtInv ==
  \A p \in Pods :
    /\ Answered(p)
    /\ pod[p] = "running" => cgroup[p]
    /\ checking /\ At(p, "decide") => call[p].libc = InspectRoot(Image(p))
    /\ checking => \A c \in 1 .. Len(guards[p]) : Guarded(p, c)

\* What a container has stays as long as its writers are there.
LEMMA GuardedStays ==
  ASSUME NEW p \in Pods, NEW c, Guarded(p, c), content' = content, guards'[p][c] = guards[p][c],
         \A w \in writers : \E x \in writers' :
           x.pod = w.pod /\ x.c = w.c /\ x.gpu = w.gpu /\ x.mem = w.mem
  PROVE  Guarded(p, c)'
<1>1. ASSUME NEW i PROVE InspectRoot(i)' = InspectRoot(i)
  BY DEF InspectRoot, Loaders
<1>2. CASE guards[p][c] = "hook"
  BY <1>1, <1>2 DEF Guarded
<1>3. CASE guards[p][c] # "hook"
  BY <1>3 DEF Guarded, Covers
<1> QED BY <1>2, <1>3

LEMMA ProtectionInit == Init => ProtInv
BY DEF Init, ProtInv, Answered, At, Idle

LEMMA WritersStay ==
  ASSUME TypeInv, [Next]_vars
  PROVE  \A w \in writers : \E x \in writers' :
           x.pod = w.pod /\ x.c = w.c /\ x.gpu = w.gpu /\ x.mem = w.mem
<1>0. writers \subseteq Writes
  BY DEF TypeInv, GuardsOK
<1>1. ASSUME NEW v \in writers, NEW y, y.pod = v.pod, y.c = v.c, y.gpu = v.gpu, y.mem = v.mem,
             writers' = (writers \ {v}) \cup {y}
      PROVE  \A w \in writers : \E x \in writers' :
               x.pod = w.pod /\ x.c = w.c /\ x.gpu = w.gpu /\ x.mem = w.mem
  BY <1>1
<1>2. ASSUME NEW v \in writers, Background(v) \/ WriteFails(v)
      PROVE  \A w \in writers : \E x \in writers' :
               x.pod = w.pod /\ x.c = w.c /\ x.gpu = w.gpu /\ x.mem = w.mem
  <2>1. PICK y : /\ y \in {[v EXCEPT !.end = e] : e \in Ends} \cup {[v EXCEPT !.tries = @ + 1]}
                 /\ writers' = (writers \ {v}) \cup {y}
    BY <1>2 DEF Background, NoRegion, Write, Retry, WriteFails, End, Ends
  <2>2. y.pod = v.pod /\ y.c = v.c /\ y.gpu = v.gpu /\ y.mem = v.mem
    BY <1>0, <2>1 DEF Writes
  <2> QED BY <1>1, <2>1, <2>2
<1>3. CASE Crash
  <2> DEFINE K(w) == [w EXCEPT !.end = IF @ = "none" THEN "killed" ELSE @]
  <2>1. \A w \in writers : K(w).pod = w.pod /\ K(w).c = w.c /\ K(w).gpu = w.gpu /\ K(w).mem = w.mem
    BY <1>0 DEF Writes
  <2>2. \A w \in writers : K(w) \in writers'
    BY <1>3 DEF Crash
  <2> QED BY <2>1, <2>2
<1>4. CASE writers \subseteq writers'
  BY <1>4
<1>5. \/ \E v \in writers : Background(v) \/ WriteFails(v)
      \/ Crash \/ writers \subseteq writers'
  BY DEF Next, Handle, Kubelet, Inspect, PullInBackground, Decide, Answer, Admit, CreateCgroup,
         Run, InspectFails, AnswerFails, Finish, PullEnds, ForgetPull, vars
<1> QED BY <1>2, <1>3, <1>4, <1>5

LEMMA ProtectionKept == TypeInv /\ ProtInv /\ [Next]_vars => ProtInv'
<1> SUFFICES ASSUME TypeInv, ProtInv, [Next]_vars PROVE ProtInv'
  OBVIOUS
<1>0. /\ PodsOK /\ guards \in [Pods -> Seq({"hook", "cap"})]
      /\ \A p \in Pods : Len(guards[p]) \in Nat
  BY DEF TypeInv, GuardsOK
<1>2. UNCHANGED settings
  BY DEF Next, Handle, Kubelet, Background, Inspect, PullInBackground, Decide, Answer, Admit,
         CreateCgroup, Run, InspectFails, AnswerFails, Finish, NoRegion, Write, Retry, WriteFails,
         PullEnds, ForgetPull, Crash, vars
<1>3. ASSUME NEW i PROVE InspectRoot(i)' = InspectRoot(i)
  BY <1>2 DEF InspectRoot, Loaders, settings
\* A pod whose guards, call and phase stay keeps what it has.
<1>4. ASSUME NEW q \in Pods, guards'[q] = guards[q], call'[q] = call[q], pod'[q] = pod[q],
             pod[q] = "running" /\ cgroup[q] => cgroup'[q]
      PROVE  /\ Answered(q)' /\ (pod[q] = "running" => cgroup[q])'
             /\ (checking /\ At(q, "decide") => call[q].libc = InspectRoot(Image(q)))'
             /\ (checking => \A c \in 1 .. Len(guards[q]) : Guarded(q, c))'
  <2>1. Answered(q)'
    BY <1>4 DEF ProtInv, Answered, At
  <2>2. Image(q)' = Image(q)
    BY <1>4 DEF Image, Ctr
  <2>3. (checking /\ At(q, "decide") => call[q].libc = InspectRoot(Image(q)))'
    BY <1>2, <1>3, <1>4, <2>2 DEF ProtInv, At, settings
  <2>4. (checking => \A c \in 1 .. Len(guards[q]) : Guarded(q, c))'
    BY <1>2, <1>4, GuardedStays, WritersStay DEF ProtInv, settings
  <2> QED BY <1>4, <2>1, <2>3, <2>4 DEF ProtInv
\* A pod with the guards it had, in another place.
<1>5. ASSUME NEW q \in Pods, guards'[q] = guards[q], Answered(q)',
             (pod[q] = "running" => cgroup[q])',
             (checking /\ At(q, "decide") => call[q].libc = InspectRoot(Image(q)))'
      PROVE  (checking => \A c \in 1 .. Len(guards[q]) : Guarded(q, c))'
  BY <1>2, <1>5, GuardedStays, WritersStay DEF ProtInv, settings
<1>6. ASSUME NEW p \in Pods, Refuse(p), UNCHANGED <<guards, cgroup>> PROVE ProtInv'
  <2>1. pod'[p] = "refused" /\ call'[p] = Idle
    BY <1>0, <1>6 DEF Refuse, PodsOK
  <2>2. Answered(p)' /\ ~At(p, "decide")'
    BY <2>1 DEF Answered, At, Idle
  <2>3. \A q \in Pods \ {p} : call'[q] = call[q] /\ pod'[q] = pod[q]
    BY <1>0, <1>6 DEF Refuse, PodsOK
  <2> QED BY <1>4, <1>5, <1>6, <2>1, <2>2, <2>3 DEF ProtInv
<1>7. ASSUME NEW p \in Pods, Inspect(p) PROVE ProtInv'
  <2>1. UNCHANGED <<guards, cgroup>> /\ call[p].pc = "inspect" /\ pod[p] = "pending"
    BY <1>0, <1>7 DEF Inspect, At, PodsOK
  <2>2. CASE Image(p) \in present /\ InspectRoot(Image(p)) = "error"
    BY <1>6, <1>7, <2>1, <2>2 DEF Inspect
  <2>3. CASE ~(Image(p) \in present /\ InspectRoot(Image(p)) = "error")
    <3>1. /\ pod' = pod /\ call'[p].c = call[p].c
          /\ \/ call'[p].pc = "pull"
             \/ call'[p].pc = "decide" /\ call'[p].libc = InspectRoot(Image(p))
      BY <1>0, <1>7, <2>3 DEF Inspect, Go, PodsOK, Calls
    <3>2. Answered(p)'
      BY <2>1, <3>1 DEF ProtInv, Answered, At
    <3>3. Image(p)' = Image(p)
      BY <3>1 DEF Image, Ctr
    <3>4. (checking /\ At(p, "decide") => call[p].libc = InspectRoot(Image(p)))'
      BY <1>3, <3>1, <3>3 DEF At
    <3>5. \A q \in Pods \ {p} : call'[q] = call[q]
      BY <1>0, <1>7, <2>3 DEF Inspect, Go, PodsOK
    <3> QED BY <1>4, <1>5, <2>1, <3>1, <3>2, <3>4, <3>5 DEF ProtInv
  <2> QED BY <2>2, <2>3
<1>8. ASSUME NEW p \in Pods, PullInBackground(p) \/ InspectFails(p) \/ AnswerFails(p) PROVE ProtInv'
  BY <1>6, <1>8 DEF PullInBackground, InspectFails, AnswerFails
<1>9. ASSUME NEW p \in Pods, Decide(p) PROVE ProtInv'
  <2>1. cgroup' = cgroup /\ call[p].pc = "decide" /\ pod[p] = "pending"
    BY <1>0, <1>9 DEF Decide, At, PodsOK
  <2>2. CASE Guard(p) = "cap" /\ ~CapHolds(p)
    BY <1>6, <1>9, <2>1, <2>2 DEF Decide
  <2>3. CASE ~(Guard(p) = "cap" /\ ~CapHolds(p))
    <3>1. /\ guards' = [guards EXCEPT ![p] = Append(guards[p], Guard(p))]
          /\ writers' = writers \cup {Writer(p, g) : g \in {h \in Ctr(p).gpus : dmemEnabled}}
          /\ pod' = pod /\ call'[p].pc = "answer" /\ call'[p].c = call[p].c
          /\ \A q \in Pods \ {p} : call'[q] = call[q]
      BY <1>0, <1>9, <2>3 DEF Decide, Go, PodsOK, Calls
    <3>2. Len(guards[p]) = call[p].c - 1 /\ call[p].c \in Nat \ {0}
      BY <1>0, <2>1 DEF ProtInv, Answered, At, PodsOK, Calls
    <3>3. /\ Len(guards'[p]) = call[p].c /\ guards'[p][call[p].c] = Guard(p)
          /\ \A c \in 1 .. Len(guards[p]) : guards'[p][c] = guards[p][c]
      <4>1. guards[p] \in Seq({"hook", "cap"}) /\ guards'[p] = Append(guards[p], Guard(p))
        BY <1>0, <3>1
      <4> QED BY <3>2, <4>1
    <3>4. ASSUME checking, NEW k \in Nat \ {0}, k = call[p].c PROVE Guarded(p, k)'
      <4>1. CASE Guard(p) = "hook"
        <5>1. InspectRoot(Image(p)) = "glibc"
          BY <2>1, <3>4, <4>1 DEF Guard, Compatible, ProtInv, At
        <5>2. guards'[p][k] = "hook" /\ Image(p) = ImageOf[Plan[p][k].name]
          BY <3>3, <3>4, <4>1 DEF Image, Ctr
        <5>3. InspectRoot(ImageOf[Plan[p][k].name])' = "glibc"
          BY <1>3, <5>1, <5>2
        <5> QED BY <5>2, <5>3 DEF Guarded
      <4>2. CASE Guard(p) # "hook"
        <5>1. dmemEnabled /\ Ctr(p).gpus \subseteq Capped /\ guards'[p][k] # "hook"
          BY <2>3, <3>3, <3>4, <4>2 DEF Guard, CapHolds
        <5>2. ASSUME NEW g \in Plan[p][k].gpus
              PROVE  g \in Capped /\ \E w \in writers' : Covers(w, p, k, g)
          <6>1. Ctr(p) = Plan[p][k]
            BY <3>4 DEF Ctr
          <6>2. g \in Capped /\ Writer(p, g) \in writers'
            BY <3>1, <5>1, <5>2, <6>1
          <6>3. Covers(Writer(p, g), p, k, g)
            BY <3>4, <6>1 DEF Writer, Covers
          <6> QED BY <6>2, <6>3
        <5> QED BY <5>1, <5>2 DEF Guarded, Covers
      <4> QED BY <4>1, <4>2
    <3>5. Answered(p)' /\ ~At(p, "decide")'
      BY <2>1, <3>1, <3>3 DEF Answered, At
    <3>6. ASSUME checking, NEW c \in 1 .. Len(guards'[p]) PROVE Guarded(p, c)'
      <4>0. c \in Nat \ {0}
        BY <3>2, <3>3, <3>6
      <4>1. CASE c = call[p].c
        BY <3>4, <3>6, <4>0, <4>1
      <4>2. CASE c # call[p].c
        <5>1. c \in 1 .. Len(guards[p])
          BY <3>2, <3>3, <3>6, <4>2
        <5> QED BY <1>2, <3>3, <3>6, <5>1, GuardedStays, WritersStay DEF ProtInv, settings
      <4> QED BY <4>1, <4>2
    <3>7. checking' = checking
      BY <1>2 DEF settings
    <3>8. \A q \in Pods \ {p} : guards'[q] = guards[q]
      BY <1>0, <3>1
    <3> QED BY <1>4, <2>1, <3>1, <3>5, <3>6, <3>7, <3>8 DEF ProtInv
  <2> QED BY <2>2, <2>3
<1>10. ASSUME NEW p \in Pods, Answer(p) PROVE ProtInv'
  <2>1. /\ UNCHANGED <<guards, cgroup>> /\ Len(guards[p]) = call[p].c /\ call[p].c \in Nat \ {0}
        /\ call[p].c <= Len(Plan[p]) /\ pod[p] = "pending"
    BY <1>0, <1>10 DEF Answer, At, PodsOK, Calls, ProtInv, Answered
  <2>2. \A q \in Pods \ {p} : call'[q] = call[q] /\ pod'[q] = pod[q]
    BY <1>0, <1>10 DEF Answer, Begin, PodsOK
  <2>3. CASE call[p].c < Len(Plan[p])
    <3>1. /\ pod' = pod /\ call'[p].c = call[p].c + 1
          /\ call'[p].pc = IF checking THEN "inspect" ELSE "decide"
      BY <1>0, <1>10, <2>3 DEF Answer, Begin, PodsOK, Idle
    <3>2. Answered(p)'
      BY <2>1, <3>1 DEF Answered, At
    <3>3. (checking /\ At(p, "decide") => call[p].libc = InspectRoot(Image(p)))'
      BY <1>2, <3>1 DEF At, settings
    <3> QED BY <1>4, <1>5, <2>1, <2>2, <3>1, <3>2, <3>3 DEF ProtInv
  <2>4. CASE ~(call[p].c < Len(Plan[p]))
    <3>1. pod'[p] = "admitted" /\ call'[p] = Idle /\ Len(guards[p]) = Len(Plan[p])
      BY <1>0, <1>10, <2>1, <2>4, PlannedContainers DEF Answer, PodsOK
    <3>2. Answered(p)' /\ ~At(p, "decide")'
      BY <2>1, <3>1 DEF Answered, At, Idle
    <3> QED BY <1>4, <1>5, <2>1, <2>2, <3>1, <3>2 DEF ProtInv
  <2> QED BY <2>3, <2>4
<1>11. ASSUME NEW p \in Pods, Admit(p) PROVE ProtInv'
  <2>1. /\ UNCHANGED <<guards, cgroup, pod>> /\ pod[p] = "pending" /\ Len(guards[p]) = 0
        /\ call'[p].c = 1 /\ call'[p].pc = IF checking THEN "inspect" ELSE "decide"
        /\ \A q \in Pods \ {p} : call'[q] = call[q]
    BY <1>0, <1>11 DEF Admit, Begin, At, PodsOK, Idle, ProtInv, Answered, node
  <2>2. Answered(p)'
    BY <2>1 DEF Answered, At
  <2>3. (checking /\ At(p, "decide") => call[p].libc = InspectRoot(Image(p)))'
    BY <1>2, <2>1 DEF At, settings
  <2> QED BY <1>4, <1>5, <2>1, <2>2, <2>3 DEF ProtInv
<1>12. ASSUME NEW p \in Pods, CreateCgroup(p) \/ Run(p) \/ Finish(p) PROVE ProtInv'
  <2>1. /\ UNCHANGED <<guards, call>> /\ ~At(p, "decide") /\ pod'[p] # "pending"
        /\ pod'[p] \in {"admitted", "running"} => pod[p] \in {"admitted", "running"}
        /\ pod'[p] = "running" => cgroup'[p]
        /\ \A q \in Pods \ {p} : pod'[q] = pod[q] /\ cgroup'[q] = cgroup[q]
    BY <1>0, <1>12 DEF CreateCgroup, Run, Finish, PodsOK, At, ProtInv
  <2>2. Answered(p)' /\ ~At(p, "decide")'
    BY <2>1 DEF ProtInv, Answered, At
  <2> QED BY <1>4, <1>5, <2>1, <2>2 DEF ProtInv
<1>13. CASE Crash
  <2>1. /\ UNCHANGED <<guards, cgroup>>
        /\ \A q \in Pods : /\ call'[q] = Idle
                           /\ pod'[q] = IF At(q, "idle") THEN pod[q] ELSE "refused"
    BY <1>13 DEF Crash
  <2>2. ASSUME NEW q \in Pods PROVE Answered(q)' /\ ~At(q, "decide")'
    BY <2>1 DEF ProtInv, Answered, At, Idle
  <2> QED BY <1>5, <2>1, <2>2 DEF ProtInv
<1>14. CASE UNCHANGED <<guards, call, pod, cgroup>>
  BY <1>4, <1>14 DEF ProtInv
<1> QED BY <1>7, <1>8, <1>9, <1>10, <1>11, <1>12, <1>13, <1>14
        DEF Next, Handle, Kubelet, Background, NoRegion, Write, Retry, WriteFails, PullEnds,
            ForgetPull, node, vars

\* Why a writer has ended without writing: the GPU has no region, its attempts ran out, or
\* there was a fault.
EndOK(w, n) ==
  /\ w.end = "noregion" => w.gpu \notin Capped
  /\ w.end = "gaveup" => w.tries = Tries - 1
  /\ w.end \in {"failed", "killed"} => n > 0
EndsInv == \A w \in writers : EndOK(w, faults)

LEMMA EndsInit == Init => EndsInv
BY DEF Init, EndsInv

LEMMA EndsKept == TypeInv /\ EndsInv /\ [Next]_vars => EndsInv'
<1> SUFFICES ASSUME TypeInv, EndsInv, [Next]_vars PROVE EndsInv'
  OBVIOUS
<1>0. writers \subseteq Writes /\ faults \in Nat
  BY GuardAssumption DEF TypeInv, GuardsOK, RestOK
<1>1. Fault => faults' \in Nat /\ faults' > 0
  BY <1>0 DEF Fault
<1>2. ASSUME NEW w \in writers, Background(w) \/ WriteFails(w) PROVE EndsInv'
  <2>0. w \in Writes /\ EndOK(w, faults)
    BY <1>0 DEF EndsInv
  <2>1. ASSUME NEW y, writers' = (writers \ {w}) \cup {y}, EndOK(y, faults'),
               faults' = faults \/ Fault
        PROVE  EndsInv'
    BY <1>0, <1>1, <2>1 DEF EndsInv, EndOK
  <2>2. CASE NoRegion(w)
    BY <2>0, <2>1, <2>2 DEF NoRegion, End, EndOK, Writes
  <2>3. CASE Write(w)
    BY <2>0, <2>1, <2>3 DEF Write, End, EndOK, Writes
  <2>4. CASE WriteFails(w)
    BY <1>1, <2>0, <2>1, <2>4 DEF WriteFails, End, EndOK, Writes
  <2>5. CASE Retry(w) /\ w.tries = Tries - 1
    BY <2>0, <2>1, <2>5 DEF Retry, End, EndOK, Writes
  <2>6. CASE Retry(w) /\ w.tries # Tries - 1
    BY <2>0, <2>1, <2>6 DEF Retry, EndOK, Writes
  <2> QED BY <1>2, <2>2, <2>3, <2>4, <2>5, <2>6 DEF Background
<1>3. CASE Crash
  <2> DEFINE K(w) == [w EXCEPT !.end = IF @ = "none" THEN "killed" ELSE @]
  <2>1. faults' > 0 /\ faults' \in Nat /\ writers' = {K(w) : w \in writers}
    BY <1>1, <1>3 DEF Crash
  <2>2. \A w \in writers : EndOK(K(w), faults')
    <3> SUFFICES ASSUME NEW w \in writers PROVE EndOK(K(w), faults')
      OBVIOUS
    <3>1. K(w).gpu = w.gpu /\ K(w).tries = w.tries /\ K(w).end \in {w.end, "killed"}
      BY <1>0 DEF Writes
    <3> QED BY <2>1, <3>1 DEF EndsInv, EndOK
  <2> QED BY <2>1, <2>2 DEF EndsInv
<1>4. ASSUME NEW p \in Pods, Decide(p) PROVE EndsInv'
  <2>1. faults' = faults /\ \A w \in writers' : w \in writers \/ w.end = "none"
    BY <1>4 DEF Decide, Writer
  <2> QED BY <2>1 DEF EndsInv, EndOK
<1>5. CASE writers' = writers /\ (faults' = faults \/ Fault)
  BY <1>0, <1>1, <1>5 DEF EndsInv, EndOK
<1>6. \/ \E w \in writers : Background(w) \/ WriteFails(w)
      \/ Crash \/ (\E p \in Pods : Decide(p))
      \/ writers' = writers /\ (faults' = faults \/ Fault)
  BY DEF Next, Handle, Kubelet, Inspect, PullInBackground, Answer, Admit, CreateCgroup, Run,
         InspectFails, AnswerFails, Finish, PullEnds, ForgetPull, vars
<1> QED BY <1>2, <1>3, <1>4, <1>5, <1>6

\* With -musl_fail_closed every slice that runs has a hook its program loads or a cap on each
\* of its GPUs, unless its program is not linked with its image's own C library, or the cap is
\* its only guard and the writer of it still tries, ran out of attempts, failed or was killed;
\* for all plans, images and faults.  It does not say that the cap is always there, which
\* StillHardCap would and which is false.
THEOREM LimitsKept == Spec => []LimitLostForACause
<1> DEFINE Inv == TypeInv /\ CapInv /\ ProtInv /\ EndsInv
<1>1. Init => Inv
  BY InitTypes, InitCaps, ProtectionInit, EndsInit
<1>2. Inv /\ [Next]_vars => Inv'
  BY TypesKept, CapsKept, ProtectionKept, EndsKept
<1>3. Inv => LimitLostForACause
  <2> SUFFICES ASSUME TypeInv, CapInv, ProtInv, EndsInv, checking,
                      NEW p \in Pods, pod[p] = "running", NEW c \in DOMAIN Plan[p]
               PROVE  IF guards[p][c] = "hook"
                      THEN Ordinary(ImageOf[Plan[p][c].name]) => Loads(ImageOf[Plan[p][c].name])
                      ELSE \A g \in Plan[p][c].gpus :
                             \/ cap[p][g] # NoCap
                             \/ \E w \in WritersOf(p, c) : w.gpu = g /\ Excused(w)
    BY DEF LimitLostForACause
  <2>1. c \in 1 .. Len(Plan[p]) /\ Plan[p][c] \in Container
    BY GuardAssumption, PlannedContainers
  <2>2. Len(guards[p]) = Len(Plan[p]) /\ cgroup[p] /\ Guarded(p, c)
    BY <2>1 DEF ProtInv, Answered
  <2>3. CASE guards[p][c] = "hook"
    <3>1. ImageOf[Plan[p][c].name] \in Images
      BY <2>1 DEF Container, Images
    <3> QED BY <2>2, <2>3, <3>1, GlibcLoads DEF Guarded, TypeInv, RestOK
  <2>4. ASSUME guards[p][c] # "hook", NEW g \in Plan[p][c].gpus, cap[p][g] = NoCap
        PROVE  \E w \in WritersOf(p, c) : w.gpu = g /\ Excused(w)
    <3>1. g \in Capped
      BY <2>2, <2>4 DEF Guarded
    <3>2. PICK w \in writers : Covers(w, p, c, g)
      BY <2>2, <2>4 DEF Guarded
    <3>3. w \in WritersOf(p, c) /\ w.gpu = g /\ w.end \in Ends
      BY <3>2 DEF Covers, WritersOf, TypeInv, GuardsOK, Writes
    <3>4. w.end # "written"
      BY <2>2, <2>4, <3>2 DEF CapInv, Covers, Written
    <3>5. w.end # "noregion"
      BY <3>1, <3>3 DEF EndsInv, EndOK, WritersOf
    <3>6. Excused(w)
      BY <3>2, <3>3, <3>4, <3>5 DEF EndsInv, EndOK, Excused, Ends
    <3> QED BY <3>3, <3>6
  <2> QED BY <2>3, <2>4
<1> QED BY <1>1, <1>2, <1>3, PTL DEF Spec

===============================================================================
