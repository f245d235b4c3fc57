-------------------------- MODULE Registration_proofs --------------------------
(***************************************************************************)
(* Of Registration, for all GPUs, plugins and bounds: its types, that a    *)
(* known GPU stays registered, that the health events tell each change     *)
(* once, and that those of a single loop agree with the annotation and its *)
(* warnings precede the modes they are about.                              *)
(***************************************************************************)
EXTENDS Registration, FiniteSetTheorems, TLAPS

\* What was told of a GPU, against what healthTransitions remembers of it.
Tells(t, state) ==
  /\ t # <<>> /\ \A k \in 1 .. Len(t) - 1 : t[k] # t[k + 1]
  /\ IF t[Len(t)] = "absent" THEN state \in {"absent", "healthy"} ELSE t[Len(t)] = state

\* Only GPUs with a last capacity are registered, and the events follow the states.
Sound(r) ==
  /\ r.opened \subseteq r.last /\ DOMAIN r.cache \subseteq r.last
  /\ \A g \in GPUs : IF r.based THEN Tells(r.told[g], StateIn(r.states, g)) ELSE r.told[g] = <<>>

World ==
  /\ listed \subseteq GPUs /\ openable \subseteq GPUs /\ sick \subseteq GPUs
  /\ wanted \in Modes /\ held \in [GPUs -> Modes \cup {"none"}]
  /\ annot \in Devices /\ capacity \in SUBSET Nat /\ warned \subseteq GPUs
  /\ proc \in {"down", "clearing", "cleared", "up"} /\ report \in BOOLEAN /\ uuids \subseteq GPUs
  /\ changes \in Nat /\ faults \in Nat /\ crashes \in Nat

\* Without a process no plugin knows anything.
PluginsInv ==
  /\ reg \in [Plugins -> PluginState]
  /\ \A i \in Plugins : /\ Sound(reg[i]) /\ DOMAIN reg[i].cache \subseteq uuids
                        /\ proc # "up" => reg[i] = Fresh

RegInv == World /\ PluginsInv

LEMMA InvHasTypes == RegInv => TypeOK
  BY DEF RegInv, World, PluginsInv, Sound, TypeOK

-------------------------------------------------------------------------------
(* The parts of a plugin's state                                           *)

LEMMA EmptyMaps == <<>> \in Devices /\ <<>> \in UNION {[S -> States] : S \in SUBSET GPUs}
<1>1. <<>> \in [{} -> [health : BOOLEAN, mode : Modes]] /\ <<>> \in [{} -> States]
  OBVIOUS
<1> QED BY <1>1 DEF Devices

LEMMA FreshIsSound == Fresh \in PluginState /\ Sound(Fresh) /\ DOMAIN Fresh.cache = {}
  BY EmptyMaps DEF Fresh, PluginState, Sound, Labels, Modes

LEMMA DomainsAreGPUs == ASSUME NEW d \in Devices PROVE DOMAIN d \subseteq GPUs
  BY DEF Devices

LEMMA CountsAreNaturals == ASSUME NEW d \in Devices PROVE Cardinality(Healthy(d)) \in Nat
<1>1. Healthy(d) \subseteq GPUs
  BY DomainsAreGPUs DEF Healthy
<1> QED BY <1>1, RegistrationAssumption, FS_Subset, FS_CardinalityType

\* The parts of a plugin that its events do not depend on.
LEMMA MovedIsSound ==
  ASSUME NEW r, Sound(r), NEW s, s.opened \subseteq s.last, r.last \subseteq s.last,
         s.cache = r.cache, s.states = r.states, s.told = r.told, s.based = r.based
  PROVE  Sound(s)
  BY DEF Sound

\* A plugin takes a step to state r.
LEMMA PluginMoves ==
  ASSUME RegInv, NEW i \in Plugins, proc = "up", proc' = proc, uuids \subseteq uuids',
         NEW r \in PluginState, Set(i, r), Sound(r), DOMAIN r.cache \subseteq uuids'
  PROVE  PluginsInv'
<1>1. reg' \in [Plugins -> PluginState] /\ reg'[i] = r /\ \A j \in Plugins \ {i} : reg'[j] = reg[j]
  BY DEF Set, RegInv, PluginsInv
<1> QED BY <1>1 DEF RegInv, PluginsInv

LEMMA PluginsStay ==
  ASSUME RegInv, UNCHANGED <<proc, uuids, reg>> PROVE PluginsInv'
  BY DEF RegInv, PluginsInv

-------------------------------------------------------------------------------
(* The events                                                              *)

LEMMA NextStatesTypes ==
  ASSUME NEW before \in UNION {[S -> States] : S \in SUBSET GPUs}, NEW devices \in Devices
  PROVE  /\ NextStates(before, devices) \in UNION {[S -> States] : S \in SUBSET GPUs}
         /\ DOMAIN before \subseteq DOMAIN NextStates(before, devices)
         /\ \A g \in DOMAIN NextStates(before, devices) :
              /\ NextStates(before, devices)[g] \in States \ {"absent"}
              /\ NextStates(before, devices)[g] = IF g \notin DOMAIN devices THEN "missing"
                                                 ELSE IF devices[g].health THEN "healthy" ELSE "unhealthy"
<1> DEFINE D == DOMAIN before \cup DOMAIN devices
           f == NextStates(before, devices)
<1>1. DOMAIN before \subseteq GPUs /\ DOMAIN devices \subseteq GPUs
  BY DomainsAreGPUs
<1>2. f = [g \in D |-> IF g \notin DOMAIN devices THEN "missing"
                      ELSE IF devices[g].health THEN "healthy" ELSE "unhealthy"]
  BY DEF NextStates
<1> HIDE DEF f
<1>3. f \in [D -> States]
  BY <1>2 DEF States
<1>4. D \in SUBSET GPUs
  BY <1>1
<1>5. f \in UNION {[S -> States] : S \in SUBSET GPUs}
  BY <1>3, <1>4
<1> QED BY <1>2, <1>3, <1>5 DEF States, f

LEMMA StateInTypes ==
  ASSUME NEW states \in UNION {[S -> States] : S \in SUBSET GPUs}, NEW g
  PROVE  StateIn(states, g) \in States
  BY DEF StateIn, States

\* Telling a change keeps the record true.
LEMMA TellsNext ==
  ASSUME NEW t \in Seq(States), NEW was \in States, NEW now \in States, Tells(t, was),
         now = "absent" => was = "absent"
  PROVE  Tells(IF Reported(was, now) THEN Append(t, now) ELSE t, now)
<1>1. CASE Reported(was, now)
  <2>1. now # was /\ now # "absent" /\ t[Len(t)] # now /\ Len(t) \in Nat \ {0}
    BY <1>1 DEF Reported, Tells
  <2> DEFINE u == Append(t, now)
  <2>2. /\ Len(u) = Len(t) + 1 /\ u[Len(u)] = now /\ u # <<>>
        /\ \A k \in 1 .. Len(t) : u[k] = t[k]
    BY <2>1
  <2>3. ASSUME NEW k \in 1 .. Len(u) - 1 PROVE u[k] # u[k + 1]
    <3>1. CASE k = Len(t)
      BY <2>1, <2>2, <3>1
    <3>2. CASE k # Len(t)
      <4>1. k \in 1 .. Len(t) - 1 /\ k \in 1 .. Len(t) /\ k + 1 \in 1 .. Len(t)
        BY <2>1, <2>2, <3>2
      <4>2. t[k] # t[k + 1]
        BY <4>1 DEF Tells
      <4> QED BY <2>2, <4>1, <4>2
    <3> QED BY <3>1, <3>2
  <2> HIDE DEF u
  <2> QED BY <1>1, <2>1, <2>2, <2>3 DEF Tells, u
<1>2. CASE ~Reported(was, now)
  BY <1>2 DEF Reported, Tells, States
<1> QED BY <1>1, <1>2

LEMMA TellsFirst ==
  ASSUME NEW state \in States PROVE Tells(<<state>>, state) /\ <<state>> \in Seq(States)
  BY DEF Tells

\* What reportHealthChanges leaves of each GPU.
ToldNext(r, next) ==
  [g \in GPUs |-> IF ~r.based THEN <<StateIn(next, g)>>
                  ELSE IF Reported(StateIn(r.states, g), StateIn(next, g))
                  THEN Append(r.told[g], next[g]) ELSE r.told[g]]

LEMMA EventsTell ==
  ASSUME NEW r \in PluginState, Sound(r), NEW g \in GPUs, NEW next,
         next = NextStates(r.states, r.cache)
  PROVE  Tells(ToldNext(r, next)[g], StateIn(next, g)) /\ ToldNext(r, next)[g] \in Seq(States)
<1>0. /\ r.states \in UNION {[S -> States] : S \in SUBSET GPUs} /\ r.cache \in Devices
      /\ r.told[g] \in Seq(States)
  BY DEF PluginState
<1>1. /\ next \in UNION {[S -> States] : S \in SUBSET GPUs} /\ DOMAIN r.states \subseteq DOMAIN next
      /\ \A k \in DOMAIN next : next[k] \in States \ {"absent"}
  BY <1>0, NextStatesTypes
<1>2. StateIn(next, g) \in States /\ StateIn(r.states, g) \in States
  BY <1>0, <1>1, StateInTypes
<1>3. StateIn(next, g) = "absent" => StateIn(r.states, g) = "absent"
  BY <1>1 DEF StateIn
<1>4. CASE ~r.based
  BY <1>2, <1>4, TellsFirst DEF ToldNext
<1>5. CASE r.based
  <2>1. Tells(r.told[g], StateIn(r.states, g))
    BY <1>5 DEF Sound
  <2>2. Reported(StateIn(r.states, g), StateIn(next, g)) => next[g] = StateIn(next, g)
    BY <1>3 DEF Reported, StateIn
  <2>3. ToldNext(r, next)[g] = IF Reported(StateIn(r.states, g), StateIn(next, g))
                              THEN Append(r.told[g], StateIn(next, g)) ELSE r.told[g]
    BY <1>5, <2>2 DEF ToldNext
  <2>4. Append(r.told[g], StateIn(next, g)) \in Seq(States)
    BY <1>0, <1>2
  <2> QED BY <1>0, <1>2, <1>3, <2>1, <2>3, <2>4, TellsNext
<1> QED BY <1>4, <1>5 DEF PluginState

-------------------------------------------------------------------------------
(* Every step keeps the invariant                                          *)

LEMMA InitKeeps == ASSUME Init PROVE RegInv
<1>1. Cardinality(GPUs) \in Nat
  BY RegistrationAssumption, FS_CardinalityType
<1>2. held \in [GPUs -> Modes \cup {"none"}] /\ capacity \in SUBSET Nat
  BY <1>1 DEF Init
<1>3. World
  BY <1>2, EmptyMaps DEF Init, World, Modes
<1>4. reg \in [Plugins -> PluginState] /\ \A i \in Plugins : reg[i] = Fresh
  BY FreshIsSound DEF Init
<1>5. \A i \in Plugins : Sound(reg[i]) /\ DOMAIN reg[i].cache \subseteq uuids
  BY <1>4, FreshIsSound
<1> QED BY <1>3, <1>4, <1>5 DEF RegInv, PluginsInv

LEMMA EnvironmentKeeps == ASSUME RegInv, Environment PROVE RegInv'
<1> USE DEF RegInv
<1>1. ASSUME NEW g \in GPUs, GPUChanges(g) PROVE RegInv'
  <2>1. World'
    BY <1>1, RegistrationAssumption DEF GPUChanges, Change, Flip, World, node
  <2> QED BY <1>1, <2>1, PluginsStay DEF GPUChanges
<1>2. CASE SwitchMode
  <2>1. World'
    BY <1>2, RegistrationAssumption DEF SwitchMode, Change, World, node
  <2> QED BY <1>2, <2>1, PluginsStay DEF SwitchMode
<1>3. ASSUME NEW g \in GPUs, Place(g) \/ Vacate(g) PROVE RegInv'
  <2>1. g \in DOMAIN annot => annot[g].mode \in Modes
    BY DEF World, Devices
  <2>2. World'
    BY <1>3, <2>1 DEF Place, Vacate, World, node, hw, bounds
  <2> QED BY <1>3, <2>2, PluginsStay DEF Place, Vacate
<1>4. CASE Crash
  <2>1. World'
    BY <1>4, RegistrationAssumption DEF Crash, World, node, hw
  <2> QED BY <1>4, <2>1, FreshIsSound DEF Crash, PluginsInv
<1> QED BY <1>1, <1>2, <1>3, <1>4 DEF Environment

LEMMA StartKeeps == ASSUME RegInv, Boot \/ Clear PROVE RegInv'
<1> USE DEF RegInv
<1>1. CASE Boot
  <2>1. World'
    BY <1>1, RegistrationAssumption DEF Boot, World, node, hw, bounds
  <2>2. CASE listed = {}
    <3>1. proc = "down" /\ UNCHANGED <<reg, uuids>>
      BY <1>1, <2>2 DEF Boot
    <3>2. \A i \in Plugins : reg'[i] = Fresh
      BY <3>1 DEF PluginsInv
    <3>3. PluginsInv'
      BY <3>1, <3>2 DEF PluginsInv
    <3> QED BY <2>1, <3>3
  <2>3. CASE listed # {}
    <3> DEFINE r == [Fresh EXCEPT !.pc = "start"]
    <3>1. r \in PluginState /\ Sound(r) /\ DOMAIN r.cache = {}
      BY FreshIsSound DEF Fresh, PluginState, Sound, Labels
    <3>2. proc' = "up" /\ reg' = [i \in Plugins |-> r]
      BY <1>1, <2>3 DEF Boot
    <3> HIDE DEF r
    <3>3. reg' \in [Plugins -> PluginState] /\ \A i \in Plugins : reg'[i] = r
      BY <3>1, <3>2
    <3>4. PluginsInv'
      BY <3>1, <3>2, <3>3 DEF PluginsInv
    <3> QED BY <2>1, <3>4
  <2> QED BY <2>1, <2>2, <2>3
<1>2. CASE Clear
  <2>1. World'
    BY <1>2, EmptyMaps DEF Clear, Fault, NoFault, World, hw
  <2>2. PluginsInv'
    BY <1>2 DEF Clear, PluginsInv
  <2> QED BY <2>1, <2>2
<1> QED BY <1>1, <1>2

LEMMA StepKeeps == ASSUME RegInv, NEW i \in Plugins, Step(i) PROVE RegInv'
<1> USE DEF RegInv
<1>0. /\ reg[i] \in PluginState /\ Sound(reg[i]) /\ DOMAIN reg[i].cache \subseteq uuids
      /\ reg[i].cache \in Devices /\ reg[i].found \subseteq GPUs /\ reg[i].last \subseteq GPUs
      /\ uuids \subseteq GPUs /\ proc = "up"
  BY DEF PluginsInv, World, PluginState, Step, Start, Scan, Open, Publish, GetNode, Capacity, WarnModes,
         Patch, Events, Wake, At
<1>A. ASSUME World', NEW r \in PluginState, Set(i, r), UNCHANGED <<proc, uuids>>,
             r.opened \subseteq r.last, reg[i].last \subseteq r.last, r.cache = reg[i].cache,
             r.states = reg[i].states, r.told = reg[i].told, r.based = reg[i].based
      PROVE  RegInv'
  BY <1>0, <1>A, MovedIsSound, PluginMoves
<1>1. CASE Start(i)
  <2>1. World'
    BY <1>1 DEF Start, Fault, NoFault, World, hw, node
  <2>2. wanted \in Modes
    BY DEF World
  <2> QED BY <1>0, <1>1, <1>A, <2>1, <2>2 DEF Start, Goto, PluginState, Labels, Sound
<1>2. CASE Scan(i)
  <2>1. World' /\ listed \subseteq GPUs
    BY <1>2 DEF Scan, World, hw, node, bounds
  <2> QED BY <1>0, <1>2, <1>A, <2>1 DEF Scan, PluginState, Labels, Sound
<1>3. CASE Open(i)
  <2>1. World'
    BY <1>3 DEF Open, World, hw, node, bounds
  <2> DEFINE opened == reg[i].found \cap listed \cap openable
  <2>2. opened \subseteq GPUs /\ reg[i].last \cup opened \subseteq GPUs
    BY <1>0
  <2>3. Set(i, [reg[i] EXCEPT !.pc = "publish", !.opened = opened, !.last = @ \cup opened])
    BY <1>3 DEF Open
  <2> HIDE DEF opened
  <2> QED BY <1>0, <1>3, <1>A, <2>1, <2>2, <2>3 DEF Open, PluginState, Labels
<1>4. CASE Publish(i)
  <2>1. uuids \subseteq uuids' /\ uuids' \subseteq GPUs /\ faults' \in Nat
    BY <1>0, <1>4 DEF Publish, Lookup, Fault, NoFault, World
  <2>2. World'
    BY <1>4, <2>1 DEF Publish, World, hw, node
  <2> DEFINE devices == reg[i].found \cap reg[i].last \cap uuids'
             cache(unhealthy) == [g \in devices |-> [health |-> g \notin unhealthy, mode |-> ModeOf(i, g)]]
  <2>3. PICK unhealthy \in {sick, {}} :
          Set(i, [reg[i] EXCEPT !.pc = "getNode", !.cache = cache(unhealthy)])
    BY <1>4 DEF Publish
  <2>4. reg[i].mode \in Modes
    BY <1>0 DEF PluginState
  <2>5. \A g \in devices : ModeOf(i, g) \in Modes
    BY <2>4 DEF ModeOf, Modes
  <2>6. cache(unhealthy) \in [devices -> [health : BOOLEAN, mode : Modes]]
    BY <2>5
  <2>7. cache(unhealthy) \in Devices /\ DOMAIN cache(unhealthy) = devices
    BY <1>0, <2>6 DEF Devices
  <2> DEFINE r == [reg[i] EXCEPT !.pc = "getNode", !.cache = cache(unhealthy)]
  <2>8. devices \subseteq reg[i].last /\ devices \subseteq uuids'
    OBVIOUS
  <2> HIDE DEF devices, cache
  <2>9. r \in PluginState /\ Sound(r) /\ DOMAIN r.cache \subseteq uuids'
    BY <1>0, <2>7, <2>8 DEF PluginState, Labels, Sound
  <2>10. Set(i, r) /\ proc' = proc
    BY <1>4, <2>3 DEF Publish
  <2> HIDE DEF r
  <2> QED BY <1>0, <2>1, <2>2, <2>9, <2>10, PluginMoves
<1>5. ASSUME Set(i, Failed(reg[i])), World', UNCHANGED <<proc, uuids>> PROVE RegInv'
  BY <1>0, <1>5, <1>A DEF Failed, PluginState, Labels, Sound
<1>6. CASE GetNode(i)
  <2>1. World'
    BY <1>6 DEF GetNode, Fault, NoFault, World, hw, node
  <2> DEFINE differ == {g \in DOMAIN annot \cap DOMAIN reg[i].cache :
                         annot[g].mode # reg[i].cache[g].mode}
  <2>2. differ \subseteq GPUs
    BY <1>0, DomainsAreGPUs
  <2>3. CASE Set(i, [reg[i] EXCEPT !.pc = "capacity", !.stale = (capacity # {}), !.changed = differ])
    <3> HIDE DEF differ
    <3> QED BY <1>0, <1>6, <1>A, <2>1, <2>2, <2>3 DEF GetNode, PluginState, Labels, Sound
  <2> QED BY <1>5, <1>6, <2>1, <2>3 DEF GetNode
<1>7. CASE Capacity(i)
  <2>1. World'
    BY <1>0, <1>7, CountsAreNaturals DEF Capacity, Fault, NoFault, World, hw
  <2> QED BY <1>0, <1>7, <1>A, <2>1 DEF Capacity, PluginState, Labels, Sound
<1>8. CASE WarnModes(i)
  <2>1. reg[i].changed \subseteq GPUs
    BY <1>0 DEF PluginState
  <2>2. World'
    BY <1>8, <2>1 DEF WarnModes, Fault, NoFault, World, hw
  <2> QED BY <1>0, <1>8, <1>A, <2>2 DEF WarnModes, PluginState, Labels, Sound
<1>9. CASE Patch(i)
  <2>1. World'
    BY <1>0, <1>9 DEF Patch, Fault, NoFault, World, hw
  <2>2. CASE Goto(i, "events")
    BY <1>0, <1>9, <1>A, <2>1, <2>2 DEF Patch, Goto, PluginState, Labels, Sound
  <2> QED BY <1>5, <1>9, <2>1, <2>2 DEF Patch
<1>10. CASE Events(i)
  <2>1. World'
    BY <1>10 DEF Events, World, hw, node, bounds
  <2> DEFINE next == NextStates(reg[i].states, reg[i].cache)
             told == ToldNext(reg[i], next)
             r    == [reg[i] EXCEPT !.pc = "sleep", !.found = {}, !.states = next, !.based = TRUE,
                                    !.told = told, !.ok = TRUE, !.serving = TRUE]
  <2>2. Set(i, r)
    BY <1>10 DEF Events, ToldNext
  <2>3. \A g \in GPUs : Tells(told[g], StateIn(next, g)) /\ told[g] \in Seq(States)
    BY <1>0, EventsTell
  <2>4. told \in [GPUs -> Seq(States)]
    BY <2>3 DEF ToldNext
  <2>5. next \in UNION {[S -> States] : S \in SUBSET GPUs}
    BY <1>0, NextStatesTypes DEF PluginState
  <2> HIDE DEF next, told
  <2>6. r \in PluginState /\ Sound(r) /\ r.cache = reg[i].cache
    BY <1>0, <2>3, <2>4, <2>5 DEF PluginState, Labels, Sound
  <2> HIDE DEF r
  <2> QED BY <1>0, <1>10, <2>1, <2>2, <2>6, PluginMoves DEF Events
<1>11. CASE Wake(i)
  <2>1. World'
    BY <1>11 DEF Wake, World, hw, node, bounds
  <2> QED BY <1>0, <1>11, <1>A, <2>1 DEF Wake, Goto, PluginState, Labels, Sound
<1> QED BY <1>1, <1>2, <1>3, <1>4, <1>6, <1>7, <1>8, <1>9, <1>10, <1>11 DEF Step

LEMMA RegInductive == Spec => []RegInv
<1>1. RegInv /\ [Next]_vars => RegInv'
  <2>1. RegInv /\ UNCHANGED vars => RegInv'
    BY DEF vars, hw, node, bounds, RegInv, World, PluginsInv
  <2> QED BY <2>1, EnvironmentKeeps, StartKeeps, StepKeeps DEF Next
<1> QED BY <1>1, InitKeeps, PTL DEF Spec

-------------------------------------------------------------------------------

\* Every variable keeps its type, whatever the GPUs do and whatever fails.
THEOREM TypeCorrect == Spec => []TypeOK
  BY RegInductive, InvHasTypes, PTL

\* No change of a GPU is reported twice, also by several loops.
THEOREM ReportedOnce == Spec => []NoRepeatedEvent
<1>1. RegInv => NoRepeatedEvent
  BY DEF RegInv, PluginsInv, Sound, Tells, NoRepeatedEvent, PluginState
<1> QED BY <1>1, RegInductive, PTL

\* A GPU that a plugin registered stays registered as long as sysfs lists it, whatever
\* reads fail.
THEOREM KnownGPUsKept == Spec => KeepsKnownGPUs
<1> DEFINE Kept == \A i \in Plugins : proc' = "up" /\ reg[i].serving =>
                     \A g \in DOMAIN reg[i].cache :
                       g \in DOMAIN reg'[i].cache \/ g \notin reg[i].found
<1>1. ASSUME RegInv, Next PROVE Kept
  <2> USE <1>1 DEF RegInv
  <2>1. CASE reg' = reg
    BY <2>1
  <2>2. CASE Crash
    BY <2>2 DEF Crash
  <2>3. CASE Boot
    BY <2>3 DEF Boot, PluginsInv, Fresh
  <2>4. ASSUME NEW j \in Plugins, Step(j) PROVE Kept
    <3>1. SUFFICES ASSUME NEW g \in DOMAIN reg[j].cache, g \in reg[j].found
                   PROVE  g \in DOMAIN reg'[j].cache
      <4>1. \A i \in Plugins \ {j} : reg'[i] = reg[i]
        BY <2>4 DEF Step, Start, Scan, Open, Publish, GetNode, Capacity, WarnModes, Patch, Events,
                    Wake, Set, Goto, PluginsInv
      <4> QED BY <4>1
    <3>2. reg[j] \in PluginState /\ reg \in [Plugins -> PluginState]
      BY DEF PluginsInv
    <3>3. CASE ~Publish(j)
      <4>1. \A r : r.cache = reg[j].cache /\ Set(j, r) => g \in DOMAIN reg'[j].cache
        BY <3>2 DEF Set
      <4>2. CASE GetNode(j)
        <5> DEFINE differ == {d \in DOMAIN annot \cap DOMAIN reg[j].cache :
                               annot[d].mode # reg[j].cache[d].mode}
                   r == [reg[j] EXCEPT !.pc = "capacity", !.stale = (capacity # {}), !.changed = differ]
        <5>1. Set(j, r) \/ Set(j, Failed(reg[j]))
          BY <4>2 DEF GetNode
        <5>2. Failed(reg[j]).cache = reg[j].cache
          BY <3>2 DEF Failed, PluginState
        <5>3. r.cache = reg[j].cache
          <6> HIDE DEF differ
          <6> QED BY <3>2 DEF PluginState
        <5> QED BY <4>1, <5>1, <5>2, <5>3
      <4>3. CASE Events(j)
        <5>1. PICK next, told :
                Set(j, [reg[j] EXCEPT !.pc = "sleep", !.found = {}, !.states = next, !.based = TRUE,
                                      !.told = told, !.ok = TRUE, !.serving = TRUE])
          BY <4>3 DEF Events
        <5> QED BY <3>2, <4>1, <5>1 DEF PluginState
      <4>4. CASE Start(j)
        BY <3>2, <4>1, <4>4 DEF Start, Goto, PluginState
      <4>5. CASE Scan(j)
        BY <3>2, <4>1, <4>5 DEF Scan, PluginState
      <4>6. CASE Open(j)
        BY <3>2, <4>1, <4>6 DEF Open, PluginState
      <4>7. CASE Capacity(j)
        BY <3>2, <4>1, <4>7 DEF Capacity, PluginState
      <4>8. CASE WarnModes(j)
        BY <3>2, <4>1, <4>8 DEF WarnModes, PluginState
      <4>9. CASE Patch(j)
        BY <3>2, <4>1, <4>9 DEF Patch, Goto, Failed, PluginState
      <4>10. CASE Wake(j)
        BY <3>2, <4>1, <4>10 DEF Wake, Goto, PluginState
      <4> QED BY <2>4, <3>3, <4>2, <4>3, <4>4, <4>5, <4>6, <4>7, <4>8, <4>9, <4>10 DEF Step
    <3>4. CASE Publish(j)
      <4>1. uuids \subseteq uuids'
        BY <3>4 DEF Publish, Lookup
      <4> DEFINE devices == reg[j].found \cap reg[j].last \cap uuids'
                 cache(unhealthy) == [d \in devices |-> [health |-> d \notin unhealthy,
                                                        mode |-> ModeOf(j, d)]]
      <4>2. PICK unhealthy \in {sick, {}} :
              Set(j, [reg[j] EXCEPT !.pc = "getNode", !.cache = cache(unhealthy)])
        BY <3>4 DEF Publish
      <4>3. DOMAIN cache(unhealthy) = devices
        OBVIOUS
      <4>4. g \in devices
        BY <3>1, <4>1 DEF PluginsInv, Sound
      <4> HIDE DEF devices, cache
      <4>5. reg'[j].cache = cache(unhealthy)
        BY <3>2, <4>2 DEF Set, PluginState
      <4> QED BY <4>3, <4>4, <4>5
    <3> QED BY <3>3, <3>4
  <2> QED BY <1>1, <2>1, <2>2, <2>3, <2>4
          DEF Next, Environment, GPUChanges, SwitchMode, Place, Vacate, Clear
<1>2. RegInv /\ [Next]_vars => [Kept]_vars
  BY <1>1
<1> QED BY <1>2, RegInductive, PTL DEF Spec, KeepsKnownGPUs

-------------------------------------------------------------------------------
(* One loop: the events agree with the annotation                          *)

\* What is remembered of the GPUs is what the annotation says of them.
Mirrors(states) ==
  \A g \in GPUs : StateIn(states, g) = Now(g) \/ (StateIn(states, g) = "absent" /\ Now(g) = "missing")

\* A round that succeeded has not begun again, and nothing but this loop writes the annotation.
Round(i) ==
  /\ reg[i].ok => reg[i].pc \in {"sleep", "scan"}
  /\ reg[i].pc = "events" => annot = reg[i].cache
  /\ reg[i].pc = "sleep" /\ reg[i].ok => reg[i].based /\ Mirrors(reg[i].states)
RoundInv == \A i \in Plugins : Round(i)

LEMMA InitRounds == ASSUME Init PROVE RoundInv
  BY DEF Init, RoundInv, Round, Fresh

LEMMA StartRounds ==
  ASSUME RegInv, RoundInv, Environment \/ Boot \/ Clear PROVE RoundInv'
<1>1. CASE UNCHANGED <<reg, annot>>
  BY <1>1 DEF RoundInv, Round, Mirrors, Now
<1>2. CASE Crash
  BY <1>2 DEF Crash, RoundInv, Round, Fresh
<1>3. CASE Boot
  BY <1>1, <1>3 DEF Boot, RoundInv, Round, Fresh, node
<1>4. CASE Clear
  <2>1. \A i \in Plugins : reg'[i] = Fresh
    BY <1>4 DEF Clear, RegInv, PluginsInv
  <2> QED BY <2>1 DEF RoundInv, Round, Fresh
<1> QED BY <1>1, <1>2, <1>3, <1>4 DEF Environment, GPUChanges, SwitchMode, Place, Vacate, node

LEMMA StepRounds ==
  ASSUME RegInv, RoundInv, NEW i \in Plugins, Plugins = {i}, Step(i) PROVE RoundInv'
<1>0. reg \in [Plugins -> PluginState] /\ reg[i] \in PluginState
  BY DEF RegInv, PluginsInv
<1>1. SUFFICES Round(i)'
  BY DEF RoundInv
<1>A. Round(i)
  BY DEF RoundInv
<1>2. CASE Events(i)
  <2> DEFINE next == NextStates(reg[i].states, reg[i].cache)
  <2>1. annot' = reg[i].cache /\ annot \in Devices
    BY <1>2, <1>A DEF Events, At, Round, node, RegInv, World
  <2>2. reg'[i].states = next /\ reg'[i].based /\ reg'[i].pc = "sleep"
    BY <1>0, <1>A, <1>2 DEF Events, Set, PluginState
  <2>3. \A g \in DOMAIN next : next[g] = IF g \notin DOMAIN reg[i].cache THEN "missing"
                                       ELSE IF reg[i].cache[g].health THEN "healthy" ELSE "unhealthy"
    BY DEF NextStates
  <2>4. DOMAIN reg[i].cache \subseteq DOMAIN next
    BY DEF NextStates
  <2> HIDE DEF next
  <2>5. \A g \in GPUs : \/ StateIn(next, g) = Now(g)'
                        \/ StateIn(next, g) = "absent" /\ Now(g)' = "missing"
    BY <2>1, <2>3, <2>4 DEF StateIn, Now
  <2> QED BY <2>2, <2>5 DEF Round, Mirrors
<1>B. ASSUME ~reg'[i].ok, reg'[i].pc = "events" => annot' = reg'[i].cache PROVE Round(i)'
  BY <1>B DEF Round
<1>C. ASSUME reg[i].pc \notin {"sleep", "scan"} PROVE reg[i].ok = FALSE
  BY <1>0, <1>A, <1>C DEF Round, PluginState
<1>3. CASE Patch(i)
  <2>1. reg[i].ok = FALSE
    BY <1>3, <1>C DEF Patch, At
  <2>2. CASE annot' = reg[i].cache /\ Goto(i, "events")
    BY <1>0, <1>B, <2>1, <2>2 DEF Goto, Set, PluginState
  <2>3. CASE Set(i, Failed(reg[i]))
    <3>1. reg'[i].ok = FALSE /\ reg'[i].pc # "events"
      BY <1>0, <2>1, <2>3 DEF Set, Failed, PluginState
    <3> QED BY <1>B, <3>1
  <2> QED BY <1>3, <2>2, <2>3 DEF Patch
<1>4. CASE Wake(i)
  <2>1. reg'[i].pc = "scan"
    BY <1>0, <1>4 DEF Wake, Set, Goto, PluginState
  <2> QED BY <2>1 DEF Round
<1>5. CASE Start(i)
  <2>1. reg[i].ok = FALSE
    BY <1>5, <1>C DEF Start, At
  <2>2. CASE Set(i, [reg[i] EXCEPT !.pc = "scan", !.mode = wanted])
    <3>1. reg'[i].ok = FALSE /\ reg'[i].pc # "events"
      BY <1>0, <2>1, <2>2 DEF Set, PluginState
    <3> QED BY <1>B, <3>1
  <2>3. CASE Goto(i, "scan")
    <3>1. reg'[i].ok = FALSE /\ reg'[i].pc # "events"
      BY <1>0, <2>1, <2>3 DEF Goto, Set, PluginState
    <3> QED BY <1>B, <3>1
  <2> QED BY <1>5, <2>2, <2>3 DEF Start
<1>6. CASE Scan(i)
  <2>1. reg'[i].ok = FALSE /\ reg'[i].pc # "events"
    BY <1>0, <1>6 DEF Scan, Set, PluginState
  <2> QED BY <1>B, <2>1
<1>7. CASE Open(i)
  <2>1. reg[i].ok = FALSE
    BY <1>7, <1>C DEF Open, At
  <2>2. reg'[i].ok = FALSE /\ reg'[i].pc # "events"
    BY <1>0, <1>7, <2>1 DEF Open, Set, PluginState
  <2> QED BY <1>B, <2>2
<1>8. CASE Publish(i)
  <2>1. reg[i].ok = FALSE
    BY <1>8, <1>C DEF Publish, At
  <2>2. reg'[i].ok = FALSE /\ reg'[i].pc # "events"
    BY <1>0, <1>8, <2>1 DEF Publish, Set, PluginState
  <2> QED BY <1>B, <2>2
<1>9. CASE GetNode(i)
  <2>1. reg[i].ok = FALSE
    BY <1>9, <1>C DEF GetNode, At
  <2>2. CASE Set(i, [reg[i] EXCEPT !.pc = "capacity", !.stale = (capacity # {}),
                        !.changed = {g \in DOMAIN annot \cap DOMAIN reg[i].cache :
                                       annot[g].mode # reg[i].cache[g].mode}])
    <3>1. reg'[i].ok = FALSE /\ reg'[i].pc # "events"
      BY <1>0, <2>1, <2>2 DEF Set, PluginState
    <3> QED BY <1>B, <3>1
  <2>3. CASE Set(i, Failed(reg[i]))
    <3>1. reg'[i].ok = FALSE /\ reg'[i].pc # "events"
      BY <1>0, <2>1, <2>3 DEF Failed, Set, PluginState
    <3> QED BY <1>B, <3>1
  <2> QED BY <1>9, <2>2, <2>3 DEF GetNode
<1>10. CASE Capacity(i) \/ WarnModes(i)
  <2>1. reg[i].ok = FALSE
    BY <1>10, <1>C DEF Capacity, WarnModes, At
  <2>2. CASE Set(i, [reg[i] EXCEPT !.pc = "modes", !.stale = FALSE])
    <3>1. reg'[i].ok = FALSE /\ reg'[i].pc # "events"
      BY <1>0, <2>1, <2>2 DEF Set, PluginState
    <3> QED BY <1>B, <3>1
  <2>3. CASE Set(i, [reg[i] EXCEPT !.pc = "patch", !.changed = {}])
    <3>1. reg'[i].ok = FALSE /\ reg'[i].pc # "events"
      BY <1>0, <2>1, <2>3 DEF Set, PluginState
    <3> QED BY <1>B, <3>1
  <2> QED BY <1>10, <2>2, <2>3 DEF Capacity, WarnModes
<1> QED BY <1>2, <1>3, <1>4, <1>5, <1>6, <1>7, <1>8, <1>9, <1>10 DEF Step

\* With one loop, after a round that succeeded the last event of each GPU says what the
\* annotation says, whatever failed before.
THEOREM EventsMatch ==
  ASSUME NEW i, Plugins = {i} PROVE Spec => []EventsMatchAnnotation
<1>1. Init => RoundInv
  BY InitRounds
<1>2. RegInv /\ RoundInv /\ [Next]_vars => RoundInv'
  <2>1. RoundInv /\ UNCHANGED vars => RoundInv'
    BY DEF vars, node, RoundInv, Round, Mirrors, Now
  <2> QED BY <2>1, StartRounds, StepRounds DEF Next
<1>3. RegInv /\ RoundInv => EventsMatchAnnotation
  <2> SUFFICES ASSUME RegInv, RoundInv, NEW j \in Plugins, At(j, "sleep"), reg[j].ok, NEW g \in GPUs
               PROVE  LET said == reg[j].told[g][Len(reg[j].told[g])]
                      IN  IF said = "absent" THEN Now(g) # "unhealthy" ELSE said = Now(g)
    BY DEF EventsMatchAnnotation
  <2>1. Tells(reg[j].told[g], StateIn(reg[j].states, g)) /\ Mirrors(reg[j].states)
    BY DEF RegInv, PluginsInv, RoundInv, Round, Sound, At
  <2> QED BY <2>1 DEF Tells, Mirrors, Now
<1> QED BY <1>1, <1>2, <1>3, RegInductive, PTL DEF Spec

-------------------------------------------------------------------------------
(* One loop: a mode that changes under pods is warned about                *)

\* The GPUs of d are registered in the mode r was started with.
Matches(d, r) == \A g \in DOMAIN d : d[g].mode = IF g \in Partitionable THEN r.mode ELSE "cu"
Differ(d, e)  == {g \in DOMAIN d \cap DOMAIN e : d[g].mode # e[g].mode}

\* Once kubelet calls the plugin, annotation and cache have its mode, so no pod is placed
\* between the warning about a mode and its registration.
Moded(i) ==
  LET r == reg[i] IN
  /\ r.serving => r.pc \notin {"off", "start"}
  /\ r.serving \/ r.pc = "events" => Matches(annot, r)
  /\ r.serving \/ r.pc \in {"getNode", "capacity", "modes", "patch", "events"} => Matches(r.cache, r)
  /\ r.pc \in {"capacity", "modes"} => r.changed = Differ(annot, r.cache)
  /\ r.pc = "patch" /\ faults = 0 =>
       \A g \in Differ(annot, r.cache) : held[g] # "none" => g \in warned
ModeInv == \A i \in Plugins : Moded(i)

\* A plugin that was not started compares nothing.
LEMMA FreshIsModed == ASSUME NEW i \in Plugins, reg[i] = Fresh PROVE Moded(i)
  BY DEF Moded, Fresh

\* Between its steps: a pod is placed only on what the plugin registered itself.
LEMMA StartModes ==
  ASSUME RegInv, ModeInv, NEW i \in Plugins, Plugins = {i}, Environment \/ Boot \/ Clear
  PROVE  ModeInv'
<1>0. Moded(i) /\ reg \in [Plugins -> PluginState] /\ held \in [GPUs -> Modes \cup {"none"}]
      /\ annot \in Devices /\ faults \in Nat
  BY DEF ModeInv, RegInv, World, PluginsInv
<1>1. SUFFICES Moded(i)'
  BY DEF ModeInv
<1>2. CASE UNCHANGED <<reg, annot, held, warned, faults>>
  BY <1>0, <1>2 DEF Moded, Matches
<1>3. ASSUME NEW g \in GPUs, Place(g) PROVE Moded(i)'
  <2>1. reg[i].serving /\ UNCHANGED <<reg, annot, warned, faults>>
    BY <1>3 DEF Place, node, bounds
  <2>2. Differ(annot, reg[i].cache) = {}
    BY <1>0, <2>1 DEF Moded, Matches, Differ
  <2> QED BY <1>0, <2>1, <2>2 DEF Moded, Matches
<1>4. ASSUME NEW g \in GPUs, Vacate(g) PROVE Moded(i)'
  <2>1. UNCHANGED <<reg, annot, faults>> /\ warned' = warned \ {g} /\ held'[g] = "none"
        /\ \A d \in GPUs \ {g} : held'[d] = held[d]
    BY <1>0, <1>4 DEF Vacate, bounds
  <2>2. Differ(annot, reg[i].cache) \subseteq GPUs
    BY <1>0, DomainsAreGPUs DEF Differ
  <2> QED BY <1>0, <2>1, <2>2 DEF Moded, Matches
<1>5. CASE Crash
  <2>1. reg'[i] = Fresh
    BY <1>5 DEF Crash
  <2> QED BY <2>1 DEF Moded, Fresh
<1>6. CASE Boot
  <2>1. reg'[i] = [Fresh EXCEPT !.pc = "start"] \/ UNCHANGED <<reg, annot, held, warned, faults>>
    BY <1>6 DEF Boot, node, bounds
  <2> QED BY <1>2, <2>1 DEF Moded, Fresh
<1>7. CASE Clear
  <2>1. reg'[i] = Fresh
    BY <1>7 DEF Clear, RegInv, PluginsInv
  <2> QED BY <2>1 DEF Moded, Fresh
<1> QED BY <1>2, <1>3, <1>4, <1>5, <1>6, <1>7
        DEF Environment, GPUChanges, SwitchMode, node, bounds

\* Every step of the loop keeps it.
LEMMA StepModes ==
  ASSUME RegInv, ModeInv, NEW i \in Plugins, Plugins = {i}, Step(i) PROVE ModeInv'
<1>0. /\ Moded(i) /\ reg \in [Plugins -> PluginState] /\ reg[i] \in PluginState
      /\ annot \in Devices /\ reg[i].cache \in Devices /\ faults \in Nat
  BY DEF ModeInv, RegInv, World, PluginsInv, PluginState
<1>1. SUFFICES Moded(i)'
  BY DEF ModeInv
\* A step outside the comparison of modes.
<1>A. ASSUME NEW r, reg'[i] = r, r.mode = reg[i].mode, r.cache = reg[i].cache, annot' = annot,
             r.serving = reg[i].serving,
             r.pc \in {"scan", "open", "publish", "sleep"} \/ (r.pc = "start" /\ ~r.serving)
      PROVE  Moded(i)'
  BY <1>0, <1>A DEF Moded, Matches
<1>B. ASSUME Set(i, Failed(reg[i])), annot' = annot PROVE Moded(i)'
  <2>1. reg'[i] = Failed(reg[i])
    BY <1>0, <1>B DEF Set
  <2> QED BY <1>0, <1>A, <1>B, <2>1 DEF Failed, PluginState
<1>2. CASE Start(i)
  <2>1. ~reg[i].serving
    BY <1>0, <1>2 DEF Start, At, Moded
  <2>2. reg'[i].serving = reg[i].serving /\ reg'[i].pc = "scan"
    BY <1>0, <1>2 DEF Start, Goto, Set, PluginState
  <2> QED BY <2>1, <2>2 DEF Moded
<1>3. CASE Scan(i)
  <2>1. /\ annot' = annot /\ reg'[i].pc = "open" /\ reg'[i].mode = reg[i].mode
        /\ reg'[i].cache = reg[i].cache /\ reg'[i].serving = reg[i].serving
    BY <1>0, <1>3 DEF Scan, Set, PluginState, node
  <2> QED BY <1>A, <2>1
<1>4. CASE Open(i)
  <2>1. /\ annot' = annot /\ reg'[i].pc = "publish" /\ reg'[i].mode = reg[i].mode
        /\ reg'[i].cache = reg[i].cache /\ reg'[i].serving = reg[i].serving
    BY <1>0, <1>4 DEF Open, Set, PluginState, node
  <2> QED BY <1>A, <2>1
<1>5. CASE Wake(i)
  BY <1>0, <1>5, <1>A DEF Wake, Goto, Set, PluginState, node
<1>6. CASE Publish(i)
  <2> DEFINE devices == reg[i].found \cap reg[i].last \cap uuids'
             cache(unhealthy) == [g \in devices |-> [health |-> g \notin unhealthy,
                                                     mode |-> ModeOf(i, g)]]
  <2>1. PICK unhealthy \in {sick, {}} :
          Set(i, [reg[i] EXCEPT !.pc = "getNode", !.cache = cache(unhealthy)])
    BY <1>6 DEF Publish
  <2>2. Matches(cache(unhealthy), reg[i])
    BY DEF Matches, ModeOf
  <2> HIDE DEF devices, cache
  <2>3. /\ reg'[i].pc = "getNode" /\ reg'[i].cache = cache(unhealthy)
        /\ reg'[i].mode = reg[i].mode /\ reg'[i].serving = reg[i].serving /\ annot' = annot
    BY <1>0, <1>6, <2>1 DEF Publish, Set, PluginState, node
  <2> QED BY <1>0, <2>2, <2>3 DEF Moded, Matches
<1>7. CASE GetNode(i)
  <2>1. annot' = annot
    BY <1>7 DEF GetNode, node
  <2>2. CASE Set(i, [reg[i] EXCEPT !.pc = "capacity", !.stale = (capacity # {}),
                                   !.changed = Differ(annot, reg[i].cache)]) /\ At(i, "getNode")
    <3>1. /\ reg'[i].pc = "capacity" /\ reg'[i].changed = Differ(annot, reg[i].cache)
          /\ reg'[i].mode = reg[i].mode /\ reg'[i].serving = reg[i].serving
          /\ reg'[i].cache = reg[i].cache
      <4> HIDE DEF Differ
      <4> QED BY <1>0, <2>2 DEF Set, PluginState
    <3> QED BY <1>0, <2>1, <2>2, <3>1 DEF Moded, Matches, At, Differ
  <2> QED BY <1>7, <1>B, <2>1, <2>2 DEF GetNode, Differ
<1>8. CASE Capacity(i)
  <2>1. /\ reg[i].pc = "capacity" /\ annot' = annot /\ reg'[i].pc = "modes"
        /\ reg'[i] = [reg[i] EXCEPT !.pc = "modes", !.stale = FALSE]
    BY <1>0, <1>8 DEF Capacity, At, Set, PluginState
  <2> QED BY <1>0, <2>1 DEF Moded, Matches, Differ, PluginState
<1>9. CASE WarnModes(i)
  <2>1. /\ reg[i].pc = "modes" /\ annot' = annot /\ held' = held
        /\ reg'[i] = [reg[i] EXCEPT !.pc = "patch", !.changed = {}]
    BY <1>0, <1>9 DEF WarnModes, At, Set
  <2>2. faults' = 0 => \A g \in reg[i].changed : held[g] # "none" => g \in warned'
    BY <1>0, <1>9 DEF WarnModes, Fault, NoFault
  <2> QED BY <1>0, <2>1, <2>2 DEF Moded, Matches, Differ, PluginState
<1>10. CASE Patch(i)
  <2>1. reg[i].pc = "patch" /\ Matches(reg[i].cache, reg[i])
    BY <1>0, <1>10 DEF Patch, At, Moded
  <2>2. CASE annot' = reg[i].cache /\ Goto(i, "events")
    <3>1. reg'[i] = [reg[i] EXCEPT !.pc = "events"]
      BY <1>0, <2>2 DEF Goto, Set
    <3> QED BY <1>0, <2>1, <2>2, <3>1 DEF Moded, Matches, PluginState
  <2>3. CASE annot' = reg[i].cache /\ Set(i, Failed(reg[i]))
    <3>1. reg'[i] = Failed(reg[i])
      BY <1>0, <2>3 DEF Set
    <3> QED BY <1>0, <2>1, <2>3, <3>1 DEF Moded, Matches, Failed, PluginState
  <2> QED BY <1>10, <1>B, <2>2, <2>3 DEF Patch
<1>11. CASE Events(i)
  <2>1. /\ reg[i].pc = "events" /\ annot' = annot /\ reg'[i].pc = "sleep"
        /\ reg'[i].mode = reg[i].mode /\ reg'[i].cache = reg[i].cache
    BY <1>0, <1>11 DEF Events, At, Set, PluginState, node
  <2> QED BY <1>0, <2>1 DEF Moded, Matches
<1> QED BY <1>2, <1>3, <1>4, <1>5, <1>6, <1>7, <1>8, <1>9, <1>10, <1>11 DEF Step

\* With one loop, a mode that changes while pods use the GPU is warned about before it is
\* registered, unless a call failed.
THEOREM SwitchWarned ==
  ASSUME NEW i, Plugins = {i} PROVE Spec => ModeSwitchWarned
<1> DEFINE Warned == \A g \in DOMAIN annot \cap DOMAIN annot' :
                       annot'[g].mode # annot[g].mode /\ held[g] # "none" => g \in warned \/ faults > 0
<1>1. Init => ModeInv
  BY FreshIsModed DEF Init, ModeInv
<1>2. RegInv /\ ModeInv /\ [Next]_vars => ModeInv'
  <2>1. ModeInv /\ UNCHANGED vars => ModeInv'
    BY DEF vars, node, bounds, ModeInv, Moded, Matches
  <2> QED BY <2>1, StartModes, StepModes DEF Next
<1>3. RegInv /\ ModeInv /\ [Next]_vars => [Warned]_vars
  <2> SUFFICES ASSUME RegInv, ModeInv, Next PROVE Warned
    OBVIOUS
  <2>1. CASE annot' = annot \/ annot' = <<>>
    BY <2>1
  <2>2. CASE Patch(i) /\ annot' = reg[i].cache
    <3>1. reg[i].pc = "patch" /\ Moded(i) /\ faults \in Nat
      BY <2>2 DEF Patch, At, ModeInv, RegInv, World
    <3> QED BY <2>2, <3>1 DEF Moded, Differ
  <2> QED BY <2>1, <2>2 DEF Next, Environment, GPUChanges, SwitchMode, Place, Vacate, Crash, Boot,
             Clear, Step, Start, Scan, Open, Publish, GetNode, Capacity, WarnModes, Patch, Events,
             Wake, node
<1> QED BY <1>1, <1>2, <1>3, RegInductive, PTL DEF Spec, ModeSwitchWarned

===============================================================================
