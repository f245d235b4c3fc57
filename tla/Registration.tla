----------------------------- MODULE Registration -----------------------------
(***************************************************************************)
(* How a node's GPUs reach the scheduler: device discovery, the register   *)
(* annotation, the node capacity and the health events, by the plugin's    *)
(* registration loop.  One loop runs per resource name ("mixed" strategy); *)
(* all of them write the same annotation.  The environment changes the     *)
(* GPUs' state, places pods, fails calls and crashes the process.          *)
(***************************************************************************)
EXTENDS Integers, FiniteSets, Sequences

CONSTANTS
  GPUs,           \* GPUs that may be on the node
  Plugins,        \* plugin instances, one per resource name
  Partitionable,  \* GPUs that report a changeable compute partition type
  Reports,        \* the values -report_node_capacity may be started with
  MaxChanges,     \* bound on changes of the GPUs' state and of the mode annotation
  MaxFaults,      \* bound on failed lookups and API calls
  MaxCrashes      \* bound on crashes of the plugin process

ASSUME RegistrationAssumption ==
  /\ Partitionable \subseteq GPUs /\ Reports \in SUBSET BOOLEAN \ {{}}
  /\ Plugins # {} /\ IsFiniteSet(GPUs)
  /\ MaxChanges \in Nat /\ MaxFaults \in Nat /\ MaxCrashes \in Nat

VARIABLES
  listed, openable, sick,  \* GPUs in sysfs, that libdrm can open, that the exporter calls unhealthy
  wanted,     \* node annotation hami.io/amd-operating-mode
  held,       \* the mode a GPU had when its pods were placed, or "none"
  annot,      \* node annotation hami.io/node-amd-register: GPU -> health and mode
  capacity,   \* {n} if the node lists a capacity of n GPUs, else {}
  warned,     \* GPUs with an AMDGPUModeChangedInUse event about their present pods
  proc,       \* the plugin process
  report,     \* its -report_node_capacity
  uuids,      \* GPUs in the AMD SMI cache, which all plugins share
  reg,        \* of each plugin, see Fresh
  changes, faults, crashes

hw   == <<listed, openable, sick, wanted>>
node == <<annot, capacity, warned>>
bounds == <<changes, faults, crashes>>
vars == <<hw, held, node, proc, report, uuids, reg, bounds>>

Modes == {"cu", "partition"}
\* A plugin before Start: its position, operatingMode (the environment's default),
\* GPUs discovered and opened in this round, lastCapacity, deviceCache, GPUs whose
\* registered mode differs, whether the node read still lists a capacity, gpuStates
\* (empty before the first registration), whether this round succeeded, whether it
\* is registered with kubelet, and what it told about each GPU since its baseline.
\* Locals are emptied when they are not read again.
Fresh == [pc |-> "off", mode |-> "cu", found |-> {}, opened |-> {}, last |-> {},
          cache |-> <<>>, changed |-> {}, stale |-> FALSE, states |-> <<>>,
          based |-> FALSE, ok |-> FALSE, serving |-> FALSE,
          told |-> [g \in GPUs |-> <<>>]]

At(i, s)   == proc = "up" /\ reg[i].pc = s
Set(i, r)  == reg' = [reg EXCEPT ![i] = r]
Goto(i, s) == Set(i, [reg[i] EXCEPT !.pc = s])
Fault      == faults < MaxFaults /\ faults' = faults + 1
NoFault    == UNCHANGED faults
Change     == changes < MaxChanges /\ changes' = changes + 1

-------------------------------------------------------------------------------
(* Environment                                                             *)

Flip(S, g) == IF g \in S THEN S \ {g} ELSE S \cup {g}

\* A GPU leaves or returns, its DRM device fails or recovers, its health changes.
GPUChanges(g) ==
  /\ Change
  /\ \/ listed' = Flip(listed, g) /\ UNCHANGED <<openable, sick>>
     \/ openable' = Flip(openable, g) /\ UNCHANGED <<listed, sick>>
     \/ sick' = Flip(sick, g) /\ UNCHANGED <<listed, openable>>
  /\ UNCHANGED <<wanted, held, node, proc, report, uuids, reg, faults, crashes>>

SwitchMode ==
  /\ Change /\ wanted' \in Modes \ {wanted}
  /\ UNCHANGED <<listed, openable, sick, held, node, proc, report, uuids, reg, faults, crashes>>

\* The scheduler places pods on a GPU by its annotation, and Allocate serves them.
Place(g) ==
  /\ held[g] = "none" /\ g \in DOMAIN annot /\ annot[g].health
  /\ \E i \in Plugins : reg[i].serving /\ g \in DOMAIN reg[i].cache
  /\ held' = [held EXCEPT ![g] = annot[g].mode]
  /\ UNCHANGED <<hw, node, proc, report, uuids, reg, bounds>>

Vacate(g) ==
  /\ held[g] # "none" /\ held' = [held EXCEPT ![g] = "none"]
  /\ warned' = warned \ {g}
  /\ UNCHANGED <<hw, annot, capacity, proc, report, uuids, reg, bounds>>

Crash ==
  /\ proc # "down" /\ crashes < MaxCrashes /\ crashes' = crashes + 1
  /\ proc' = "down" /\ uuids' = {} /\ reg' = [i \in Plugins |-> Fresh]
  /\ UNCHANGED <<hw, held, node, report, changes, faults>>

-------------------------------------------------------------------------------
(* The process starts                                                      *)

\* main lists the resources once; without a GPU it only clears the annotation.
Boot ==
  /\ proc = "down"
  /\ IF listed = {} THEN proc' = "clearing" /\ UNCHANGED reg
     ELSE proc' = "up" /\ reg' = [i \in Plugins |-> [Fresh EXCEPT !.pc = "start"]]
  /\ report' \in Reports
  /\ UNCHANGED <<hw, held, node, uuids, bounds>>

\* ClearRegistration: an error is logged, and not tried again.
Clear ==
  /\ proc = "clearing" /\ proc' = "cleared"
  /\ \/ annot' = <<>> /\ NoFault
     \/ Fault /\ annot' \in {annot, <<>>}
  /\ UNCHANGED <<hw, held, capacity, warned, report, uuids, reg, changes, crashes>>

\* Start reads the operating mode, and keeps the one it has when it cannot.
Start(i) ==
  /\ At(i, "start")
  /\ \/ Set(i, [reg[i] EXCEPT !.pc = "scan", !.mode = wanted]) /\ NoFault
     \/ Goto(i, "scan") /\ Fault
  /\ UNCHANGED <<hw, held, node, proc, report, uuids, changes, crashes>>

-------------------------------------------------------------------------------
(* getAPIDevices                                                           *)

Scan(i) ==
  /\ At(i, "scan")
  /\ Set(i, [reg[i] EXCEPT !.pc = "open", !.found = listed, !.ok = FALSE])
  /\ UNCHANGED <<hw, held, node, proc, report, uuids, bounds>>

\* Mutant: a failed read forgets the last capacity.
ForgetfulOpen(i) ==
  /\ At(i, "open")
  /\ LET opened == reg[i].found \cap listed \cap openable
     IN  Set(i, [reg[i] EXCEPT !.pc = "publish", !.opened = opened, !.last = opened])
  /\ UNCHANGED <<hw, held, node, proc, report, uuids, bounds>>
\* Mutant: a successful read is not remembered.
UncachedOpen(i) ==
  /\ At(i, "open")
  /\ Set(i, [reg[i] EXCEPT !.pc = "publish", !.opened = @ \cup (reg[i].found \cap listed \cap openable)])
  /\ UNCHANGED <<hw, held, node, proc, report, uuids, bounds>>
\* deviceCapacity of each GPU: the last value stands in for a failed read.
Open(i) ==
  /\ At(i, "open")
  /\ LET opened == reg[i].found \cap listed \cap openable
     IN  Set(i, [reg[i] EXCEPT !.pc = "publish", !.opened = opened, !.last = @ \cup opened])
  /\ UNCHANGED <<hw, held, node, proc, report, uuids, bounds>>

\* The mode a GPU registers in.
ModeOf(i, g) == IF g \in Partitionable THEN reg[i].mode ELSE "cu"

\* AMD SMI is asked for the GPUs its cache does not know, and may fail for some.
Lookup(i) ==
  LET missing == (reg[i].found \cap listed) \ uuids
  IN  \/ uuids' = uuids \cup missing /\ NoFault
      \/ Fault /\ \E S \in SUBSET missing : uuids' = uuids \cup S

\* Only GPUs with a capacity and a UUID register; an unreachable exporter reports
\* nobody sick.
Publish(i) ==
  /\ At(i, "publish") /\ Lookup(i)
  /\ \E unhealthy \in {sick, {}} :
       /\ unhealthy = sick \/ faults' # faults
       /\ LET devices == reg[i].found \cap reg[i].last \cap uuids'
          IN  Set(i, [reg[i] EXCEPT !.pc = "getNode", !.cache =
                        [g \in devices |-> [health |-> g \notin unhealthy,
                                            mode |-> ModeOf(i, g)]]])
  /\ UNCHANGED <<hw, held, node, proc, report, changes, crashes>>

-------------------------------------------------------------------------------
(* RegisterInAnnotation after the discovery                                *)

\* A failed round is repeated, by dpm calling Start again or by WatchAndRegister.
Failed(r) == [r EXCEPT !.found = {}, !.pc = IF r.serving THEN "sleep" ELSE "start"]

\* The node as read decides which modes changed, and whether a capacity is stale.
GetNode(i) ==
  /\ At(i, "getNode")
  /\ \/ /\ Set(i, [reg[i] EXCEPT !.pc = "capacity", !.stale = (capacity # {}),
                     !.changed = {g \in DOMAIN annot \cap DOMAIN reg[i].cache :
                                    annot[g].mode # reg[i].cache[g].mode}])
        /\ NoFault
     \/ Set(i, Failed(reg[i])) /\ Fault
  /\ UNCHANGED <<hw, held, node, proc, report, uuids, changes, crashes>>

Healthy(devices) == {g \in DOMAIN devices : devices[g].health}

\* Mutant: nothing removes the capacity when reporting is off.
KeepCapacity(i) ==
  /\ At(i, "capacity") /\ Set(i, [reg[i] EXCEPT !.pc = "modes", !.stale = FALSE]) /\ NoFault
  /\ capacity' = IF report THEN {Cardinality(Healthy(reg[i].cache))} ELSE capacity
  /\ UNCHANGED <<hw, held, annot, warned, proc, report, uuids, changes, crashes>>
\* The capacity is patched, or removed if it is stale; an error is only logged.
Capacity(i) ==
  /\ At(i, "capacity") /\ Set(i, [reg[i] EXCEPT !.pc = "modes", !.stale = FALSE])
  /\ LET patched == IF report THEN {Cardinality(Healthy(reg[i].cache))}
                    ELSE IF reg[i].stale THEN {} ELSE capacity
     IN  \/ capacity' = patched /\ NoFault
         \/ Fault /\ capacity' \in {capacity, patched}
  /\ UNCHANGED <<hw, held, annot, warned, proc, report, uuids, changes, crashes>>

\* Mutant: a mode is compared with what this process registered before.
WarnModesOwn(i) ==
  /\ At(i, "modes") /\ Goto(i, "patch") /\ NoFault
  /\ warned' = warned \cup {g \in reg[i].changed \cap DOMAIN reg[i].states : held[g] # "none"}
  /\ UNCHANGED <<hw, held, annot, capacity, proc, report, uuids, changes, crashes>>
\* warnModeChangeInUse: the pods are listed only if a mode changed.
WarnModes(i) ==
  /\ At(i, "modes") /\ Set(i, [reg[i] EXCEPT !.pc = "patch", !.changed = {}])
  /\ \/ warned' = warned \cup {g \in reg[i].changed : held[g] # "none"} /\ NoFault
     \/ reg[i].changed # {} /\ Fault /\ UNCHANGED warned
  /\ UNCHANGED <<hw, held, annot, capacity, proc, report, uuids, changes, crashes>>

\* Mutant: the events do not wait for the annotation.
EagerPatch(i) ==
  /\ At(i, "patch") /\ Goto(i, "events")
  /\ \/ annot' = reg[i].cache /\ NoFault
     \/ Fault /\ UNCHANGED annot
  /\ UNCHANGED <<hw, held, capacity, warned, proc, report, uuids, changes, crashes>>
\* The annotation is replaced; after an error, applied or not, no event is reported.
Patch(i) ==
  /\ At(i, "patch")
  /\ \/ annot' = reg[i].cache /\ Goto(i, "events") /\ NoFault
     \/ Fault /\ annot' \in {annot, reg[i].cache} /\ Set(i, Failed(reg[i]))
  /\ UNCHANGED <<hw, held, capacity, warned, proc, report, uuids, changes, crashes>>

\* What healthTransitions remembers of a GPU, missing ones included; "absent" is no entry.
StateIn(states, g) == IF g \in DOMAIN states THEN states[g] ELSE "absent"
NextStates(before, devices) ==
  [g \in DOMAIN before \cup DOMAIN devices |->
     IF g \notin DOMAIN devices THEN "missing"
     ELSE IF devices[g].health THEN "healthy" ELSE "unhealthy"]
\* Mutant: a GPU that stays missing is reported again.
ReportedAgain(was, now) == now = "missing" \/ (now # was /\ ~(was = "absent" /\ now = "healthy"))
\* An event for every change, but none for a new GPU that is healthy.
Reported(was, now) == now # was /\ ~(was = "absent" /\ now = "healthy")

\* reportHealthChanges, then the return from Start or the loop's next wait; the first
\* registration is the baseline of the events.
Events(i) ==
  /\ At(i, "events")
  /\ LET r    == reg[i]
         next == NextStates(r.states, r.cache)
         told == [g \in GPUs |->
                    IF ~r.based THEN <<StateIn(next, g)>>
                    ELSE IF Reported(StateIn(r.states, g), StateIn(next, g))
                    THEN Append(r.told[g], next[g]) ELSE r.told[g]]
     IN  Set(i, [r EXCEPT !.pc = "sleep", !.found = {}, !.states = next, !.based = TRUE,
                          !.told = told, !.ok = TRUE, !.serving = TRUE])
  /\ UNCHANGED <<hw, held, node, proc, report, uuids, bounds>>

\* WatchAndRegister wakes up, 30 s after a round or 5 s after a failed one.
Wake(i) ==
  /\ At(i, "sleep") /\ Goto(i, "scan")
  /\ UNCHANGED <<hw, held, node, proc, report, uuids, bounds>>

-------------------------------------------------------------------------------

Init ==
  /\ listed \in SUBSET GPUs /\ openable = GPUs /\ sick \in SUBSET GPUs
  /\ wanted = "cu" /\ held = [g \in GPUs |-> "none"]
  /\ annot = <<>> /\ capacity \in {{}, {Cardinality(GPUs)}} /\ warned = {}
  /\ proc = "down" /\ report = FALSE /\ uuids = {} /\ reg = [i \in Plugins |-> Fresh]
  /\ changes = 0 /\ faults = 0 /\ crashes = 0

Step(i) ==
  \/ Start(i) \/ Scan(i) \/ Open(i) \/ Publish(i) \/ GetNode(i) \/ Capacity(i)
  \/ WarnModes(i) \/ Patch(i) \/ Events(i) \/ Wake(i)

Environment ==
  \/ \E g \in GPUs : GPUChanges(g) \/ Place(g) \/ Vacate(g)
  \/ SwitchMode \/ Crash

Next == Environment \/ Boot \/ Clear \/ \E i \in Plugins : Step(i)

\* kubelet restarts the container, and the plugin's goroutines keep running.
Fairness == WF_vars(Boot) /\ WF_vars(Clear) /\ \A i \in Plugins : WF_vars(Step(i))

Spec == Init /\ [][Next]_vars
FairSpec == Spec /\ Fairness

-------------------------------------------------------------------------------
(* Properties                                                              *)

\* A GPU that was registered by this process stays registered while sysfs lists it:
\* failing libdrm reads and AMD SMI lookups do not drop it (deviceCapacity, #208).
KeepsKnownGPUs ==
  [][\A i \in Plugins : proc' = "up" /\ reg[i].serving =>
       \A g \in DOMAIN reg[i].cache :
         g \in DOMAIN reg'[i].cache \/ g \notin reg[i].found]_vars

Now(g) == IF g \notin DOMAIN annot THEN "missing"
          ELSE IF annot[g].health THEN "healthy" ELSE "unhealthy"

\* After a round the latest event of each GPU says what the annotation says, whatever
\* failed in the rounds before; "absent" GPUs have no event until they are sick.
EventsMatchAnnotation ==
  \A i \in Plugins : At(i, "sleep") /\ reg[i].ok =>
    \A g \in GPUs :
      LET t == reg[i].told[g]
          said == t[Len(t)]
      IN  IF said = "absent" THEN Now(g) # "unhealthy" ELSE said = Now(g)

\* No change of a GPU is reported twice.
NoRepeatedEvent ==
  \A i \in Plugins, g \in GPUs :
    \A k \in 1 .. Len(reg[i].told[g]) - 1 : reg[i].told[g][k] # reg[i].told[g][k + 1]

\* Once the GPUs stop changing, the annotation lists the ones that work with their
\* health and none that left, and the capacity is theirs, or gone when it is not reported.
\* (While a listed GPU cannot be opened, two loops of which one has read it before
\* write different capacities and annotations in turn.)
Registered ==
  /\ \A g \in GPUs : /\ g \in listed \cap openable => /\ g \in DOMAIN annot
                                                      /\ annot[g].health = (g \notin sick)
                     /\ g \notin listed => g \notin DOMAIN annot
  /\ report /\ listed \subseteq openable => capacity = {Cardinality(Healthy(annot))}
  /\ ~report => capacity = {}
Converges == <>[](proc = "up" => Registered)

\* "health: false if the DRM node cannot be opened or the exporter says unhealthy."
HealthyMeansOpenable ==
  \A i \in Plugins : At(i, "sleep") /\ reg[i].ok =>
    \A g \in DOMAIN annot : annot[g].health => g \in reg[i].opened

\* "If a GPU switches while Pods still use it, the plugin [...] records a node Warning
\* event": it does before the new mode is registered, also when the mode was changed by
\* restarting the plugin, for a GPU that was registered; only a failing call prevents it.
ModeSwitchWarned ==
  [][\A g \in DOMAIN annot \cap DOMAIN annot' :
       annot'[g].mode # annot[g].mode /\ held[g] # "none" => g \in warned \/ faults > 0]_vars

Labels == {"off", "start", "scan", "open", "publish", "getNode", "capacity", "modes",
           "patch", "events", "sleep"}
Devices == UNION {[S -> [health : BOOLEAN, mode : Modes]] : S \in SUBSET GPUs}
States  == {"healthy", "unhealthy", "missing", "absent"}
PluginState ==
  [pc : Labels, mode : Modes, found : SUBSET GPUs, opened : SUBSET GPUs, last : SUBSET GPUs,
   cache : Devices, changed : SUBSET GPUs, stale : BOOLEAN,
   states : UNION {[S -> States] : S \in SUBSET GPUs}, based : BOOLEAN, ok : BOOLEAN,
   serving : BOOLEAN, told : [GPUs -> Seq(States)]]

\* Every variable keeps its type, and what was opened has a last capacity.
TypeOK ==
  /\ listed \subseteq GPUs /\ openable \subseteq GPUs /\ sick \subseteq GPUs
  /\ wanted \in Modes /\ held \in [GPUs -> Modes \cup {"none"}]
  /\ annot \in Devices /\ capacity \in SUBSET Nat /\ warned \subseteq GPUs
  /\ proc \in {"down", "clearing", "cleared", "up"} /\ report \in BOOLEAN /\ uuids \subseteq GPUs
  /\ reg \in [Plugins -> PluginState] /\ \A i \in Plugins : reg[i].opened \subseteq reg[i].last
  /\ changes \in Nat /\ faults \in Nat /\ crashes \in Nat

===============================================================================
