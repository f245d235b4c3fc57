----------------------------- MODULE DeviceStream -----------------------------
(***************************************************************************)
(* What kubelet is told about the GPUs.  main lists the resource names; of *)
(* each of them one plugin serves ListAndWatch streams.  A stream sends    *)
(* its devices, and again with fresh health on every heartbeat.  All       *)
(* streams receive from one unbuffered channel, so a beat reaches one of   *)
(* them.  The environment changes the GPUs and the exporter, the           *)
(* registration loop replaces a plugin's map of GPUs, and kubelet          *)
(* restarts.                                                               *)
(***************************************************************************)
EXTENDS Integers, FiniteSets, Sequences

CONSTANTS
  GPUs,        \* schedulable topology entries, one device each
  Types,       \* partition types a GPU can report and change
  Kinds,       \* the kinds of GPUs the node may have, see KindsAssumption
  Strategies,  \* the values -resource_naming_strategy may be started with
  Pulses,      \* whether -pulse may be above 0
  MaxChanges   \* bound on changes of the GPUs and the exporter, and on broken connections

\* "plain" GPUs have no partition type, that of a "fixed" one (an SR-IOV VF) cannot change.
KindsAssumption ==
  /\ Kinds \subseteq [GPUs -> Types \cup {"plain", "fixed"}]
  /\ Types \cap {"plain", "fixed", "gpu", ""} = {}
ASSUME StreamAssumption ==
  /\ KindsAssumption /\ IsFiniteSet(GPUs)
  /\ Strategies \subseteq {"single", "mixed"} /\ Pulses \subseteq BOOLEAN
  /\ MaxChanges \in Nat

VARIABLES
  kind,      \* of each GPU
  strategy,  \* -resource_naming_strategy
  listed, openable, sick,  \* GPUs in sysfs, that libdrm can open, that the exporter calls unhealthy
  exporter,  \* "up" or "down"
  names,     \* resource names main listed; one plugin serves each
  known,     \* AMDGPUs of each plugin
  stream,    \* of each connection to a plugin, see Idle
  conns,     \* connections each plugin got
  live,      \* the one kubelet still reads, 0 if none
  seen,      \* kubelet's last list of a plugin's devices with their health
  waiting,   \* streams blocked in the select, as the channel's queue of receivers
  pulse,     \* main's heartbeat goroutine: "off", "sleep" or "beat" while it sends
  changes

hw      == <<listed, openable, sick, exporter>>
started == <<kind, strategy, names>>
kubelet == <<conns, live, seen>>
vars    == <<hw, started, known, stream, kubelet, waiting, pulse, changes>>

Resources == Types \cup {"gpu"}
Streams   == Resources \X (1 .. MaxChanges + 1)

\* A stream that is not there: its position, the GPUs discovered, the health of each
\* device, the map of GPUs markNonFunctional took, and the GPUs that did not change
\* since its beat.
Idle == [pc |-> "none", found |-> {}, devs |-> <<>>, gpus |-> {}, steady |-> {}]

At(s, l)   == stream[s].pc = l
Set(s, r)  == stream' = [stream EXCEPT ![s] = r]
IsLive(s)  == live[s[1]] = s[2]

-------------------------------------------------------------------------------
(* Which devices a plugin serves                                           *)

PartitionTypes(S) == {kind[g] : g \in S} \cap Types
IsHomogeneous(S)  == Cardinality(PartitionTypes(S)) <= 1

\* The resource names of a node, by the strategy.
ResourceNames(S) ==
  IF S = {} THEN {}
  ELSE IF strategy = "single" \/ PartitionTypes(S) = {} THEN {"gpu"}
  ELSE PartitionTypes(S)

\* kubeletDevices groups by type, GPUs of a fixed one under "".
Group(g) == IF kind[g] = "fixed" THEN "" ELSE kind[g]
\* Mutant: the groups are never used.
AllDevices(S, r) == S
\* devicesForResource: every device when there is none of the type.
DevicesFor(S, r) ==
  LET own == {g \in S : Group(g) = IF IsHomogeneous(S) THEN "" ELSE r}
  IN  IF own # {} THEN own ELSE S

-------------------------------------------------------------------------------
(* Environment                                                             *)

Flip(S, g) == IF g \in S THEN S \ {g} ELSE S \cup {g}
Unsteady(S) == stream' = [s \in Streams |-> [stream[s] EXCEPT !.steady = @ \ S]]
Change      == changes < MaxChanges /\ changes' = changes + 1

\* A GPU leaves or returns, its DRM device fails or recovers, its health changes.
GPUChanges(g) ==
  /\ Change /\ Unsteady({g})
  /\ \/ listed' = Flip(listed, g) /\ UNCHANGED <<openable, sick>>
     \/ openable' = Flip(openable, g) /\ UNCHANGED <<listed, sick>>
     \/ sick' = Flip(sick, g) /\ UNCHANGED <<listed, openable>>
  /\ UNCHANGED <<exporter, started, known, kubelet, waiting, pulse>>

ExporterChanges ==
  /\ Change /\ Unsteady(GPUs)
  /\ exporter' = IF exporter = "up" THEN "down" ELSE "up"
  /\ UNCHANGED <<listed, openable, sick, started, known, kubelet, waiting, pulse>>

\* kubelet restarts, or its connection to a plugin breaks: what the stream sends is lost,
\* and the plugin learns of it later.
Disconnect(r) ==
  /\ Change /\ live[r] # 0
  /\ live' = [live EXCEPT ![r] = 0] /\ seen' = [seen EXCEPT ![r] = <<>>]
  /\ UNCHANGED <<hw, started, known, stream, conns, waiting, pulse>>

\* It dials the plugin that registered with it, and calls ListAndWatch.
Connect(r) ==
  /\ r \in names /\ live[r] = 0
  /\ conns' = [conns EXCEPT ![r] = @ + 1] /\ live' = [live EXCEPT ![r] = conns[r] + 1]
  /\ Set(<<r, conns[r] + 1>>, [Idle EXCEPT !.pc = "list"])
  /\ UNCHANGED <<hw, started, known, seen, waiting, pulse, changes>>

-------------------------------------------------------------------------------
(* The process                                                             *)

\* main's goroutine: it blocks until a stream receives.
Tick ==
  /\ pulse = "sleep" /\ pulse' = "beat"
  /\ UNCHANGED <<hw, started, known, stream, kubelet, waiting, changes>>

\* Plugin r's map is replaced; a GPU that appears in it or leaves it has changed.
Replace(r, S) ==
  [s \in Streams |-> IF s[1] # r THEN stream[s]
                     ELSE [stream[s] EXCEPT !.steady = {g \in @ : g \in known[r] <=> g \in S}]]

\* The registration loop publishes what it discovered.
Publish(r) ==
  /\ r \in names /\ known[r] # listed
  /\ known' = [known EXCEPT ![r] = listed] /\ stream' = Replace(r, listed)
  /\ UNCHANGED <<hw, started, kubelet, waiting, pulse, changes>>

\* ListAndWatch discovers the GPUs and replaces the map; every device it serves starts
\* healthy.
List(s) ==
  /\ At(s, "list")
  /\ known' = [known EXCEPT ![s[1]] = listed]
  /\ stream' = [Replace(s[1], listed) EXCEPT ![s] =
                  [stream[s] EXCEPT !.pc = "send", !.found = listed,
                                    !.devs = [g \in DevicesFor(listed, s[1]) |-> "Healthy"]]]
  /\ UNCHANGED <<hw, started, kubelet, waiting, pulse, changes>>

-------------------------------------------------------------------------------
(* serveDevices                                                            *)

Ended == [Idle EXCEPT !.pc = "ended"]

\* Mutant: a list on which every device is healthy is not worth sending.
SendTrouble(s) ==
  /\ At(s, "send")
  /\ \/ /\ IsLive(s)
        /\ seen' = [seen EXCEPT ![s[1]] = IF \E g \in DOMAIN stream[s].devs : stream[s].devs[g] # "Healthy"
                                         THEN stream[s].devs ELSE @]
        /\ Set(s, [stream[s] EXCEPT !.pc = "wait", !.steady = {}])
        /\ waiting' = Append(waiting, s)
     \/ ~IsLive(s) /\ Set(s, Ended) /\ UNCHANGED <<seen, waiting>>
  /\ UNCHANGED <<hw, started, known, conns, live, pulse, changes>>
\* To kubelet, and on to the queue for the next beat; a broken connection ends the stream.
Send(s) ==
  /\ At(s, "send")
  /\ \/ /\ IsLive(s) /\ seen' = [seen EXCEPT ![s[1]] = stream[s].devs]
        /\ Set(s, [stream[s] EXCEPT !.pc = "wait", !.steady = {}])
        /\ waiting' = Append(waiting, s)
     \/ ~IsLive(s) /\ Set(s, Ended) /\ UNCHANGED <<seen, waiting>>
  /\ UNCHANGED <<hw, started, known, conns, live, pulse, changes>>

Leave(s) == \E k \in 1 .. Len(waiting) :
  /\ waiting[k] = s
  /\ waiting' = SubSeq(waiting, 1, k - 1) \o SubSeq(waiting, k + 1, Len(waiting))

\* Mutant: the select does not watch the stream's context.
Deaf(s) == FALSE /\ UNCHANGED vars
\* Mutant: an ended stream still receives.
StaysQueued(s) ==
  /\ At(s, "wait") /\ ~IsLive(s) /\ Set(s, Ended)
  /\ UNCHANGED <<hw, started, known, kubelet, waiting, pulse, changes>>
\* The context of a broken connection is done.
Done(s) ==
  /\ At(s, "wait") /\ ~IsLive(s) /\ Set(s, Ended) /\ Leave(s)
  /\ UNCHANGED <<hw, started, known, kubelet, pulse, changes>>

Sick(g) == exporter = "up" /\ g \in sick

\* PopulatePerGPUDHealth: the exporter's word, healthy when it is silent.
ExporterHealth(devs) == [g \in DOMAIN devs |-> IF Sick(g) THEN "Unhealthy" ELSE "Healthy"]

\* The channel hands a beat to the receiver that waits the longest, live or not, which
\* asks the exporter.
Beat ==
  /\ pulse = "beat" /\ waiting # <<>>
  /\ LET s == Head(waiting)
     IN  Set(s, [stream[s] EXCEPT !.pc = "snapshot", !.devs = ExporterHealth(@), !.steady = GPUs])
  /\ waiting' = Tail(waiting) /\ pulse' = "sleep"
  /\ UNCHANGED <<hw, started, known, kubelet, changes>>

\* markNonFunctional takes the map under the lock,
Snapshot(s) ==
  /\ At(s, "snapshot")
  /\ Set(s, [stream[s] EXCEPT !.pc = "mark", !.gpus = known[s[1]]])
  /\ UNCHANGED <<hw, started, known, kubelet, waiting, pulse, changes>>

\* Mutant: a GPU that opens is healthy, whatever the exporter said.
MarkBoth(s) ==
  /\ At(s, "mark")
  /\ Set(s, [stream[s] EXCEPT !.pc = "send", !.gpus = {},
               !.devs = [g \in DOMAIN @ |-> IF g \in stream[s].gpus \cap listed \cap openable
                                            THEN "Healthy" ELSE "Unhealthy"]])
  /\ UNCHANGED <<hw, started, known, kubelet, waiting, pulse, changes>>
\* and marks the GPUs unhealthy that are unknown or do not open.
Mark(s) ==
  /\ At(s, "mark")
  /\ Set(s, [stream[s] EXCEPT !.pc = "send", !.gpus = {},
               !.devs = [g \in DOMAIN @ |-> IF g \in stream[s].gpus \cap listed \cap openable
                                            THEN @[g] ELSE "Unhealthy"]])
  /\ UNCHANGED <<hw, started, known, kubelet, waiting, pulse, changes>>

-------------------------------------------------------------------------------

\* The process has started: main listed the resources, and each plugin registered.
Init ==
  /\ kind \in Kinds /\ strategy \in Strategies
  /\ listed = GPUs /\ openable = GPUs /\ sick = {} /\ exporter = "up"
  /\ names = ResourceNames(listed)
  /\ known = [r \in Resources |-> IF r \in names THEN listed ELSE {}]
  /\ stream = [s \in Streams |-> Idle]
  /\ conns = [r \in Resources |-> 0] /\ live = conns /\ seen = [r \in Resources |-> <<>>]
  /\ waiting = <<>> /\ pulse \in {IF on THEN "sleep" ELSE "off" : on \in Pulses} /\ changes = 0

Work(s) == List(s) \/ Send(s) \/ Snapshot(s) \/ Mark(s)

Environment ==
  (\E g \in GPUs : GPUChanges(g)) \/ ExporterChanges \/ (\E r \in names : Disconnect(r))

Next ==
  \/ Environment \/ Tick \/ Beat
  \/ \E r \in names : Connect(r) \/ Publish(r)
  \/ \E s \in Streams : Work(s) \/ Done(s)

\* The goroutines run, registration repeats, kubelet dials.
Fairness ==
  /\ WF_vars(Tick) /\ WF_vars(Beat)
  /\ \A r \in Resources : WF_vars(r \in names /\ Connect(r)) /\ WF_vars(Publish(r))
  /\ \A s \in Streams : WF_vars(Work(s) \/ Done(s))

Spec     == Init /\ [][Next]_vars
FairSpec == Spec /\ Fairness

-------------------------------------------------------------------------------
(* Properties                                                              *)

Verdict(r, g) ==
  IF g \in known[r] \cap listed \cap openable /\ ~Sick(g) THEN "Healthy" ELSE "Unhealthy"

\* After a beat a stream sends, of each GPU that did not change meanwhile, what the
\* plugin's map, the DRM device and the exporter say together: no verdict of an earlier
\* beat sticks, and none of the three hides another.
BeatTellsTruth ==
  \A s \in Streams : At(s, "send") =>
    \A g \in stream[s].steady \cap DOMAIN stream[s].devs :
      stream[s].devs[g] = Verdict(s[1], g)

\* Plugins that found the GPUs main listed the resources for offer each of them to
\* kubelet once: none is counted under two resources, and none is left out.  All GPUs have a
\* type that can change, as in StreamHealth: GPUs that are not partitioned or cannot change,
\* and devicesForResource's fallback to every device, are outside what it says.
OfferedOnce ==
  LET serving == {s \in Streams : IsLive(s) /\ stream[s].devs # <<>> /\ stream[s].found = GPUs}
  IN  /\ \A s, t \in serving : s # t => DOMAIN stream[s].devs \cap DOMAIN stream[t].devs = {}
      /\ {s[1] : s \in serving} = names => UNION {DOMAIN stream[s].devs : s \in serving} = GPUs

\* Streams that kubelet left end, also on a node without heartbeats: "A stream left
\* running after kubelet restarts would keep taking heartbeats from the live one."
StaleStreamsEnd ==
  []<>(\A s \in Streams : stream[s].pc \notin {"none", "ended"} => IsLive(s))

\* With heartbeats kubelet's list of every plugin follows the GPUs once they stop
\* changing, although the streams share the beats and some of them are stale.
KubeletFollows ==
  pulse # "off" =>
    <>[](\A r \in names : live[r] # 0 =>
           seen[r] = [g \in DOMAIN stream[<<r, live[r]>>].devs |-> Verdict(r, g)])

Labels   == {"none", "list", "send", "wait", "snapshot", "mark", "ended"}
Healths  == {"Healthy", "Unhealthy"}
Lists    == UNION {[S -> Healths] : S \in SUBSET GPUs}
StreamState == [pc : Labels, found : SUBSET GPUs, devs : Lists, gpus : SUBSET GPUs, steady : SUBSET GPUs]

\* Every variable keeps its type, and a stream waits in the channel's queue exactly while
\* its select does.
TypeOK ==
  /\ kind \in Kinds /\ strategy \in {"single", "mixed"} /\ names \subseteq Resources
  /\ listed \subseteq GPUs /\ openable \subseteq GPUs /\ sick \subseteq GPUs
  /\ exporter \in {"up", "down"} /\ known \in [Resources -> SUBSET GPUs]
  /\ stream \in [Streams -> StreamState]
  /\ conns \in [Resources -> 0 .. MaxChanges + 1] /\ live \in [Resources -> 0 .. MaxChanges + 1]
  /\ seen \in [Resources -> Lists]
  /\ waiting \in Seq(Streams) /\ {waiting[k] : k \in DOMAIN waiting} = {s \in Streams : At(s, "wait")}
  /\ pulse \in {"off", "sleep", "beat"} /\ changes \in Nat

===============================================================================
