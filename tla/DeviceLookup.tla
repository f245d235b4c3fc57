----------------------------- MODULE DeviceLookup ------------------------------
(***************************************************************************)
(* How Allocate finds a GPU by its id.  The scheduler knows GPUs by UUID,  *)
(* kubelet by topology key and slot, another scheduler by the slots of all *)
(* GPUs counted through.  A device's DRM nodes, its ROCr UUID and its CU   *)
(* count are looked up one after the other, each in the maps as they are   *)
(* then: the registration loop replaces all of them, ListAndWatch the map  *)
(* of GPUs only, and either may publish what it listed a while ago.        *)
(***************************************************************************)
EXTENDS Integers, FiniteSets, Sequences

CONSTANTS
  Kinds,        \* kinds of the GPUs of a node, by PCI address: "plain", "capable" of changing
                \* the compute partition, or "fixed" to the one it reports
  Xcps,         \* XCP partitions a divided GPU exposes
  Slots,        \* slots per GPU, in the code 2 or 10
  MaxMoves      \* bound on changes of the GPUs

ASSUME LookupAssumption ==
  /\ \A k \in Kinds : 0 \notin DOMAIN k /\ \A g \in DOMAIN k : k[g] \in {"plain", "capable", "fixed"}
  /\ Xcps \in Nat \ {0} /\ Slots \in Nat \ {0} /\ MaxMoves \in Nat

VARIABLES
  opMode, Kind,               \* "cu" or "partition"; of each GPU
  there, divided, unnamed,    \* GPUs in sysfs, with XCP nodes, without an AMD SMI UUID
  AMDGPUs, registered,        \* published: topology keys; the keys in the UUID maps and the cache
  scanned, listed,            \* found by the registration loop and by ListAndWatch, Unread if not
  request,                    \* the device id Allocate is looking up, see NoRequest
  found,                      \* what each of its lookups answered so far
  moves,
  lost                        \* whether its GPU was not published all along since the call began

lookupVars == <<opMode, Kind, there, divided, unnamed, AMDGPUs, registered, scanned, listed,
                request, found, moves, lost>>
hardware   == <<opMode, Kind, there, divided, unnamed, moves>>
published  == <<AMDGPUs, registered>>
finds      == <<scanned, listed>>

\* The entry <<g, 0>> is GPU g, <<g, k>> its k-th XCP partition.
GPUNumbers == DOMAIN Kind
EntriesOf(g) == {<<g, k>> : k \in 0 .. IF g \in divided THEN Xcps ELSE 0}
IsXcp(e)     == e[2] > 0
Unread       == {<<0, 0>>}

\* discoverGPUs: GPUs, and XCP nodes in the KFD topology.
Entries == UNION {EntriesOf(g) : g \in there}

xcpParents(S) == {e[1] : e \in {d \in S : IsXcp(d)}}
isSchedulableTopologyKey(e, S) ==
  IF IsXcp(e) THEN opMode = "partition" ELSE opMode = "partition" => e[1] \notin xcpParents(S)

\* Hard devices are those with a partition type that can change.
IsHard(e) == opMode = "partition" /\ Kind[e[1]] = "capable"

\* What getAPIDevices registers of the entries it found.
Registrable(S) ==
  {e \in S : isSchedulableTopologyKey(e, S) /\ (IsXcp(e) \/ e[1] \notin unnamed)}

\* sortedBDFs: GPUs by address, then XCP partitions.
Before(d, e) == IF IsXcp(d) = IsXcp(e) THEN d[1] < e[1] \/ (d[1] = e[1] /\ d[2] < e[2]) ELSE IsXcp(e)
Position(e)  == Cardinality({d \in registered : Before(d, e)})

-------------------------------------------------------------------------------
(* Ids                                                                     *)

uuid(e)  == [form |-> "uuid", of |-> e, slot |-> -1]
split(e) == [form |-> "split", of |-> e, slot |-> -1]
\* "<key>#<partition type>"
hard(e)  == [form |-> "hard", of |-> e, slot |-> -1]
\* "<node>-AMDGPU-<n>"
slot(n)  == [form |-> "slot", of |-> <<0, 0>>, slot |-> n]

\* The ids that devices can be found by.
Named(i) == i.form = "uuid" \/ (i.form = "split" /\ ~IsXcp(i.of))

\* What kubelet is offered, registered or not.
kubeletIDs(S) ==
  {IF IsHard(e) THEN hard(e) ELSE split(e) : e \in {d \in S : isSchedulableTopologyKey(d, S)}}

NoEntry   == <<0, 0>>
NoRequest == [pc |-> "idle", id |-> slot(0), seen |-> {}, slotOf |-> "unread"]
NotFound  == [data |-> NoEntry, rocr |-> NoEntry, cus |-> NoEntry]

-------------------------------------------------------------------------------
(* Discovery                                                               *)

Move == moves < MaxMoves /\ moves' = moves + 1

GPUGoes(g) ==
  /\ Move /\ there' = IF g \in there THEN there \ {g} ELSE there \cup {g}
  /\ UNCHANGED <<opMode, Kind, divided, unnamed, published, finds, request, found, lost>>

\* An operator changes a GPU's partition, and the kernel exposes other XCP nodes.
Repartition(g) ==
  /\ Kind[g] = "capable" /\ Move
  /\ divided' = IF g \in divided THEN divided \ {g} ELSE divided \cup {g}
  /\ UNCHANGED <<opMode, Kind, there, unnamed, published, finds, request, found, lost>>

Discover ==
  /\ scanned = Unread /\ scanned' = Entries
  /\ UNCHANGED <<hardware, published, listed, request, found, lost>>

Missing(gpus, reg) == lost' = (lost \/ (Named(request.id) /\ request.id.of \notin gpus \cap reg))

publish ==
  /\ scanned # Unread /\ scanned' = Unread
  /\ AMDGPUs' = scanned /\ registered' = Registrable(scanned)
  /\ Missing(AMDGPUs', registered')
  /\ UNCHANGED <<hardware, listed, request, found>>

FindGPUs ==
  /\ listed = Unread /\ listed' = Entries
  /\ UNCHANGED <<hardware, published, scanned, request, found, lost>>

ListAndWatch ==
  /\ listed # Unread /\ listed' = Unread /\ AMDGPUs' = listed
  /\ Missing(AMDGPUs', registered)
  /\ UNCHANGED <<hardware, registered, scanned, request, found>>

\* A device of the pod's slot, or one kubelet named.
Allocate ==
  /\ request.pc = "idle"
  /\ \E i \in {uuid(e) : e \in registered} \cup kubeletIDs(AMDGPUs)
               \cup {slot(n) : n \in 0 .. Slots * Cardinality(registered) - 1} :
       /\ request' = [NoRequest EXCEPT !.pc = "data", !.id = i]
       /\ lost' = (Named(i) /\ i.of \notin AMDGPUs \cap registered)
  /\ UNCHANGED <<hardware, published, finds, found>>

-------------------------------------------------------------------------------
(* Lookups                                                                 *)

id == request.id

\* The answer to one lookup, NoEntry if it is refused, and what is looked up next.
Finds(field, e, next) ==
  /\ found' = [found EXCEPT ![field] = e]
  /\ request' = [request EXCEPT !.pc = IF e = NoEntry THEN "refused" ELSE next,
                                !.seen = {}, !.slotOf = "unread"]
  /\ UNCHANGED <<hardware, published, finds, lost>>

If(condition, e) == IF condition THEN e ELSE NoEntry

\* A slot takes three looks: at the map the entry is looked up in, ...
SlotSteps(pc, slotOf) ==
  /\ request.pc \in pc /\ id.form = "slot" /\ request.slotOf = slotOf
  /\ UNCHANGED <<hardware, published, finds, found, lost>>
See ==
  /\ SlotSteps({"data", "rocr"}, "unread")
  /\ request' = [request EXCEPT !.slotOf = "seen",
                                !.seen = IF request.pc = "data" THEN AMDGPUs ELSE registered]
\* ... at how many registered GPUs come before it, none if there are fewer, ...
gpuIndexOfSlot ==
  /\ SlotSteps({"data", "rocr"}, "seen")
  /\ request' = [request EXCEPT !.slotOf =
                   IF id.slot \div Slots < Cardinality(registered) THEN "indexed" ELSE "none"]
Ready == id.form = "slot" => request.slotOf \in {"indexed", "none"}
\* ... and at the GPU that comes there now.
topologyKeyOfSlot ==
  LET at == {e \in registered : Position(e) = id.slot \div Slots}
  IN  IF request.slotOf = "none" \/ at = {} THEN NoEntry ELSE CHOOSE e \in at : TRUE

\* A UUID goes through the maps, a split by its key; the suffix of a hard id is cut off,
\* and a key without one is no id.
deviceDataFromAllocationUUID ==
  /\ request.pc = "data" /\ Ready
  /\ LET e == CASE id.form = "uuid"  -> If(id.of \in registered, id.of)
                [] id.form = "split" -> id.of
                [] id.form = "hard"  -> NoEntry
                [] id.form = "slot"  -> topologyKeyOfSlot
         gpus == IF id.form = "slot" THEN request.seen ELSE AMDGPUs
     IN  Finds("data", If(e \in gpus, e), "rocr")

\* Mutant: a split's key is not looked up.
RocrOfUUID ==
  /\ request.pc = "rocr" /\ Ready
  /\ LET e == CASE id.form = "uuid" -> id.of
                [] id.form = "slot" -> topologyKeyOfSlot
                [] OTHER            -> NoEntry
     IN  Finds("rocr", If((IsXcp(e) /\ id.form = "uuid") \/ e \in registered, e), "cus")
\* An XCP partition's id is its ROCr UUID.
rocrUUIDFromAllocationUUID ==
  /\ request.pc = "rocr" /\ Ready
  /\ LET e == IF id.form = "slot" THEN topologyKeyOfSlot ELSE id.of
         ids == IF id.form = "slot" THEN request.seen ELSE registered
     IN  Finds("rocr", If((IsXcp(e) /\ id.form = "uuid") \/ e \in ids, e), "cus")

\* Mutant: slots of other schedulers find their device, too.
LookupAny(i) ==
  LET at == {e \in registered : Position(e) = i.slot \div Slots}
  IN  IF i.form = "slot" THEN IF at = {} THEN NoEntry ELSE CHOOSE e \in at : TRUE
      ELSE If(i.of \in registered, i.of)
\* By UUID, or the first device at the PCI address a split names.
lookupDevice(i) ==
  LET at == {e \in registered : e[1] = i.of[1]}
  IN  CASE i.form = "uuid"                     -> If(i.of \in registered, i.of)
        [] i.form = "split" /\ ~IsXcp(i.of) /\ at # {} ->
             CHOOSE e \in at : \A d \in at : d = e \/ Before(e, d)
        [] OTHER                               -> NoEntry

getDeviceTotalCUs == request.pc = "cus" /\ Finds("cus", lookupDevice(id), "replied")

Answered ==
  /\ request.pc \in {"replied", "refused"} /\ request' = NoRequest
  /\ found' = NotFound /\ lost' = FALSE
  /\ UNCHANGED <<hardware, published, finds>>

LookupInit ==
  /\ Kind \in Kinds /\ opMode \in {"cu", "partition"} /\ moves = 0 /\ there = GPUNumbers
  /\ divided \in SUBSET {g \in GPUNumbers : Kind[g] # "plain"} /\ unnamed \in SUBSET GPUNumbers
  /\ AMDGPUs = Entries /\ registered = Registrable(Entries)
  /\ scanned = Unread /\ listed = Unread
  /\ request = NoRequest /\ found = NotFound /\ lost = FALSE

LookupNext ==
  \/ \E g \in GPUNumbers : GPUGoes(g) \/ Repartition(g)
  \/ Discover \/ publish \/ FindGPUs \/ ListAndWatch \/ Allocate
  \/ See \/ gpuIndexOfSlot \/ deviceDataFromAllocationUUID \/ rocrUUIDFromAllocationUUID
  \/ getDeviceTotalCUs \/ Answered

LookupSpec == LookupInit /\ [][LookupNext]_lookupVars

-------------------------------------------------------------------------------
(* Properties                                                              *)

\* What a container is given for an id belongs to one GPU: its DRM nodes, its ROCr UUID and
\* its CU count, although the maps may be replaced between the lookups, GPUs come and go
\* and are divided.
OneGPUPerId ==
  request.pc = "replied" =>
    /\ found.data = found.rocr /\ found.rocr = found.cus
    /\ id.form \in {"uuid", "split"} => found.data = id.of

\* An id is refused only if its GPU was not published all along, though every map may be
\* replaced during the call.  Ids no device is ever found by are left out, see Named:
\* kubelet's ids of hard devices and of splits of XCP partitions, and slots, which have
\* data and a ROCr UUID but no CU count.
StayingIsServed == request.pc = "refused" /\ ~lost => ~Named(id)

===============================================================================
