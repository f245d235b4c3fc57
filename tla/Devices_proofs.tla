----------------------------- MODULE Devices_proofs ----------------------------
(***************************************************************************)
(* Of DeviceLookup, for any node, any number of slots and changes: what an *)
(* id leads to is one GPU, and an id is refused only if its GPU was not    *)
(* published all along.  Of PreferredAllocation, for any node and request: *)
(* the search builds every set with at most one GPU in part, once; the     *)
(* reply is as many of the devices named as kubelet asked for, none that   *)
(* the search builds is better, and, where GPUs are not divided, none is   *)
(* closer, and a request that fits a GPU leaves the larger free ones whole.*)
(***************************************************************************)
EXTENDS DeviceLookup, PreferredAllocation, CuBitmap_proofs

\* Entries a discovery can have found at some time: only GPUs that can change their
\* partition, or are divided for good, have XCP partitions.
Findable(e) ==
  \E g \in GPUNumbers, k \in Nat : e = <<g, k>> /\ (k > 0 => Kind[g] = "capable" \/ g \in divided)

Records ==
  /\ request = [pc |-> request.pc, id |-> request.id, seen |-> request.seen, slotOf |-> request.slotOf]
  /\ found = [data |-> found.data, rocr |-> found.rocr, cus |-> found.cus]
  /\ lost \in BOOLEAN

\* What a discovery can have found: with a GPU that cannot change, its partitions.
Discovered(S) ==
  \A e \in S :
    /\ Findable(e)
    /\ ~IsXcp(e) /\ Kind[e[1]] # "capable" /\ e[1] \in divided => <<e[1], 1>> \in S

\* What is published and what will be.
MapsInv ==
  /\ 0 \notin GPUNumbers /\ opMode \in {"cu", "partition"} /\ there \subseteq GPUNumbers
  /\ Discovered(AMDGPUs)
  /\ \A e \in registered : Findable(e) /\ (IsXcp(e) => opMode = "partition")
  /\ scanned # Unread => Discovered(scanned)
  /\ listed # Unread => Discovered(listed)

\* A GPU that kubelet knows by a split has no XCP partitions that are registered.
Undivided(e) ==
  \E g \in GPUNumbers : e = <<g, 0>> /\ (opMode = "cu" \/ (Kind[g] # "capable" /\ g \notin divided))
IdInv ==
  /\ request.pc # "idle" /\ Named(id) => Findable(id.of)
  /\ request.pc # "idle" /\ id.form = "split" /\ ~IsXcp(id.of) => Undivided(id.of)

ByName == id.form \in {"uuid", "split"}
AnswersInv ==
  /\ request.pc \in {"rocr", "cus", "replied"} => id.form # "hard" /\ (ByName => found.data = id.of)
  /\ request.pc \in {"cus", "replied"} => (ByName => found.rocr = id.of)
  /\ request.pc = "replied" => ByName /\ found.cus = id.of

StaysInv ==
  /\ request.pc \in {"data", "rocr", "cus"} /\ ~lost /\ Named(id) => id.of \in AMDGPUs \cap registered
  /\ StayingIsServed

LookupInv == Records /\ MapsInv /\ IdInv /\ AnswersInv /\ StaysInv

-------------------------------------------------------------------------------
(* Entries and ids                                                         *)

LEMMA FindableIsNoRefusal == ASSUME MapsInv, NEW e, Findable(e) PROVE e # NoEntry
  BY DEF MapsInv, Findable, NoEntry

LEMMA EntriesAreDiscovered ==
  ASSUME there \subseteq GPUNumbers PROVE Discovered(Entries)
<1>1. ASSUME NEW e \in Entries PROVE Findable(e)
  BY <1>1, LookupAssumption DEF Entries, EntriesOf, Findable
<1>2. ASSUME NEW e \in Entries, ~IsXcp(e), e[1] \in divided PROVE <<e[1], 1>> \in Entries
  <2>1. PICK g \in there : e \in EntriesOf(g)
    BY DEF Entries
  <2>2. e[1] = g /\ 1 \in 0 .. Xcps
    BY <2>1, LookupAssumption DEF EntriesOf
  <2> QED BY <1>2, <2>1, <2>2 DEF Entries, EntriesOf
<1> QED BY <1>1, <1>2 DEF Discovered

LEMMA RegistrableEntries ==
  ASSUME NEW S, Discovered(S)
  PROVE  \A e \in Registrable(S) : Findable(e) /\ (IsXcp(e) => opMode = "partition")
  BY DEF Registrable, isSchedulableTopologyKey, Discovered

\* A split leads to the GPU it names.
LEMMA SplitFindsItsGPU ==
  ASSUME MapsInv, NEW i, i.form = "split", ~IsXcp(i.of), Undivided(i.of)
  PROVE  /\ lookupDevice(i) \in {i.of, NoEntry}
         /\ i.of \in registered => lookupDevice(i) = i.of
<1> DEFINE at == {e \in registered : e[1] = i.of[1]}
<1>1. PICK g \in GPUNumbers : i.of = <<g, 0>> /\ (opMode = "cu" \/ (Kind[g] # "capable" /\ g \notin divided))
  BY DEF Undivided
<1>2. ASSUME NEW e \in at PROVE e = i.of
  <2>1. PICK h \in GPUNumbers, k \in Nat : e = <<h, k>> /\ (k > 0 => Kind[h] = "capable" \/ h \in divided)
    BY DEF MapsInv, Discovered, Findable
  <2>2. h = g
    BY <1>1, <2>1
  <2>3. k > 0 => opMode = "partition"
    BY <2>1 DEF MapsInv, IsXcp
  <2> QED BY <1>1, <2>1, <2>2, <2>3
<1>3. lookupDevice(i) = IF at # {} THEN CHOOSE e \in at : \A d \in at : d = e \/ Before(e, d) ELSE NoEntry
  BY DEF lookupDevice
<1>4. ASSUME at # {} PROVE lookupDevice(i) = i.of
  <2>1. i.of \in at /\ \A d \in at : d = i.of \/ Before(i.of, d)
    BY <1>2, <1>4
  <2>2. (CHOOSE e \in at : \A d \in at : d = e \/ Before(e, d)) \in at
    BY <2>1
  <2> QED BY <1>2, <1>3, <1>4, <2>2
<1>5. i.of \in registered => at # {}
  OBVIOUS
<1> QED BY <1>3, <1>4, <1>5

\* kubelet names by a split only what is not divided.
LEMMA SplitsAreUndivided ==
  ASSUME MapsInv, NEW e \in AMDGPUs, isSchedulableTopologyKey(e, AMDGPUs), ~IsHard(e), ~IsXcp(e)
  PROVE  Undivided(e)
<1>1. PICK g \in GPUNumbers, k \in Nat : e = <<g, k>>
  BY DEF MapsInv, Discovered, Findable
<1>2. e = <<g, 0>>
  BY <1>1 DEF IsXcp
<1>3. CASE opMode = "cu"
  BY <1>2, <1>3 DEF Undivided
<1>4. CASE opMode = "partition"
  <2>1. Kind[g] # "capable"
    BY <1>2, <1>4 DEF IsHard
  <2>2. <<g, 1>> \notin AMDGPUs
    BY <1>2, <1>4 DEF isSchedulableTopologyKey, xcpParents, IsXcp
  <2>3. g \notin divided
    BY <1>2, <2>1, <2>2 DEF MapsInv, Discovered
  <2> QED BY <1>2, <2>1, <2>3 DEF Undivided
<1> QED BY <1>3, <1>4 DEF MapsInv

-------------------------------------------------------------------------------
(* Every step keeps the invariant                                          *)

LEMMA LookupInitKeeps == ASSUME LookupInit PROVE LookupInv
<1>1. 0 \notin GPUNumbers /\ there \subseteq GPUNumbers /\ opMode \in {"cu", "partition"}
  BY LookupAssumption DEF LookupInit, GPUNumbers
<1>2. Discovered(AMDGPUs)
  BY <1>1, EntriesAreDiscovered DEF LookupInit
<1>3. MapsInv
  BY <1>1, <1>2, RegistrableEntries DEF LookupInit, MapsInv
<1> QED BY <1>3 DEF LookupInit, LookupInv, Records, IdInv, AnswersInv, StaysInv, StayingIsServed, NoRequest,
           NotFound, slot, Named, id, ByName

\* What a change of the hardware leaves of the entries that were found before.
LEMMA HardwareKeeps ==
  ASSUME LookupInv, UNCHANGED <<opMode, Kind, unnamed, published, finds, request, found, lost>>,
         there' \subseteq GPUNumbers,
         \A g \in GPUNumbers : Kind[g] = "capable" \/ (g \in divided' <=> g \in divided)
  PROVE  LookupInv'
<1> USE DEF LookupInv, published, finds
<1>1. \A e : Findable(e)' <=> Findable(e)
  BY DEF Findable, GPUNumbers
<1>2. \A e : Findable(e) => e[1] \in GPUNumbers
  BY DEF Findable
<1>3. \A S : Discovered(S) => Discovered(S)'
  BY <1>1, <1>2 DEF Discovered, IsXcp
<1>4. MapsInv'
  BY <1>1, <1>3 DEF MapsInv, GPUNumbers, IsXcp
<1>5. \A e : Undivided(e)' <=> Undivided(e)
  BY DEF Undivided, GPUNumbers
<1>6. IdInv'
  BY <1>1, <1>5 DEF IdInv, id, Named, IsXcp
<1> QED BY <1>4, <1>6 DEF Records, AnswersInv, StaysInv, StayingIsServed, id, Named, IsXcp, ByName


\* What a replaced map leaves of the call.
LEMMA MapsReplaced ==
  ASSUME LookupInv, UNCHANGED <<hardware, request, found>>, MapsInv',
         Missing(AMDGPUs', registered') \/ UNCHANGED <<published, lost>>
  PROVE  LookupInv'
<1> USE DEF LookupInv, hardware, published
<1>1. IdInv'
  BY DEF IdInv, id, Named, IsXcp, Findable, Undivided, GPUNumbers
<1>2. lost' \in BOOLEAN /\ (lost => lost')
  BY DEF Missing, Records
<1>3. ~lost' /\ Named(id) /\ id.of \in AMDGPUs \cap registered => id.of \in AMDGPUs' \cap registered'
  BY DEF Missing, id
<1>4. StaysInv'
  BY <1>2, <1>3 DEF StaysInv, StayingIsServed, Records, id, Named, IsXcp
<1>5. Records' /\ AnswersInv'
  BY <1>2 DEF Records, AnswersInv, id, ByName
<1> QED BY <1>1, <1>4, <1>5

LEMMA DiscoveryKeeps ==
  ASSUME LookupInv,
         (\E g \in GPUNumbers : GPUGoes(g) \/ Repartition(g))
           \/ Discover \/ publish \/ FindGPUs \/ ListAndWatch
  PROVE  LookupInv'
<1> USE DEF LookupInv
<1>1. ASSUME NEW g \in GPUNumbers, GPUGoes(g) PROVE LookupInv'
  <2>1. there' \subseteq GPUNumbers
    BY <1>1 DEF GPUGoes, MapsInv
  <2> QED BY <1>1, <2>1, HardwareKeeps DEF GPUGoes
<1>2. ASSUME NEW g \in GPUNumbers, Repartition(g) PROVE LookupInv'
  <2>1. there' \subseteq GPUNumbers
    BY <1>2 DEF Repartition, MapsInv
  <2>2. \A h \in GPUNumbers : Kind[h] = "capable" \/ (h \in divided' <=> h \in divided)
    BY <1>2 DEF Repartition
  <2> QED BY <1>2, <2>1, <2>2, HardwareKeeps DEF Repartition
\* With the same hardware, entries are what they were.
<1>3. ASSUME UNCHANGED hardware,
             Discovered(AMDGPUs'), \A e \in registered' : Findable(e) /\ (IsXcp(e) => opMode = "partition"),
             scanned' # Unread => Discovered(scanned'), listed' # Unread => Discovered(listed')
      PROVE  MapsInv'
  <2>1. GPUNumbers' = GPUNumbers
    BY <1>3 DEF GPUNumbers, hardware
  <2>2. \A e : Findable(e)' <=> Findable(e)
    BY <1>3, <2>1 DEF Findable, hardware
  <2>3. Discovered(AMDGPUs)' /\ (scanned' # Unread => Discovered(scanned)') /\ (listed' # Unread => Discovered(listed)')
    BY <1>3, <2>2 DEF Discovered, IsXcp, hardware
  <2>4. \A e \in registered' : Findable(e)' /\ (IsXcp(e) => opMode' = "partition")
    BY <1>3, <2>2 DEF hardware
  <2> QED BY <1>3, <2>1, <2>3, <2>4 DEF MapsInv, hardware, IsXcp
<1>4. Discovered(Entries)
  BY EntriesAreDiscovered DEF MapsInv
<1>5. CASE Discover
  BY <1>3, <1>4, <1>5, MapsReplaced DEF Discover, MapsInv, published, hardware
<1>6. CASE publish
  <2>1. Discovered(scanned)
    BY <1>6 DEF publish, MapsInv
  <2> QED BY <1>3, <1>6, <2>1, RegistrableEntries, MapsReplaced DEF publish, MapsInv
<1>7. CASE FindGPUs
  BY <1>3, <1>4, <1>7, MapsReplaced DEF FindGPUs, MapsInv, published, hardware
<1>8. CASE ListAndWatch
  BY <1>3, <1>8, MapsReplaced DEF ListAndWatch, MapsInv
<1> QED BY <1>1, <1>2, <1>5, <1>6, <1>7, <1>8

\* Steps of the call leave the maps.
LEMMA MapsStay == ASSUME MapsInv, UNCHANGED <<hardware, published, finds>> PROVE MapsInv'
  BY DEF MapsInv, hardware, published, finds, GPUNumbers, Discovered, Findable, IsXcp

LEMMA AllocateKeeps == ASSUME LookupInv, Allocate PROVE LookupInv'
<1> USE DEF LookupInv
<1>1. MapsInv'
  BY MapsStay DEF Allocate
<1>2. PICK i \in {uuid(e) : e \in registered} \cup kubeletIDs(AMDGPUs)
               \cup {slot(n) : n \in 0 .. Slots * Cardinality(registered) - 1} :
        /\ request' = [NoRequest EXCEPT !.pc = "data", !.id = i]
        /\ lost' = (Named(i) /\ i.of \notin AMDGPUs \cap registered)
  BY DEF Allocate
<1>3. request' = [pc |-> "data", id |-> i, seen |-> {}, slotOf |-> "unread"]
  BY <1>2 DEF NoRequest
<1>4. /\ Named(i) => Findable(i.of)
      /\ i.form = "split" /\ ~IsXcp(i.of) => Undivided(i.of)
  <2>1. CASE \E e \in registered : i = uuid(e)
    BY <2>1 DEF uuid, MapsInv
  <2>2. CASE i \in kubeletIDs(AMDGPUs)
    <3>1. PICK e \in AMDGPUs : isSchedulableTopologyKey(e, AMDGPUs) /\ i = IF IsHard(e) THEN hard(e) ELSE split(e)
      BY <2>2 DEF kubeletIDs
    <3>2. i.form = "split" => i.of = e /\ ~IsHard(e)
      BY <3>1 DEF hard, split
    <3>3. i.form # "uuid" /\ Findable(e)
      BY <3>1 DEF hard, split, MapsInv, Discovered
    <3> QED BY <3>1, <3>2, <3>3, SplitsAreUndivided DEF Named
  <2>3. CASE \E n : i = slot(n)
    BY <2>3 DEF slot, Named
  <2> QED BY <1>2, <2>1, <2>2, <2>3
<1>5. IdInv'
  BY <1>3, <1>4 DEF IdInv, id, Named, IsXcp, Findable, Undivided, GPUNumbers, Allocate, hardware
<1>6. Records'
  BY <1>2, <1>3 DEF Records, Allocate
<1>7. AnswersInv'
  BY <1>3 DEF AnswersInv, StayingIsServed, id
<1>8. StaysInv'
  BY <1>2, <1>3 DEF StaysInv, StayingIsServed, id, Named, IsXcp, Allocate, published
<1> QED BY <1>1, <1>5, <1>6, <1>7, <1>8

\* A lookup leaves the id and the maps, and a refusal ends the call.
LEMMA FindsKeeps ==
  ASSUME LookupInv, UNCHANGED <<hardware, published, finds, lost>>,
         NEW pc, request' = [request EXCEPT !.pc = pc, !.seen = {}, !.slotOf = "unread"],
         NEW field \in {"data", "rocr", "cus"}, NEW e, found' = [found EXCEPT ![field] = e],
         pc # "refused" => pc \in {"rocr", "cus", "replied"},
         request.pc \in {"data", "rocr", "cus"},
         AnswersInv', pc = "refused" /\ ~lost => ~Named(id)
  PROVE  LookupInv'
<1> USE DEF LookupInv
<1>1. request' = [pc |-> pc, id |-> id, seen |-> {}, slotOf |-> "unread"]
  BY DEF Records, id
<1>2. MapsInv'
  BY MapsStay
<1>3. IdInv'
  BY <1>1 DEF IdInv, id, Named, IsXcp, Findable, Undivided, GPUNumbers, hardware
<1>4. Records'
  BY <1>1 DEF Records
<1>5. StaysInv'
  BY <1>1 DEF StaysInv, StayingIsServed, id, Named, IsXcp, published
<1> QED BY <1>2, <1>3, <1>4, <1>5

LEMMA DataKeeps == ASSUME LookupInv, deviceDataFromAllocationUUID PROVE LookupInv'
<1> USE DEF LookupInv
<1> DEFINE of == CASE id.form = "uuid"  -> If(id.of \in registered, id.of)
                   [] id.form = "split" -> id.of
                   [] id.form = "hard"  -> NoEntry
                   [] id.form = "slot"  -> topologyKeyOfSlot
           gpus == IF id.form = "slot" THEN request.seen ELSE AMDGPUs
           e == If(of \in gpus, of)
           pc == IF e = NoEntry THEN "refused" ELSE "rocr"
<1>1. request.pc = "data" /\ Finds("data", e, "rocr")
  BY DEF deviceDataFromAllocationUUID
<1>2. id.form = "hard" => e = NoEntry
  BY DEF If
<1>3. ByName /\ e # NoEntry => e = id.of
  BY DEF If, ByName
<1>4. Named(id) /\ ~lost => e # NoEntry
  <2>1. ASSUME Named(id), ~lost PROVE id.of \in AMDGPUs \cap registered /\ id.of # NoEntry
    BY <1>1, <2>1, FindableIsNoRefusal DEF StaysInv, MapsInv
  <2> QED BY <2>1 DEF Named, If
<1> HIDE DEF e
<1>5. /\ request' = [request EXCEPT !.pc = pc, !.seen = {}, !.slotOf = "unread"]
      /\ found' = [found EXCEPT !["data"] = e]
      /\ UNCHANGED <<hardware, published, finds, lost>>
  BY <1>1 DEF Finds
<1>6. request'.pc = pc /\ id' = id /\ found'.data = e
  BY <1>5 DEF Records, id
<1>7. AnswersInv'
  BY <1>2, <1>3, <1>6 DEF AnswersInv, ByName
<1>8. pc \in {"refused", "rocr"} /\ (pc = "refused" /\ ~lost => ~Named(id))
  BY <1>4
<1> HIDE DEF pc
<1> QED BY <1>1, <1>5, <1>7, <1>8, FindsKeeps

LEMMA RocrKeeps == ASSUME LookupInv, rocrUUIDFromAllocationUUID PROVE LookupInv'
<1> USE DEF LookupInv
<1> DEFINE of == IF id.form = "slot" THEN topologyKeyOfSlot ELSE id.of
           ids == IF id.form = "slot" THEN request.seen ELSE registered
           e == If((IsXcp(of) /\ id.form = "uuid") \/ of \in ids, of)
           pc == IF e = NoEntry THEN "refused" ELSE "cus"
<1>1. request.pc = "rocr" /\ Finds("rocr", e, "cus")
  BY DEF rocrUUIDFromAllocationUUID
<1>2. ByName /\ e # NoEntry => e = id.of
  BY DEF If, ByName
<1>3. Named(id) /\ ~lost => e # NoEntry
  <2>1. ASSUME Named(id), ~lost PROVE id.of \in AMDGPUs \cap registered /\ id.of # NoEntry
    BY <1>1, <2>1, FindableIsNoRefusal DEF StaysInv, MapsInv
  <2> QED BY <2>1 DEF Named, If
<1> HIDE DEF e
<1>4. /\ request' = [request EXCEPT !.pc = pc, !.seen = {}, !.slotOf = "unread"]
      /\ found' = [found EXCEPT !["rocr"] = e]
      /\ UNCHANGED <<hardware, published, finds, lost>>
  BY <1>1 DEF Finds
<1>5. request'.pc = pc /\ id' = id /\ found'.rocr = e /\ found'.data = found.data
  BY <1>4 DEF Records, id
<1>6. AnswersInv'
  BY <1>1, <1>2, <1>5 DEF AnswersInv, ByName
<1>7. pc \in {"refused", "cus"} /\ (pc = "refused" /\ ~lost => ~Named(id))
  BY <1>3
<1> HIDE DEF pc
<1> QED BY <1>1, <1>4, <1>6, <1>7, FindsKeeps

LEMMA CUsKeep == ASSUME LookupInv, getDeviceTotalCUs PROVE LookupInv'
<1> USE DEF LookupInv
<1> DEFINE e == lookupDevice(id)
           pc == IF e = NoEntry THEN "refused" ELSE "replied"
<1>1. request.pc = "cus" /\ Finds("cus", e, "replied")
  BY DEF getDeviceTotalCUs
<1>2. id.form = "split" /\ ~IsXcp(id.of) =>
        e \in {id.of, NoEntry} /\ (id.of \in registered => e = id.of)
  BY <1>1, SplitFindsItsGPU DEF IdInv
<1>3. e # NoEntry => ByName /\ e = id.of
  <2>1. CASE id.form = "uuid"
    BY <2>1 DEF lookupDevice, If, ByName
  <2>2. CASE id.form = "split" /\ ~IsXcp(id.of)
    BY <1>2, <2>2 DEF ByName
  <2>3. CASE id.form # "uuid" /\ ~(id.form = "split" /\ ~IsXcp(id.of))
    BY <2>3 DEF lookupDevice
  <2> QED BY <2>1, <2>2, <2>3
<1>4. Named(id) /\ ~lost => e # NoEntry
  <2>1. ASSUME Named(id), ~lost PROVE id.of \in registered /\ id.of # NoEntry
    BY <1>1, <2>1, FindableIsNoRefusal DEF StaysInv, MapsInv
  <2>2. ASSUME id.form = "uuid", id.of \in registered PROVE e = id.of
    BY <2>2 DEF lookupDevice, If
  <2> QED BY <1>2, <2>1, <2>2 DEF Named
<1> HIDE DEF e
<1>5. /\ request' = [request EXCEPT !.pc = pc, !.seen = {}, !.slotOf = "unread"]
      /\ found' = [found EXCEPT !["cus"] = e]
      /\ UNCHANGED <<hardware, published, finds, lost>>
  BY <1>1 DEF Finds
<1>6. request'.pc = pc /\ id' = id /\ found'.cus = e /\ UNCHANGED <<found.data, found.rocr>>
  BY <1>5 DEF Records, id
<1>7. AnswersInv'
  BY <1>1, <1>3, <1>6 DEF AnswersInv, ByName
<1>8. pc \in {"refused", "replied"} /\ (pc = "refused" /\ ~lost => ~Named(id))
  BY <1>4
<1> HIDE DEF pc
<1> QED BY <1>1, <1>5, <1>7, <1>8, FindsKeeps

\* Looks at a slot change neither id nor answers.
LEMMA SlotLooksKeep == ASSUME LookupInv, See \/ gpuIndexOfSlot PROVE LookupInv'
<1> USE DEF LookupInv
<1>1. request' = [pc |-> request.pc, id |-> id, seen |-> request'.seen, slotOf |-> request'.slotOf]
  BY DEF See, gpuIndexOfSlot, Records, id
<1>2. UNCHANGED <<hardware, published, finds, found, lost>>
  BY DEF See, gpuIndexOfSlot, SlotSteps
<1>3. MapsInv'
  BY <1>2, MapsStay
<1>4. IdInv'
  BY <1>1, <1>2 DEF IdInv, id, Named, IsXcp, Findable, Undivided, GPUNumbers, hardware
<1> QED BY <1>1, <1>2, <1>3, <1>4 DEF Records, AnswersInv, StaysInv, StayingIsServed, id, Named, IsXcp,
                                     ByName, published

LEMMA AnsweredKeeps == ASSUME LookupInv, Answered PROVE LookupInv'
<1>1. MapsInv'
  BY MapsStay DEF LookupInv, Answered
<1> QED BY <1>1 DEF LookupInv, Answered, Records, IdInv, AnswersInv, StaysInv, StayingIsServed, NoRequest,
                    NotFound, slot, Named, id, ByName

LEMMA LookupInductive == LookupSpec => []LookupInv
<1>1. LookupInv /\ [LookupNext]_lookupVars => LookupInv'
  <2>1. LookupInv /\ UNCHANGED lookupVars => LookupInv'
    <3> SUFFICES ASSUME LookupInv, UNCHANGED lookupVars PROVE LookupInv'
      OBVIOUS
    <3>1. MapsInv'
      BY MapsStay DEF LookupInv, lookupVars, hardware, published, finds
    <3> QED BY <3>1 DEF LookupInv, lookupVars, Records, IdInv, AnswersInv, StaysInv, StayingIsServed, Named,
                        id, ByName, IsXcp, Findable, Undivided, GPUNumbers
  <2> QED BY <2>1, DiscoveryKeeps, AllocateKeeps, DataKeeps, RocrKeeps, CUsKeep, SlotLooksKeep, AnsweredKeeps
          DEF LookupNext
<1> QED BY <1>1, LookupInitKeeps, PTL DEF LookupSpec

-------------------------------------------------------------------------------

\* What a container is given for an id belongs to one GPU, on any node.
THEOREM IdMeansOneGPU == LookupSpec => []OneGPUPerId
<1>1. LookupInv => OneGPUPerId
  BY DEF LookupInv, AnswersInv, OneGPUPerId, ByName
<1> QED BY <1>1, LookupInductive, PTL

\* An id by which devices are found is refused only if its GPU was unpublished meanwhile.
THEOREM StayingServed == LookupSpec => []StayingIsServed
<1>1. LookupInv => StayingIsServed
  BY DEF LookupInv, StaysInv
<1> QED BY <1>1, LookupInductive, PTL

-------------------------------------------------------------------------------
(* GetPreferredAllocation replies with what kubelet asked for              *)

\* The first m numbers.
LEMMA FirstNumbers == ASSUME NEW m \in Nat PROVE IsFiniteSet(1 .. m) /\ Cardinality(1 .. m) = m
<1>1. IsFiniteSet(1 .. m) /\ Cardinality(1 .. m) = IF 1 > m THEN 0 ELSE m - 1 + 1
  BY FS_Interval
<1> QED BY <1>1

\* Finitely many numbers and finitely many of each.
LEMMA PairsFinite ==
  ASSUME NEW I, IsFiniteSet(I), NEW x \in [I -> Nat]
  PROVE  IsFiniteSet(UNION {{i} \X (1 .. x[i]) : i \in I})
<1> DEFINE B(i) == {i} \X (1 .. x[i])
           S == {B(i) : i \in I}
           f == [i \in I |-> B(i)]
<1>1. ASSUME NEW i \in I PROVE IsFiniteSet(B(i))
  <2>1. PICK m \in Nat : m = x[i]
    OBVIOUS
  <2>2. IsFiniteSet(1 .. m)
    BY FS_Interval
  <2> QED BY <2>1, <2>2, FS_Singleton, FS_Product
<1> HIDE DEF B
<1>2. f \in Surjection(I, S)
  <2>1. f \in [I -> S] /\ \A s \in S : \E i \in I : f[i] = s
    OBVIOUS
  <2> QED BY <2>1, Fun_IsSurj
<1>3. IsFiniteSet(S) /\ \A s \in S : IsFiniteSet(s)
  BY <1>1, <1>2, FS_Surjection
<1>4. IsFiniteSet(UNION S)
  BY <1>3, FS_UNION
<1> QED BY <1>4 DEF B

\* A node has finitely many devices.
LEMMA DevicesFinite == ASSUME NEW t \in Topologies PROVE IsFiniteSet(Devices(t))
<1>1. IsFiniteSet(DOMAIN t.slots) /\ t.slots \in [DOMAIN t.slots -> Nat]
  <2>1. t.slots \in Seq(Nat)
    BY TopologiesAssumption
  <2>2. PICK m \in Nat : DOMAIN t.slots = 1 .. m
    BY <2>1
  <2>3. IsFiniteSet(1 .. m)
    BY FirstNumbers
  <2> QED BY <2>1, <2>2, <2>3
<1>2. Devices(t) = UNION {{n} \X (1 .. t.slots[n]) : n \in DOMAIN t.slots}
  BY DEF Devices
<1> QED BY <1>1, <1>2, PairsFinite

-------------------------------------------------------------------------------
(* The devices of a node and of a GPU                                      *)

\* Of finitely many devices, those of one node, of the nodes below it and of both.
LEMMA Counts ==
  ASSUME NEW S, IsFiniteSet(S), NEW n
  PROVE  Count(S, n) \in Nat /\ Below(S, n) \in Nat
<1>1. {d \in S : d[1] = n} \in SUBSET S /\ {d \in S : d[1] < n} \in SUBSET S
  OBVIOUS
<1> QED BY <1>1, FS_Subset, FS_CardinalityType DEF Count, Below

LEMMA BelowNext ==
  ASSUME NEW S, IsFiniteSet(S), \A d \in S : d[1] \in Nat, NEW n \in Nat
  PROVE  Below(S, n + 1) = Below(S, n) + Count(S, n)
<1> DEFINE A == {d \in S : d[1] < n}
           B == {d \in S : d[1] = n}
           C == {d \in S : d[1] < n + 1}
<1>1. C = A \cup B /\ A \cap B = {}
  OBVIOUS
<1>2. IsFiniteSet(A) /\ IsFiniteSet(B)
  <2>1. A \in SUBSET S /\ B \in SUBSET S
    OBVIOUS
  <2> QED BY <2>1, FS_Subset
<1> HIDE DEF A, B, C
<1>3. Cardinality(C) = Cardinality(A) + Cardinality(B) - Cardinality(A \cap B)
  BY <1>1, <1>2, FS_Union
<1>4. Cardinality(A \cap B) = 0 /\ Cardinality(A) \in Nat /\ Cardinality(B) \in Nat
  BY <1>1, <1>2, FS_EmptySet, FS_CardinalityType
<1>5. Cardinality(C) = Cardinality(A) + Cardinality(B)
  BY <1>3, <1>4
<1> QED BY <1>5 DEF A, B, C, Below, Count

\* Every place in the list of NodeIds has its node.
LEMMA NodeAt ==
  ASSUME topo \in Topologies, NEW S, IsFiniteSet(S), \A d \in S : d[1] \in Nodes,
         NEW k \in 1 .. Cardinality(S)
  PROVE  \E n \in Nodes : Below(S, n) < k /\ k <= Below(S, n) + Count(S, n)
<1>1. PICK m \in Nat : Nodes = 1 .. m
  BY TopologiesAssumption DEF Nodes
<1>2. \A d \in S : d[1] \in Nat
  BY <1>1
<1> DEFINE Q == {n \in Nat : k <= Below(S, n + 1)}
<1>3. m \in Q
  <2>1. {d \in S : d[1] < m + 1} = S
    BY <1>1
  <2> QED BY <2>1 DEF Below
<1>4. PICK n \in Q : \A j \in Q : n <= j
  BY <1>3, LeastNatural
<1>5. n <= m /\ n \in Nat /\ k <= Below(S, n + 1)
  BY <1>1, <1>3, <1>4
<1>6. n # 0
  <2>1. {d \in S : d[1] < 0 + 1} = {}
    BY <1>1
  <2>2. Below(S, 0 + 1) = 0
    BY <2>1, FS_EmptySet DEF Below
  <2> QED BY <1>5, <2>2
<1>7. n \in Nodes
  BY <1>1, <1>5, <1>6
<1>8. Below(S, n) < k
  <2>1. n - 1 \in Nat /\ n - 1 \notin Q /\ (n - 1) + 1 = n
    BY <1>4, <1>5, <1>6
  <2>2. ~(k <= Below(S, n))
    BY <2>1
  <2> QED BY <2>2, Counts
<1> QED BY <1>2, <1>5, <1>7, <1>8, BelowNext

\* The list of NodeIds has an entry for each device and no node more often than it has
\* devices; and only nodes of devices are in it.
LEMMA NodeIdsList ==
  ASSUME topo \in Topologies, NEW S, IsFiniteSet(S), \A d \in S : d[1] \in Nodes
  PROVE  /\ NodeIds(S) \in Seq(Nodes) /\ Len(NodeIds(S)) = Cardinality(S)
         /\ \A n : Times(NodeIds(S), n) \in Nat /\ Times(NodeIds(S), n) <= Count(S, n)
         /\ \A k \in DOMAIN NodeIds(S) : \E d \in S : NodeIds(S)[k] = d[1]
<1> DEFINE ids == NodeIds(S)
           At(k, n) == Below(S, n) < k /\ k <= Below(S, n) + Count(S, n)
<1>0. Cardinality(S) \in Nat
  BY FS_CardinalityType
<1>1. DOMAIN ids = 1 .. Cardinality(S)
  BY DEF NodeIds
<1>2. ASSUME NEW k \in 1 .. Cardinality(S) PROVE ids[k] \in Nodes /\ At(k, ids[k])
  <2>1. \E n \in Nodes : At(k, n)
    BY <1>2, NodeAt
  <2>2. ids[k] = CHOOSE n \in Nodes : At(k, n)
    BY <1>2 DEF NodeIds
  <2> QED BY <2>1, <2>2
<1>3. ids \in Seq(Nodes) /\ Len(ids) = Cardinality(S)
  <2>1. ids = [k \in 1 .. Cardinality(S) |-> ids[k]]
    BY DEF NodeIds
  <2> HIDE DEF ids, At
  <2> QED BY <1>0, <1>1, <1>2, <2>1
<1>4. ASSUME NEW n PROVE Times(ids, n) \in Nat /\ Times(ids, n) <= Count(S, n)
  <2> DEFINE K == {k \in DOMAIN ids : ids[k] = n}
             I == Below(S, n) + 1 .. Below(S, n) + Count(S, n)
  <2>1. K \in SUBSET I
    <3>1. ASSUME NEW k \in K PROVE k \in I
      <4>1. k \in 1 .. Cardinality(S) /\ At(k, n)
        BY <1>1, <1>2
      <4> QED BY <1>0, <4>1, Counts
    <3> QED BY <3>1
  <2>2. Below(S, n) \in Nat /\ Count(S, n) \in Nat
    BY Counts
  <2>3. IsFiniteSet(I) /\ Cardinality(I) = Count(S, n)
    <3>1. PICK a \in Int, b \in Int : a = Below(S, n) + 1 /\ b = Below(S, n) + Count(S, n)
      BY <2>2
    <3>2. IsFiniteSet(a .. b) /\ Cardinality(a .. b) = IF a > b THEN 0 ELSE b - a + 1
      BY FS_Interval
    <3> QED BY <2>2, <3>1, <3>2
  <2> HIDE DEF K, I
  <2>4. IsFiniteSet(K) /\ Cardinality(K) <= Count(S, n)
    BY <2>1, <2>3, FS_Subset
  <2> QED BY <2>4, FS_CardinalityType DEF K, Times
<1>5. ASSUME NEW k \in DOMAIN ids PROVE \E d \in S : ids[k] = d[1]
  <2>1. At(k, ids[k]) /\ k \in Nat
    BY <1>1, <1>2, <1>5
  <2>2. Count(S, ids[k]) # 0
    BY <2>1, Counts
  <2>3. {d \in S : d[1] = ids[k]} # {}
    BY <2>2, FS_EmptySet DEF Count
  <2> QED BY <2>3
<1> QED BY <1>3, <1>4, <1>5

\* The GPUs of finitely many devices, and the devices of one.
LEMMA GPUsFinite ==
  ASSUME topo \in Topologies, NEW S, IsFiniteSet(S), \A d \in S : d[1] \in Nodes
  PROVE  /\ IsFiniteSet(GPUsOf(S)) /\ GPUsOf(S) \in SUBSET Nat
         /\ \A g : IsFiniteSet(OfGPU(S, g)) /\ Cardinality(OfGPU(S, g)) \in Nat
         /\ \A g \in GPUsOf(S) : Cardinality(OfGPU(S, g)) > 0
<1> DEFINE f == [d \in S |-> topo.gpu[d[1]]]
<1>1. f \in Surjection(S, GPUsOf(S))
  <2>1. f \in [S -> GPUsOf(S)] /\ \A g \in GPUsOf(S) : \E d \in S : f[d] = g
    BY DEF GPUsOf
  <2> QED BY <2>1, Fun_IsSurj
<1>2. IsFiniteSet(GPUsOf(S))
  BY <1>1, FS_Surjection
<1>3. GPUsOf(S) \in SUBSET Nat
  <2>1. topo.gpu \in [Nodes -> Nat]
    BY TopologiesAssumption DEF Nodes
  <2> QED BY <2>1 DEF GPUsOf
<1>4. ASSUME NEW g PROVE IsFiniteSet(OfGPU(S, g)) /\ Cardinality(OfGPU(S, g)) \in Nat
  <2>1. OfGPU(S, g) \in SUBSET S
    BY DEF OfGPU
  <2> QED BY <2>1, FS_Subset, FS_CardinalityType
<1>5. ASSUME NEW g \in GPUsOf(S) PROVE Cardinality(OfGPU(S, g)) > 0
  <2>1. OfGPU(S, g) # {}
    BY DEF GPUsOf, OfGPU
  <2> QED BY <1>4, <2>1, FS_EmptySet
<1> QED BY <1>2, <1>3, <1>4, <1>5

\* The order of the GPUs gives each of them a rank of its own.
LEMMA Ranks ==
  ASSUME topo \in Topologies, NEW S, IsFiniteSet(S), \A d \in S : d[1] \in Nodes
  PROVE  LET G == GPUsOf(S)
             Rank(g) == Cardinality({h \in G : Fewer(S, h, g)}) + 1
         IN  /\ \A g \in G : Rank(g) \in 1 .. Cardinality(G)
             /\ \A i \in 1 .. Cardinality(G) : \E g \in G : Rank(g) = i
             /\ \A g, h \in G : /\ Rank(g) = Rank(h) => g = h
                                /\ Fewer(S, g, h) => Rank(g) < Rank(h)
<1> DEFINE G == GPUsOf(S)
           N == Cardinality(G)
           before(g) == {h \in G : Fewer(S, h, g)}
           r == [g \in G |-> Cardinality(before(g)) + 1]
<1>1. IsFiniteSet(G) /\ N \in Nat /\ G \in SUBSET Nat
  BY GPUsFinite, FS_CardinalityType
<1>2. ASSUME NEW g \in G, NEW h \in G, NEW j \in G
      PROVE  /\ ~Fewer(S, g, g) /\ (g # h => Fewer(S, g, h) \/ Fewer(S, h, g))
             /\ Fewer(S, g, h) /\ Fewer(S, h, j) => Fewer(S, g, j)
  <2>1. PICK a \in Nat, b \in Nat, c \in Nat :
          /\ a = Cardinality(OfGPU(S, g)) /\ b = Cardinality(OfGPU(S, h))
          /\ c = Cardinality(OfGPU(S, j))
    BY GPUsFinite
  <2>2. g \in Nat /\ h \in Nat /\ j \in Nat
    BY <1>1
  <2> QED BY <2>1, <2>2 DEF Fewer
<1>3. ASSUME NEW g \in G PROVE IsFiniteSet(before(g)) /\ Cardinality(before(g)) \in 0 .. N - 1
  <2>1. before(g) \in SUBSET G /\ g \notin before(g)
    BY <1>2
  <2>2. IsFiniteSet(before(g)) /\ Cardinality(before(g)) <= N /\ Cardinality(before(g)) # N
    BY <1>1, <2>1, FS_Subset
  <2> QED BY <1>1, <2>2, FS_CardinalityType
<1>4. ASSUME NEW g \in G PROVE r[g] = Cardinality(before(g)) + 1 /\ r[g] \in 1 .. N
  <2> DEFINE b == Cardinality(before(g))
  <2>1. r[g] = b + 1 /\ b \in 0 .. N - 1
    BY <1>3
  <2> HIDE DEF b, r
  <2> QED BY <1>1, <2>1 DEF b
<1>5. ASSUME NEW g \in G, NEW h \in G, Fewer(S, g, h) PROVE r[g] < r[h]
  <2>1. before(g) \in SUBSET before(h) /\ before(g) # before(h)
    BY <1>2, <1>5
  <2>2. Cardinality(before(g)) <= Cardinality(before(h)) /\ Cardinality(before(h)) # Cardinality(before(g))
    BY <1>3, <2>1, FS_Subset
  <2> DEFINE a == Cardinality(before(g))  b == Cardinality(before(h))
  <2>3. r[g] = a + 1 /\ r[h] = b + 1 /\ a <= b /\ a # b /\ a \in 0 .. N - 1 /\ b \in 0 .. N - 1
    BY <1>3, <1>4, <2>2
  <2> HIDE DEF a, b, r
  <2> QED BY <1>1, <2>3
<1>6. r \in Injection(G, 1 .. N)
  <2>1. \A g \in G : r[g] \in 1 .. N
    BY <1>4
  <2>2. \A g, h \in G : r[g] = r[h] => g = h
    <3>1. ASSUME NEW g \in G, NEW h \in G, r[g] = r[h] PROVE g = h
      <4>1. r[g] \in Int /\ r[h] \in Int
        BY <1>1, <2>1
      <4>2. ~(r[g] < r[h]) /\ ~(r[h] < r[g])
        BY <3>1, <4>1
      <4>3. ~Fewer(S, g, h) /\ ~Fewer(S, h, g)
        BY <1>5, <4>2
      <4> QED BY <1>2, <4>3
    <3> QED BY <3>1
  <2>3. r \in [G -> 1 .. N]
    BY <2>1
  <2> QED BY <2>2, <2>3, Fun_IsInj
<1>7. IsFiniteSet(1 .. N) /\ Cardinality(1 .. N) = N
  BY <1>1, FS_Interval
<1>8. r \in Surjection(G, 1 .. N)
  BY <1>6, <1>7, FS_Injection
<1>9. \A i \in 1 .. N : \E g \in G : r[g] = i
  BY <1>8 DEF Surjection
<1>10. \A g, h \in G : r[g] = r[h] => g = h
  BY <1>6 DEF Injection, IsInjective
<1> DEFINE Rank(g) == Cardinality(before(g)) + 1
<1>11. \A g \in G : r[g] = Rank(g) /\ r[g] \in 1 .. N
  BY <1>4
<1> HIDE DEF r, before, Rank, N, G
<1>12. /\ \A g \in G : Rank(g) \in 1 .. N
       /\ \A i \in 1 .. N : \E g \in G : Rank(g) = i
       /\ \A g, h \in G : (Rank(g) = Rank(h) => g = h) /\ (Fewer(S, g, h) => Rank(g) < Rank(h))
  BY <1>5, <1>9, <1>10, <1>11
<1> QED BY <1>12 DEF Rank, before, N, G

\* What filterPartitions makes of the devices in S: lists of NodeIds, none empty, each of
\* a GPU of its own and none with more of a node than there are.
Grouped(gs, S) ==
  /\ gs \in Seq(Seq(Nodes)) /\ \A i \in DOMAIN gs : gs[i] # <<>>
  /\ \A i \in DOMAIN gs, n \in Nodes : Times(gs[i], n) <= Count(S, n)
  /\ \A i, j \in DOMAIN gs : \A k \in DOMAIN gs[i], l \in DOMAIN gs[j] :
       topo.gpu[gs[i][k]] = topo.gpu[gs[j][l]] <=> i = j

LEMMA GroupsList ==
  ASSUME topo \in Topologies, NEW S, IsFiniteSet(S), \A d \in S : d[1] \in Nodes
  PROVE  Grouped(FilterPartitions(S), S)
<1> DEFINE G == GPUsOf(S)
           gs == FilterPartitions(S)
           Rank(g) == Cardinality({h \in G : Fewer(S, h, g)}) + 1
           at(i) == CHOOSE g \in G : Rank(g) = i
<1>1. DOMAIN gs = 1 .. Cardinality(G) /\ Cardinality(G) \in Nat
  BY GPUsFinite, FS_CardinalityType DEF FilterPartitions
<1>2. ASSUME NEW i \in DOMAIN gs PROVE at(i) \in G /\ Rank(at(i)) = i
  <2>1. \E g \in G : Rank(g) = i
    BY <1>1, Ranks
  <2> QED BY <2>1
<1>3. \A i \in DOMAIN gs : gs[i] = NodeIds(OfGPU(S, at(i)))
  BY <1>1 DEF FilterPartitions
<1>4. gs = [i \in 1 .. Cardinality(G) |-> gs[i]]
  BY <1>1 DEF FilterPartitions
<1> HIDE DEF at, gs, Rank
<1>5. ASSUME NEW i \in DOMAIN gs
      PROVE  /\ gs[i] \in Seq(Nodes) /\ gs[i] # <<>>
             /\ \A n \in Nodes : Times(gs[i], n) <= Count(S, n)
             /\ \A k \in DOMAIN gs[i] : topo.gpu[gs[i][k]] = at(i)
  <2> DEFINE O == OfGPU(S, at(i))
  <2>1. IsFiniteSet(O) /\ Cardinality(O) > 0 /\ O \in SUBSET S /\ \A d \in O : topo.gpu[d[1]] = at(i)
    BY <1>2, GPUsFinite DEF OfGPU
  <2>2. gs[i] = NodeIds(O)
    BY <1>3
  <2> HIDE DEF O
  <2>3. /\ gs[i] \in Seq(Nodes) /\ Len(gs[i]) = Cardinality(O)
        /\ \A n : Times(gs[i], n) \in Nat /\ Times(gs[i], n) <= Count(O, n)
        /\ \A k \in DOMAIN gs[i] : \E d \in O : gs[i][k] = d[1]
    BY <2>1, <2>2, NodeIdsList
  <2>4. ASSUME NEW n PROVE Count(O, n) \in Nat /\ Count(S, n) \in Nat /\ Count(O, n) <= Count(S, n)
    <3>1. {d \in O : d[1] = n} \in SUBSET {d \in S : d[1] = n} /\ {d \in S : d[1] = n} \in SUBSET S
      BY <2>1
    <3> QED BY <2>1, <3>1, Counts, FS_Subset DEF Count
  <2>5. \A n \in Nodes : Times(gs[i], n) <= Count(S, n)
    BY <2>3, <2>4
  <2>6. gs[i] # <<>>
    BY <2>1, <2>3
  <2> QED BY <2>1, <2>3, <2>5, <2>6
<1>6. gs \in Seq(Seq(Nodes))
  BY <1>1, <1>4, <1>5
<1>7. ASSUME NEW i \in DOMAIN gs, NEW j \in DOMAIN gs, NEW k \in DOMAIN gs[i], NEW l \in DOMAIN gs[j]
      PROVE  topo.gpu[gs[i][k]] = topo.gpu[gs[j][l]] <=> i = j
  <2>1. topo.gpu[gs[i][k]] = at(i) /\ topo.gpu[gs[j][l]] = at(j)
    BY <1>5, <1>7
  <2>2. at(i) = at(j) => i = j
    BY <1>2
  <2> QED BY <2>1, <2>2
<1> QED BY <1>5, <1>6, <1>7 DEF gs, Grouped

\* How often a NodeId is in a list, in the beginning of one and in two lists.
LEMMA TimesType ==
  ASSUME NEW T, NEW s \in Seq(T), NEW n PROVE Times(s, n) \in Nat
<1>1. DOMAIN s = 1 .. Len(s) /\ Len(s) \in Nat
  OBVIOUS
<1>2. {k \in DOMAIN s : s[k] = n} \in SUBSET (1 .. Len(s)) /\ IsFiniteSet(1 .. Len(s))
  BY <1>1, FS_Interval
<1> QED BY <1>2, FS_Subset, FS_CardinalityType DEF Times

LEMMA TimesBeginning ==
  ASSUME NEW T, NEW s \in Seq(T), NEW m \in 0 .. Len(s), NEW n
  PROVE  /\ SubSeq(s, 1, m) \in Seq(T) /\ Len(SubSeq(s, 1, m)) = m
         /\ \A k \in 1 .. m : SubSeq(s, 1, m)[k] = s[k]
         /\ Times(SubSeq(s, 1, m), n) <= Times(s, n)
<1> DEFINE t == SubSeq(s, 1, m)
<1>1. t \in Seq(T) /\ Len(t) = m /\ \A k \in 1 .. m : t[k] = s[k]
  OBVIOUS
<1> HIDE DEF t
<1>2. DOMAIN s = 1 .. Len(s) /\ DOMAIN t = 1 .. m /\ Len(s) \in Nat /\ m \in Nat
  BY <1>1
<1>3. {k \in DOMAIN t : t[k] = n} \in SUBSET {k \in DOMAIN s : s[k] = n}
  BY <1>1, <1>2
<1>4. IsFiniteSet({k \in DOMAIN s : s[k] = n})
  <2>1. {k \in DOMAIN s : s[k] = n} \in SUBSET (1 .. Len(s)) /\ IsFiniteSet(1 .. Len(s))
    BY <1>2, FS_Interval
  <2> QED BY <2>1, FS_Subset
<1>5. Times(t, n) <= Times(s, n)
  BY <1>3, <1>4, FS_Subset DEF Times
<1> QED BY <1>1, <1>5 DEF t

LEMMA JoinedLists ==
  ASSUME NEW T, NEW s \in Seq(T), NEW t \in Seq(T)
  PROVE  /\ s \o t \in Seq(T) /\ Len(s \o t) = Len(s) + Len(t)
         /\ DOMAIN (s \o t) = 1 .. Len(s) + Len(t)
         /\ \A k \in 1 .. Len(s) + Len(t) :
              (s \o t)[k] = IF k <= Len(s) THEN s[k] ELSE t[k - Len(s)]
  OBVIOUS

LEMMA TimesJoined ==
  ASSUME NEW T, NEW s \in Seq(T), NEW t \in Seq(T), NEW n
  PROVE  Times(s \o t, n) = Times(s, n) + Times(t, n)
<1> DEFINE m == Len(s)
           u == s \o t
           A == {k \in DOMAIN s : s[k] = n}
           B == {k \in DOMAIN t : t[k] = n}
           C == {k \in DOMAIN u : u[k] = n}
           D == {m + k : k \in B}
<1>1. /\ m \in Nat /\ Len(t) \in Nat /\ DOMAIN s = 1 .. m /\ DOMAIN t = 1 .. Len(t)
      /\ DOMAIN u = 1 .. m + Len(t)
      /\ \A k \in 1 .. m + Len(t) : u[k] = IF k <= m THEN s[k] ELSE t[k - m]
  OBVIOUS
<1> HIDE DEF u, m
<1>2. C = A \cup D /\ A \cap D = {}
  <2>1. ASSUME NEW k \in C PROVE k \in A \cup D
    <3>1. k <= m \/ (k - m \in B /\ m + (k - m) = k)
      BY <1>1
    <3> QED BY <1>1, <3>1
  <2>2. A \cup D \subseteq C /\ A \cap D = {}
    BY <1>1
  <2> QED BY <2>1, <2>2
<1>3. IsFiniteSet(A) /\ IsFiniteSet(B)
  <2>1. A \in SUBSET (1 .. m) /\ B \in SUBSET (1 .. Len(t))
    BY <1>1
  <2>2. IsFiniteSet(1 .. m) /\ IsFiniteSet(1 .. Len(t))
    BY <1>1, FS_Interval
  <2> QED BY <2>1, <2>2, FS_Subset
<1>4. IsFiniteSet(D) /\ Cardinality(D) = Cardinality(B)
  <2> DEFINE f == [k \in B |-> m + k]
  <2>1. f \in [B -> D] /\ (\A i, j \in B : f[i] = f[j] => i = j) /\ \A d \in D : \E k \in B : f[k] = d
    BY <1>1
  <2>2. f \in Bijection(B, D)
    BY <2>1, Fun_IsBij
  <2> QED BY <1>3, <2>2, FS_Bijection DEF ExistsBijection
<1> HIDE DEF A, B, C, D
<1>5. Cardinality(C) = Cardinality(A) + Cardinality(D) - 0
  BY <1>2, <1>3, <1>4, FS_Union, FS_EmptySet
<1>6. Cardinality(A) \in Nat /\ Cardinality(B) \in Nat
  BY <1>3, FS_CardinalityType
<1>7. Times(u, n) = Cardinality(C) /\ Times(s, n) = Cardinality(A) /\ Times(t, n) = Cardinality(B)
  BY DEF A, B, C, Times
<1>8. Times(u, n) = Times(s, n) + Times(t, n)
  BY <1>4, <1>5, <1>6, <1>7
<1> QED BY <1>8 DEF u

\* Devices that are as many of each node as a list names are as many as the list is long.
LEMMA AsManyAsListed ==
  ASSUME NEW N, NEW s \in Seq(N), NEW S, IsFiniteSet(S), \A d \in S : d[1] \in N,
         \A n \in N : Count(S, n) = Times(s, n)
  PROVE  Cardinality(S) = Len(s)
<1> DEFINE A(n) == {k \in DOMAIN s : s[k] = n}
           B(n) == {d \in S : d[1] = n}
           b(n) == CHOOSE f : f \in Bijection(A(n), B(n))
           F == [k \in DOMAIN s |-> b(s[k])[k]]
<1>1. DOMAIN s = 1 .. Len(s) /\ Len(s) \in Nat /\ IsFiniteSet(DOMAIN s)
      /\ Cardinality(DOMAIN s) = Len(s)
  <2>1. DOMAIN s = 1 .. Len(s) /\ Len(s) \in Nat
    OBVIOUS
  <2> QED BY <2>1, FirstNumbers
<1>2. ASSUME NEW n \in N PROVE b(n) \in Bijection(A(n), B(n))
  <2>1. A(n) \in SUBSET DOMAIN s /\ B(n) \in SUBSET S
    OBVIOUS
  <2>2. IsFiniteSet(A(n)) /\ IsFiniteSet(B(n))
    BY <1>1, <2>1, FS_Subset
  <2>3. Cardinality(A(n)) = Cardinality(B(n))
    BY DEF Count, Times
  <2>4. ExistsBijection(A(n), B(n))
    BY <2>2, <2>3, FS_SameCardinalityBij
  <2> QED BY <2>4 DEF ExistsBijection
<1> HIDE DEF b
<1>3. ASSUME NEW n \in N
      PROVE  /\ \A k \in A(n) : b(n)[k] \in B(n)
             /\ \A k, l \in A(n) : b(n)[k] = b(n)[l] => k = l
             /\ \A d \in B(n) : \E k \in A(n) : b(n)[k] = d
  <2>1. b(n) \in Injection(A(n), B(n)) /\ b(n) \in Surjection(A(n), B(n))
    BY <1>2, Zenon DEF Bijection
  <2>2. /\ \A k \in A(n) : b(n)[k] \in B(n)
        /\ \A d \in B(n) : \E k \in A(n) : b(n)[k] = d
    BY <2>1 DEF Surjection
  <2>3. \A k, l \in A(n) : b(n)[k] = b(n)[l] => k = l
    BY <2>1 DEF Injection, IsInjective
  <2> QED BY <2>2, <2>3
<1>4. ASSUME NEW k \in DOMAIN s
      PROVE  s[k] \in N /\ k \in A(s[k]) /\ F[k] \in S /\ F[k][1] = s[k] /\ F[k] = b(s[k])[k]
  <2>1. s[k] \in N /\ k \in A(s[k]) /\ F[k] = b(s[k])[k]
    OBVIOUS
  <2> QED BY <1>3, <2>1
<1>5. ASSUME NEW k \in DOMAIN s, NEW l \in DOMAIN s, F[k] = F[l] PROVE k = l
  <2>1. s[k] = s[l]
    BY <1>4, <1>5
  <2>2. k \in A(s[k]) /\ l \in A(s[k]) /\ b(s[k])[k] = b(s[k])[l] /\ s[k] \in N
    BY <1>4, <1>5, <2>1
  <2> QED BY <1>3, <2>2
<1>6. ASSUME NEW d \in S PROVE \E k \in DOMAIN s : F[k] = d
  <2>1. d[1] \in N /\ d \in B(d[1])
    OBVIOUS
  <2>2. PICK k \in A(d[1]) : b(d[1])[k] = d
    BY <1>3, <2>1
  <2>3. k \in DOMAIN s /\ s[k] = d[1]
    OBVIOUS
  <2> QED BY <1>4, <2>2, <2>3
<1>7. F \in [DOMAIN s -> S]
  BY <1>4
<1> HIDE DEF F
<1>8. F \in Bijection(DOMAIN s, S)
  BY <1>5, <1>6, <1>7, Fun_IsBij
<1> QED BY <1>1, <1>8, FS_Bijection DEF ExistsBijection

-------------------------------------------------------------------------------
(* The allocator's search                                                  *)

\* A candidate holds NodeIds of free devices, of the GPUs it has taken.
Fits(c) ==
  /\ c.ids \in Seq(Nodes) /\ c.taken \in SUBSET DOMAIN groups
  /\ \A n \in Nodes : Times(c.ids, n) <= Count(Free, n)
  /\ \A k \in DOMAIN c.ids : \E i \in c.taken : \E l \in DOMAIN groups[i] :
       topo.gpu[c.ids[k]] = topo.gpu[groups[i][l]]

\* Candidates that are extended are short of devices, those to choose from are not.
SearchInv ==
  /\ doing = "asked" => built = <<>> /\ idx = 0
  /\ doing \in {"build", "take"} => NewSize \in Nat /\ Grouped(groups, Free)
  /\ doing = "build" => /\ (\E T : todo \in Seq(T)) /\ (\E T : built \in Seq(T))
                        /\ \A k \in DOMAIN todo : Fits(todo[k]) /\ Len(todo[k].ids) < NewSize
                        /\ \A k \in DOMAIN built : Fits(built[k]) /\ Len(built[k].ids) = NewSize
  /\ doing = "take" => Fits(candidate) /\ Len(candidate.ids) = NewSize

\* kubelet's request stays as it was.
RequestInv ==
  /\ topo \in Topologies /\ available \in SUBSET (Devices(topo) \cup {Ghost})
  /\ required \in SUBSET available /\ size \in Nat \ {0}
  /\ Cardinality(required) <= size /\ size <= Cardinality(available)

\* The free devices are finitely many, of nodes, and neither required nor unknown.
LEMMA FreeDevices ==
  ASSUME RequestInv
  PROVE  /\ IsFiniteSet(available) /\ IsFiniteSet(required) /\ IsFiniteSet(Free)
         /\ \A d \in Free : d[1] \in Nodes
         /\ Free \in SUBSET (available \ required)
<1>1. IsFiniteSet(Devices(topo) \cup {Ghost})
  <2>1. IsFiniteSet(Devices(topo)) /\ IsFiniteSet({Ghost})
    BY DevicesFinite, FS_Singleton DEF RequestInv
  <2> QED BY <2>1, FS_Union
<1>2. IsFiniteSet(available) /\ IsFiniteSet(required)
  <2>1. IsFiniteSet(available)
    BY <1>1, FS_Subset DEF RequestInv
  <2> QED BY <2>1, FS_Subset DEF RequestInv
<1>3. Free \in SUBSET (available \ required) /\ Free \in SUBSET available
  BY DEF Free, Known
<1>4. IsFiniteSet(Free)
  BY <1>2, <1>3, FS_Subset
<1>5. \A d \in Free : d[1] \in Nodes
  BY DEF RequestInv, Free, Known, Devices, Nodes
<1> QED BY <1>2, <1>3, <1>4, <1>5

\* The least of two numbers.
LEMMA LeastOfTwo ==
  ASSUME NEW a \in Nat, NEW b \in Nat
  PROVE  Min({a, b}) = IF a < b THEN a ELSE b
<1> DEFINE m == IF a < b THEN a ELSE b
<1>1. m \in {a, b} /\ \A y \in {a, b} : m <= y
  OBVIOUS
<1>2. \A x \in {a, b} : (\A y \in {a, b} : x <= y) => x = m
  OBVIOUS
<1> QED BY <1>1, <1>2 DEF Min

\* Adding a GPU that a candidate does not have keeps it one, and makes it longer.
LEMMA Add1Fits ==
  ASSUME topo \in Topologies, NewSize \in Nat, Grouped(groups, Free), IsFiniteSet(Free),
         NEW c, Fits(c), Len(c.ids) < NewSize, NEW i \in DOMAIN groups, i \notin c.taken
  PROVE  LET e == Add1(c, i)
             more == Min({NewSize - Len(c.ids), Len(groups[i])})
         IN  /\ Fits(e) /\ e.taken = c.taken \cup {i} /\ e.last = i
             /\ more \in Nat /\ more > 0 /\ Len(e.ids) = Len(c.ids) + more
             /\ e.ids = c.ids \o SubSeq(groups[i], 1, more)
             /\ Len(e.ids) <= NewSize
<1> DEFINE g == groups[i]
           more == Min({NewSize - Len(c.ids), Len(g)})
           sub == SubSeq(g, 1, more)
           e == Add1(c, i)
<1>1. g \in Seq(Nodes) /\ Len(g) \in Nat /\ Len(g) > 0 /\ DOMAIN g = 1 .. Len(g)
  <2>1. g \in Seq(Nodes) /\ g # <<>>
    BY DEF Grouped
  <2> QED BY <2>1
<1>2. c.ids \in Seq(Nodes) /\ Len(c.ids) \in Nat /\ DOMAIN c.ids = 1 .. Len(c.ids)
  BY DEF Fits
<1>3. more \in 1 .. Len(g) /\ more <= NewSize - Len(c.ids)
  <2> DEFINE a == NewSize - Len(c.ids)  b == Len(g)
  <2>1. a \in Nat /\ b \in Nat /\ a > 0 /\ b > 0 /\ more = Min({a, b})
    BY <1>1, <1>2
  <2> HIDE DEF a, b, more, g
  <2>2. Min({a, b}) = IF a < b THEN a ELSE b
    BY <2>1, LeastOfTwo
  <2>3. more \in 1 .. b /\ more <= a
    BY <2>1, <2>2
  <2> QED BY <2>3 DEF a, b
<1>4. e.ids = c.ids \o sub /\ e.taken = c.taken \cup {i} /\ e.last = i
  BY DEF Add1
<1> HIDE DEF g, more, e
<1>5. more \in 0 .. Len(g)
  BY <1>3
<1>6. sub \in Seq(Nodes) /\ Len(sub) = more /\ \A k \in 1 .. more : sub[k] = g[k]
  BY <1>1, <1>5, TimesBeginning
<1>7. \A n : Times(sub, n) <= Times(g, n)
  BY <1>1, <1>5, TimesBeginning
<1> HIDE DEF sub
<1>8. /\ e.ids \in Seq(Nodes) /\ Len(e.ids) = Len(c.ids) + more
      /\ \A k \in DOMAIN e.ids : \/ k \in DOMAIN c.ids /\ e.ids[k] = c.ids[k]
                                 \/ k - Len(c.ids) \in 1 .. more /\ e.ids[k] = g[k - Len(c.ids)]
  <2>1. /\ e.ids \in Seq(Nodes) /\ Len(e.ids) = Len(c.ids) + Len(sub)
        /\ DOMAIN e.ids = 1 .. Len(c.ids) + Len(sub)
        /\ \A k \in 1 .. Len(c.ids) + Len(sub) :
             e.ids[k] = IF k <= Len(c.ids) THEN c.ids[k] ELSE sub[k - Len(c.ids)]
    <3> DEFINE a == c.ids
    <3>1. a \in Seq(Nodes) /\ sub \in Seq(Nodes) /\ e.ids = a \o sub
      BY <1>2, <1>4, <1>6
    <3> HIDE DEF a
    <3>2. /\ a \o sub \in Seq(Nodes) /\ Len(a \o sub) = Len(a) + Len(sub)
          /\ DOMAIN (a \o sub) = 1 .. Len(a) + Len(sub)
          /\ \A k \in 1 .. Len(a) + Len(sub) :
               (a \o sub)[k] = IF k <= Len(a) THEN a[k] ELSE sub[k - Len(a)]
      BY <3>1, JoinedLists, Zenon
    <3> QED BY <3>1, <3>2 DEF a
  <2>2. ASSUME NEW k \in 1 .. Len(c.ids) + more, ~(k \in 1 .. Len(c.ids))
        PROVE  k - Len(c.ids) \in 1 .. more /\ sub[k - Len(c.ids)] = g[k - Len(c.ids)] /\ ~(k <= Len(c.ids))
    BY <1>2, <1>3, <1>6, <2>2
  <2> QED BY <1>2, <1>6, <2>1, <2>2
<1>9. ASSUME NEW k \in DOMAIN e.ids
      PROVE  \E j \in e.taken : \E l \in DOMAIN groups[j] :
               topo.gpu[e.ids[k]] = topo.gpu[groups[j][l]]
  <2>1. CASE k \in DOMAIN c.ids /\ e.ids[k] = c.ids[k]
    BY <1>4, <2>1 DEF Fits
  <2>2. CASE k - Len(c.ids) \in 1 .. more /\ e.ids[k] = g[k - Len(c.ids)]
    <3>1. k - Len(c.ids) \in DOMAIN groups[i] /\ e.ids[k] = groups[i][k - Len(c.ids)]
      BY <1>1, <1>3, <2>2 DEF g
    <3> QED BY <1>4, <3>1
  <2> QED BY <1>8, <2>1, <2>2
<1>10. ASSUME NEW n \in Nodes PROVE Times(e.ids, n) <= Count(Free, n)
  <2>1. /\ Times(e.ids, n) = Times(c.ids, n) + Times(sub, n)
        /\ Times(c.ids, n) \in Nat /\ Times(sub, n) \in Nat /\ Times(g, n) \in Nat
    BY <1>1, <1>2, <1>4, <1>6, TimesJoined, TimesType
  <2>2. /\ Times(c.ids, n) <= Count(Free, n) /\ Times(g, n) <= Count(Free, n)
        /\ Count(Free, n) \in Nat /\ Times(sub, n) <= Times(g, n)
    BY <1>7, Counts DEF Fits, Grouped, g
  <2>3. Times(c.ids, n) = 0 \/ Times(g, n) = 0
    <3>1. SUFFICES ASSUME Times(c.ids, n) # 0, Times(g, n) # 0 PROVE FALSE
      OBVIOUS
    <3>2. PICK k \in DOMAIN c.ids : c.ids[k] = n
      BY <3>1, FS_EmptySet DEF Times
    <3>3. PICK m \in DOMAIN g : g[m] = n
      BY <3>1, FS_EmptySet DEF Times
    <3>4. PICK j \in c.taken : \E l \in DOMAIN groups[j] : topo.gpu[n] = topo.gpu[groups[j][l]]
      BY <3>2 DEF Fits
    <3>5. PICK l \in DOMAIN groups[j] : topo.gpu[n] = topo.gpu[groups[j][l]]
      BY <3>4
    <3>6. i = j
      BY <3>3, <3>4, <3>5 DEF Grouped, Fits, g
    <3> QED BY <3>4, <3>6
  <2> QED BY <2>1, <2>2, <2>3
<1>11. Fits(e)
  BY <1>4, <1>8, <1>9, <1>10 DEF Fits
<1>12. Len(e.ids) <= NewSize
  BY <1>2, <1>3, <1>8
<1> QED BY <1>3, <1>4, <1>8, <1>11, <1>12 DEF e, more, sub, g

\* A search is on.
Searching ==
  topo \in Topologies /\ NewSize \in Nat /\ Grouped(groups, Free) /\ IsFiniteSet(Free)

LEMMA GroupSizes ==
  ASSUME Searching
  PROVE  /\ DOMAIN groups \in SUBSET (Nat \ {0}) /\ IsFiniteSet(DOMAIN groups)
         /\ \A i \in DOMAIN groups :
              /\ groups[i] \in Seq(Nodes) /\ Len(groups[i]) \in Nat \ {0}
              /\ DOMAIN groups[i] = 1 .. Len(groups[i])
<1>1. groups \in Seq(Seq(Nodes)) /\ \A i \in DOMAIN groups : groups[i] # <<>>
  BY DEF Searching, Grouped
<1>2. PICK m \in Nat : DOMAIN groups = 1 .. m
  BY <1>1
<1>3. IsFiniteSet(1 .. m)
  BY FS_Interval
<1>4. ASSUME NEW i \in DOMAIN groups
      PROVE  /\ groups[i] \in Seq(Nodes) /\ Len(groups[i]) \in Nat \ {0}
             /\ DOMAIN groups[i] = 1 .. Len(groups[i])
  <2>1. groups[i] \in Seq(Nodes) /\ groups[i] # <<>>
    BY <1>1
  <2> QED BY <2>1
<1> QED BY <1>2, <1>3, <1>4

\* Totals of shares.
Units(x) == UNION {{i} \X (1 .. x[i]) : i \in DOMAIN groups}

LEMMA TotalType ==
  ASSUME Searching, NEW x \in [DOMAIN groups -> Nat]
  PROVE  IsFiniteSet(Units(x)) /\ Total(x) \in Nat /\ Total(x) = Cardinality(Units(x))
<1>1. IsFiniteSet(Units(x))
  BY GroupSizes, PairsFinite DEF Units
<1> QED BY <1>1, FS_CardinalityType DEF Units, Total

LEMMA UnitsOf ==
  ASSUME NEW x
  PROVE  \A u : u \in Units(x) <=> \E i \in DOMAIN groups : \E k \in 1 .. x[i] : u = <<i, k>>
  BY DEF Units

LEMMA TotalOfMore ==
  ASSUME Searching, NEW x \in [DOMAIN groups -> Nat], NEW y \in [DOMAIN groups -> Nat],
         \A i \in DOMAIN groups : x[i] <= y[i]
  PROVE  Total(x) <= Total(y) /\ (Total(x) = Total(y) => x = y)
<1>1. Units(x) \in SUBSET Units(y)
  <2>1. ASSUME NEW i \in DOMAIN groups, NEW k \in 1 .. x[i] PROVE k \in 1 .. y[i]
    OBVIOUS
  <2> QED BY <2>1, UnitsOf
<1>2. IsFiniteSet(Units(y)) /\ Total(x) = Cardinality(Units(x)) /\ Total(y) = Cardinality(Units(y))
  BY TotalType
<1>3. Total(x) <= Total(y) /\ (Total(x) = Total(y) => Units(x) = Units(y))
  BY <1>1, <1>2, FS_Subset
<1>4. ASSUME Units(x) = Units(y), NEW i \in DOMAIN groups PROVE x[i] = y[i]
  <2>1. SUFFICES ASSUME x[i] < y[i] PROVE FALSE
    OBVIOUS
  <2>2. y[i] \in 1 .. y[i] /\ ~(y[i] \in 1 .. x[i])
    BY <2>1
  <2>3. <<i, y[i]>> \in Units(y)
    BY <2>2, UnitsOf
  <2>4. <<i, y[i]>> \notin Units(x)
    BY <2>2, UnitsOf
  <2> QED BY <1>4, <2>3, <2>4
<1> QED BY <1>3, <1>4

LEMMA TotalOfOneMore ==
  ASSUME Searching, NEW x \in [DOMAIN groups -> Nat], NEW i \in DOMAIN groups, x[i] = 0, NEW m \in Nat
  PROVE  [x EXCEPT ![i] = m] \in [DOMAIN groups -> Nat] /\ Total([x EXCEPT ![i] = m]) = Total(x) + m
<1> DEFINE y == [x EXCEPT ![i] = m]
           A == {i} \X (1 .. m)
<1>1. y \in [DOMAIN groups -> Nat] /\ y[i] = m /\ \A j \in DOMAIN groups \ {i} : y[j] = x[j]
  OBVIOUS
<1> HIDE DEF y
<1>2. Units(y) = Units(x) \cup A /\ Units(x) \cap A = {}
  <2>1. \A u \in Units(y) : u \in Units(x) \cup A
    BY <1>1, UnitsOf
  <2>2. \A u \in Units(x) : u \in Units(y)
    BY <1>1, UnitsOf
  <2>3. \A u \in A : u \in Units(y)
    BY <1>1, UnitsOf
  <2>4. \A u \in A : u \notin Units(x)
    BY <1>1, UnitsOf
  <2> QED BY <2>1, <2>2, <2>3, <2>4
<1>3. IsFiniteSet(A) /\ Cardinality(A) = m
  <2>1. IsFiniteSet(1 .. m) /\ Cardinality(1 .. m) = m
    BY FirstNumbers
  <2>2. IsFiniteSet({i}) /\ Cardinality({i}) = 1
    BY FS_Singleton
  <2>3. IsFiniteSet(A) /\ Cardinality(A) = Cardinality({i}) * Cardinality(1 .. m)
    BY <2>1, <2>2, FS_Product
  <2> QED BY <2>1, <2>2, <2>3
<1>4. IsFiniteSet(Units(x)) /\ Cardinality(Units(x)) \in Nat /\ Total(x) = Cardinality(Units(x))
      /\ Total(y) = Cardinality(Units(y))
  BY <1>1, TotalType
<1> HIDE DEF A
<1>5. /\ Cardinality(Units(x) \cup A)
           = Cardinality(Units(x)) + Cardinality(A) - Cardinality(Units(x) \cap A)
      /\ Cardinality(Units(x) \cap A) = 0
  BY <1>2, <1>3, <1>4, FS_Union, FS_EmptySet
<1>6. Total(y) = Total(x) + m
  <2> HIDE DEF Units
  <2> QED BY <1>2, <1>3, <1>4, <1>5
<1> QED BY <1>1, <1>6 DEF y

LEMMA TotalOfNone == Total([i \in DOMAIN groups |-> 0]) = 0
<1>1. Units([i \in DOMAIN groups |-> 0]) = {}
  BY UnitsOf
<1> QED BY <1>1, FS_EmptySet DEF Units, Total

\* The shares of a candidate after one more GPU.
LEMMA Add1Shares ==
  ASSUME Searching, NEW c, Fits(c), Len(c.ids) < NewSize, NEW i \in DOMAIN groups, i \notin c.taken
  PROVE  /\ Shares(c) \in [DOMAIN groups -> Nat] /\ Shares(c)[i] = 0
         /\ Shares(Add1(c, i))
              = [Shares(c) EXCEPT ![i] = Min({NewSize - Len(c.ids), Len(groups[i])})]
<1> DEFINE e == Add1(c, i)
           more == Min({NewSize - Len(c.ids), Len(groups[i])})
           g == groups[i]
           sub == SubSeq(g, 1, more)
           Of(b, j) == {k \in DOMAIN b.ids : topo.gpu[b.ids[k]] = topo.gpu[groups[j][1]]}
<1>1. /\ more \in Nat /\ more > 0 /\ Len(e.ids) = Len(c.ids) + more
      /\ e.ids = c.ids \o sub /\ Fits(e)
  BY Add1Fits DEF Searching
<1>2. c.ids \in Seq(Nodes) /\ Len(c.ids) \in Nat /\ DOMAIN c.ids = 1 .. Len(c.ids)
  BY DEF Fits
<1>3. g \in Seq(Nodes) /\ Len(g) \in Nat \ {0} /\ DOMAIN g = 1 .. Len(g) /\ more \in 0 .. Len(g)
  <2>1. g \in Seq(Nodes) /\ Len(g) \in Nat \ {0} /\ DOMAIN g = 1 .. Len(g)
    BY GroupSizes
  <2>2. more <= Len(g)
    <3> DEFINE a == NewSize - Len(c.ids)  b == Len(g)
    <3>1. a \in Nat /\ b \in Nat /\ more = Min({a, b})
      BY <1>2, <2>1 DEF Searching
    <3> HIDE DEF a, b, more, g
    <3>2. Min({a, b}) = IF a < b THEN a ELSE b
      BY <3>1, LeastOfTwo
    <3> QED BY <3>1, <3>2 DEF b
  <2> QED BY <1>1, <2>1, <2>2
<1> HIDE DEF more, e, g
<1>4. sub \in Seq(Nodes) /\ Len(sub) = more /\ \A k \in 1 .. more : sub[k] = g[k]
  BY <1>3, TimesBeginning
<1> HIDE DEF sub
<1>5. /\ DOMAIN e.ids = 1 .. Len(c.ids) + more
      /\ \A k \in 1 .. Len(c.ids) + more : e.ids[k] = IF k <= Len(c.ids) THEN c.ids[k] ELSE sub[k - Len(c.ids)]
  <2> DEFINE a == c.ids
  <2>1. a \in Seq(Nodes) /\ sub \in Seq(Nodes) /\ e.ids = a \o sub /\ Len(sub) = more
    BY <1>1, <1>2, <1>4
  <2> HIDE DEF a
  <2>2. /\ DOMAIN (a \o sub) = 1 .. Len(a) + Len(sub)
        /\ \A k \in 1 .. Len(a) + Len(sub) :
             (a \o sub)[k] = IF k <= Len(a) THEN a[k] ELSE sub[k - Len(a)]
    BY <2>1, JoinedLists, Zenon
  <2> QED BY <2>1, <2>2 DEF a
<1>6. ASSUME NEW k \in DOMAIN c.ids PROVE topo.gpu[c.ids[k]] # topo.gpu[groups[i][1]]
  <2>1. PICK j \in c.taken : \E l \in DOMAIN groups[j] : topo.gpu[c.ids[k]] = topo.gpu[groups[j][l]]
    BY DEF Fits
  <2>2. PICK l \in DOMAIN groups[j] : topo.gpu[c.ids[k]] = topo.gpu[groups[j][l]]
    BY <2>1
  <2>3. j \in DOMAIN groups /\ j # i /\ 1 \in DOMAIN groups[i]
    BY <1>3 DEF Fits, g
  <2> QED BY <2>2, <2>3 DEF Searching, Grouped
<1>7. ASSUME NEW k \in 1 .. more, NEW j \in DOMAIN groups
      PROVE  topo.gpu[sub[k]] = topo.gpu[groups[j][1]] <=> i = j
  <2>1. k \in DOMAIN groups[i] /\ sub[k] = groups[i][k] /\ 1 \in DOMAIN groups[j]
    BY <1>3, <1>4, GroupSizes DEF g
  <2> QED BY <2>1 DEF Searching, Grouped
<1>8. ASSUME NEW j \in DOMAIN groups, j # i PROVE Of(e, j) = Of(c, j)
  <2>1. ASSUME NEW k \in DOMAIN e.ids, ~(k \in DOMAIN c.ids)
        PROVE  topo.gpu[e.ids[k]] # topo.gpu[groups[j][1]]
    <3>1. k - Len(c.ids) \in 1 .. more /\ e.ids[k] = sub[k - Len(c.ids)]
      BY <1>1, <1>2, <1>5, <2>1
    <3> QED BY <1>7, <1>8, <3>1
  <2>2. ASSUME NEW k \in DOMAIN c.ids PROVE k \in DOMAIN e.ids /\ e.ids[k] = c.ids[k]
    BY <1>1, <1>2, <1>5
  <2> QED BY <2>1, <2>2
<1>9. Of(e, i) = Len(c.ids) + 1 .. Len(c.ids) + more
  <2>1. ASSUME NEW k \in Len(c.ids) + 1 .. Len(c.ids) + more PROVE k \in Of(e, i)
    <3>1. k \in DOMAIN e.ids /\ k - Len(c.ids) \in 1 .. more /\ e.ids[k] = sub[k - Len(c.ids)]
      BY <1>1, <1>2, <1>5
    <3> QED BY <1>7, <3>1
  <2>2. ASSUME NEW k \in Of(e, i), k \in DOMAIN c.ids PROVE FALSE
    <3>1. e.ids[k] = c.ids[k]
      BY <1>1, <1>2, <1>5, <2>2
    <3> QED BY <1>6, <2>2, <3>1
  <2>3. ASSUME NEW k \in DOMAIN e.ids, ~(k \in DOMAIN c.ids)
        PROVE  k \in Len(c.ids) + 1 .. Len(c.ids) + more
    BY <1>1, <1>2, <1>5, <2>3
  <2> QED BY <2>1, <2>2, <2>3
<1>10. Cardinality(Of(e, i)) = more
  <2> DEFINE a == Len(c.ids)
  <2>1. a + 1 \in Int /\ a + more \in Int /\ a \in Nat
    BY <1>1, <1>2
  <2> HIDE DEF a
  <2>2. Cardinality(a + 1 .. a + more) = IF a + 1 > a + more THEN 0 ELSE (a + more) - (a + 1) + 1
    BY <2>1, FS_Interval
  <2>3. Cardinality(a + 1 .. a + more) = more
    BY <1>1, <2>1, <2>2
  <2> QED BY <1>9, <2>3 DEF a
<1>11. Of(c, i) = {} /\ \A j \in DOMAIN groups : Cardinality(Of(c, j)) \in Nat
  <2>1. ASSUME NEW j \in DOMAIN groups PROVE Cardinality(Of(c, j)) \in Nat
    <3>1. Of(c, j) \in SUBSET (1 .. Len(c.ids)) /\ IsFiniteSet(1 .. Len(c.ids))
      BY <1>2, FS_Interval
    <3> QED BY <3>1, FS_Subset, FS_CardinalityType
  <2> QED BY <1>6, <2>1
<1>12. Shares(c) = [j \in DOMAIN groups |-> Cardinality(Of(c, j))]
       /\ Shares(e) = [j \in DOMAIN groups |-> Cardinality(Of(e, j))]
  BY DEF Shares
<1> HIDE DEF Of
<1>13. Shares(c) \in [DOMAIN groups -> Nat] /\ Shares(c)[i] = 0
  BY <1>11, <1>12, FS_EmptySet
<1>14. Shares(e) = [Shares(c) EXCEPT ![i] = more]
  BY <1>8, <1>10, <1>12
<1> QED BY <1>13, <1>14 DEF e, more

\* Exactly one way leads to each of these sets: the GPUs taken whole come in the order of
\* their numbers, and the one that is taken in part, if any, comes last.
Wholes(x) == {i \in DOMAIN groups : x[i] = Len(groups[i])}
Leads(c, x) == c.taken = {i \in Wholes(x) : i <= c.last}
Toward(c, i, x) ==
  /\ i \in DOMAIN groups \ c.taken /\ x[i] > 0
  /\ IF i \in Wholes(x) THEN \A j \in Wholes(x) \ c.taken : i <= j ELSE Wholes(x) \subseteq c.taken

\* The set x was built, or a candidate is ahead that it will be built from; one of them,
\* and one only.
Built(k, x) == Shares(built[k]) = x
Ahead(k, x) ==
  Leads(todo[k], x) /\ (k = 1 => \E i \in DOMAIN groups : idx < i /\ Toward(todo[k], i, x))
OneWay(x) ==
  \/ /\ \E k \in DOMAIN built : \A j \in DOMAIN built : Built(j, x) <=> j = k
     /\ \A j \in DOMAIN todo : ~Ahead(j, x)
  \/ /\ \E k \in DOMAIN todo : \A j \in DOMAIN todo : Ahead(j, x) <=> j = k
     /\ \A j \in DOMAIN built : ~Built(j, x)

\* A candidate to be extended has taken GPUs whole, none after the last.
Partial(c) ==
  /\ c.last \in c.taken \cup {0} /\ \A i \in c.taken : i <= c.last
  /\ Shares(c) = [i \in DOMAIN groups |-> IF i \in c.taken THEN Len(groups[i]) ELSE 0]
  /\ Total(Shares(c)) = Len(c.ids)

OnceInv ==
  doing = "build" =>
    /\ idx \in Nat
    /\ \A k \in DOMAIN todo : Partial(todo[k])
    /\ \A k \in DOMAIN built : Shares(built[k]) \in OneInPart
    /\ \A x \in OneInPart : OneWay(x)

\* What a GPU adds to a candidate: all it has, or what is missing.
More(c, i) == IF NewSize - Len(c.ids) < Len(groups[i]) THEN NewSize - Len(c.ids) ELSE Len(groups[i])

LEMMA Add1Result ==
  ASSUME Searching, NEW c, Fits(c), Partial(c), Len(c.ids) < NewSize, NEW i \in Adds(c)
  PROVE  /\ i \in DOMAIN groups \ c.taken /\ More(c, i) \in Nat /\ More(c, i) > 0
         /\ Add1(c, i).taken = c.taken \cup {i} /\ Add1(c, i).last = i
         /\ Fits(Add1(c, i))
         /\ Len(Add1(c, i).ids) \in Nat /\ Len(Add1(c, i).ids) = Len(c.ids) + More(c, i)
         /\ Len(Add1(c, i).ids) <= NewSize
         /\ Shares(c) \in [DOMAIN groups -> Nat]
         /\ Shares(Add1(c, i)) = [Shares(c) EXCEPT ![i] = More(c, i)]
         /\ Total(Shares(Add1(c, i))) = Len(Add1(c, i).ids)
<1> DEFINE e == Add1(c, i)
<1>1. i \in DOMAIN groups /\ i \notin c.taken
  BY DEF Adds
<1>2. Len(c.ids) \in Nat /\ Len(groups[i]) \in Nat \ {0} /\ NewSize \in Nat
  BY <1>1, GroupSizes DEF Fits, Searching
<1>3. Min({NewSize - Len(c.ids), Len(groups[i])}) = More(c, i)
  <2> DEFINE a == NewSize - Len(c.ids)  b == Len(groups[i])
  <2>1. a \in Nat /\ b \in Nat
    BY <1>2
  <2>2. More(c, i) = IF a < b THEN a ELSE b
    BY DEF More
  <2> HIDE DEF a, b
  <2>3. Min({a, b}) = More(c, i)
    BY <2>1, <2>2, LeastOfTwo
  <2> QED BY <2>3 DEF a, b
<1>4. /\ Fits(e) /\ e.taken = c.taken \cup {i} /\ e.last = i
      /\ More(c, i) \in Nat /\ More(c, i) > 0 /\ Len(e.ids) = Len(c.ids) + More(c, i)
      /\ Len(e.ids) <= NewSize
  BY <1>1, <1>3, Add1Fits DEF Searching
<1>5. /\ Shares(c) \in [DOMAIN groups -> Nat] /\ Shares(c)[i] = 0
      /\ Shares(e) = [Shares(c) EXCEPT ![i] = More(c, i)]
  BY <1>1, <1>3, Add1Shares
<1> HIDE DEF e
<1>6. Total(Shares(e)) = Total(Shares(c)) + More(c, i)
  <2> DEFINE x == Shares(c)  m == More(c, i)
  <2>1. x \in [DOMAIN groups -> Nat] /\ x[i] = 0 /\ m \in Nat /\ Shares(e) = [x EXCEPT ![i] = m]
    BY <1>4, <1>5
  <2> HIDE DEF x, m
  <2>2. Total([x EXCEPT ![i] = m]) = Total(x) + m
    BY <1>1, <2>1, TotalOfOneMore
  <2> QED BY <2>1, <2>2 DEF x, m
<1>7. Total(Shares(e)) = Len(e.ids) /\ Len(e.ids) \in Nat
  BY <1>2, <1>4, <1>6 DEF Partial
<1> QED BY <1>1, <1>4, <1>5, <1>7 DEF e

\* A candidate that is not full took the GPU whole, after the others.
LEMMA Add1Partial ==
  ASSUME Searching, NEW c, Fits(c), Partial(c), Len(c.ids) < NewSize, NEW i \in Adds(c),
         Len(Add1(c, i).ids) # NewSize
  PROVE  Partial(Add1(c, i)) /\ c.last < i
<1> DEFINE e == Add1(c, i)
<1>1. /\ i \in DOMAIN groups \ c.taken /\ More(c, i) \in Nat /\ More(c, i) > 0
      /\ e.taken = c.taken \cup {i} /\ e.last = i /\ Len(e.ids) = Len(c.ids) + More(c, i)
      /\ Shares(e) = [Shares(c) EXCEPT ![i] = More(c, i)]
      /\ Total(Shares(e)) = Len(e.ids) /\ Shares(c) \in [DOMAIN groups -> Nat]
  BY Add1Result
<1>2. Len(e.ids) # NewSize
  OBVIOUS
<1> HIDE DEF e
<1>3. /\ Len(c.ids) \in Nat /\ Len(groups[i]) \in Nat \ {0} /\ NewSize \in Nat /\ i \in Nat
      /\ DOMAIN groups \in SUBSET (Nat \ {0})
  BY <1>1, GroupSizes DEF Fits, Searching
<1>4. More(c, i) = Len(groups[i]) /\ Len(groups[i]) <= NewSize - Len(c.ids)
  <2> DEFINE a == Len(c.ids)  b == Len(groups[i])  n == NewSize  more == More(c, i)
  <2>1. more = IF n - a < b THEN n - a ELSE b
    BY DEF More
  <2>2. a \in Nat /\ b \in Nat /\ n \in Nat /\ a + more # n
    BY <1>1, <1>2, <1>3
  <2> HIDE DEF a, b, n, more
  <2>3. more = b /\ b <= n - a
    BY <2>1, <2>2
  <2> QED BY <2>3 DEF a, b, n, more
<1>5. c.taken \in SUBSET Nat /\ c.last \in Nat /\ c.last < i
  <2>1. c.taken \in SUBSET Nat /\ c.last \in c.taken \cup {0}
    BY <1>3 DEF Fits, Partial
  <2>2. ~(i < c.last) /\ i # c.last
    BY <1>1, <1>3, <1>4, <2>1 DEF Adds, Whole
  <2> QED BY <1>3, <2>1, <2>2
<1>6. Shares(e) = [j \in DOMAIN groups |-> IF j \in e.taken THEN Len(groups[j]) ELSE 0]
  BY <1>1, <1>4 DEF Partial
<1>7. e.last \in e.taken \cup {0} /\ \A j \in e.taken : j <= e.last
  BY <1>1, <1>3, <1>5 DEF Partial
<1> QED BY <1>1, <1>5, <1>6, <1>7 DEF e, Partial

\* A full candidate is a set as it is searched for.
LEMMA Add1Full ==
  ASSUME Searching, NEW c, Fits(c), Partial(c), Len(c.ids) < NewSize, NEW i \in Adds(c),
         Len(Add1(c, i).ids) = NewSize
  PROVE  Shares(Add1(c, i)) \in OneInPart
<1> DEFINE x == Shares(Add1(c, i))
<1>1. /\ i \in DOMAIN groups \ c.taken /\ More(c, i) \in Nat /\ More(c, i) > 0
      /\ x = [Shares(c) EXCEPT ![i] = More(c, i)] /\ Total(x) = NewSize
      /\ Shares(c) \in [DOMAIN groups -> Nat] /\ Len(Add1(c, i).ids) = Len(c.ids) + More(c, i)
  BY Add1Result
<1> HIDE DEF x
<1>2. /\ Len(c.ids) \in Nat /\ NewSize \in Nat
      /\ \A j \in DOMAIN groups : Len(groups[j]) \in Nat \ {0}
  BY GroupSizes DEF Fits, Searching
<1>3. x \in [DOMAIN groups -> Nat] /\ x[i] = More(c, i)
      /\ \A j \in DOMAIN groups \ {i} : x[j] = IF j \in c.taken THEN Len(groups[j]) ELSE 0
  BY <1>1 DEF Partial
<1>4. More(c, i) <= Len(groups[i])
  BY <1>1, <1>2 DEF More
<1>5. \A j \in DOMAIN groups : x[j] <= Len(groups[j]) /\ (x[j] \notin {0, Len(groups[j])} => j = i)
  BY <1>2, <1>3, <1>4
<1>6. ASSUME NEW j \in DOMAIN groups PROVE x[j] <= NewSize
  <2> DEFINE y == [[k \in DOMAIN groups |-> 0] EXCEPT ![j] = x[j]]
  <2>1. [k \in DOMAIN groups |-> 0] \in [DOMAIN groups -> Nat] /\ x[j] \in Nat
    BY <1>3
  <2>2. y \in [DOMAIN groups -> Nat] /\ Total(y) = 0 + x[j]
    BY <2>1, TotalOfOneMore, TotalOfNone
  <2>3. \A k \in DOMAIN groups : y[k] <= x[k]
    BY <1>3
  <2> HIDE DEF y
  <2>4. Total(y) <= Total(x)
    BY <1>3, <2>2, <2>3, TotalOfMore
  <2> QED BY <1>1, <2>1, <2>2, <2>4
<1>7. x \in [DOMAIN groups -> 0 .. NewSize]
  BY <1>2, <1>3, <1>6
<1> QED BY <1>1, <1>5, <1>7 DEF OneInPart, x

\* A step toward a set is the only one.
LEMMA TowardOnce ==
  ASSUME Searching, NEW x \in OneInPart, NEW c, NEW i, NEW j, Toward(c, i, x), Toward(c, j, x)
  PROVE  i = j
<1>1. DOMAIN groups \in SUBSET (Nat \ {0}) /\ x \in [DOMAIN groups -> 0 .. NewSize]
  BY GroupSizes DEF OneInPart
<1>2. i \in DOMAIN groups \ c.taken /\ j \in DOMAIN groups \ c.taken /\ x[i] > 0 /\ x[j] > 0
  BY DEF Toward
<1>3. i \in Nat /\ j \in Nat
  BY <1>1, <1>2
<1>4. CASE i \in Wholes(x) /\ j \in Wholes(x)
  BY <1>2, <1>3, <1>4 DEF Toward
<1>5. CASE i \notin Wholes(x) /\ j \notin Wholes(x)
  <2>1. x[i] \notin {0, Len(groups[i])} /\ x[j] \notin {0, Len(groups[j])}
    BY <1>2, <1>5 DEF Wholes
  <2> QED BY <1>2, <2>1 DEF OneInPart
<1>6. CASE ~(i \in Wholes(x) <=> j \in Wholes(x))
  BY <1>2, <1>6 DEF Toward
<1> QED BY <1>4, <1>5, <1>6

\* A candidate that leads to a set is short of it by some GPU.
LEMMA TowardSome ==
  ASSUME Searching, NEW x \in OneInPart, NEW c, Fits(c), Partial(c), Len(c.ids) < NewSize, Leads(c, x)
  PROVE  \E i \in DOMAIN groups : Toward(c, i, x)
<1>1. /\ DOMAIN groups \in SUBSET (Nat \ {0}) /\ NewSize \in Nat
      /\ \A j \in DOMAIN groups : Len(groups[j]) \in Nat \ {0}
      /\ x \in [DOMAIN groups -> 0 .. NewSize] /\ Total(x) = NewSize
      /\ \A j \in DOMAIN groups : x[j] <= Len(groups[j])
  BY GroupSizes DEF OneInPart, Searching
<1>2. c.taken \in SUBSET Wholes(x) /\ Wholes(x) \in SUBSET DOMAIN groups
  BY DEF Leads, Wholes
<1>3. CASE Wholes(x) \ c.taken # {}
  <2>1. Wholes(x) \ c.taken \in SUBSET Nat
    BY <1>1, <1>2
  <2>2. PICK i \in Wholes(x) \ c.taken : \A j \in Wholes(x) \ c.taken : i <= j
    BY <1>3, <2>1, LeastNatural
  <2>3. x[i] > 0
    BY <1>1, <2>2 DEF Wholes
  <2> QED BY <1>2, <2>2, <2>3 DEF Toward
<1>4. CASE Wholes(x) \ c.taken = {}
  <2>1. PICK i \in DOMAIN groups \ c.taken : x[i] > 0
    <3>1. SUFFICES ASSUME \A i \in DOMAIN groups \ c.taken : x[i] = 0 PROVE FALSE
      BY <1>1
    <3>2. x = Shares(c)
      <4>1. \A j \in DOMAIN groups : x[j] = IF j \in c.taken THEN Len(groups[j]) ELSE 0
        BY <1>2, <3>1 DEF Wholes
      <4>2. Shares(c) = [j \in DOMAIN groups |-> IF j \in c.taken THEN Len(groups[j]) ELSE 0]
        BY DEF Partial
      <4> QED BY <1>1, <4>1, <4>2
    <3>3. Total(x) = Len(c.ids) /\ Len(c.ids) \in Nat
      BY <3>2 DEF Partial, Fits
    <3> QED BY <1>1, <3>3
  <2>2. i \notin Wholes(x) /\ Wholes(x) \subseteq c.taken
    BY <1>4, <2>1
  <2> QED BY <2>1, <2>2 DEF Toward
<1> QED BY <1>3, <1>4

\* The shares of a candidate that leads to a set are within it, also after a GPU that the
\* set has whole.
LEMMA WithinTotal ==
  ASSUME Searching, NEW x \in OneInPart, NEW c, Fits(c), Partial(c), Leads(c, x),
         NEW i \in DOMAIN groups \ c.taken, NEW m \in Nat, m <= x[i]
  PROVE  LET y == [Shares(c) EXCEPT ![i] = m]
         IN  /\ Shares(c) \in [DOMAIN groups -> Nat] /\ y \in [DOMAIN groups -> Nat]
             /\ Total(y) = Len(c.ids) + m /\ Len(c.ids) + m <= NewSize
             /\ Len(c.ids) + m = NewSize => y = x
<1> DEFINE y == [Shares(c) EXCEPT ![i] = m]
<1>1. /\ NewSize \in Nat /\ \A j \in DOMAIN groups : Len(groups[j]) \in Nat \ {0}
      /\ x \in [DOMAIN groups -> 0 .. NewSize] /\ Total(x) = NewSize
      /\ x \in [DOMAIN groups -> Nat]
  BY GroupSizes DEF OneInPart, Searching
<1>2. Shares(c) = [j \in DOMAIN groups |-> IF j \in c.taken THEN Len(groups[j]) ELSE 0]
      /\ Total(Shares(c)) = Len(c.ids)
  BY DEF Partial
<1>3. Shares(c) \in [DOMAIN groups -> Nat] /\ Shares(c)[i] = 0
  BY <1>1, <1>2
<1>4. y \in [DOMAIN groups -> Nat] /\ Total(y) = Len(c.ids) + m
  <2> DEFINE s == Shares(c)
  <2>1. s \in [DOMAIN groups -> Nat] /\ s[i] = 0 /\ Total(s) = Len(c.ids)
    BY <1>2, <1>3
  <2> HIDE DEF s
  <2>2. [s EXCEPT ![i] = m] \in [DOMAIN groups -> Nat] /\ Total([s EXCEPT ![i] = m]) = Total(s) + m
    BY <2>1, TotalOfOneMore
  <2> QED BY <2>1, <2>2 DEF s
<1>5. \A j \in DOMAIN groups : y[j] <= x[j]
  <2>1. \A j \in c.taken : x[j] = Len(groups[j])
    BY DEF Leads, Wholes
  <2> QED BY <1>1, <1>2, <1>3, <2>1
<1> HIDE DEF y
<1>6. Total(y) <= Total(x) /\ (Total(y) = Total(x) => y = x)
  BY <1>1, <1>4, <1>5, TotalOfMore
<1> QED BY <1>1, <1>3, <1>4, <1>6 DEF y

\* The step toward a set is one that the search makes, and leads to the set or is it.
LEMMA TowardArrives ==
  ASSUME Searching, NEW x \in OneInPart, NEW c, Fits(c), Partial(c), Len(c.ids) < NewSize,
         Leads(c, x), NEW i, Toward(c, i, x)
  PROVE  /\ i \in Adds(c)
         /\ Len(Add1(c, i).ids) = NewSize => Shares(Add1(c, i)) = x
         /\ Len(Add1(c, i).ids) # NewSize => Leads(Add1(c, i), x)
<1>1. /\ DOMAIN groups \in SUBSET (Nat \ {0}) /\ NewSize \in Nat
      /\ \A j \in DOMAIN groups : Len(groups[j]) \in Nat \ {0}
      /\ x \in [DOMAIN groups -> Nat] /\ \A j \in DOMAIN groups : x[j] <= Len(groups[j])
  BY GroupSizes DEF OneInPart, Searching
<1>2. i \in DOMAIN groups \ c.taken /\ x[i] > 0 /\ x[i] \in Nat /\ i \in Nat
  BY <1>1 DEF Toward
<1>3. Len(c.ids) \in Nat /\ c.last \in Nat
  BY <1>1 DEF Fits, Partial
<1>4. Len(c.ids) + x[i] <= NewSize /\ (Len(c.ids) + x[i] = NewSize => [Shares(c) EXCEPT ![i] = x[i]] = x)
  <2> DEFINE m == x[i]
  <2>1. m \in Nat /\ m <= x[i] /\ i \in DOMAIN groups \ c.taken
    BY <1>1, <1>2
  <2> HIDE DEF m
  <2>2. Len(c.ids) + m <= NewSize /\ (Len(c.ids) + m = NewSize => [Shares(c) EXCEPT ![i] = m] = x)
    BY <2>1, WithinTotal
  <2> QED BY <2>2 DEF m
<1>5. CASE i \in Wholes(x)
  <2>1. x[i] = Len(groups[i]) /\ c.last < i
    BY <1>2, <1>3, <1>5 DEF Wholes, Leads
  <2>2. i \in Adds(c)
    BY <1>2, <1>3, <2>1 DEF Adds
  <2>3. More(c, i) = x[i]
    <3>1. Len(c.ids) + x[i] <= NewSize
      BY <1>4
    <3> QED BY <1>1, <1>2, <1>3, <2>1, <3>1 DEF More
  <2>4. /\ Len(Add1(c, i).ids) = Len(c.ids) + x[i] /\ Add1(c, i).last = i
        /\ Shares(Add1(c, i)) = [Shares(c) EXCEPT ![i] = x[i]]
        /\ Add1(c, i).taken = c.taken \cup {i}
    BY <2>2, <2>3, Add1Result
  <2>5. c.taken \cup {i} = {j \in Wholes(x) : j <= i}
    <3>1. ASSUME NEW j \in c.taken PROVE j \in Wholes(x) /\ j <= i
      <4>1. j \in Wholes(x) /\ j <= c.last /\ j \in Nat
        BY <1>1 DEF Leads, Wholes
      <4> QED BY <1>2, <1>3, <2>1, <4>1
    <3>2. ASSUME NEW j \in Wholes(x), j <= i, j # i PROVE j \in c.taken
      <4>1. j \in Nat
        BY <1>1 DEF Wholes
      <4>2. j \notin c.taken => i <= j
        BY <1>5 DEF Toward
      <4> QED BY <1>2, <3>2, <4>1, <4>2
    <3> QED BY <1>2, <1>5, <3>1, <3>2
  <2> QED BY <1>4, <2>2, <2>4, <2>5 DEF Leads
<1>6. CASE i \notin Wholes(x)
  <2>1. x[i] < Len(groups[i])
    BY <1>1, <1>2, <1>6 DEF Wholes
  <2>2. Wholes(x) = c.taken
    BY <1>6 DEF Toward, Leads
  <2>3. [Shares(c) EXCEPT ![i] = x[i]] = x
    <3>1. \A j \in DOMAIN groups : j \notin c.taken /\ j # i => x[j] = 0
      <4>1. x[i] \notin {0, Len(groups[i])}
        BY <1>2, <2>1
      <4> QED BY <1>1, <1>2, <2>2, <4>1 DEF OneInPart, Wholes
    <3>2. \A j \in c.taken : x[j] = Len(groups[j])
      BY <2>2 DEF Wholes
    <3>3. Shares(c) = [j \in DOMAIN groups |-> IF j \in c.taken THEN Len(groups[j]) ELSE 0]
      BY DEF Partial
    <3> QED BY <1>1, <1>2, <3>1, <3>2, <3>3
  <2>4. Len(c.ids) + x[i] = NewSize
    <3> DEFINE m == x[i]
    <3>1. Total([Shares(c) EXCEPT ![i] = x[i]]) = Len(c.ids) + x[i]
      <4>1. m \in Nat /\ m <= x[i] /\ i \in DOMAIN groups \ c.taken
        BY <1>1, <1>2
      <4> HIDE DEF m
      <4>2. Total([Shares(c) EXCEPT ![i] = m]) = Len(c.ids) + m
        BY <4>1, WithinTotal
      <4> QED BY <4>2 DEF m
    <3> QED BY <2>3, <3>1 DEF OneInPart
  <2>5. i \in Adds(c)
    BY <1>1, <1>2, <1>3, <2>1, <2>4 DEF Adds, Whole
  <2>6. More(c, i) = x[i]
    BY <1>1, <1>2, <1>3, <2>1, <2>4 DEF More
  <2>7. Shares(Add1(c, i)) = x /\ Len(Add1(c, i).ids) = NewSize
    BY <2>3, <2>4, <2>5, <2>6, Add1Result
  <2> QED BY <2>5, <2>7
<1> QED BY <1>5, <1>6

\* And a step that leads to the set or is it was toward it.
LEMMA ArrivedToward ==
  ASSUME Searching, NEW x \in OneInPart, NEW c, Fits(c), Partial(c), Len(c.ids) < NewSize,
         NEW i \in Adds(c),
         IF Len(Add1(c, i).ids) = NewSize THEN Shares(Add1(c, i)) = x ELSE Leads(Add1(c, i), x)
  PROVE  Leads(c, x) /\ Toward(c, i, x)
<1>1. /\ DOMAIN groups \in SUBSET (Nat \ {0}) /\ NewSize \in Nat
      /\ \A j \in DOMAIN groups : Len(groups[j]) \in Nat \ {0}
      /\ x \in [DOMAIN groups -> Nat]
  BY GroupSizes DEF OneInPart, Searching
<1>2. /\ i \in DOMAIN groups \ c.taken /\ More(c, i) \in Nat /\ More(c, i) > 0
      /\ Add1(c, i).taken = c.taken \cup {i} /\ Add1(c, i).last = i
      /\ Len(Add1(c, i).ids) = Len(c.ids) + More(c, i)
      /\ Shares(c) \in [DOMAIN groups -> Nat]
      /\ Shares(Add1(c, i)) = [Shares(c) EXCEPT ![i] = More(c, i)]
  BY Add1Result
<1>3. /\ Len(c.ids) \in Nat /\ i \in Nat /\ c.taken \in SUBSET DOMAIN groups /\ c.last \in Nat
      /\ c.taken \in SUBSET Nat /\ (c.last \in c.taken \/ c.last = 0) /\ \A j \in c.taken : j <= c.last
  BY <1>1, <1>2 DEF Fits, Partial
<1>4. Shares(c) = [j \in DOMAIN groups |-> IF j \in c.taken THEN Len(groups[j]) ELSE 0]
  BY DEF Partial
<1>5. CASE Len(Add1(c, i).ids) # NewSize
  <2>1. c.last < i
    BY <1>5, Add1Partial
  <2>2. c.taken \cup {i} = {j \in Wholes(x) : j <= i}
    BY <1>2, <1>5 DEF Leads
  <2>3. Wholes(x) \in SUBSET Nat /\ x[i] > 0
    BY <1>1, <1>2, <2>2 DEF Wholes
  <2>4. c.taken = {j \in Wholes(x) : j <= c.last}
    BY <1>2, <1>3, <2>1, <2>2, <2>3
  <2>5. \A j \in Wholes(x) \ c.taken : i <= j
    BY <1>3, <2>2, <2>3
  <2> QED BY <1>2, <2>2, <2>3, <2>4, <2>5 DEF Leads, Toward
<1>6. CASE Len(Add1(c, i).ids) = NewSize
  <2>1. x = [Shares(c) EXCEPT ![i] = More(c, i)]
    BY <1>2, <1>6
  <2>2. x[i] = More(c, i)
        /\ \A j \in DOMAIN groups \ {i} : x[j] = IF j \in c.taken THEN Len(groups[j]) ELSE 0
    BY <1>2, <1>4, <2>1
  <2>3. \A j \in DOMAIN groups \ {i} : j \in Wholes(x) <=> j \in c.taken
    BY <1>1, <2>2 DEF Wholes
  <2>4. CASE More(c, i) = Len(groups[i])
    <3>1. Wholes(x) = c.taken \cup {i}
      BY <1>2, <1>3, <2>2, <2>3, <2>4 DEF Wholes
    <3>2. c.last < i
      <4>1. Len(groups[i]) <= NewSize - Len(c.ids)
        BY <1>1, <1>2, <1>3, <1>6, <2>4
      <4>2. ~(i < c.last) /\ i # c.last
        BY <1>1, <1>2, <1>3, <4>1 DEF Adds, Whole
      <4> QED BY <1>3, <4>2
    <3> QED BY <1>2, <1>3, <2>2, <3>1, <3>2 DEF Leads, Toward
  <2>5. CASE More(c, i) # Len(groups[i])
    <3>1. Wholes(x) = c.taken
      BY <1>2, <1>3, <2>2, <2>3, <2>5 DEF Wholes
    <3> QED BY <1>2, <1>3, <2>2, <3>1 DEF Leads, Toward
  <2> QED BY <2>4, <2>5
<1> QED BY <1>5, <1>6

\* kubelet's request, the search and the reply.
PreferInv == RequestInv /\ SearchInv /\ OnceInv /\ ReplyFits

\* The request and the groups stay, and with them what candidates are.
LEMMA Frozen ==
  ASSUME UNCHANGED <<asked, groups>>
  PROVE  /\ Free' = Free /\ NewSize' = NewSize /\ OneInPart' = OneInPart
         /\ RequestInv' <=> RequestInv
         /\ Grouped(groups, Free)' <=> Grouped(groups, Free)
         /\ \A c : /\ Fits(c)' <=> Fits(c)
                   /\ Partial(c)' <=> Partial(c)
                   /\ Shares(c)' = Shares(c)
         /\ \A c, x : Leads(c, x)' <=> Leads(c, x)
         /\ \A c, i, x : Toward(c, i, x)' <=> Toward(c, i, x)
<1>1. UNCHANGED <<topo, available, required, size, groups>>
  BY DEF asked
<1>2. Free' = Free /\ NewSize' = NewSize
  BY <1>1 DEF Free, NewSize, Known
<1>3. OneInPart' = OneInPart
  BY <1>1, <1>2 DEF OneInPart, Total
<1>4. RequestInv' <=> RequestInv
  BY <1>1 DEF RequestInv
<1>5. Grouped(groups, Free)' <=> Grouped(groups, Free)
  BY <1>1, <1>2 DEF Grouped, Nodes, Count, Times
<1>6. ASSUME NEW c PROVE Fits(c)' <=> Fits(c)
  BY <1>1, <1>2 DEF Fits, Nodes, Count, Times
<1>7. ASSUME NEW c PROVE Shares(c)' = Shares(c)
  BY <1>1 DEF Shares
<1>8. ASSUME NEW c PROVE Partial(c)' <=> Partial(c)
  BY <1>1, <1>7 DEF Partial, Total
<1>9. ASSUME NEW c, NEW x PROVE Leads(c, x)' <=> Leads(c, x)
  BY <1>1 DEF Leads, Wholes
<1>10. ASSUME NEW c, NEW i, NEW x PROVE Toward(c, i, x)' <=> Toward(c, i, x)
  BY <1>1 DEF Toward, Wholes
<1> QED BY <1>2, <1>3, <1>4, <1>5, <1>6, <1>7, <1>8, <1>9, <1>10

\* A list of anything, and one more.
LEMMA OneMore ==
  ASSUME NEW s, \E T : s \in Seq(T), NEW e
  PROVE  /\ Len(s) \in Nat /\ DOMAIN s = 1 .. Len(s)
         /\ \E T : Append(s, e) \in Seq(T)
         /\ DOMAIN Append(s, e) = 1 .. Len(s) + 1
         /\ \A k \in 1 .. Len(s) : Append(s, e)[k] = s[k]
         /\ Append(s, e)[Len(s) + 1] = e
<1>1. PICK T : s \in Seq(T)
  OBVIOUS
<1> DEFINE U == T \cup {e}
<1>2. s \in Seq(U) /\ e \in U
  BY <1>1
<1>3. Append(s, e) \in Seq(U)
  BY <1>2
<1> HIDE DEF U
<1>4. \E V : Append(s, e) \in Seq(V)
  BY <1>3
<1> QED BY <1>2, <1>4

\* A list without its first.
LEMMA WithoutFirst ==
  ASSUME NEW s, \E T : s \in Seq(T), s # <<>>
  PROVE  /\ Len(s) \in Nat \ {0} /\ DOMAIN s = 1 .. Len(s) /\ Head(s) = s[1]
         /\ \E T : Tail(s) \in Seq(T)
         /\ DOMAIN Tail(s) = 1 .. Len(s) - 1
         /\ \A k \in 1 .. Len(s) - 1 : Tail(s)[k] = s[k + 1]
<1>1. PICK T : s \in Seq(T)
  OBVIOUS
<1>2. Tail(s) \in Seq(T)
  BY <1>1
<1>3. \E U : Tail(s) \in Seq(U)
  BY <1>2
<1> QED BY <1>1, <1>3

\* Building is on: what the invariants say of it.
LEMMA Building ==
  ASSUME PreferInv, doing = "build"
  PROVE  /\ Searching
         /\ \A k \in DOMAIN todo : Fits(todo[k]) /\ Partial(todo[k]) /\ Len(todo[k].ids) < NewSize
         /\ \A k \in DOMAIN built : /\ Fits(built[k]) /\ Len(built[k].ids) = NewSize
                                    /\ Shares(built[k]) \in OneInPart
         /\ (\E T : todo \in Seq(T)) /\ (\E T : built \in Seq(T))
         /\ idx \in Nat /\ \A x \in OneInPart : OneWay(x)
  BY FreeDevices DEF PreferInv, RequestInv, SearchInv, OnceInv, Searching


LEMMA PreferStarts == PreferInit => PreferInv
<1> SUFFICES ASSUME PreferInit PROVE PreferInv
  OBVIOUS
<1>1. IsFiniteSet(Devices(topo) \cup {Ghost})
  <2>1. IsFiniteSet(Devices(topo)) /\ IsFiniteSet({Ghost})
    BY DevicesFinite, FS_Singleton DEF PreferInit
  <2> QED BY <2>1, FS_Union
<1>2. available \in SUBSET (Devices(topo) \cup {Ghost})
  BY DEF PreferInit
<1>3. Cardinality(available) \in Nat
  BY <1>1, <1>2, FS_Subset, FS_CardinalityType
<1>4. size \in 1 .. Cardinality(available)
  BY DEF PreferInit
<1>5. size \in Nat \ {0} /\ size <= Cardinality(available)
  BY <1>3, <1>4
<1>6. RequestInv
  BY <1>5 DEF PreferInit, RequestInv
<1>7. doing = "asked" /\ built = <<>> /\ idx = 0
  BY DEF PreferInit
<1> QED BY <1>6, <1>7 DEF PreferInv, SearchInv, OnceInv, ReplyFits

\* The sizes of a reply made of the devices that must be included and others.
LEMMA Complement ==
  ASSUME RequestInv, NEW S \in SUBSET (available \ required)
  PROVE  /\ Cardinality(required) \in Nat /\ Cardinality(S) \in Nat
         /\ Cardinality(required \cup S) = Cardinality(required) + Cardinality(S)
<1>1. required \in SUBSET available /\ S \in SUBSET available /\ required \cap S = {}
  BY DEF RequestInv
<1>2. IsFiniteSet(required) /\ IsFiniteSet(S)
  BY <1>1, FreeDevices, FS_Subset
<1>3. /\ Cardinality(required) \in Nat /\ Cardinality(S) \in Nat
      /\ Cardinality(required \cap S) = 0
  BY <1>1, <1>2, FS_CardinalityType, FS_EmptySet
<1>4. Cardinality(required \cup S)
        = Cardinality(required) + Cardinality(S) - Cardinality(required \cap S)
  BY <1>2, FS_Union
<1> QED BY <1>3, <1>4

\* Only a device that the plugin does not know makes the known ones fewer.
LEMMA KnownRequired ==
  ASSUME RequestInv
  PROVE  /\ Cardinality(Known(required)) \in Nat
         /\ Cardinality(Known(required)) <= Cardinality(required)
         /\ Ghost \notin required => Cardinality(Known(required)) = Cardinality(required)
<1>1. IsFiniteSet(required)
  BY FreeDevices
<1>2. Known(required) \in SUBSET required
  BY DEF Known
<1>3. Ghost \notin required => Known(required) = required
  BY DEF Known
<1> QED BY <1>1, <1>2, <1>3, FS_Subset, FS_CardinalityType

\* After a reply there is nothing to keep but the reply.
LEMMA Replied ==
  ASSUME PreferInv, NEW R, Reply(R), required \subseteq R, R \subseteq available,
         Cardinality(R) >= size, Ghost \notin required => Cardinality(R) = size
  PROVE  PreferInv'
<1>1. /\ UNCHANGED <<asked, groups>> /\ UNCHANGED <<available, required, size>>
      /\ reply' = R /\ doing' = "replied"
  BY DEF Reply, asked
<1>2. RequestInv'
  BY <1>1, Frozen DEF PreferInv
<1>3. ReplyFits'
  BY <1>1 DEF ReplyFits
<1> QED BY <1>1, <1>2, <1>3 DEF PreferInv, SearchInv, OnceInv

LEMMA EarlyReplyKeeps == ASSUME PreferInv, TakeAll \/ TakeAny \/ Echo PROVE PreferInv'
<1>1. /\ RequestInv /\ required \subseteq available /\ size \in Nat
      /\ Cardinality(required) <= size /\ size <= Cardinality(available)
  BY DEF PreferInv, RequestInv
<1>2. CASE TakeAll
  <2>1. CASE Cardinality(available) = size
    <3>1. Reply(available)
      BY <1>2, <2>1 DEF TakeAll
    <3> QED BY <1>1, <2>1, <3>1, Replied
  <2>2. CASE Cardinality(available) # size
    <3>1. Reply(required) /\ Cardinality(required) = size
      BY <1>2, <2>2 DEF TakeAll, Exact
    <3> QED BY <1>1, <3>1, Replied
  <2> QED BY <2>1, <2>2
<1>3. CASE TakeAny \/ Echo
  <2>1. PICK S \in kSubset(size - Cardinality(required), available \ required) :
          Reply(required \cup S)
    BY <1>3 DEF TakeAny, Echo
  <2>2. S \in SUBSET (available \ required) /\ Cardinality(S) = size - Cardinality(required)
    BY DEF kSubset
  <2>3. Cardinality(required \cup S) = size
    BY <1>1, <2>2, Complement
  <2> QED BY <1>1, <2>1, <2>2, <2>3, Replied
<1> QED BY <1>2, <1>3

\* The devices taken beyond must-include are as many of each node as the candidate has.
LEMMA Taken ==
  ASSUME PreferInv, Take
  PROVE  \E S \in SUBSET Free : /\ \A n \in Nodes : Count(S, n) = Times(candidate.ids, n)
                                /\ Reply(required \cup S)
<1>1. /\ candidate.ids \in Seq(Nodes) /\ \A n \in Nodes : Times(candidate.ids, n) <= Count(Free, n)
  BY DEF PreferInv, SearchInv, Take, Fits
<1>2. PICK S \in SUBSET Free :
        /\ \A n \in Nodes : Count(S, n) = Min({Times(candidate.ids, n), Count(Free, n)})
        /\ Reply(required \cup S)
  BY DEF Take
<1>3. IsFiniteSet(Free)
  BY FreeDevices DEF PreferInv
<1>4. ASSUME NEW n \in Nodes PROVE Count(S, n) = Times(candidate.ids, n)
  <2> DEFINE a == Times(candidate.ids, n)  b == Count(Free, n)
  <2>1. a \in Nat /\ b \in Nat /\ a <= b /\ Count(S, n) = Min({a, b})
    BY <1>1, <1>2, <1>3, Counts, TimesType
  <2> HIDE DEF a, b
  <2>2. Min({a, b}) = a
    BY <2>1, LeastOfTwo
  <2> QED BY <2>1, <2>2 DEF a
<1> QED BY <1>2, <1>4

\* A candidate is worth as many devices as were asked for.
LEMMA TakeKeeps == ASSUME PreferInv, Take PROVE PreferInv'
<1>1. /\ RequestInv /\ required \subseteq available /\ size \in Nat
      /\ Cardinality(required) <= size
  BY DEF PreferInv, RequestInv
<1>2. /\ Len(candidate.ids) = NewSize /\ candidate.ids \in Seq(Nodes)
  BY DEF PreferInv, SearchInv, Take, Fits
<1>3. PICK S \in SUBSET Free : /\ \A n \in Nodes : Count(S, n) = Times(candidate.ids, n)
                               /\ Reply(required \cup S)
  BY Taken
<1>4. IsFiniteSet(Free) /\ (\A d \in Free : d[1] \in Nodes) /\ S \in SUBSET (available \ required)
  BY <1>1, FreeDevices
<1>5. IsFiniteSet(S) /\ \A d \in S : d[1] \in Nodes
  BY <1>4, FS_Subset
<1>6. Cardinality(S) = size - Cardinality(Known(required))
  <2> DEFINE s == candidate.ids
  <2>1. s \in Seq(Nodes) /\ \A n \in Nodes : Count(S, n) = Times(s, n)
    BY <1>2, <1>3
  <2> HIDE DEF s
  <2>2. Cardinality(S) = Len(s)
    BY <1>5, <2>1, AsManyAsListed
  <2> QED BY <1>2, <2>2 DEF s, NewSize
<1>7. /\ Cardinality(required \cup S) >= size
      /\ Ghost \notin required => Cardinality(required \cup S) = size
  BY <1>1, <1>4, <1>6, Complement, KnownRequired
<1> QED BY <1>1, <1>3, <1>4, <1>7, Replied

\* The search starts with a candidate of no GPU, that every set is ahead of.
LEMMA FirstCandidate ==
  Searching /\ 0 < NewSize /\ todo = <<NoGPU>> /\ built = <<>> /\ idx = 0
    => Fits(NoGPU) /\ Partial(NoGPU) /\ \A x \in OneInPart : OneWay(x)
<1> SUFFICES ASSUME Searching, 0 < NewSize, todo = <<NoGPU>>, built = <<>>, idx = 0
             PROVE  Fits(NoGPU) /\ Partial(NoGPU) /\ \A x \in OneInPart : OneWay(x)
  OBVIOUS
<1>1. NoGPU.ids = <<>> /\ NoGPU.last = 0 /\ NoGPU.taken = {} /\ Len(NoGPU.ids) = 0
      /\ NoGPU.ids \in Seq(Nodes) /\ DOMAIN NoGPU.ids = {}
  BY DEF NoGPU
<1>2. Fits(NoGPU)
  <2>1. ASSUME NEW n \in Nodes PROVE Times(NoGPU.ids, n) <= Count(Free, n)
    <3>1. Times(NoGPU.ids, n) = 0
      BY <1>1, FS_EmptySet DEF Times
    <3>2. Count(Free, n) \in Nat
      BY Counts DEF Searching
    <3> QED BY <3>1, <3>2
  <2> QED BY <1>1, <2>1 DEF Fits
<1>3. Partial(NoGPU)
  <2>1. Shares(NoGPU) = [i \in DOMAIN groups |-> 0]
    BY <1>1, FS_EmptySet DEF Shares
  <2>2. Total(Shares(NoGPU)) = 0
    BY <2>1, TotalOfNone
  <2> QED BY <1>1, <2>1, <2>2 DEF Partial
<1>4. ASSUME NEW x \in OneInPart PROVE OneWay(x)
  <2>1. DOMAIN groups \in SUBSET (Nat \ {0})
    BY GroupSizes
  <2>2. Leads(NoGPU, x)
    BY <1>1, <2>1 DEF Leads, Wholes
  <2>3. \E i \in DOMAIN groups : 0 < i /\ Toward(NoGPU, i, x)
    <3>1. PICK i \in DOMAIN groups : Toward(NoGPU, i, x)
      BY <1>1, <1>2, <1>3, <2>2, TowardSome
    <3> QED BY <2>1, <3>1
  <2>4. DOMAIN todo = {1} /\ todo[1] = NoGPU /\ DOMAIN built = {}
    OBVIOUS
  <2>5. Ahead(1, x)
    BY <2>2, <2>3, <2>4 DEF Ahead
  <2> HIDE DEF Ahead, Built
  <2> QED BY <2>4, <2>5 DEF OneWay
<1> QED BY <1>2, <1>3, <1>4

LEMMA GroupKeeps == ASSUME PreferInv, Group PROVE PreferInv'
<1>1. RequestInv /\ built = <<>> /\ idx = 0
  BY DEF PreferInv, SearchInv, Group
<1>2. /\ UNCHANGED <<topo, available, required, size>> /\ groups' = FilterPartitions(Free)
      /\ todo' = <<NoGPU>> /\ built' = <<>> /\ idx' = 0 /\ doing' = "build"
      /\ ~Exact /\ ~Unregistered
  BY <1>1 DEF Group, asked
<1>3. RequestInv'
  BY <1>1, <1>2 DEF RequestInv
<1>4. Free' = Free /\ NewSize' = NewSize /\ Nodes' = Nodes
  BY <1>2 DEF Free, NewSize, Known, Nodes
<1>5. NewSize \in Nat /\ 0 < NewSize
  <2>1. Cardinality(required) # size
    BY <1>2 DEF Exact
  <2>2. Cardinality(Known(required)) \in Nat /\ Cardinality(Known(required)) <= Cardinality(required)
    BY <1>1, KnownRequired
  <2>3. size \in Nat /\ Cardinality(required) <= size /\ Cardinality(required) \in Nat
    BY <1>1, FreeDevices, FS_CardinalityType DEF RequestInv
  <2> QED BY <2>1, <2>2, <2>3 DEF NewSize
<1>6. topo \in Topologies /\ IsFiniteSet(Free) /\ Grouped(FilterPartitions(Free), Free)
  <2>1. topo \in Topologies /\ IsFiniteSet(Free) /\ \A d \in Free : d[1] \in Nodes
    BY <1>1, FreeDevices DEF RequestInv
  <2> QED BY <2>1, GroupsList
<1>7. Searching'
  <2>1. topo' \in Topologies /\ NewSize' \in Nat /\ IsFiniteSet(Free')
    BY <1>2, <1>4, <1>5, <1>6
  <2>2. Grouped(groups, Free)'
    <3>1. \A gs, S : Grouped(gs, S)' <=> Grouped(gs, S)
      <4>1. ASSUME NEW gs, NEW S PROVE Grouped(gs, S)' <=> Grouped(gs, S)
        BY <1>2 DEF Grouped, Nodes, Times, Count
      <4> QED BY <4>1
    <3> QED BY <1>2, <1>4, <1>6, <3>1
  <2> QED BY <2>1, <2>2 DEF Searching
<1>8. Fits(NoGPU)' /\ Partial(NoGPU)' /\ \A x \in OneInPart' : OneWay(x)'
  <2>1. (Searching /\ 0 < NewSize /\ todo = <<NoGPU>> /\ built = <<>> /\ idx = 0)'
    BY <1>2, <1>4, <1>5, <1>7 DEF NoGPU
  <2>2. (Fits(NoGPU) /\ Partial(NoGPU) /\ \A x \in OneInPart : OneWay(x))'
    BY <2>1, FirstCandidate, PTL
  <2> QED BY <2>2
<1>9. SearchInv'
  <2>1. DOMAIN todo' = {1} /\ todo'[1] = NoGPU /\ DOMAIN built' = {} /\ Len(NoGPU.ids) = 0
    BY <1>2 DEF NoGPU
  <2>2. (\E T : todo' \in Seq(T)) /\ (\E T : built' \in Seq(T))
    <3>1. todo' \in Seq({NoGPU}) /\ built' \in Seq({NoGPU})
      BY <1>2
    <3> QED BY <3>1
  <2>3. NewSize' \in Nat /\ Grouped(groups, Free)' /\ 0 < NewSize'
    BY <1>4, <1>5, <1>7 DEF Searching
  <2> QED BY <1>2, <1>8, <2>1, <2>2, <2>3 DEF SearchInv
<1>10. OnceInv'
  <2>1. DOMAIN todo' = {1} /\ todo'[1] = NoGPU /\ DOMAIN built' = {} /\ idx' \in Nat
    BY <1>2
  <2> QED BY <1>8, <2>1 DEF OnceInv
<1>11. ReplyFits'
  BY <1>2 DEF ReplyFits
<1> QED BY <1>3, <1>9, <1>10, <1>11 DEF PreferInv

\* What the next GPU makes of the first candidate.
LEMMA Extending ==
  ASSUME PreferInv, doing = "build", todo # <<>>, NEW i \in Adds(todo[1]), i > idx,
         \A j \in Adds(todo[1]) : j > idx => i <= j
  PROVE  LET e      == Add1(todo[1], i)
             New(x) == IF Len(e.ids) = NewSize THEN Shares(e) = x ELSE Leads(e, x)
         IN  /\ Fits(e) /\ Len(e.ids) \in Nat /\ Len(e.ids) <= NewSize /\ NewSize \in Nat
             /\ Len(e.ids) # NewSize => Partial(e)
             /\ Len(e.ids) = NewSize => Shares(e) \in OneInPart
             /\ \A x \in OneInPart :
                  /\ New(x) => Ahead(1, x)
                  /\ Leads(todo[1], x) /\ (\E j \in DOMAIN groups : i < j /\ Toward(todo[1], j, x))
                       <=> Ahead(1, x) /\ ~New(x)
<1> DEFINE c == todo[1]
           e == Add1(c, i)
           New(x) == IF Len(e.ids) = NewSize THEN Shares(e) = x ELSE Leads(e, x)
<1>1. Searching /\ idx \in Nat /\ Fits(c) /\ Partial(c) /\ Len(c.ids) < NewSize /\ i \in Adds(c)
  <2>1. 1 \in DOMAIN todo
    BY Building, WithoutFirst
  <2> QED BY <2>1, Building
<1>2. DOMAIN groups \in SUBSET (Nat \ {0}) /\ i \in Nat /\ NewSize \in Nat
  BY <1>1, GroupSizes DEF Adds, Searching
<1>3. \A j \in Adds(c) : j > idx => i <= j
  OBVIOUS
<1> HIDE DEF c
<1>4. /\ Fits(e) /\ Len(e.ids) \in Nat /\ Len(e.ids) <= NewSize
      /\ Len(e.ids) # NewSize => Partial(e)
      /\ Len(e.ids) = NewSize => Shares(e) \in OneInPart
  BY <1>1, Add1Result, Add1Partial, Add1Full
<1>5. ASSUME NEW x \in OneInPart PROVE New(x) <=> Leads(c, x) /\ Toward(c, i, x)
  <2>1. New(x) => Leads(c, x) /\ Toward(c, i, x)
    BY <1>1, ArrivedToward
  <2>2. Leads(c, x) /\ Toward(c, i, x) => New(x)
    BY <1>1, TowardArrives
  <2> QED BY <2>1, <2>2
<1> HIDE DEF New, e
<1>6. ASSUME NEW x \in OneInPart
      PROVE  /\ New(x) => Ahead(1, x)
             /\ Leads(c, x) /\ (\E j \in DOMAIN groups : i < j /\ Toward(c, j, x))
                  <=> Ahead(1, x) /\ ~New(x)
  <2>1. Ahead(1, x) <=> Leads(c, x) /\ \E j \in DOMAIN groups : idx < j /\ Toward(c, j, x)
    BY DEF Ahead, c
  <2>2. New(x) => Ahead(1, x)
    BY <1>1, <1>2, <1>5, <2>1 DEF Adds
  <2>3. ASSUME Leads(c, x), NEW j \in DOMAIN groups, i < j, Toward(c, j, x)
        PROVE  Ahead(1, x) /\ ~New(x)
    <3>1. idx < j
      BY <1>1, <1>2, <2>3
    <3>2. ~Toward(c, i, x)
      <4>1. i # j
        BY <1>2, <2>3
      <4> QED BY <1>1, <2>3, <4>1, TowardOnce
    <3> QED BY <1>5, <2>1, <2>3, <3>1, <3>2
  <2>4. ASSUME Ahead(1, x), ~New(x)
        PROVE  Leads(c, x) /\ \E j \in DOMAIN groups : i < j /\ Toward(c, j, x)
    <3>1. PICK j \in DOMAIN groups : idx < j /\ Toward(c, j, x) /\ Leads(c, x)
      BY <2>1, <2>4
    <3>2. j \in Adds(c)
      BY <1>1, <3>1, TowardArrives
    <3>3. i <= j /\ i # j
      BY <1>3, <1>5, <2>4, <3>1, <3>2
    <3> QED BY <1>2, <3>1, <3>3
  <2> QED BY <2>2, <2>3, <2>4
<1> QED BY <1>2, <1>4, <1>6 DEF c, e, New

LEMMA ExtendKeeps == ASSUME PreferInv, Extend PROVE PreferInv'
<1>1. doing = "build" /\ todo # <<>> /\ doing' = "build" /\ UNCHANGED <<asked, groups>>
  BY DEF Extend
<1> PICK m, n : m = Len(todo) /\ n = Len(built)
  OBVIOUS
<1>2. /\ m \in Nat \ {0} /\ DOMAIN todo = 1 .. m /\ Head(todo) = todo[1]
      /\ n \in Nat /\ DOMAIN built = 1 .. n
      /\ (\E T : todo \in Seq(T)) /\ (\E T : built \in Seq(T))
  BY <1>1, Building, WithoutFirst, OneMore
<1>3. PICK i \in Adds(todo[1]) :
        LET e == Add1(todo[1], i)
        IN  /\ i > idx /\ (\A j \in Adds(todo[1]) : j > idx => i <= j) /\ idx' = i
            /\ \/ Len(e.ids) = NewSize /\ built' = Append(built, e) /\ todo' = todo
               \/ Len(e.ids) # NewSize /\ todo' = Append(todo, e) /\ built' = built
  BY <1>2 DEF Extend
<1> DEFINE e == Add1(todo[1], i)
           New(x) == IF Len(e.ids) = NewSize THEN Shares(e) = x ELSE Leads(e, x)
<1>4. /\ Fits(e) /\ Len(e.ids) \in Nat /\ Len(e.ids) <= NewSize /\ NewSize \in Nat
      /\ Len(e.ids) # NewSize => Partial(e)
      /\ Len(e.ids) = NewSize => Shares(e) \in OneInPart
      /\ \A x \in OneInPart :
           /\ New(x) => Ahead(1, x)
           /\ Leads(todo[1], x) /\ (\E j \in DOMAIN groups : i < j /\ Toward(todo[1], j, x))
                <=> Ahead(1, x) /\ ~New(x)
  BY <1>1, <1>3, Extending
<1>5. /\ idx' = i
      /\ \/ Len(e.ids) = NewSize /\ built' = Append(built, e) /\ todo' = todo
         \/ Len(e.ids) # NewSize /\ todo' = Append(todo, e) /\ built' = built
  BY <1>3
<1>6. i \in Nat /\ idx' \in Nat
  <2>1. DOMAIN groups \in SUBSET Nat
    BY <1>1, Building, GroupSizes
  <2> QED BY <1>5, <2>1 DEF Adds
<1>7. /\ \A k \in 1 .. m : Fits(todo[k]) /\ Partial(todo[k]) /\ Len(todo[k].ids) < NewSize
      /\ \A k \in 1 .. n : Fits(built[k]) /\ Len(built[k].ids) = NewSize /\ Shares(built[k]) \in OneInPart
      /\ \A x \in OneInPart : OneWay(x)
  BY <1>1, <1>2, Building
<1> HIDE DEF e
<1>8. RequestInv' /\ NewSize' = NewSize /\ OneInPart' = OneInPart /\ Grouped(groups, Free)' /\ ReplyFits'
  BY <1>1, Building, Frozen DEF PreferInv, Searching, ReplyFits
<1>9. /\ \A k \in 1 .. m : k \in DOMAIN todo' /\ todo'[k] = todo[k]
      /\ \A k \in 1 .. n : k \in DOMAIN built' /\ built'[k] = built[k]
      /\ (\E T : todo' \in Seq(T)) /\ (\E T : built' \in Seq(T))
  <2>1. /\ DOMAIN Append(todo, e) = 1 .. m + 1 /\ \A k \in 1 .. m : Append(todo, e)[k] = todo[k]
        /\ \E T : Append(todo, e) \in Seq(T)
    BY <1>2, OneMore
  <2>2. /\ DOMAIN Append(built, e) = 1 .. n + 1 /\ \A k \in 1 .. n : Append(built, e)[k] = built[k]
        /\ \E T : Append(built, e) \in Seq(T)
    <3>1. (\E T : built \in Seq(T)) /\ n = Len(built)
      BY <1>2
    <3>2. /\ \E T : Append(built, e) \in Seq(T)
          /\ DOMAIN Append(built, e) = 1 .. Len(built) + 1
          /\ \A k \in 1 .. Len(built) : Append(built, e)[k] = built[k]
      BY <3>1, OneMore, Zenon
    <3> QED BY <3>1, <3>2
  <2>3. CASE built' = Append(built, e) /\ todo' = todo
    BY <1>2, <2>2, <2>3
  <2>4. CASE todo' = Append(todo, e) /\ built' = built
    BY <1>2, <2>1, <2>4
  <2> QED BY <1>5, <2>3, <2>4
<1>10. ASSUME NEW x \in OneInPart
       PROVE  /\ \A k \in 1 .. m : Ahead(k, x)' <=> Ahead(k, x) /\ ~(k = 1 /\ New(x))
              /\ \A k \in 1 .. n : Built(k, x)' <=> Built(k, x)
  <2>1. /\ \A c : Leads(c, x)' <=> Leads(c, x)
        /\ \A c, j : Toward(c, j, x)' <=> Toward(c, j, x)
        /\ \A c : Shares(c)' = Shares(c)
        /\ groups' = groups
    BY <1>1, Frozen
  <2>2. ASSUME NEW k \in 1 .. m, k # 1 PROVE Ahead(k, x)' <=> Ahead(k, x)
    BY <1>9, <2>1, <2>2 DEF Ahead
  <2>3. Ahead(1, x)' <=> Ahead(1, x) /\ ~New(x)
    <3> DEFINE c == todo[1]
    <3>1. todo'[1] = c
      BY <1>2, <1>9
    <3>2. Ahead(1, x)' <=> Leads(c, x) /\ (\E j \in DOMAIN groups : i < j /\ Toward(c, j, x))
      <4> HIDE DEF c
      <4> QED BY <1>5, <2>1, <3>1 DEF Ahead
    <3> HIDE DEF New
    <3> QED BY <1>4, <3>2
  <2>4. ASSUME NEW k \in 1 .. n PROVE Built(k, x)' <=> Built(k, x)
    BY <1>9, <2>1, <2>4 DEF Built
  <2> QED BY <2>2, <2>3, <2>4
<1> HIDE DEF New
<1>11. /\ \A c : (Fits(c)' <=> Fits(c)) /\ (Partial(c)' <=> Partial(c)) /\ Shares(c)' = Shares(c)
       /\ \A c, x : Leads(c, x)' <=> Leads(c, x)
  BY <1>1, Frozen
<1>12. CASE Len(e.ids) = NewSize /\ built' = Append(built, e) /\ todo' = todo
  <2>1. DOMAIN todo' = 1 .. m /\ DOMAIN built' = 1 .. n + 1 /\ built'[n + 1] = e
    BY <1>2, <1>12, OneMore
  <2>2. ASSUME NEW x \in OneInPart PROVE Built(n + 1, x)' <=> New(x)
    BY <1>11, <1>12, <2>1 DEF Built, New
  <2>3. ASSUME NEW x \in OneInPart PROVE OneWay(x)'
    <3>1. OneWay(x) /\ (New(x) => Ahead(1, x))
      BY <1>4, <1>7
    <3>2. CASE New(x)
      <4>1. /\ \A k \in 2 .. m : ~Ahead(k, x)
            /\ \A k \in 1 .. n : ~Built(k, x)
        BY <1>2, <3>1, <3>2 DEF OneWay
      <4>2. \A k \in 1 .. m : ~Ahead(k, x)'
        BY <1>2, <1>10, <3>2, <4>1
      <4>3. \A k \in 1 .. n + 1 : Built(k, x)' <=> k = n + 1
        BY <1>2, <1>10, <2>2, <3>2, <4>1
      <4>4. \A k \in DOMAIN built' : Built(k, x)' <=> k = n + 1
        BY <2>1, <4>3
      <4>5. n + 1 \in DOMAIN built' /\ \A k \in DOMAIN todo' : ~Ahead(k, x)'
        BY <1>2, <2>1, <4>2
      <4> QED BY <4>4, <4>5 DEF OneWay
    <3>3. CASE ~New(x)
      <4>1. \A k \in 1 .. m : Ahead(k, x)' <=> Ahead(k, x)
        BY <1>10, <3>3
      <4>2. \A k \in 1 .. n + 1 : Built(k, x)' <=> k # n + 1 /\ Built(k, x)
        BY <1>2, <1>10, <2>2, <3>3
      <4>3. CASE /\ \E k \in DOMAIN built : \A j \in DOMAIN built : Built(j, x) <=> j = k
                 /\ \A j \in DOMAIN todo : ~Ahead(j, x)
        <5>1. PICK k \in DOMAIN built : \A j \in DOMAIN built : Built(j, x) <=> j = k
          BY <4>3
        <5>2. k \in DOMAIN built' /\ \A j \in DOMAIN built' : Built(j, x)' <=> j = k
          BY <1>2, <2>1, <4>2, <5>1
        <5>3. \A j \in DOMAIN todo' : ~Ahead(j, x)'
          BY <1>2, <2>1, <4>1, <4>3
        <5> QED BY <5>2, <5>3 DEF OneWay
      <4>4. CASE /\ \E k \in DOMAIN todo : \A j \in DOMAIN todo : Ahead(j, x) <=> j = k
                 /\ \A j \in DOMAIN built : ~Built(j, x)
        <5>1. PICK k \in DOMAIN todo : \A j \in DOMAIN todo : Ahead(j, x) <=> j = k
          BY <4>4
        <5>2. k \in DOMAIN todo' /\ \A j \in DOMAIN todo' : Ahead(j, x)' <=> j = k
          BY <1>2, <2>1, <4>1, <5>1
        <5>3. \A j \in DOMAIN built' : ~Built(j, x)'
          BY <1>2, <2>1, <4>2, <4>4
        <5> QED BY <5>2, <5>3 DEF OneWay
      <4> QED BY <3>1, <4>3, <4>4 DEF OneWay
    <3> QED BY <3>2, <3>3
  <2>4. /\ \A k \in DOMAIN todo' : Fits(todo'[k]) /\ Partial(todo'[k]) /\ Len(todo'[k].ids) < NewSize
        /\ \A k \in DOMAIN built' :
             Fits(built'[k]) /\ Len(built'[k].ids) = NewSize /\ Shares(built'[k]) \in OneInPart
    BY <1>2, <1>4, <1>7, <1>9, <1>12, <2>1
  <2>5. SearchInv' /\ OnceInv'
    BY <1>1, <1>4, <1>6, <1>8, <1>9, <1>11, <2>3, <2>4 DEF SearchInv, OnceInv
  <2> QED BY <1>8, <2>5 DEF PreferInv
<1>13. CASE Len(e.ids) # NewSize /\ todo' = Append(todo, e) /\ built' = built
  <2>1. DOMAIN built' = 1 .. n /\ DOMAIN todo' = 1 .. m + 1 /\ todo'[m + 1] = e
    BY <1>2, <1>13, OneMore
  <2>2. ASSUME NEW x \in OneInPart PROVE Ahead(m + 1, x)' <=> New(x)
    <3>1. m + 1 # 1
      BY <1>2
    <3> QED BY <1>11, <1>13, <2>1, <3>1 DEF Ahead, New
  <2>3. ASSUME NEW x \in OneInPart PROVE OneWay(x)'
    <3>1. OneWay(x) /\ (New(x) => Ahead(1, x))
      BY <1>4, <1>7
    <3>2. CASE New(x)
      <4>1. /\ \A k \in 2 .. m : ~Ahead(k, x)
            /\ \A k \in 1 .. n : ~Built(k, x)
        BY <1>2, <3>1, <3>2 DEF OneWay
      <4>2. \A k \in 1 .. m + 1 : Ahead(k, x)' <=> k = m + 1
        BY <1>2, <1>10, <2>2, <3>2, <4>1
      <4>3. \A k \in 1 .. n : ~Built(k, x)'
        BY <1>2, <1>10, <4>1
      <4> QED BY <1>2, <2>1, <4>2, <4>3 DEF OneWay
    <3>3. CASE ~New(x)
      <4>1. \A k \in 1 .. m + 1 : Ahead(k, x)' <=> k # m + 1 /\ Ahead(k, x)
        BY <1>2, <1>10, <2>2, <3>3
      <4>2. \A k \in 1 .. n : Built(k, x)' <=> Built(k, x)
        BY <1>10
      <4>3. CASE /\ \E k \in DOMAIN built : \A j \in DOMAIN built : Built(j, x) <=> j = k
                 /\ \A j \in DOMAIN todo : ~Ahead(j, x)
        <5>1. PICK k \in DOMAIN built : \A j \in DOMAIN built : Built(j, x) <=> j = k
          BY <4>3
        <5>2. k \in DOMAIN built' /\ \A j \in DOMAIN built' : Built(j, x)' <=> j = k
          BY <1>2, <2>1, <4>2, <5>1
        <5>3. \A j \in DOMAIN todo' : ~Ahead(j, x)'
          BY <1>2, <2>1, <4>1, <4>3
        <5> QED BY <5>2, <5>3 DEF OneWay
      <4>4. CASE /\ \E k \in DOMAIN todo : \A j \in DOMAIN todo : Ahead(j, x) <=> j = k
                 /\ \A j \in DOMAIN built : ~Built(j, x)
        <5>1. PICK k \in DOMAIN todo : \A j \in DOMAIN todo : Ahead(j, x) <=> j = k
          BY <4>4
        <5>2. k \in DOMAIN todo' /\ \A j \in DOMAIN todo' : Ahead(j, x)' <=> j = k
          BY <1>2, <2>1, <4>1, <5>1
        <5>3. \A j \in DOMAIN built' : ~Built(j, x)'
          BY <1>2, <2>1, <4>2, <4>4
        <5> QED BY <5>2, <5>3 DEF OneWay
      <4> QED BY <3>1, <4>3, <4>4 DEF OneWay
    <3> QED BY <3>2, <3>3
  <2>4. /\ \A k \in DOMAIN todo' : Fits(todo'[k]) /\ Partial(todo'[k]) /\ Len(todo'[k].ids) < NewSize
        /\ \A k \in DOMAIN built' :
             Fits(built'[k]) /\ Len(built'[k].ids) = NewSize /\ Shares(built'[k]) \in OneInPart
    BY <1>2, <1>4, <1>7, <1>9, <1>13, <2>1
  <2>5. SearchInv' /\ OnceInv'
    BY <1>1, <1>4, <1>6, <1>8, <1>9, <1>11, <2>3, <2>4 DEF SearchInv, OnceInv
  <2> QED BY <1>8, <2>5 DEF PreferInv
<1> QED BY <1>5, <1>12, <1>13

\* The first candidate is given up when nothing is ahead of it; the second then starts
\* with all GPUs ahead.
LEMMA ExtendedKeeps == ASSUME PreferInv, Extended PROVE PreferInv'
<1>1. /\ doing = "build" /\ todo # <<>> /\ doing' = "build" /\ UNCHANGED <<asked, groups>>
      /\ todo' = Tail(todo) /\ idx' = 0 /\ built' = built
  BY DEF Extended
<1> PICK m : m = Len(todo)
  OBVIOUS
<1>2. /\ m \in Nat \ {0} /\ DOMAIN todo = 1 .. m /\ Head(todo) = todo[1] /\ DOMAIN todo' = 1 .. m - 1
      /\ \A k \in 1 .. m - 1 : todo'[k] = todo[k + 1]
      /\ (\E T : todo' \in Seq(T)) /\ (\E T : built' \in Seq(T))
  BY <1>1, Building, WithoutFirst
<1>3. /\ Searching /\ idx \in Nat /\ DOMAIN groups \in SUBSET (Nat \ {0})
      /\ \A k \in 1 .. m : Fits(todo[k]) /\ Partial(todo[k]) /\ Len(todo[k].ids) < NewSize
      /\ \A k \in DOMAIN built : Fits(built[k]) /\ Len(built[k].ids) = NewSize /\ Shares(built[k]) \in OneInPart
      /\ \A x \in OneInPart : OneWay(x)
  BY <1>1, <1>2, Building, GroupSizes
<1>4. \A j \in Adds(todo[1]) : j <= idx
  BY <1>2 DEF Extended
<1>5. RequestInv' /\ NewSize' = NewSize /\ OneInPart' = OneInPart /\ Grouped(groups, Free)' /\ ReplyFits'
  BY <1>1, <1>3, Frozen DEF PreferInv, Searching, ReplyFits
<1>6. ASSUME NEW x \in OneInPart
      PROVE  /\ ~Ahead(1, x)
             /\ \A k \in 1 .. m - 1 : Ahead(k, x)' <=> Ahead(k + 1, x)
             /\ \A k \in DOMAIN built : Built(k, x)' <=> Built(k, x)
  <2>1. ~Ahead(1, x)
    <3>1. SUFFICES ASSUME Ahead(1, x) PROVE FALSE
      OBVIOUS
    <3> DEFINE c == todo[1]
    <3>2. Fits(c) /\ Partial(c) /\ Len(c.ids) < NewSize /\ \A j \in Adds(c) : j <= idx
      BY <1>2, <1>3, <1>4
    <3>3. PICK j \in DOMAIN groups : idx < j /\ Toward(c, j, x) /\ Leads(c, x)
      BY <3>1 DEF Ahead
    <3> HIDE DEF c
    <3>4. j \in Adds(c)
      BY <1>3, <3>2, <3>3, TowardArrives
    <3> QED BY <1>3, <3>2, <3>3, <3>4
  <2>2. /\ \A c : Leads(c, x)' <=> Leads(c, x)
        /\ \A c, j : Toward(c, j, x)' <=> Toward(c, j, x)
        /\ \A c : Shares(c)' = Shares(c)
        /\ groups' = groups
    BY <1>1, Frozen
  <2>3. ASSUME NEW k \in 1 .. m - 1 PROVE Ahead(k, x)' <=> Ahead(k + 1, x)
    <3> DEFINE c == todo[k + 1]
    <3>1. todo'[k] = c /\ Fits(c) /\ Partial(c) /\ Len(c.ids) < NewSize /\ k + 1 # 1
      BY <1>2, <1>3
    <3>2. Ahead(k + 1, x) <=> Leads(c, x)
      BY <3>1 DEF Ahead
    <3> HIDE DEF c
    <3>3. Leads(c, x) => \E j \in DOMAIN groups : 0 < j /\ Toward(c, j, x)
      BY <1>3, <3>1, TowardSome
    <3>4. Ahead(k, x)' <=> Leads(c, x)
      BY <1>1, <2>2, <3>1, <3>3 DEF Ahead
    <3> QED BY <3>2, <3>4
  <2>4. ASSUME NEW k \in DOMAIN built PROVE Built(k, x)' <=> Built(k, x)
    BY <1>1, <2>2, <2>4 DEF Built
  <2> QED BY <2>1, <2>3, <2>4
<1>7. ASSUME NEW x \in OneInPart PROVE OneWay(x)'
  <2>1. CASE \E k \in DOMAIN built : \A j \in DOMAIN built : Built(j, x) <=> j = k
    <3>1. \A j \in 1 .. m : ~Ahead(j, x)
      BY <1>2, <1>3, <2>1 DEF OneWay
    <3>2. \A j \in 1 .. m - 1 : ~Ahead(j, x)'
      <4>1. ASSUME NEW j \in 1 .. m - 1 PROVE ~Ahead(j, x)'
        BY <1>2, <1>6, <3>1
      <4> QED BY <4>1
    <3> QED BY <1>1, <1>2, <1>6, <2>1, <3>2 DEF OneWay
  <2>2. CASE ~\E k \in DOMAIN built : \A j \in DOMAIN built : Built(j, x) <=> j = k
    <3>1. PICK k \in 1 .. m : \A j \in 1 .. m : Ahead(j, x) <=> j = k
      BY <1>2, <1>3, <2>2 DEF OneWay
    <3>2. \A j \in DOMAIN built : ~Built(j, x)
      BY <1>3, <2>2 DEF OneWay
    <3>3. k # 1
      BY <1>6, <3>1
    <3>4. ASSUME NEW j \in 1 .. m - 1 PROVE Ahead(j, x)' <=> j = k - 1
      BY <1>2, <1>6, <3>1
    <3>5. k - 1 \in 1 .. m - 1
      BY <1>2, <3>3
    <3>6. \A j \in DOMAIN built' : ~Built(j, x)'
      BY <1>1, <1>6, <3>2
    <3>7. k - 1 \in DOMAIN todo' /\ \A j \in DOMAIN todo' : Ahead(j, x)' <=> j = k - 1
      BY <1>2, <3>4, <3>5
    <3> QED BY <3>6, <3>7 DEF OneWay
  <2> QED BY <2>1, <2>2
<1>8. \A k \in DOMAIN todo' : Fits(todo'[k]) /\ Partial(todo'[k]) /\ Len(todo'[k].ids) < NewSize
  BY <1>2, <1>3
<1>9. SearchInv'
  BY <1>1, <1>2, <1>3, <1>5, <1>8, Frozen DEF SearchInv, Searching
<1>10. OnceInv'
  BY <1>1, <1>3, <1>5, <1>7, <1>8, Frozen DEF OnceInv
<1> QED BY <1>5, <1>9, <1>10 DEF PreferInv

\* The best candidate is one of those that were built.
LEMMA ChooseKeeps == ASSUME PreferInv, Choose PROVE PreferInv'
<1>1. doing = "build" /\ doing' = "take" /\ UNCHANGED <<asked, groups>>
  BY DEF Choose
<1>2. PICK k \in DOMAIN built : candidate' = built[k]
  BY DEF Choose
<1>3. Fits(candidate') /\ Len(candidate'.ids) = NewSize /\ NewSize \in Nat /\ Grouped(groups, Free)
  BY <1>1, <1>2, Building DEF Searching
<1>4. RequestInv' /\ NewSize' = NewSize /\ Grouped(groups, Free)' /\ Fits(candidate)'
  BY <1>1, <1>3, Frozen DEF PreferInv
<1>5. SearchInv' /\ OnceInv' /\ ReplyFits'
  BY <1>1, <1>3, <1>4 DEF SearchInv, OnceInv, ReplyFits
<1> QED BY <1>4, <1>5 DEF PreferInv

LEMMA PreferInductive == PreferSpec => []PreferInv
<1>1. PreferInv /\ [PreferNext]_preferVars => PreferInv'
  <2>1. PreferInv /\ UNCHANGED preferVars => PreferInv'
    <3> SUFFICES ASSUME PreferInv, UNCHANGED preferVars PROVE PreferInv'
      OBVIOUS
    <3>1. /\ UNCHANGED <<asked, groups>> /\ UNCHANGED <<available, required, size, reply>>
          /\ UNCHANGED <<todo, built, candidate, idx, doing>>
      BY DEF preferVars, asked
    <3>2. RequestInv' /\ NewSize' = NewSize /\ (Grouped(groups, Free)' <=> Grouped(groups, Free))
      BY <3>1, Frozen DEF PreferInv
    <3>3. ReplyFits'
      BY <3>1 DEF PreferInv, ReplyFits
    <3>4. SearchInv'
      BY <3>1, <3>2, Frozen DEF PreferInv, SearchInv
    <3>5. OnceInv'
      <4>1. \A x : OneWay(x)' <=> OneWay(x)
        <5>1. ASSUME NEW x PROVE OneWay(x)' <=> OneWay(x)
          <6>1. /\ \A c : Leads(c, x)' <=> Leads(c, x)
                /\ \A c, j : Toward(c, j, x)' <=> Toward(c, j, x)
                /\ \A c : Shares(c)' = Shares(c)
            BY <3>1, Frozen
          <6>2. \A k : Ahead(k, x)' <=> Ahead(k, x)
            BY <3>1, <6>1 DEF Ahead
          <6>3. \A k : Built(k, x)' <=> Built(k, x)
            BY <3>1, <6>1 DEF Built
          <6> QED BY <3>1, <6>2, <6>3 DEF OneWay
        <5> QED BY <5>1
      <4> QED BY <3>1, <4>1, Frozen DEF PreferInv, OnceInv
    <3> QED BY <3>2, <3>3, <3>4, <3>5 DEF PreferInv
  <2> QED BY <2>1, EarlyReplyKeeps, GroupKeeps, ExtendKeeps, ExtendedKeeps, ChooseKeeps, TakeKeeps
          DEF PreferNext
<1> QED BY <1>1, PreferStarts, PTL DEF PreferSpec

\* On every node and for every request, kubelet gets the devices it requires and others
\* it named, as many as it asked for, and more only with a device of another plugin.
THEOREM ReplyFitsRequest == PreferSpec => []ReplyFits
<1>1. PreferInv => ReplyFits
  BY DEF PreferInv
<1> QED BY <1>1, PreferInductive, PTL

\* Whatever the GPUs and whatever is free, the search builds every set in which at most
\* one GPU is taken in part, and builds it once.
THEOREM SetsOnce == PreferSpec => []EverySetOnce
<1>1. PreferInv => EverySetOnce
  <2> SUFFICES ASSUME PreferInv, doing = "build", todo = <<>>
               PROVE  /\ \A k \in DOMAIN built : Shares(built[k]) \in OneInPart
                      /\ \A x \in OneInPart :
                           \E k \in DOMAIN built : \A j \in DOMAIN built : Shares(built[j]) = x <=> j = k
    BY DEF EverySetOnce
  <2>1. DOMAIN todo = {}
    OBVIOUS
  <2>2. \A x \in OneInPart : \E k \in DOMAIN built : \A j \in DOMAIN built : Shares(built[j]) = x <=> j = k
    <3>1. ASSUME NEW x \in OneInPart
          PROVE  \E k \in DOMAIN built : \A j \in DOMAIN built : Shares(built[j]) = x <=> j = k
      <4>1. OneWay(x)
        BY Building
      <4> QED BY <2>1, <4>1 DEF OneWay, Built
    <3> QED BY <3>1
  <2> QED BY <2>2, Building
<1> QED BY <1>1, PreferInductive, PTL

-------------------------------------------------------------------------------
(* The weight of a choice                                                  *)

\* What holds of no element, and of any if it holds without any one of them, holds of all.
LEMMA OneAtATime ==
  ASSUME NEW P, IsFiniteSet(P), NEW Good, {} \in Good,
         \A T \in SUBSET P : T # {} /\ (\A p \in T : T \ {p} \in Good) => T \in Good
  PROVE  P \in Good
<1> DEFINE Bad == {T \in SUBSET P : T \notin Good}
           Sizes == {Cardinality(T) : T \in Bad}
<1>1. SUFFICES ASSUME P \notin Good PROVE FALSE
  OBVIOUS
<1>2. Cardinality(P) \in Sizes
  BY <1>1
<1>3. \A T \in SUBSET P : IsFiniteSet(T) /\ Cardinality(T) \in Nat
  BY FS_Subset, FS_CardinalityType
<1>4. Sizes \in SUBSET Nat
  BY <1>3
<1> HIDE DEF Sizes
<1>5. PICK k \in Sizes : \A j \in Sizes : k <= j
  <2>1. Sizes = {j \in Nat : j \in Sizes}
    BY <1>4
  <2> QED BY <1>2, <1>4, <2>1, LeastNatural
<1>6. PICK T \in Bad : Cardinality(T) = k
  BY <1>5 DEF Sizes
<1>7. ASSUME NEW p \in T PROVE T \ {p} \in Good
  <2>1. T \ {p} \in SUBSET P /\ T \ {p} # T
    BY <1>6
  <2>2. Cardinality(T \ {p}) < k
    <3>1. IsFiniteSet(T) /\ T \ {p} \in SUBSET T
      BY <1>3, <1>6
    <3>2. Cardinality(T \ {p}) <= k /\ Cardinality(T \ {p}) # k
      BY <1>6, <2>1, <3>1, FS_Subset
    <3> QED BY <1>3, <1>4, <1>5, <2>1, <3>2
  <2>3. SUFFICES ASSUME T \ {p} \in Bad PROVE FALSE
    BY <2>1
  <2>4. Cardinality(T \ {p}) \in Sizes
    BY <2>3 DEF Sizes
  <2> QED BY <1>3, <1>4, <1>5, <2>1, <2>2, <2>4
<1> QED BY <1>6, <1>7

\* Different nodes are some way apart, and not farther one way than the other.
LEMMA PairWeights ==
  ASSUME NEW a, NEW b
  PROVE  PairWeight(a, b) \in Nat /\ (a # b => PairWeight(a, b) > 0)
<1>1. LinkWeight(topo.link[{a, b}]) \in {10, 40, 50}
  BY DEF LinkWeight
<1> QED BY <1>1 DEF PairWeight

\* The pairs of nodes, and what n[a] devices of each node a make of one.
Pairs == {p \in Nodes \X Nodes : p[1] < p[2]}
Term(n, p) == n[p[1]] * n[p[2]] * PairWeight(p[1], p[2])
\* The sum of the pairs in T.
Sum(n, T) == Cardinality(UNION {{p} \X (1 .. Term(n, p)) : p \in T})

LEMMA PairsOfNodes ==
  ASSUME topo \in Topologies
  PROVE  /\ IsFiniteSet(Pairs) /\ IsFiniteSet(Nodes) /\ Nodes \in SUBSET Nat
         /\ \A p \in Pairs : p[1] \in Nodes /\ p[2] \in Nodes /\ p[1] < p[2]
<1>1. PICK m \in Nat : Nodes = 1 .. m
  BY TopologiesAssumption DEF Nodes
<1>2. IsFiniteSet(Nodes) /\ Nodes \in SUBSET Nat
  BY <1>1, FirstNumbers
<1>3. IsFiniteSet(Nodes \X Nodes)
  BY <1>2, FS_Product
<1>4. Pairs \in SUBSET (Nodes \X Nodes)
  BY DEF Pairs
<1> QED BY <1>2, <1>3, <1>4, FS_Subset DEF Pairs

LEMMA TermType ==
  ASSUME NEW n \in [Nodes -> Nat], NEW p \in Pairs
  PROVE  Term(n, p) \in Nat
<1>1. n[p[1]] \in Nat /\ n[p[2]] \in Nat /\ PairWeight(p[1], p[2]) \in Nat
  BY PairWeights DEF Pairs
<1> QED BY <1>1 DEF Term

\* One pair more adds its term.
LEMMA SumOfMore ==
  ASSUME topo \in Topologies, NEW n \in [Nodes -> Nat], NEW T \in SUBSET Pairs, NEW p \in T
  PROVE  /\ Sum(n, T) \in Nat /\ Sum(n, T \ {p}) \in Nat /\ Term(n, p) \in Nat
         /\ Sum(n, T) = Term(n, p) + Sum(n, T \ {p})
<1> DEFINE Cells(U) == UNION {{q} \X (1 .. Term(n, q)) : q \in U}
           x(U) == [q \in U |-> Term(n, q)]
           A == {p} \X (1 .. Term(n, p))
<1>1. ASSUME NEW U \in SUBSET Pairs
      PROVE  IsFiniteSet(Cells(U)) /\ Sum(n, U) = Cardinality(Cells(U)) /\ Sum(n, U) \in Nat
  <2>1. IsFiniteSet(U)
    BY PairsOfNodes, FS_Subset
  <2>2. x(U) \in [U -> Nat] /\ \A q \in U : x(U)[q] = Term(n, q)
    BY TermType
  <2>3. IsFiniteSet(UNION {{q} \X (1 .. x(U)[q]) : q \in U})
    <3> HIDE DEF x
    <3> QED BY <2>1, <2>2, PairsFinite
  <2>4. UNION {{q} \X (1 .. x(U)[q]) : q \in U} = Cells(U)
    BY <2>2
  <2> QED BY <2>3, <2>4, FS_CardinalityType DEF Sum
<1>2. Cells(T) = Cells(T \ {p}) \cup A /\ Cells(T \ {p}) \cap A = {}
  OBVIOUS
<1>3. Term(n, p) \in Nat /\ IsFiniteSet(A) /\ Cardinality(A) = Term(n, p)
  <2>1. PICK m \in Nat : m = Term(n, p)
    BY TermType
  <2>2. IsFiniteSet(1 .. m) /\ Cardinality(1 .. m) = m
    BY FirstNumbers
  <2>3. IsFiniteSet({p}) /\ Cardinality({p}) = 1
    BY FS_Singleton
  <2>4. IsFiniteSet({p} \X (1 .. m)) /\ Cardinality({p} \X (1 .. m)) = Cardinality({p}) * Cardinality(1 .. m)
    BY <2>2, <2>3, FS_Product
  <2> QED BY <2>1, <2>2, <2>3, <2>4
<1>4. T \ {p} \in SUBSET Pairs
  OBVIOUS
<1> HIDE DEF A, Cells
<1>5. /\ Cardinality(Cells(T)) = Cardinality(Cells(T \ {p})) + Cardinality(A)
                                   - Cardinality(Cells(T \ {p}) \cap A)
      /\ Cardinality(Cells(T \ {p}) \cap A) = 0
  BY <1>1, <1>2, <1>3, <1>4, FS_Union, FS_EmptySet
<1> QED BY <1>1, <1>3, <1>4, <1>5

LEMMA SumOfNone == ASSUME NEW n PROVE Sum(n, {}) = 0
<1>1. UNION {{p} \X (1 .. Term(n, p)) : p \in {}} = {}
  OBVIOUS
<1> QED BY <1>1, FS_EmptySet DEF Sum

\* The weight is the sum of all pairs, in whatever order they are added.
LEMMA WeightIsSum ==
  ASSUME topo \in Topologies, NEW n \in [Nodes -> Nat]
  PROVE  WeightOf(n) = Sum(n, Pairs)
<1> DEFINE Pick(T) == CHOOSE p \in T : TRUE
           Sums(f) == f = [T \in SUBSET Pairs |-> IF T = {} THEN 0 ELSE Term(n, Pick(T)) + f[T \ {Pick(T)}]]
           s == [T \in SUBSET Pairs |-> Sum(n, T)]
           h == CHOOSE f : Sums(f)
<1>1. Sums(s)
  <2>1. ASSUME NEW T \in SUBSET Pairs
        PROVE  s[T] = IF T = {} THEN 0 ELSE Term(n, Pick(T)) + s[T \ {Pick(T)}]
    <3>1. CASE T = {}
      BY <3>1, SumOfNone
    <3>2. CASE T # {}
      <4>1. Pick(T) \in T
        BY <3>2
      <4> HIDE DEF Pick
      <4>2. Sum(n, T) = Term(n, Pick(T)) + Sum(n, T \ {Pick(T)})
        BY <4>1, SumOfMore
      <4> QED BY <3>2, <4>2
    <3> QED BY <3>1, <3>2
  <2>2. s = [T \in SUBSET Pairs |-> s[T]]
    OBVIOUS
  <2> HIDE DEF s, Pick
  <2>3. [T \in SUBSET Pairs |-> s[T]]
          = [T \in SUBSET Pairs |-> IF T = {} THEN 0 ELSE Term(n, Pick(T)) + s[T \ {Pick(T)}]]
    BY <2>1
  <2> QED BY <2>2, <2>3
<1>2. Sums(h)
  <2>1. \E f : Sums(f)
    <3> HIDE DEF Sums, s
    <3> QED BY <1>1
  <2> HIDE DEF Sums
  <2> QED BY <2>1
<1>3. WeightOf(n) = h[Pairs]
  BY DEF WeightOf, MapThenSumSet, MapThenFoldSet, Term, Pairs
<1> DEFINE Good == {T \in SUBSET Pairs : h[T] = Sum(n, T)}
<1>4. \A T \in SUBSET Pairs : h[T] = IF T = {} THEN 0 ELSE Term(n, Pick(T)) + h[T \ {Pick(T)}]
  <2> HIDE DEF h
  <2> QED BY <1>2
<1> HIDE DEF h
<1>5. Pairs \in Good
  <2>1. {} \in Good
    BY <1>4, SumOfNone
  <2>2. ASSUME NEW T \in SUBSET Pairs, T # {}, \A p \in T : T \ {p} \in Good PROVE T \in Good
    <3>1. Pick(T) \in T
      BY <2>2
    <3> HIDE DEF Pick
    <3>2. h[T \ {Pick(T)}] = Sum(n, T \ {Pick(T)})
      BY <2>2, <3>1
    <3>3. h[T] = Term(n, Pick(T)) + h[T \ {Pick(T)}]
      BY <1>4, <2>2
    <3>4. Sum(n, T) = Term(n, Pick(T)) + Sum(n, T \ {Pick(T)})
      BY <3>1, SumOfMore
    <3> QED BY <3>2, <3>3, <3>4
  <2> HIDE DEF Good
  <2> QED BY <2>1, <2>2, PairsOfNodes, OneAtATime
<1> QED BY <1>3, <1>5

\* Devices of one node weigh nothing; those of two nodes weigh something.
LEMMA WeightOfOne ==
  ASSUME topo \in Topologies, NEW n \in [Nodes -> Nat]
  PROVE  /\ WeightOf(n) \in Nat
         /\ WeightOf(n) = 0 <=> \A a, b \in Nodes : n[a] > 0 /\ n[b] > 0 => a = b
<1>1. WeightOf(n) = Sum(n, Pairs) /\ Sum(n, Pairs) \in Nat
  <2>1. Sum(n, Pairs) \in Nat
    <3>1. CASE Pairs = {}
      BY <3>1, SumOfNone
    <3>2. CASE Pairs # {}
      <4>1. PICK p \in Pairs : TRUE
        BY <3>2
      <4> QED BY SumOfMore
    <3> QED BY <3>1, <3>2
  <2> QED BY <2>1, WeightIsSum
<1>2. ASSUME NEW p \in Pairs PROVE Term(n, p) > 0 <=> n[p[1]] > 0 /\ n[p[2]] > 0
  <2>1. PICK a \in Nat, b \in Nat, w \in Nat : a = n[p[1]] /\ b = n[p[2]] /\ w = PairWeight(p[1], p[2]) /\ w > 0
    BY PairWeights, PairsOfNodes
  <2>2. a * b * w > 0 <=> a > 0 /\ b > 0
    BY <2>1
  <2> QED BY <2>1, <2>2 DEF Term
<1>3. ASSUME NEW a \in Nodes, NEW b \in Nodes, n[a] > 0, n[b] > 0, a # b PROVE Sum(n, Pairs) > 0
  <2>1. \E p \in Pairs : n[p[1]] > 0 /\ n[p[2]] > 0
    <3>1. <<a, b>> \in Pairs \/ <<b, a>> \in Pairs
      BY <1>3, PairsOfNodes DEF Pairs
    <3> QED BY <1>3, <3>1
  <2>2. PICK p \in Pairs : Term(n, p) > 0
    BY <1>2, <2>1
  <2>3. /\ Sum(n, Pairs \ {p}) \in Nat /\ Term(n, p) \in Nat
        /\ Sum(n, Pairs) = Term(n, p) + Sum(n, Pairs \ {p})
    BY SumOfMore
  <2> QED BY <2>2, <2>3
<1>4. ASSUME \A a, b \in Nodes : n[a] > 0 /\ n[b] > 0 => a = b PROVE Sum(n, Pairs) = 0
  <2>1. ASSUME NEW p \in Pairs PROVE Term(n, p) = 0
    <3>1. p[1] \in Nodes /\ p[2] \in Nodes /\ p[1] # p[2]
      BY PairsOfNodes
    <3> QED BY <1>2, <1>4, <3>1, TermType
  <2>2. UNION {{p} \X (1 .. Term(n, p)) : p \in Pairs} = {}
    BY <2>1
  <2> QED BY <2>2, FS_EmptySet DEF Sum
<1> QED BY <1>1, <1>3, <1>4

\* Moving a device from one node to another and moving one back from it, each alone: the
\* two together gain what is lost, and twice the weight of the pair of nodes less.
LEMMA Exchange ==
  ASSUME topo \in Topologies, NEW n \in [Nodes -> Nat], NEW a \in Nodes, NEW b \in Nodes,
         a # b, n[a] > 0, n[b] > 0
  PROVE  WeightOf([n EXCEPT ![a] = @ - 1, ![b] = @ + 1])
           + WeightOf([n EXCEPT ![a] = @ + 1, ![b] = @ - 1]) < WeightOf(n) + WeightOf(n)
<1> DEFINE u == [n EXCEPT ![a] = @ - 1, ![b] = @ + 1]
           v == [n EXCEPT ![a] = @ + 1, ![b] = @ - 1]
<1>1. u \in [Nodes -> Nat] /\ v \in [Nodes -> Nat]
      /\ u[a] = n[a] - 1 /\ u[b] = n[b] + 1 /\ v[a] = n[a] + 1 /\ v[b] = n[b] - 1
      /\ \A c \in Nodes \ {a, b} : u[c] = n[c] /\ v[c] = n[c]
  OBVIOUS
<1> HIDE DEF u, v
<1>2. ASSUME NEW p \in Pairs
      PROVE  /\ Term(u, p) + Term(v, p) <= Term(n, p) + Term(n, p)
             /\ {p[1], p[2]} = {a, b} => Term(u, p) + Term(v, p) < Term(n, p) + Term(n, p)
  <2>1. p[1] \in Nodes /\ p[2] \in Nodes /\ p[1] # p[2]
    BY PairsOfNodes
  <2>2. PICK w \in Nat : w = PairWeight(p[1], p[2]) /\ w > 0
    BY <2>1, PairWeights
  <2>3. PICK x \in Nat, y \in Nat, ux \in Nat, uy \in Nat, vx \in Nat, vy \in Nat :
          /\ x = n[p[1]] /\ y = n[p[2]] /\ ux = u[p[1]] /\ uy = u[p[2]]
          /\ vx = v[p[1]] /\ vy = v[p[2]]
    BY <1>1, <2>1
  <2>4. /\ ux * uy + vx * vy <= x * y + x * y
        /\ {p[1], p[2]} = {a, b} => ux * uy + vx * vy < x * y + x * y
    <3>1. CASE p[1] = a /\ p[2] = b
      BY <1>1, <2>3, <3>1
    <3>2. CASE p[1] = b /\ p[2] = a
      BY <1>1, <2>3, <3>2
    <3>3. CASE p[1] = a /\ p[2] # b
      <4>1. uy = y /\ vy = y /\ ux + vx = x + x
        BY <1>1, <2>1, <2>3, <3>3
      <4>2. ux * y + vx * y = (ux + vx) * y /\ (x + x) * y = x * y + x * y
        OBVIOUS
      <4> QED BY <3>3, <4>1, <4>2
    <3>4. CASE p[1] = b /\ p[2] # a
      <4>1. uy = y /\ vy = y /\ ux + vx = x + x
        BY <1>1, <2>1, <2>3, <3>4
      <4>2. ux * y + vx * y = (ux + vx) * y /\ (x + x) * y = x * y + x * y
        OBVIOUS
      <4> QED BY <3>4, <4>1, <4>2
    <3>5. CASE p[1] \notin {a, b}
      <4>1. ux = x /\ vx = x
        BY <1>1, <2>1, <2>3, <3>5
      <4>2. uy + vy = y + y
        BY <1>1, <2>1, <2>3
      <4> QED BY <4>1, <4>2, <3>5
    <3> QED BY <3>1, <3>2, <3>3, <3>4, <3>5
  <2>5. ASSUME NEW q \in Nat, NEW r \in Nat, NEW s \in Nat
        PROVE  /\ q + r <= s + s => q * w + r * w <= s * w + s * w
               /\ q + r < s + s => q * w + r * w < s * w + s * w
    BY <2>2
  <2>6. Term(u, p) = ux * uy * w /\ Term(v, p) = vx * vy * w /\ Term(n, p) = x * y * w
    BY <2>2, <2>3 DEF Term
  <2>7. ux * uy \in Nat /\ vx * vy \in Nat /\ x * y \in Nat
    OBVIOUS
  <2> QED BY <2>4, <2>5, <2>6, <2>7
<1> DEFINE Good == {T \in SUBSET Pairs : Sum(u, T) + Sum(v, T) <= Sum(n, T) + Sum(n, T)}
<1>3. ASSUME NEW T \in SUBSET Pairs, NEW p \in T, T \ {p} \in Good
      PROVE  /\ T \in Good
             /\ {p[1], p[2]} = {a, b} => Sum(u, T) + Sum(v, T) < Sum(n, T) + Sum(n, T)
  <2>1. ASSUME NEW x \in [Nodes -> Nat]
        PROVE  /\ Sum(x, T) \in Nat /\ Sum(x, T \ {p}) \in Nat /\ Term(x, p) \in Nat
               /\ Sum(x, T) = Term(x, p) + Sum(x, T \ {p})
    BY SumOfMore
  <2>2. PICK u1, u2, u3, v1, v2, v3, n1, n2, n3 :
          /\ u1 = Sum(u, T) /\ u2 = Sum(u, T \ {p}) /\ u3 = Term(u, p)
          /\ v1 = Sum(v, T) /\ v2 = Sum(v, T \ {p}) /\ v3 = Term(v, p)
          /\ n1 = Sum(n, T) /\ n2 = Sum(n, T \ {p}) /\ n3 = Term(n, p)
    OBVIOUS
  <2>3. /\ u1 \in Nat /\ u2 \in Nat /\ u3 \in Nat /\ u1 = u3 + u2
        /\ v1 \in Nat /\ v2 \in Nat /\ v3 \in Nat /\ v1 = v3 + v2
        /\ n1 \in Nat /\ n2 \in Nat /\ n3 \in Nat /\ n1 = n3 + n2
    BY <1>1, <2>1, <2>2
  <2>4. /\ u3 + v3 <= n3 + n3 /\ u2 + v2 <= n2 + n2
        /\ {p[1], p[2]} = {a, b} => u3 + v3 < n3 + n3
    BY <1>2, <1>3, <2>2
  <2>5. u1 + v1 <= n1 + n1 /\ ({p[1], p[2]} = {a, b} => u1 + v1 < n1 + n1)
    BY <2>3, <2>4
  <2>6. /\ Sum(u, T) + Sum(v, T) <= Sum(n, T) + Sum(n, T)
        /\ {p[1], p[2]} = {a, b} => Sum(u, T) + Sum(v, T) < Sum(n, T) + Sum(n, T)
    BY <2>2, <2>5
  <2> HIDE DEF Sum
  <2> QED BY <2>6
<1>4. ASSUME NEW T \in SUBSET Pairs PROVE T \in Good
  <2>1. {} \in Good
    BY SumOfNone
  <2>2. \A R \in SUBSET T : R # {} /\ (\A p \in R : R \ {p} \in Good) => R \in Good
    <3>1. ASSUME NEW R \in SUBSET T, R # {}, \A p \in R : R \ {p} \in Good PROVE R \in Good
      <4>1. PICK p \in R : TRUE
        BY <3>1
      <4>2. R \in SUBSET Pairs /\ R \ {p} \in Good
        BY <3>1
      <4> HIDE DEF Good
      <4> QED BY <1>3, <4>2
    <3> QED BY <3>1
  <2>3. IsFiniteSet(T)
    BY PairsOfNodes, FS_Subset
  <2> HIDE DEF Good
  <2> QED BY <2>1, <2>2, <2>3, OneAtATime
<1>5. \E p \in Pairs : {p[1], p[2]} = {a, b}
  <2>1. <<a, b>> \in Pairs \/ <<b, a>> \in Pairs
    BY PairsOfNodes DEF Pairs
  <2> QED BY <2>1
<1>6. Sum(u, Pairs) + Sum(v, Pairs) < Sum(n, Pairs) + Sum(n, Pairs)
  <2>1. PICK p \in Pairs : {p[1], p[2]} = {a, b}
    BY <1>5
  <2>2. Pairs \ {p} \in Good
    BY <1>4
  <2> HIDE DEF Good
  <2> QED BY <1>3, <2>1, <2>2
<1>7. WeightOf(u) = Sum(u, Pairs) /\ WeightOf(v) = Sum(v, Pairs) /\ WeightOf(n) = Sum(n, Pairs)
  BY <1>1, WeightIsSum
<1> QED BY <1>6, <1>7 DEF u, v

\* The list of NodeIds has each node as often as it has devices, after the nodes below.
LEMMA NodeIdsExact ==
  ASSUME topo \in Topologies, NEW S, IsFiniteSet(S), \A d \in S : d[1] \in Nodes
  PROVE  /\ \A n \in Nodes : Times(NodeIds(S), n) = Count(S, n)
         /\ \A k \in 1 .. Cardinality(S), n \in Nodes :
              NodeIds(S)[k] = n <=> Below(S, n) < k /\ k <= Below(S, n) + Count(S, n)
<1> DEFINE ids == NodeIds(S)
           At(k, n) == Below(S, n) < k /\ k <= Below(S, n) + Count(S, n)
<1>1. Cardinality(S) \in Nat /\ DOMAIN ids = 1 .. Cardinality(S) /\ Nodes \in SUBSET Nat
  BY FS_CardinalityType, PairsOfNodes DEF NodeIds
<1>2. ASSUME NEW n \in Nodes, NEW m \in Nodes, n < m
      PROVE  /\ Below(S, n) \in Nat /\ Count(S, n) \in Nat /\ Below(S, m) \in Nat
             /\ Below(S, n) + Count(S, n) <= Below(S, m)
  <2>1. {d \in S : d[1] < n + 1} \in SUBSET {d \in S : d[1] < m} /\ {d \in S : d[1] < m} \in SUBSET S
    <3>1. ASSUME NEW d \in S, d[1] < n + 1 PROVE d[1] < m
      <4>1. d[1] \in Nat /\ n \in Nat /\ m \in Nat
        BY <1>1
      <4> QED BY <1>2, <3>1, <4>1
    <3> QED BY <3>1
  <2>2. Below(S, n + 1) <= Below(S, m)
    BY <2>1, FS_Subset DEF Below
  <2>3. (\A d \in S : d[1] \in Nat) /\ n \in Nat
    BY <1>1
  <2>4. Below(S, n + 1) = Below(S, n) + Count(S, n)
    BY <2>3, BelowNext
  <2> QED BY <2>2, <2>4, Counts
<1>3. ASSUME NEW k \in 1 .. Cardinality(S) PROVE ids[k] \in Nodes /\ At(k, ids[k])
  <2>1. \E n \in Nodes : At(k, n)
    BY NodeAt
  <2>2. ids[k] = CHOOSE n \in Nodes : At(k, n)
    BY <1>3 DEF NodeIds
  <2> QED BY <2>1, <2>2
<1>4. ASSUME NEW k \in 1 .. Cardinality(S), NEW n \in Nodes PROVE ids[k] = n <=> At(k, n)
  <2>1. SUFFICES ASSUME At(k, n), ids[k] # n PROVE FALSE
    BY <1>3
  <2>2. PICK m \in Nodes : m = ids[k] /\ At(k, m)
    BY <1>3
  <2>3. n < m \/ m < n
    BY <1>1, <2>1, <2>2
  <2>4. k \in Nat
    BY <1>1
  <2>5. CASE n < m
    BY <1>2, <2>1, <2>2, <2>4, <2>5
  <2>6. CASE m < n
    BY <1>2, <2>1, <2>2, <2>4, <2>6
  <2> QED BY <2>3, <2>5, <2>6
<1>5. ASSUME NEW n \in Nodes PROVE Times(ids, n) = Count(S, n)
  <2> PICK b, c : b = Below(S, n) /\ c = Count(S, n)
    OBVIOUS
  <2>1. b \in Nat /\ c \in Nat
    BY Counts
  <2>2. b + c <= Cardinality(S)
    <3>1. {d \in S : d[1] < n + 1} \in SUBSET S
      OBVIOUS
    <3>2. Below(S, n + 1) <= Cardinality(S)
      BY <3>1, FS_Subset DEF Below
    <3>3. (\A d \in S : d[1] \in Nat) /\ n \in Nat
      BY <1>1
    <3>4. Below(S, n + 1) = Below(S, n) + Count(S, n)
      BY <3>3, BelowNext
    <3> QED BY <3>2, <3>4
  <2>3. {k \in DOMAIN ids : ids[k] = n} = b + 1 .. b + c
    <3>1. ASSUME NEW k \in 1 .. Cardinality(S) PROVE ids[k] = n <=> b < k /\ k <= b + c
      BY <1>4
    <3> HIDE DEF ids
    <3> QED BY <1>1, <2>1, <2>2, <3>1
  <2>4. Cardinality(b + 1 .. b + c) = IF b + 1 > b + c THEN 0 ELSE (b + c) - (b + 1) + 1
    <3>1. b + 1 \in Int /\ b + c \in Int
      BY <2>1
    <3> QED BY <3>1, FS_Interval
  <2>5. Cardinality(b + 1 .. b + c) = c
    BY <2>1, <2>4
  <2> QED BY <2>3, <2>5 DEF Times
<1> QED BY <1>4, <1>5

\* The weight of devices, and of listed ones together with others.
LEMMA WeightOfDevices ==
  ASSUME topo \in Topologies, NEW S, IsFiniteSet(S), \A d \in S : d[1] \in Nodes
  PROVE  /\ TotalWeight(NodeIds(S)) = WeightOf([a \in Nodes |-> Count(S, a)])
         /\ [a \in Nodes |-> Count(S, a)] \in [Nodes -> Nat]
         /\ \A ids \in Seq(Nodes) :
              TotalWeight(ids \o NodeIds(S)) = WeightOf([a \in Nodes |-> Times(ids, a) + Count(S, a)])
<1>1. NodeIds(S) \in Seq(Nodes) /\ \A a \in Nodes : Times(NodeIds(S), a) = Count(S, a)
  BY NodeIdsList, NodeIdsExact
<1>2. [a \in Nodes |-> Times(NodeIds(S), a)] = [a \in Nodes |-> Count(S, a)]
  BY <1>1
<1>3. ASSUME NEW ids \in Seq(Nodes)
      PROVE  TotalWeight(ids \o NodeIds(S)) = WeightOf([a \in Nodes |-> Times(ids, a) + Count(S, a)])
  <2>1. ASSUME NEW a \in Nodes PROVE Times(ids \o NodeIds(S), a) = Times(ids, a) + Count(S, a)
    <3>1. Times(ids \o NodeIds(S), a) = Times(ids, a) + Times(NodeIds(S), a)
      BY <1>1, TimesJoined
    <3> QED BY <1>1, <3>1
  <2>2. [a \in Nodes |-> Times(ids \o NodeIds(S), a)] = [a \in Nodes |-> Times(ids, a) + Count(S, a)]
    BY <2>1
  <2> QED BY <2>2 DEF TotalWeight
<1>4. \A a \in Nodes : Count(S, a) \in Nat
  BY Counts
<1> QED BY <1>2, <1>3, <1>4 DEF TotalWeight

\* The first devices of a list are those that none of the others is below.
LEMMA FirstListed ==
  ASSUME topo \in Topologies, NEW F, IsFiniteSet(F), \A d \in F : d[1] \in Nodes,
         NEW N \in SUBSET F, \A d \in N, e \in F \ N : d[1] <= e[1]
  PROVE  SubSeq(NodeIds(F), 1, Cardinality(N)) = NodeIds(N)
<1> DEFINE m == Cardinality(N)  s == NodeIds(F)  t == NodeIds(N)  r == SubSeq(s, 1, m)
<1>1. IsFiniteSet(N) /\ m \in Nat /\ m <= Cardinality(F) /\ Cardinality(F) \in Nat
      /\ (\A d \in N : d[1] \in Nodes) /\ Nodes \in SUBSET Nat
  BY FS_Subset, FS_CardinalityType, PairsOfNodes
<1>2. s \in Seq(Nodes) /\ Len(s) = Cardinality(F) /\ t \in Seq(Nodes) /\ Len(t) = m
  BY <1>1, NodeIdsList
<1>3. r \in Seq(Nodes) /\ Len(r) = m /\ \A k \in 1 .. m : r[k] = s[k]
  <2>1. m \in 0 .. Len(s)
    BY <1>1, <1>2
  <2> HIDE DEF m, s
  <2> QED BY <1>2, <2>1, TimesBeginning
<1>4. ASSUME NEW k \in 1 .. m PROVE r[k] = t[k]
  <2>1. PICK n \in Nodes : t[k] = n
    <3> HIDE DEF t, m
    <3> QED BY <1>2
  <2>2. Below(N, n) < k /\ k <= Below(N, n) + Count(N, n)
    <3>1. \A j \in 1 .. Cardinality(N), a \in Nodes :
            NodeIds(N)[j] = a <=> Below(N, a) < j /\ j <= Below(N, a) + Count(N, a)
      BY <1>1, NodeIdsExact
    <3> QED BY <2>1, <3>1
  <2>3. k \in 1 .. Cardinality(F) /\ k \in Nat
    BY <1>1
  <2>4. /\ Below(N, n) \in Nat /\ Count(N, n) \in Nat /\ Count(F, n) \in Nat /\ Below(F, n) \in Nat
    BY <1>1, Counts
  <2>5. PICK d \in N : d[1] = n
    <3>1. Count(N, n) # 0
      BY <2>2, <2>3, <2>4
    <3>2. {d \in N : d[1] = n} # {}
      BY <3>1, FS_EmptySet DEF Count
    <3> QED BY <3>2
  <2>6. Below(F, n) = Below(N, n)
    <3>1. {e \in F : e[1] < n} = {e \in N : e[1] < n}
      <4>1. ASSUME NEW e \in F, e[1] < n PROVE e \in N
        <5>1. e[1] \in Nat /\ n \in Nat
          BY <1>1
        <5> QED BY <2>5, <4>1, <5>1
      <4> QED BY <4>1
    <3> QED BY <3>1 DEF Below
  <2>7. Count(N, n) <= Count(F, n)
    <3>1. {e \in N : e[1] = n} \in SUBSET {e \in F : e[1] = n} /\ {e \in F : e[1] = n} \in SUBSET F
      OBVIOUS
    <3> QED BY <3>1, FS_Subset DEF Count
  <2>8. Below(F, n) < k /\ k <= Below(F, n) + Count(F, n)
    BY <2>2, <2>3, <2>4, <2>6, <2>7
  <2>9. s[k] = n
    BY <2>3, <2>8, NodeIdsExact
  <2> QED BY <1>3, <2>1, <2>9
<1> HIDE DEF r, t, m
<1>5. r = t
  BY <1>1, <1>2, <1>3, <1>4
<1> QED BY <1>5 DEF r, t, m

\* The groups are the GPUs with their devices, all of them, those with fewer first.
LEMMA GroupsExact ==
  ASSUME topo \in Topologies, NEW S, IsFiniteSet(S), \A d \in S : d[1] \in Nodes
  PROVE  LET gs == FilterPartitions(S)
             GPU(i) == topo.gpu[gs[i][1]]
         IN  /\ \A i \in DOMAIN gs : /\ gs[i] = NodeIds(OfGPU(S, GPU(i)))
                                     /\ Len(gs[i]) = Cardinality(OfGPU(S, GPU(i)))
             /\ \A d \in S : \E i \in DOMAIN gs : GPU(i) = topo.gpu[d[1]]
             /\ \A i, j \in DOMAIN gs : Len(gs[i]) < Len(gs[j]) => i < j
<1> DEFINE G == GPUsOf(S)
           N == Cardinality(G)
           gs == FilterPartitions(S)
           Rank(g) == Cardinality({h \in G : Fewer(S, h, g)}) + 1
           at(i) == CHOOSE g \in G : Rank(g) = i
           GPU(i) == topo.gpu[gs[i][1]]
<1>1. /\ \A g \in G : Rank(g) \in 1 .. N
      /\ \A i \in 1 .. N : \E g \in G : Rank(g) = i
      /\ \A g, h \in G : (Rank(g) = Rank(h) => g = h) /\ (Fewer(S, g, h) => Rank(g) < Rank(h))
  BY Ranks
<1>2. DOMAIN gs = 1 .. N /\ \A i \in 1 .. N : gs[i] = NodeIds(OfGPU(S, at(i)))
  BY DEF FilterPartitions
<1> HIDE DEF gs, Rank, N, G
<1>3. ASSUME NEW i \in 1 .. N PROVE at(i) \in G /\ Rank(at(i)) = i
  BY <1>1
<1> HIDE DEF at
<1>4. ASSUME NEW i \in 1 .. N PROVE Len(gs[i]) = Cardinality(OfGPU(S, at(i))) /\ GPU(i) = at(i)
  <2> DEFINE O == OfGPU(S, at(i))
  <2>1. IsFiniteSet(O) /\ Cardinality(O) \in Nat /\ Cardinality(O) > 0 /\ O \in SUBSET S
        /\ \A d \in O : topo.gpu[d[1]] = at(i)
    BY <1>3, GPUsFinite DEF OfGPU, G
  <2>2. gs[i] = NodeIds(O)
    BY <1>2
  <2> HIDE DEF O
  <2>3. /\ gs[i] \in Seq(Nodes) /\ Len(gs[i]) = Cardinality(O)
        /\ \A k \in DOMAIN gs[i] : \E d \in O : gs[i][k] = d[1]
    BY <2>1, <2>2, NodeIdsList
  <2>4. 1 \in DOMAIN gs[i]
    BY <2>1, <2>3
  <2> QED BY <2>1, <2>3, <2>4 DEF O
<1>5. ASSUME NEW d \in S PROVE \E i \in 1 .. N : GPU(i) = topo.gpu[d[1]]
  <2>1. topo.gpu[d[1]] \in G
    BY DEF G, GPUsOf
  <2>2. PICK i \in 1 .. N : i = Rank(topo.gpu[d[1]])
    BY <1>1, <2>1
  <2>3. at(i) = topo.gpu[d[1]]
    BY <1>1, <1>3, <2>1, <2>2
  <2> QED BY <1>4, <2>3
<1>6. ASSUME NEW i \in 1 .. N, NEW j \in 1 .. N, Len(gs[i]) < Len(gs[j]) PROVE i < j
  <2>1. Fewer(S, at(i), at(j))
    BY <1>4, <1>6 DEF Fewer
  <2> QED BY <1>1, <1>3, <2>1
<1> QED BY <1>2, <1>4, <1>5, <1>6 DEF gs

-------------------------------------------------------------------------------
(* The candidates and their weights                                        *)

\* Of each GPU a candidate has the first devices listed, as many as its share is; some of
\* each it has taken; and its weight is that of all it stands for.
Placed(c) ==
  \A i \in DOMAIN groups, n \in Nodes :
    topo.gpu[n] = topo.gpu[groups[i][1]] => Times(c.ids, n) = Times(SubSeq(groups[i], 1, Shares(c)[i]), n)
Held(c)    == \A i \in c.taken : Shares(c)[i] > 0
Weighed(c) == c.weight = TotalWeight(c.ids \o NodeIds(Known(required)))

\* A candidate of one GPU.
Alone(c) == c.taken = {c.last}
InOrder ==
  \A j, k \in DOMAIN built : j < k /\ Alone(built[j]) /\ Alone(built[k]) => built[j].last < built[k].last

WeightInv ==
  /\ doing \in {"build", "take"} =>
       /\ groups = FilterPartitions(Free) /\ InOrder
       /\ \A k \in DOMAIN built :
            /\ Fits(built[k]) /\ Len(built[k].ids) = NewSize /\ Placed(built[k]) /\ Held(built[k])
            /\ Weighed(built[k]) /\ built[k].last \in built[k].taken
  /\ doing = "build" =>
       \A k \in DOMAIN todo :
         /\ Placed(todo[k]) /\ Held(todo[k])
         /\ todo[k].taken = {} => k = 1 /\ \A j \in DOMAIN built : Alone(built[j]) => built[j].last <= idx
  /\ doing = "take" =>
       /\ DOMAIN built \in SUBSET Nat
       /\ \A x \in OneInPart : \E k \in DOMAIN built : Shares(built[k]) = x
       /\ \E k \in DOMAIN built :
            /\ candidate = built[k]
            /\ \A j \in DOMAIN built : /\ ~Better(built[j].weight, candidate.weight)
                                       /\ built[j].weight = candidate.weight => k <= j

\* A GPU more is placed, held and weighed as the others are.
LEMMA Add1Weighs ==
  ASSUME Searching, NEW c, Fits(c), Placed(c), Held(c), Len(c.ids) < NewSize,
         NEW i \in DOMAIN groups, i \notin c.taken
  PROVE  LET e == Add1(c, i)
         IN  /\ Placed(e) /\ Held(e) /\ Weighed(e) /\ e.last \in e.taken /\ e.last = i
             /\ Alone(e) => c.taken = {}
<1> DEFINE e == Add1(c, i)
           more == Min({NewSize - Len(c.ids), Len(groups[i])})
           g == groups[i]
           sub == SubSeq(g, 1, more)
<1>1. /\ Fits(e) /\ e.taken = c.taken \cup {i} /\ e.last = i
      /\ more \in Nat /\ more > 0 /\ Len(e.ids) = Len(c.ids) + more
      /\ e.ids = c.ids \o sub /\ Len(e.ids) <= NewSize
  BY Add1Fits DEF Searching
<1>2. /\ Shares(c) \in [DOMAIN groups -> Nat] /\ Shares(c)[i] = 0
      /\ Shares(e) = [Shares(c) EXCEPT ![i] = more]
  BY Add1Shares
<1>3. Weighed(e)
  BY DEF Weighed, Add1
<1>4. c.ids \in Seq(Nodes) /\ g \in Seq(Nodes) /\ Len(g) \in Nat \ {0} /\ DOMAIN g = 1 .. Len(g)
  BY GroupSizes DEF Fits
<1>5. more \in 0 .. Len(g)
  <2> DEFINE a == NewSize - Len(c.ids)  b == Len(g)
  <2>1. a \in Nat /\ b \in Nat /\ more = Min({a, b})
    BY <1>4 DEF Searching
  <2> HIDE DEF a, b, more, g
  <2>2. Min({a, b}) = IF a < b THEN a ELSE b
    BY <2>1, LeastOfTwo
  <2> QED BY <2>1, <2>2 DEF b
<1> HIDE DEF more, e, g
<1>6. sub \in Seq(Nodes) /\ Len(sub) = more /\ \A k \in 1 .. more : sub[k] = g[k]
  BY <1>4, <1>5, TimesBeginning
<1>7. ASSUME NEW n \in Nodes
      PROVE  /\ Times(e.ids, n) = Times(c.ids, n) + Times(sub, n)
             /\ Times(c.ids, n) \in Nat /\ Times(sub, n) \in Nat
  <2> PICK a : a = c.ids
    OBVIOUS
  <2>1. a \in Seq(Nodes) /\ e.ids = a \o sub
    BY <1>1, <1>4
  <2> HIDE DEF sub
  <2>2. Times(a \o sub, n) = Times(a, n) + Times(sub, n)
    BY <1>6, <2>1, TimesJoined
  <2> QED BY <1>6, <2>1, <2>2, TimesType
<1>8. ASSUME NEW j \in DOMAIN groups, NEW n \in Nodes, topo.gpu[n] = topo.gpu[groups[j][1]]
      PROVE  Times(e.ids, n) = Times(SubSeq(groups[j], 1, Shares(e)[j]), n)
  <2>1. Times(c.ids, n) = Times(SubSeq(groups[j], 1, Shares(c)[j]), n)
    BY <1>8 DEF Placed
  <2>2. CASE j = i
    <3>1. SubSeq(groups[j], 1, 0) = <<>>
      BY <1>4, <2>2 DEF g
    <3>2. Times(c.ids, n) = 0
      <4>1. Times(<<>>, n) = 0
        BY FS_EmptySet DEF Times
      <4> QED BY <1>2, <2>1, <2>2, <3>1, <4>1
    <3>3. Shares(e)[j] = more
      BY <1>2, <2>2
    <3> QED BY <1>7, <2>2, <3>2, <3>3 DEF g
  <2>3. CASE j # i
    <3>1. Times(sub, n) = 0
      <4>1. ASSUME NEW k \in DOMAIN sub PROVE sub[k] # n
        <5>1. k \in DOMAIN groups[i] /\ sub[k] = groups[i][k] /\ 1 \in DOMAIN groups[j]
          BY <1>4, <1>5, <1>6, GroupSizes DEF g
        <5>2. topo.gpu[groups[i][k]] # topo.gpu[groups[j][1]]
          BY <2>3, <5>1 DEF Searching, Grouped
        <5> QED BY <1>8, <5>1, <5>2
      <4>2. {k \in DOMAIN sub : sub[k] = n} = {}
        BY <4>1
      <4> QED BY <4>2, FS_EmptySet DEF Times
    <3>2. Shares(e)[j] = Shares(c)[j]
      BY <1>2, <2>3
    <3> QED BY <1>7, <2>1, <3>1, <3>2
  <2> QED BY <2>2, <2>3
<1>9. Placed(e)
  BY <1>8 DEF Placed
<1>10. Held(e)
  <2>1. ASSUME NEW j \in e.taken PROVE Shares(e)[j] > 0
    <3>1. CASE j = i
      BY <1>1, <1>2, <3>1
    <3>2. CASE j # i
      <4>1. j \in c.taken /\ j \in DOMAIN groups
        BY <1>1, <3>2 DEF Fits
      <4> QED BY <1>2, <3>2, <4>1 DEF Held
    <3> QED BY <3>1, <3>2
  <2> QED BY <2>1 DEF Held
<1>11. Alone(e) => c.taken = {}
  BY <1>1 DEF Alone
<1> QED BY <1>1, <1>3, <1>9, <1>10, <1>11 DEF e

LEMMA FrozenWeights ==
  ASSUME UNCHANGED <<asked, groups>>
  PROVE  /\ FilterPartitions(Free)' = FilterPartitions(Free)
         /\ \A c : /\ Placed(c)' <=> Placed(c)
                   /\ Held(c)' <=> Held(c)
                   /\ Weighed(c)' <=> Weighed(c)
         /\ \A v, w : Better(v, w)' <=> Better(v, w)
         /\ \A S : NodeIds(S)' = NodeIds(S) /\ (Buildable(S)' <=> Buildable(S))
         /\ \A ids : TotalWeight(ids)' = TotalWeight(ids)
<1>1. UNCHANGED <<topo, spread, available, required, size, groups>>
  BY DEF asked
<1>2. Free' = Free
  BY Frozen
<1>3. \A S : NodeIds(S)' = NodeIds(S)
  BY <1>1 DEF NodeIds, Nodes, Below, Count
<1>4. FilterPartitions(Free)' = FilterPartitions(Free)
  BY <1>1, <1>2, <1>3 DEF FilterPartitions, Fewer, GPUsOf, OfGPU
<1>5. \A n : WeightOf(n)' = WeightOf(n)
  BY <1>1 DEF WeightOf, MapThenSumSet, MapThenFoldSet, PairWeight, LinkWeight, Nodes
<1>6. \A ids : TotalWeight(ids)' = TotalWeight(ids)
  BY <1>1, <1>5 DEF TotalWeight, Nodes, Times
<1>7. ASSUME NEW c PROVE Weighed(c)' <=> Weighed(c)
  BY <1>1, <1>3, <1>6 DEF Weighed, Known
<1>8. ASSUME NEW c PROVE (Placed(c)' <=> Placed(c)) /\ (Held(c)' <=> Held(c))
  <2>1. Shares(c)' = Shares(c)
    BY Frozen
  <2> QED BY <1>1, <2>1 DEF Placed, Held, Nodes, Times
<1>9. \A v, w : Better(v, w)' <=> Better(v, w)
  BY <1>1 DEF Better
<1>10. \A S : Buildable(S)' <=> Buildable(S)
  BY <1>1, <1>2 DEF Buildable, InPart
<1> QED BY <1>3, <1>4, <1>6, <1>7, <1>8, <1>9, <1>10

\* The first candidate has no GPU.
LEMMA FirstWeighs == PreferInv /\ doing = "build" => Placed(NoGPU) /\ Held(NoGPU)
<1> SUFFICES ASSUME PreferInv, doing = "build" PROVE Placed(NoGPU) /\ Held(NoGPU)
  OBVIOUS
<1>1. NoGPU.ids = <<>> /\ NoGPU.taken = {} /\ \A n : Times(NoGPU.ids, n) = 0
  BY FS_EmptySet DEF NoGPU, Times
<1>2. ASSUME NEW i \in DOMAIN groups, NEW n
      PROVE  Shares(NoGPU)[i] = 0 /\ Times(SubSeq(groups[i], 1, 0), n) = 0
  <2>1. Shares(NoGPU) = [j \in DOMAIN groups |-> 0]
    BY <1>1, FS_EmptySet DEF Shares
  <2>2. groups[i] \in Seq(Nodes)
    BY Building, GroupSizes
  <2>3. SubSeq(groups[i], 1, 0) = <<>>
    BY <2>2
  <2> QED BY <1>1, <2>1, <2>3 DEF NoGPU
<1> QED BY <1>1, <1>2 DEF Placed, Held

LEMMA GroupWeighs == ASSUME PreferInv, Group PROVE WeightInv'
<1>1. built = <<>> /\ doing = "asked"
  BY DEF PreferInv, SearchInv, Group
<1>2. /\ UNCHANGED <<topo, available, required, size>> /\ groups' = FilterPartitions(Free)
      /\ todo' = <<NoGPU>> /\ built' = <<>> /\ doing' = "build"
  BY <1>1 DEF Group, asked
<1>3. groups' = FilterPartitions(Free)'
  <2>1. Free' = Free
    BY <1>2 DEF Free, Known
  <2>2. \A S : NodeIds(S)' = NodeIds(S)
    BY <1>2 DEF NodeIds, Nodes, Below, Count
  <2>3. FilterPartitions(Free)' = FilterPartitions(Free)
    BY <1>2, <2>1, <2>2 DEF FilterPartitions, Fewer, GPUsOf, OfGPU
  <2> QED BY <1>2, <2>3
<1>4. Placed(NoGPU)' /\ Held(NoGPU)'
  <2>1. (PreferInv /\ doing = "build")'
    BY <1>2, GroupKeeps
  <2>2. (Placed(NoGPU) /\ Held(NoGPU))'
    BY <2>1, FirstWeighs, PTL
  <2> QED BY <2>2 DEF NoGPU
<1>5. DOMAIN todo' = {1} /\ todo'[1] = NoGPU /\ DOMAIN built' = {}
  BY <1>2
<1>6. InOrder'
  BY <1>5 DEF InOrder
<1> QED BY <1>2, <1>3, <1>4, <1>5, <1>6 DEF WeightInv

LEMMA ExtendWeighs == ASSUME PreferInv, WeightInv, Extend PROVE WeightInv'
<1>1. doing = "build" /\ todo # <<>> /\ doing' = "build" /\ UNCHANGED <<asked, groups>>
  BY DEF Extend
<1> PICK m, n : m = Len(todo) /\ n = Len(built)
  OBVIOUS
<1>2. /\ m \in Nat \ {0} /\ DOMAIN todo = 1 .. m /\ Head(todo) = todo[1]
      /\ n \in Nat /\ DOMAIN built = 1 .. n
      /\ (\E T : todo \in Seq(T)) /\ (\E T : built \in Seq(T))
  BY <1>1, Building, WithoutFirst, OneMore
<1>3. PICK i \in Adds(todo[1]) :
        LET e == Add1(todo[1], i)
        IN  /\ i > idx /\ idx' = i
            /\ \/ Len(e.ids) = NewSize /\ built' = Append(built, e) /\ todo' = todo
               \/ Len(e.ids) # NewSize /\ todo' = Append(todo, e) /\ built' = built
  BY <1>2 DEF Extend
<1> DEFINE e == Add1(todo[1], i)
<1>4. /\ idx \in Nat /\ i \in Nat /\ i > idx /\ idx' = i
      /\ \/ Len(e.ids) = NewSize /\ built' = Append(built, e) /\ todo' = todo
         \/ Len(e.ids) # NewSize /\ todo' = Append(todo, e) /\ built' = built
  <2>1. idx \in Nat /\ DOMAIN groups \in SUBSET Nat
    BY <1>1, Building, GroupSizes
  <2> QED BY <1>3, <2>1 DEF Adds
<1>5. /\ groups = FilterPartitions(Free) /\ InOrder
      /\ \A k \in 1 .. n :
           /\ Fits(built[k]) /\ Len(built[k].ids) = NewSize /\ Placed(built[k]) /\ Held(built[k])
           /\ Weighed(built[k]) /\ built[k].last \in built[k].taken
      /\ \A k \in 1 .. m :
           /\ Placed(todo[k]) /\ Held(todo[k])
           /\ todo[k].taken = {} => k = 1 /\ \A j \in 1 .. n : Alone(built[j]) => built[j].last <= idx
  BY <1>1, <1>2 DEF WeightInv
<1>6. /\ Fits(e) /\ Placed(e) /\ Held(e) /\ Weighed(e) /\ e.last \in e.taken /\ e.last = i
      /\ Alone(e) => todo[1].taken = {}
  <2> PICK c : c = todo[1]
    OBVIOUS
  <2>1. Searching /\ Fits(c) /\ Placed(c) /\ Held(c) /\ Len(c.ids) < NewSize /\ i \in DOMAIN groups /\ i \notin c.taken
    BY <1>1, <1>2, <1>5, Building DEF Adds
  <2>2. /\ Placed(Add1(c, i)) /\ Held(Add1(c, i)) /\ Weighed(Add1(c, i))
        /\ Add1(c, i).last \in Add1(c, i).taken /\ Add1(c, i).last = i
        /\ Alone(Add1(c, i)) => c.taken = {}
    BY <2>1, Add1Weighs
  <2>3. Fits(Add1(c, i))
    BY <2>1, Add1Fits DEF Searching
  <2> QED BY <2>2, <2>3
<1> HIDE DEF e
<1>7. /\ FilterPartitions(Free)' = FilterPartitions(Free) /\ NewSize' = NewSize /\ groups' = groups
      /\ \A c : /\ Placed(c)' <=> Placed(c)
                /\ Held(c)' <=> Held(c)
                /\ Weighed(c)' <=> Weighed(c)
                /\ Fits(c)' <=> Fits(c)
  BY <1>1, FrozenWeights, Frozen
<1>8. CASE Len(e.ids) = NewSize /\ built' = Append(built, e) /\ todo' = todo
  <2>1. DOMAIN built' = 1 .. n + 1 /\ built'[n + 1] = e /\ \A k \in 1 .. n : built'[k] = built[k]
    BY <1>2, <1>8, OneMore
  <2>2. ASSUME NEW k \in DOMAIN built'
        PROVE  /\ Fits(built'[k]) /\ Len(built'[k].ids) = NewSize /\ Placed(built'[k]) /\ Held(built'[k])
               /\ Weighed(built'[k]) /\ built'[k].last \in built'[k].taken
    <3>1. k \in 1 .. n \/ k = n + 1
      BY <1>2, <2>1
    <3> QED BY <1>5, <1>6, <1>8, <2>1, <3>1
  <2>3. \A k \in 1 .. n : Alone(e) /\ Alone(built[k]) => built[k].last <= idx
    BY <1>2, <1>5, <1>6
  <2>4. ASSUME NEW j \in DOMAIN built', NEW k \in DOMAIN built', j < k, Alone(built'[j]), Alone(built'[k])
        PROVE  built'[j].last < built'[k].last
    <3>1. j \in 1 .. n
      BY <1>2, <2>1, <2>4
    <3>2. CASE k \in 1 .. n
      BY <1>2, <1>5, <2>1, <2>4, <3>1, <3>2 DEF InOrder
    <3>3. CASE k \notin 1 .. n
      <4>1. k = n + 1
        BY <1>2, <2>1, <3>3
      <4>2. built[j].last <= idx /\ built'[j] = built[j] /\ built'[k].last = i
        BY <1>6, <2>1, <2>3, <2>4, <3>1, <4>1
      <4>3. built[j].last \in Nat
        <5>1. built[j].taken \in SUBSET DOMAIN groups /\ DOMAIN groups \in SUBSET Nat /\ built[j].last \in built[j].taken
          BY <1>1, <1>5, <3>1, Building, GroupSizes DEF Fits
        <5> QED BY <5>1
      <4> QED BY <1>4, <4>2, <4>3
    <3> QED BY <3>2, <3>3
  <2>5. InOrder'
    BY <2>4 DEF InOrder, Alone
  <2>6. ASSUME NEW k \in DOMAIN todo', todo'[k].taken = {}
        PROVE  k = 1 /\ \A j \in DOMAIN built' : Alone(built'[j]) => built'[j].last <= idx'
    <3>1. k = 1 /\ \A j \in 1 .. n : Alone(built[j]) => built[j].last <= idx
      BY <1>2, <1>5, <1>8, <2>6
    <3>2. ASSUME NEW j \in 1 .. n, Alone(built[j]) PROVE built[j].last <= i
      <4>1. built[j].taken \in SUBSET DOMAIN groups /\ DOMAIN groups \in SUBSET Nat /\ built[j].last \in built[j].taken
        BY <1>1, <1>5, Building, GroupSizes DEF Fits
      <4> QED BY <1>4, <3>1, <3>2, <4>1
    <3>3. \A j \in DOMAIN built' : j \in 1 .. n \/ j = n + 1
      BY <1>2, <2>1
    <3> QED BY <1>4, <1>6, <2>1, <3>1, <3>2, <3>3
  <2> QED BY <1>1, <1>2, <1>5, <1>7, <1>8, <2>2, <2>5, <2>6 DEF WeightInv, Alone
<1>9. CASE Len(e.ids) # NewSize /\ todo' = Append(todo, e) /\ built' = built
  <2>1. DOMAIN todo' = 1 .. m + 1 /\ todo'[m + 1] = e /\ \A k \in 1 .. m : todo'[k] = todo[k]
    BY <1>2, <1>9, OneMore
  <2>2. InOrder'
    BY <1>5, <1>9 DEF InOrder, Alone
  <2>3. ASSUME NEW k \in DOMAIN todo'
        PROVE  /\ Placed(todo'[k]) /\ Held(todo'[k])
               /\ todo'[k].taken = {} => k = 1 /\ \A j \in DOMAIN built : Alone(built[j]) => built[j].last <= idx'
    <3>1. CASE k \in 1 .. m
      <4>1. ASSUME NEW j \in 1 .. n, Alone(built[j]), built[j].last <= idx PROVE built[j].last <= i
        <5>1. built[j].taken \in SUBSET DOMAIN groups /\ DOMAIN groups \in SUBSET Nat /\ built[j].last \in built[j].taken
          BY <1>1, <1>5, Building, GroupSizes DEF Fits
        <5> QED BY <1>4, <4>1, <5>1
      <4> QED BY <1>2, <1>4, <1>5, <2>1, <3>1, <4>1
    <3>2. CASE k \notin 1 .. m
      <4>1. todo'[k] = e
        BY <1>2, <2>1, <3>2
      <4> QED BY <1>6, <4>1
    <3> QED BY <3>1, <3>2
  <2> QED BY <1>1, <1>2, <1>5, <1>7, <1>9, <2>2, <2>3 DEF WeightInv, Alone
<1> QED BY <1>4, <1>8, <1>9

LEMMA ExtendedWeighs == ASSUME PreferInv, WeightInv, Extended PROVE WeightInv'
<1>1. /\ doing = "build" /\ todo # <<>> /\ doing' = "build" /\ UNCHANGED <<asked, groups>>
      /\ todo' = Tail(todo) /\ built' = built
  BY DEF Extended
<1>2. /\ Len(todo) \in Nat \ {0} /\ DOMAIN todo = 1 .. Len(todo) /\ DOMAIN todo' = 1 .. Len(todo) - 1
      /\ \A k \in 1 .. Len(todo) - 1 : todo'[k] = todo[k + 1]
  BY <1>1, Building, WithoutFirst
<1>3. /\ FilterPartitions(Free)' = FilterPartitions(Free) /\ NewSize' = NewSize /\ groups' = groups
      /\ \A c : /\ Placed(c)' <=> Placed(c)
                /\ Held(c)' <=> Held(c)
                /\ Weighed(c)' <=> Weighed(c)
                /\ Fits(c)' <=> Fits(c)
  BY <1>1, FrozenWeights, Frozen
<1>4. ASSUME NEW k \in DOMAIN todo'
      PROVE  Placed(todo'[k]) /\ Held(todo'[k]) /\ todo'[k].taken # {}
  <2>1. k + 1 \in DOMAIN todo /\ k + 1 # 1 /\ todo'[k] = todo[k + 1]
    BY <1>2
  <2> QED BY <1>1, <2>1 DEF WeightInv
<1>5. InOrder'
  BY <1>1 DEF WeightInv, InOrder, Alone
<1> QED BY <1>1, <1>3, <1>4, <1>5 DEF WeightInv

LEMMA ChooseWeighs == ASSUME PreferInv, WeightInv, Choose PROVE WeightInv'
<1>1. doing = "build" /\ todo = <<>> /\ doing' = "take" /\ UNCHANGED <<asked, groups>> /\ built' = built
  BY DEF Choose
<1>2. /\ FilterPartitions(Free)' = FilterPartitions(Free) /\ NewSize' = NewSize /\ groups' = groups
      /\ OneInPart' = OneInPart
      /\ \A c : /\ Placed(c)' <=> Placed(c)
                /\ Held(c)' <=> Held(c)
                /\ Weighed(c)' <=> Weighed(c)
                /\ Fits(c)' <=> Fits(c)
                /\ Shares(c)' = Shares(c)
      /\ \A v, w : Better(v, w)' <=> Better(v, w)
  BY <1>1, FrozenWeights, Frozen
<1>3. PICK k \in DOMAIN built :
        /\ \A j \in DOMAIN built : /\ ~Better(built[j].weight, built[k].weight)
                                   /\ built[j].weight = built[k].weight => k <= j
        /\ candidate' = built[k]
  BY DEF Choose
<1>4. \A x \in OneInPart : \E j \in DOMAIN built : Shares(built[j]) = x
  <2>1. ASSUME NEW x \in OneInPart PROVE \E j \in DOMAIN built : Shares(built[j]) = x
    <3>1. OneWay(x) /\ DOMAIN todo = {}
      BY <1>1, Building
    <3> QED BY <3>1 DEF OneWay, Built
  <2> QED BY <2>1
<1>5. (\A x \in OneInPart : \E j \in DOMAIN built : Shares(built[j]) = x)'
  <2>1. ASSUME NEW x \in OneInPart PROVE \E j \in DOMAIN built' : Shares(built[j])' = x
    <3>1. PICK j \in DOMAIN built : Shares(built[j]) = x
      BY <1>4
    <3>2. Shares(built[j])' = Shares(built[j])
      BY <1>1 DEF Shares, asked
    <3> QED BY <1>1, <3>1, <3>2
  <2> QED BY <1>2, <2>1
<1>6. (\E l \in DOMAIN built :
        /\ candidate = built[l]
        /\ \A j \in DOMAIN built : /\ ~Better(built[j].weight, candidate.weight)
                                   /\ built[j].weight = candidate.weight => l <= j)'
  <2>1. spread' = spread
    BY <1>1 DEF asked
  <2> QED BY <1>1, <1>3, <2>1 DEF Better
<1>7. InOrder'
  BY <1>1 DEF WeightInv, InOrder, Alone
<1>8. DOMAIN built' \in SUBSET Nat
  BY <1>1, Building
<1> QED BY <1>1, <1>2, <1>5, <1>6, <1>7, <1>8 DEF WeightInv

LEMMA WeightInductive == PreferSpec => [](PreferInv /\ WeightInv)
<1>1. PreferInit => WeightInv
  BY DEF PreferInit, WeightInv
<1>2. PreferInv /\ WeightInv /\ [PreferNext]_preferVars => WeightInv'
  <2>1. ASSUME PreferInv, WeightInv, UNCHANGED preferVars PROVE WeightInv'
    <3>1. UNCHANGED <<asked, groups>> /\ UNCHANGED <<todo, built, candidate, idx, doing>>
      BY <2>1 DEF preferVars, asked
    <3>2. /\ FilterPartitions(Free)' = FilterPartitions(Free) /\ NewSize' = NewSize /\ groups' = groups
          /\ OneInPart' = OneInPart
          /\ \A c : /\ Placed(c)' <=> Placed(c)
                    /\ Held(c)' <=> Held(c)
                    /\ Weighed(c)' <=> Weighed(c)
                    /\ Fits(c)' <=> Fits(c)
                    /\ Shares(c)' = Shares(c)
          /\ \A v, w : Better(v, w)' <=> Better(v, w)
      BY <3>1, FrozenWeights, Frozen
    <3>3. InOrder' <=> InOrder
      BY <3>1 DEF InOrder, Alone
    <3> QED BY <2>1, <3>1, <3>2, <3>3 DEF WeightInv, Alone
  <2>2. ASSUME PreferInv, WeightInv, TakeAll \/ TakeAny \/ Echo \/ Take PROVE WeightInv'
    <3>1. doing' = "replied"
      BY <2>2 DEF TakeAll, TakeAny, Echo, Take, Reply
    <3> QED BY <3>1 DEF WeightInv
  <2> QED BY <2>1, <2>2, GroupWeighs, ExtendWeighs, ExtendedWeighs, ChooseWeighs DEF PreferNext
<1> QED BY <1>1, <1>2, PreferInductive, PTL DEF PreferSpec

-------------------------------------------------------------------------------
(* Every choice that can be built has a candidate                          *)

\* With no device of another plugin all that is available is of nodes.
LEMMA NothingUnknown ==
  ASSUME RequestInv, Ghost \notin available
  PROVE  /\ Known(available) = available /\ Known(required) = required /\ Free = available \ required
         /\ required \in SUBSET available /\ \A d \in available : d[1] \in Nodes
<1>1. available \in SUBSET (Devices(topo) \cup {Ghost}) /\ required \in SUBSET available
  BY DEF RequestInv
<1> QED BY <1>1 DEF Known, Free, Devices, Nodes

\* The devices of a node are those of a part and those of the rest.
LEMMA CountOfParts ==
  ASSUME NEW S, IsFiniteSet(S), NEW R \in SUBSET S, NEW n
  PROVE  /\ Count(S, n) = Count(S \ R, n) + Count(R, n)
         /\ Count(S \ R, n) \in Nat /\ Count(R, n) \in Nat
<1> DEFINE A == {d \in S \ R : d[1] = n}
           B == {d \in R : d[1] = n}
           C == {d \in S : d[1] = n}
<1>1. C = A \cup B /\ A \cap B = {} /\ A \in SUBSET S /\ B \in SUBSET S
  OBVIOUS
<1> HIDE DEF A, B, C
<1>2. IsFiniteSet(A) /\ IsFiniteSet(B) /\ Cardinality(A) \in Nat /\ Cardinality(B) \in Nat
  BY <1>1, FS_Subset, FS_CardinalityType
<1>3. Cardinality(C) = Cardinality(A) + Cardinality(B) - Cardinality(A \cap B) /\ Cardinality(A \cap B) = 0
  BY <1>1, <1>2, FS_Union, FS_EmptySet
<1>4. Cardinality(C) = Cardinality(A) + Cardinality(B)
  BY <1>2, <1>3
<1> QED BY <1>2, <1>4 DEF A, B, C, Count

\* One more of a GPU is one more in all.
LEMMA TotalOfUnit ==
  ASSUME Searching, NEW x \in [DOMAIN groups -> Nat], NEW i \in DOMAIN groups
  PROVE  Total([x EXCEPT ![i] = @ + 1]) = Total(x) + 1
<1> DEFINE y == [x EXCEPT ![i] = @ + 1]
           u == <<i, x[i] + 1>>
<1>1. y \in [DOMAIN groups -> Nat] /\ y[i] = x[i] + 1 /\ \A j \in DOMAIN groups \ {i} : y[j] = x[j]
  OBVIOUS
<1> HIDE DEF y
<1>2. Units(y) = Units(x) \cup {u} /\ u \notin Units(x)
  <2>1. \A v \in Units(y) : v \in Units(x) \cup {u}
    <3>1. ASSUME NEW j \in DOMAIN groups, NEW k \in 1 .. y[j] PROVE <<j, k>> \in Units(x) \cup {u}
      <4>1. CASE j = i /\ k = x[i] + 1
        BY <4>1
      <4>2. CASE ~(j = i /\ k = x[i] + 1)
        <5>1. k \in 1 .. x[j]
          BY <1>1, <3>1, <4>2
        <5> QED BY <5>1, UnitsOf
      <4> QED BY <4>1, <4>2
    <3> QED BY <3>1, UnitsOf
  <2>2. \A v \in Units(x) : v \in Units(y)
    <3>1. ASSUME NEW j \in DOMAIN groups, NEW k \in 1 .. x[j] PROVE k \in 1 .. y[j]
      BY <1>1, <3>1
    <3> QED BY <3>1, UnitsOf
  <2>3. u \in Units(y)
    <3>1. x[i] + 1 \in 1 .. y[i]
      BY <1>1
    <3> QED BY <3>1, UnitsOf
  <2>4. u \notin Units(x)
    BY UnitsOf
  <2> QED BY <2>1, <2>2, <2>3, <2>4
<1>3. IsFiniteSet(Units(x)) /\ Total(x) = Cardinality(Units(x)) /\ Total(y) = Cardinality(Units(y))
  BY <1>1, TotalType
<1>4. Cardinality(Units(x) \cup {u}) = Cardinality(Units(x)) + 1
  BY <1>2, <1>3, FS_AddElement
<1> QED BY <1>2, <1>3, <1>4 DEF y

\* A search is on, or has just ended; the GPUs and their free devices.
GPUAt(i) == topo.gpu[groups[i][1]]
SharesOf(N) == [i \in DOMAIN groups |-> Cardinality(OfGPU(N, GPUAt(i)))]

LEMMA GroupsOfFree ==
  ASSUME PreferInv, WeightInv, doing \in {"build", "take"}
  PROVE  /\ Searching
         /\ \A i \in DOMAIN groups : /\ groups[i] = NodeIds(OfGPU(Free, GPUAt(i)))
                                     /\ Len(groups[i]) = Cardinality(OfGPU(Free, GPUAt(i)))
         /\ \A d \in Free : d[1] \in Nodes /\ \E i \in DOMAIN groups : GPUAt(i) = topo.gpu[d[1]]
         /\ \A i, j \in DOMAIN groups : /\ Len(groups[i]) < Len(groups[j]) => i < j
                                        /\ GPUAt(i) = GPUAt(j) => i = j
<1>1. topo \in Topologies /\ IsFiniteSet(Free) /\ \A d \in Free : d[1] \in Nodes
  BY FreeDevices DEF PreferInv, RequestInv
<1>2. groups = FilterPartitions(Free) /\ Searching
  BY <1>1 DEF WeightInv, PreferInv, SearchInv, Searching
<1>3. \A i, j \in DOMAIN groups : GPUAt(i) = GPUAt(j) => i = j
  <2>1. \A i \in DOMAIN groups : 1 \in DOMAIN groups[i]
    BY <1>2, GroupSizes
  <2> QED BY <1>2, <2>1 DEF Searching, Grouped, GPUAt
<1>4. /\ \A i \in DOMAIN groups : /\ groups[i] = NodeIds(OfGPU(Free, GPUAt(i)))
                                  /\ Len(groups[i]) = Cardinality(OfGPU(Free, GPUAt(i)))
      /\ \A d \in Free : \E i \in DOMAIN groups : GPUAt(i) = topo.gpu[d[1]]
      /\ \A i, j \in DOMAIN groups : Len(groups[i]) < Len(groups[j]) => i < j
  BY <1>1, <1>2, GroupsExact DEF GPUAt
<1> QED BY <1>1, <1>2, <1>3, <1>4

\* The shares of free devices are as many as these.
LEMMA SharesTotal ==
  ASSUME PreferInv, WeightInv, doing \in {"build", "take"}, NEW N \in SUBSET Free
  PROVE  SharesOf(N) \in [DOMAIN groups -> Nat] /\ Total(SharesOf(N)) = Cardinality(N)
<1>1. Searching /\ IsFiniteSet(N) /\ N \in SUBSET Free
  BY GroupsOfFree, FS_Subset DEF Searching
<1>2. ASSUME NEW T \in SUBSET N
      PROVE  /\ IsFiniteSet(T) /\ Cardinality(T) \in Nat /\ SharesOf(T) \in [DOMAIN groups -> Nat]
             /\ \A g : IsFiniteSet(OfGPU(T, g)) /\ Cardinality(OfGPU(T, g)) \in Nat
  <2>1. IsFiniteSet(T) /\ Cardinality(T) \in Nat
    BY <1>1, FS_Subset, FS_CardinalityType
  <2>2. ASSUME NEW g PROVE IsFiniteSet(OfGPU(T, g)) /\ Cardinality(OfGPU(T, g)) \in Nat
    <3>1. OfGPU(T, g) \in SUBSET T
      BY DEF OfGPU
    <3> QED BY <2>1, <3>1, FS_Subset, FS_CardinalityType
  <2> QED BY <2>1, <2>2 DEF SharesOf
<1> DEFINE Good == {T \in SUBSET N : Total(SharesOf(T)) = Cardinality(T)}
<1>3. {} \in Good
  <2>1. \A g : OfGPU({}, g) = {}
    BY DEF OfGPU
  <2>2. SharesOf({}) = [i \in DOMAIN groups |-> 0]
    BY <2>1, FS_EmptySet DEF SharesOf
  <2> QED BY <2>2, TotalOfNone, FS_EmptySet
<1>4. ASSUME NEW T \in SUBSET N, NEW d \in T, T \ {d} \in Good PROVE T \in Good
  <2> PICK R : R = T \ {d}
    OBVIOUS
  <2>1. R \in SUBSET N /\ T = R \cup {d} /\ d \notin R /\ Total(SharesOf(R)) = Cardinality(R)
    BY <1>4
  <2>2. PICK i \in DOMAIN groups : GPUAt(i) = topo.gpu[d[1]]
    BY <1>1, GroupsOfFree
  <2>3. ASSUME NEW j \in DOMAIN groups, j # i PROVE OfGPU(T, GPUAt(j)) = OfGPU(R, GPUAt(j))
    <3>1. GPUAt(j) # topo.gpu[d[1]]
      BY <2>2, <2>3, GroupsOfFree
    <3> QED BY <2>1, <3>1 DEF OfGPU
  <2>4. Cardinality(OfGPU(T, GPUAt(i))) = Cardinality(OfGPU(R, GPUAt(i))) + 1
    <3>1. OfGPU(T, GPUAt(i)) = OfGPU(R, GPUAt(i)) \cup {d} /\ d \notin OfGPU(R, GPUAt(i))
      BY <2>1, <2>2 DEF OfGPU
    <3>2. IsFiniteSet(OfGPU(R, GPUAt(i)))
      BY <1>2, <2>1
    <3>3. Cardinality(OfGPU(R, GPUAt(i)) \cup {d}) = Cardinality(OfGPU(R, GPUAt(i))) + 1
      BY <3>1, <3>2, FS_AddElement
    <3> QED BY <3>1, <3>3
  <2>5. SharesOf(T) = [SharesOf(R) EXCEPT ![i] = @ + 1]
    BY <2>3, <2>4 DEF SharesOf
  <2>6. Total(SharesOf(T)) = Total(SharesOf(R)) + 1
    <3>1. SharesOf(R) \in [DOMAIN groups -> Nat]
      BY <1>2, <2>1
    <3> QED BY <1>1, <2>5, <3>1, TotalOfUnit
  <2>7. Cardinality(T) = Cardinality(R) + 1
    BY <1>2, <2>1, FS_AddElement
  <2> QED BY <2>1, <2>6, <2>7
<1>5. N \in Good
  <2>1. \A T \in SUBSET N : T # {} /\ (\A d \in T : T \ {d} \in Good) => T \in Good
    <3>1. ASSUME NEW T \in SUBSET N, T # {}, \A d \in T : T \ {d} \in Good PROVE T \in Good
      <4>1. PICK d \in T : TRUE
        BY <3>1
      <4> QED BY <1>4, <3>1, <4>1
    <3> QED BY <3>1
  <2> HIDE DEF Good
  <2> QED BY <1>1, <1>3, <2>1, OneAtATime
<1> QED BY <1>2, <1>5

\* Of a choice that can be built, the devices that are not must-include: their shares are
\* those of a candidate, and of each GPU they are the first listed.
LEMMA BuildableShares ==
  ASSUME PreferInv, WeightInv, doing \in {"build", "take"}, Ghost \notin available,
         NEW S \in kSubset(size, available), required \subseteq S, Buildable(S)
  PROVE  /\ SharesOf(S \ required) \in OneInPart
         /\ \A i \in DOMAIN groups :
              SubSeq(groups[i], 1, SharesOf(S \ required)[i]) = NodeIds(OfGPU(S \ required, GPUAt(i)))
<1> DEFINE N == S \ required
           x == SharesOf(N)
           All(i) == OfGPU(Free, GPUAt(i))
           Some(i) == OfGPU(N, GPUAt(i))
<1>1. S \in SUBSET available /\ Cardinality(S) = size /\ RequestInv
  BY DEF kSubset, PreferInv
<1>2. /\ Free = available \ required /\ Known(required) = required /\ Free \ S = Free \ N
      /\ N \in SUBSET Free
  BY <1>1, NothingUnknown
<1>3. /\ Searching
      /\ \A i \in DOMAIN groups : groups[i] = NodeIds(All(i)) /\ Len(groups[i]) = Cardinality(All(i))
      /\ \A d \in Free : d[1] \in Nodes
      /\ \A i, j \in DOMAIN groups : GPUAt(i) = GPUAt(j) => i = j
  BY GroupsOfFree
<1>4. x \in [DOMAIN groups -> Nat] /\ Total(x) = Cardinality(N)
  BY <1>2, SharesTotal
<1>5. Cardinality(N) = NewSize
  <2>1. IsFiniteSet(required) /\ N \in SUBSET (available \ required) /\ required \cup N = S
    BY <1>1, <1>2, FreeDevices
  <2>2. /\ Cardinality(required) \in Nat /\ Cardinality(N) \in Nat
        /\ Cardinality(required \cup N) = Cardinality(required) + Cardinality(N)
    BY <1>1, <2>1, Complement
  <2>3. NewSize = size - Cardinality(required) /\ Cardinality(S) = size
    BY <1>1, <1>2 DEF NewSize
  <2> HIDE DEF N
  <2>4. Cardinality(S) = Cardinality(required) + Cardinality(N)
    BY <2>1, <2>2
  <2> QED BY <2>2, <2>3, <2>4
<1>6. ASSUME NEW i \in DOMAIN groups
      PROVE  /\ x[i] = Cardinality(Some(i)) /\ x[i] \in 0 .. NewSize /\ x[i] <= Len(groups[i])
             /\ Some(i) \in SUBSET All(i) /\ IsFiniteSet(All(i))
             /\ x[i] = Len(groups[i]) => Some(i) = All(i)
             /\ x[i] = 0 => Some(i) = {}
  <2>1. Some(i) \in SUBSET All(i) /\ Some(i) \in SUBSET N /\ All(i) \in SUBSET Free
    BY <1>2 DEF OfGPU
  <2>2. IsFiniteSet(N) /\ IsFiniteSet(All(i)) /\ IsFiniteSet(Some(i))
    BY <1>2, <1>3, <2>1, FS_Subset DEF Searching
  <2>3. /\ Cardinality(Some(i)) <= Cardinality(N) /\ Cardinality(Some(i)) <= Cardinality(All(i))
        /\ Cardinality(Some(i)) = Cardinality(All(i)) => Some(i) = All(i)
        /\ Cardinality(Some(i)) \in Nat /\ (Cardinality(Some(i)) = 0 => Some(i) = {})
    BY <2>1, <2>2, FS_Subset, FS_CardinalityType, FS_EmptySet
  <2>4. x[i] = Cardinality(Some(i))
    BY DEF SharesOf
  <2> HIDE DEF x, Some, All, N
  <2>5. NewSize \in Nat
    BY <1>3 DEF Searching
  <2> QED BY <1>3, <1>5, <2>1, <2>2, <2>3, <2>4, <2>5
<1>7. ASSUME NEW i \in DOMAIN groups, NEW d \in Some(i), NEW e \in All(i) \ Some(i)
      PROVE  <<d, e>> \in InPart(S) /\ d[1] <= e[1]
  <2>1. d \in S \ required /\ e \in Free \ S /\ topo.gpu[d[1]] = topo.gpu[e[1]]
    BY <1>2, <1>7 DEF OfGPU
  <2>2. <<d, e>> \in InPart(S)
    BY <2>1 DEF InPart
  <2>3. \A p \in InPart(S) : p[1][1] <= p[2][1]
    BY DEF Buildable
  <2> QED BY <2>2, <2>3
<1>8. ASSUME NEW i \in DOMAIN groups, NEW j \in DOMAIN groups,
             x[i] \notin {0, Len(groups[i])}, x[j] \notin {0, Len(groups[j])}
      PROVE  i = j
  <2>1. Some(i) # {} /\ Some(i) # All(i) /\ Some(j) # {} /\ Some(j) # All(j)
    <3>1. ASSUME NEW k \in DOMAIN groups, x[k] \notin {0, Len(groups[k])} PROVE Some(k) # {} /\ Some(k) # All(k)
      <4>1. Some(k) = {} => x[k] = 0
        BY <1>6, FS_EmptySet
      <4>2. Some(k) = All(k) => x[k] = Len(groups[k])
        BY <1>3, <1>6
      <4> QED BY <3>1, <4>1, <4>2
    <3> QED BY <1>8, <3>1
  <2>2. PICK d \in Some(i), e \in All(i) \ Some(i) : TRUE
    BY <1>6, <2>1
  <2>3. PICK f \in Some(j), g \in All(j) \ Some(j) : TRUE
    BY <1>6, <2>1
  <2>4. <<d, e>> \in InPart(S) /\ <<f, g>> \in InPart(S)
    BY <1>7, <2>2, <2>3
  <2>5. topo.gpu[d[1]] = topo.gpu[f[1]]
    <3>1. \A p, q \in InPart(S) : topo.gpu[p[1][1]] = topo.gpu[q[1][1]]
      BY DEF Buildable
    <3>2. topo.gpu[<<d, e>>[1][1]] = topo.gpu[<<f, g>>[1][1]]
      BY <2>4, <3>1
    <3> QED BY <3>2
  <2>6. topo.gpu[d[1]] = GPUAt(i) /\ topo.gpu[f[1]] = GPUAt(j)
    BY <2>2, <2>3 DEF OfGPU
  <2> QED BY <1>3, <2>5, <2>6
<1>9. x \in OneInPart
  <2>1. x \in [DOMAIN groups -> 0 .. NewSize]
    <3>1. \A i \in DOMAIN groups : x[i] \in 0 .. NewSize
      BY <1>6
    <3> HIDE DEF x
    <3> QED BY <1>4, <3>1
  <2>2. \A i \in DOMAIN groups : x[i] <= Len(groups[i])
    BY <1>6
  <2> HIDE DEF x
  <2> QED BY <1>4, <1>5, <1>8, <2>1, <2>2 DEF OneInPart
<1>10. ASSUME NEW i \in DOMAIN groups PROVE SubSeq(groups[i], 1, x[i]) = NodeIds(Some(i))
  <2>1. topo \in Topologies /\ IsFiniteSet(All(i)) /\ (\A d \in All(i) : d[1] \in Nodes)
        /\ Some(i) \in SUBSET All(i) /\ \A d \in Some(i), e \in All(i) \ Some(i) : d[1] <= e[1]
    BY <1>3, <1>6, <1>7 DEF Searching, OfGPU
  <2> HIDE DEF Some, All, x
  <2>2. SubSeq(NodeIds(All(i)), 1, Cardinality(Some(i))) = NodeIds(Some(i))
    BY <2>1, FirstListed
  <2> QED BY <1>3, <1>6, <2>2
<1> QED BY <1>9, <1>10

\* So such a choice has a candidate, with as many devices of each node and its weight.
LEMMA BuildableBuilt ==
  ASSUME PreferInv, WeightInv, doing = "take", Ghost \notin available,
         NEW S \in kSubset(size, available), required \subseteq S, Buildable(S)
  PROVE  \E k \in DOMAIN built :
           /\ \A a \in Nodes : Times(built[k].ids, a) = Count(S \ required, a)
           /\ Shares(built[k]) = SharesOf(S \ required)
           /\ built[k].weight = TotalWeight(NodeIds(S))
<1> DEFINE N == S \ required
           x == SharesOf(N)
<1>1. /\ x \in OneInPart
      /\ \A i \in DOMAIN groups : SubSeq(groups[i], 1, x[i]) = NodeIds(OfGPU(N, GPUAt(i)))
  BY BuildableShares
<1>2. /\ Searching
      /\ \A d \in Free : d[1] \in Nodes /\ \E i \in DOMAIN groups : GPUAt(i) = topo.gpu[d[1]]
  BY GroupsOfFree
<1>3. /\ S \in SUBSET available /\ RequestInv /\ Known(required) = required
      /\ N \in SUBSET Free /\ IsFiniteSet(Free) /\ IsFiniteSet(S) /\ \A d \in S : d[1] \in Nodes
  <2>1. S \in SUBSET available /\ RequestInv
    BY DEF kSubset, PreferInv
  <2>2. IsFiniteSet(S) /\ IsFiniteSet(Free)
    BY <2>1, FreeDevices, FS_Subset
  <2> QED BY <2>1, <2>2, NothingUnknown
<1> PICK k \in DOMAIN built : Shares(built[k]) = x
  BY <1>1 DEF WeightInv
<1> PICK c : c = built[k]
  OBVIOUS
<1>4. Fits(c) /\ Placed(c) /\ Weighed(c) /\ Shares(c) = x
  BY DEF WeightInv
<1> HIDE DEF x
<1>5. ASSUME NEW a \in Nodes PROVE Times(c.ids, a) = Count(N, a)
  <2>1. CASE \E i \in DOMAIN groups : topo.gpu[a] = GPUAt(i)
    <3> PICK i \in DOMAIN groups : topo.gpu[a] = GPUAt(i)
      BY <2>1
    <3> DEFINE O == OfGPU(N, GPUAt(i))
    <3>1. Times(c.ids, a) = Times(NodeIds(O), a)
      BY <1>1, <1>4 DEF Placed, GPUAt
    <3>2. topo \in Topologies /\ IsFiniteSet(O) /\ \A d \in O : d[1] \in Nodes
      <4>1. O \in SUBSET S
        BY DEF OfGPU
      <4> QED BY <1>2, <1>3, <4>1, FS_Subset DEF Searching
    <3>3. Count(O, a) = Count(N, a)
      <4>1. {d \in O : d[1] = a} = {d \in N : d[1] = a}
        BY DEF OfGPU
      <4> QED BY <4>1 DEF Count
    <3> HIDE DEF O
    <3>4. Times(NodeIds(O), a) = Count(O, a)
      BY <3>2, NodeIdsExact
    <3> QED BY <3>1, <3>3, <3>4
  <2>2. CASE ~\E i \in DOMAIN groups : topo.gpu[a] = GPUAt(i)
    <3>1. ASSUME NEW l \in DOMAIN c.ids PROVE c.ids[l] # a
      <4>1. PICK i \in c.taken : \E m \in DOMAIN groups[i] : topo.gpu[c.ids[l]] = topo.gpu[groups[i][m]]
        BY <1>4 DEF Fits
      <4>2. PICK m \in DOMAIN groups[i] : topo.gpu[c.ids[l]] = topo.gpu[groups[i][m]]
        BY <4>1
      <4>3. i \in DOMAIN groups /\ 1 \in DOMAIN groups[i]
        BY <1>2, <1>4, <4>1, GroupSizes DEF Fits
      <4>4. topo.gpu[groups[i][m]] = GPUAt(i)
        BY <1>2, <4>2, <4>3 DEF Searching, Grouped, GPUAt
      <4> QED BY <2>2, <4>2, <4>3, <4>4
    <3>2. {l \in DOMAIN c.ids : c.ids[l] = a} = {} /\ {d \in N : d[1] = a} = {}
      BY <1>2, <1>3, <2>2, <3>1
    <3> QED BY <3>2 DEF Times, Count
  <2> QED BY <2>1, <2>2
<1>6. c.weight = TotalWeight(NodeIds(S))
  <2>1. c.weight = TotalWeight(c.ids \o NodeIds(required))
    BY <1>3, <1>4 DEF Weighed
  <2>2. topo \in Topologies /\ IsFiniteSet(required) /\ (\A d \in required : d[1] \in Nodes) /\ c.ids \in Seq(Nodes)
    BY <1>2, <1>3, <1>4, FS_Subset DEF Searching, Fits
  <2>3. TotalWeight(c.ids \o NodeIds(required)) = WeightOf([a \in Nodes |-> Times(c.ids, a) + Count(required, a)])
    BY <2>2, WeightOfDevices
  <2>4. ASSUME NEW a \in Nodes PROVE Times(c.ids, a) + Count(required, a) = Count(S, a)
    <3>1. Count(S, a) = Count(N, a) + Count(required, a)
      BY <1>3, CountOfParts
    <3> QED BY <1>5, <3>1
  <2>5. [a \in Nodes |-> Times(c.ids, a) + Count(required, a)] = [a \in Nodes |-> Count(S, a)]
    BY <2>4
  <2>6. TotalWeight(NodeIds(S)) = WeightOf([a \in Nodes |-> Count(S, a)])
    BY <1>2, <1>3, WeightOfDevices DEF Searching
  <2> QED BY <2>1, <2>3, <2>5, <2>6
<1> QED BY <1>4, <1>5, <1>6 DEF x

-------------------------------------------------------------------------------
(* The reply is the best                                                   *)

\* None of the choices that can be built is better than the reply.
BestBuildable ==
  doing = "replied" /\ Ghost \notin available =>
    \A S \in kSubset(size, available) : required \subseteq S /\ Buildable(S) => NoBetter(S)

\* A choice is of nodes and has a weight.
LEMMA ChoiceWeighs ==
  ASSUME RequestInv, Ghost \notin available, NEW S \in SUBSET available
  PROVE  /\ topo \in Topologies /\ IsFiniteSet(S) /\ \A d \in S : d[1] \in Nodes
         /\ [a \in Nodes |-> Count(S, a)] \in [Nodes -> Nat]
         /\ TotalWeight(NodeIds(S)) = WeightOf([a \in Nodes |-> Count(S, a)])
         /\ TotalWeight(NodeIds(S)) \in Nat
<1>1. topo \in Topologies /\ IsFiniteSet(S) /\ \A d \in S : d[1] \in Nodes
  <2>1. topo \in Topologies /\ IsFiniteSet(available) /\ \A d \in available : d[1] \in Nodes
    BY FreeDevices, NothingUnknown DEF RequestInv
  <2> QED BY <2>1, FS_Subset
<1>2. /\ [a \in Nodes |-> Count(S, a)] \in [Nodes -> Nat]
      /\ TotalWeight(NodeIds(S)) = WeightOf([a \in Nodes |-> Count(S, a)])
  BY <1>1, WeightOfDevices
<1> QED BY <1>1, <1>2, WeightOfOne

\* A set as large as the one it is part of is that set.
LEMMA AllOfIt ==
  ASSUME NEW A, IsFiniteSet(A), NEW B \in SUBSET A, Cardinality(B) = Cardinality(A)
  PROVE  B = A
  BY FS_Subset

\* Before any search there is only one choice, or only one weight.
LEMMA EarlyReply ==
  ASSUME RequestInv, Ghost \notin available, TakeAll \/ TakeAny \/ Echo,
         NEW S \in kSubset(size, available), required \subseteq S
  PROVE  TotalWeight(NodeIds(S)) = TotalWeight(NodeIds(reply'))
<1>1. S \in SUBSET available /\ Cardinality(S) = size /\ required \in SUBSET available
      /\ IsFiniteSet(available) /\ IsFiniteSet(S)
  BY FreeDevices, FS_Subset DEF kSubset, RequestInv
<1>2. CASE TakeAll
  <2>1. CASE Cardinality(available) = size
    <3>1. reply' = available
      BY <1>2, <2>1 DEF TakeAll, Reply
    <3> QED BY <1>1, <2>1, <3>1, AllOfIt
  <2>2. CASE Cardinality(available) # size
    <3>1. reply' = required /\ Cardinality(required) = size
      BY <1>2, <2>2 DEF TakeAll, Reply, Exact
    <3> QED BY <1>1, <3>1, AllOfIt
  <2> QED BY <2>1, <2>2
<1>3. CASE TakeAny
  <2>1. OneGPU /\ reply' \in SUBSET available
    BY <1>1, <1>3 DEF TakeAny, Reply, kSubset
  <2>2. \A a, b \in Nodes : a = b
    <3>1. topo \in Topologies /\ IsFiniteSet(Nodes) /\ Cardinality(Nodes) = 1
      BY <2>1, PairsOfNodes DEF OneGPU, RequestInv
    <3>2. PICK n : Nodes = {n}
      BY <3>1, FS_Singleton
    <3> QED BY <3>2
  <2>3. ASSUME NEW T \in SUBSET available PROVE TotalWeight(NodeIds(T)) = 0
    <3>1. /\ topo \in Topologies /\ [a \in Nodes |-> Count(T, a)] \in [Nodes -> Nat]
          /\ TotalWeight(NodeIds(T)) = WeightOf([a \in Nodes |-> Count(T, a)])
      BY ChoiceWeighs
    <3> QED BY <2>2, <3>1, WeightOfOne
  <2> QED BY <1>1, <2>1, <2>3
<1>4. ~Echo
  <2>1. Known(available) = available
    BY NothingUnknown
  <2>2. size <= Cardinality(available) /\ size \in Nat /\ Cardinality(available) \in Nat
    BY <1>1, FS_CardinalityType DEF RequestInv
  <2> QED BY <2>1, <2>2 DEF Echo, Unregistered
<1> QED BY <1>2, <1>3, <1>4

\* The reply weighs as much as the candidate that was chosen.
LEMMA ReplyTaken ==
  ASSUME PreferInv, WeightInv, Take, Ghost \notin available
  PROVE  /\ reply' \in SUBSET available /\ Cardinality(reply') = size /\ required \subseteq reply'
         /\ \A a \in Nodes : Count(reply' \ required, a) = Times(candidate.ids, a)
         /\ candidate.weight = TotalWeight(NodeIds(reply'))
<1>1. PICK S \in SUBSET Free : /\ \A n \in Nodes : Count(S, n) = Times(candidate.ids, n)
                               /\ Reply(required \cup S)
  BY Taken
<1> PICK R : R = required \cup S
  OBVIOUS
<1>2. RequestInv /\ doing = "take" /\ reply' = R /\ ReplyFits' /\ doing' = "replied"
      /\ UNCHANGED <<available, required, size>>
  BY <1>1, TakeKeeps DEF PreferInv, Take, Reply, asked
<1>3. /\ Known(required) = required /\ Free = available \ required /\ required \in SUBSET available
  BY <1>2, NothingUnknown
<1>4. R \in SUBSET available /\ R \ required = S /\ required \subseteq R
  BY <1>1, <1>3
<1>5. Cardinality(R) = size
  BY <1>2, <1>3 DEF ReplyFits
<1> PICK c : c = candidate
  OBVIOUS
<1>6. Fits(c) /\ Weighed(c)
  BY <1>2 DEF WeightInv
<1>7. c.weight = TotalWeight(NodeIds(R))
  <2>1. c.weight = TotalWeight(c.ids \o NodeIds(required)) /\ c.ids \in Seq(Nodes)
    BY <1>3, <1>6 DEF Weighed, Fits
  <2>2. topo \in Topologies /\ IsFiniteSet(required) /\ (\A d \in required : d[1] \in Nodes) /\ IsFiniteSet(R)
    BY <1>2, <1>3, <1>4, ChoiceWeighs
  <2>3. TotalWeight(c.ids \o NodeIds(required)) = WeightOf([a \in Nodes |-> Times(c.ids, a) + Count(required, a)])
    BY <2>1, <2>2, WeightOfDevices
  <2>4. ASSUME NEW a \in Nodes PROVE Times(c.ids, a) + Count(required, a) = Count(R, a)
    <3>1. Count(R, a) = Count(R \ required, a) + Count(required, a)
      BY <1>4, <2>2, CountOfParts
    <3> QED BY <1>1, <1>4, <3>1
  <2>5. [a \in Nodes |-> Times(c.ids, a) + Count(required, a)] = [a \in Nodes |-> Count(R, a)]
    BY <2>4
  <2>6. TotalWeight(NodeIds(R)) = WeightOf([a \in Nodes |-> Count(R, a)])
    BY <1>2, <1>4, ChoiceWeighs
  <2> QED BY <2>1, <2>3, <2>5, <2>6
<1> QED BY <1>1, <1>2, <1>4, <1>5, <1>7

\* A reply that is best, by what was known before it.
LEMMA BestReplied ==
  ASSUME UNCHANGED <<asked, groups>>, Ghost \notin available => 
           \A S \in kSubset(size, available) : required \subseteq S /\ Buildable(S) =>
             LET w == TotalWeight(NodeIds(S))  v == TotalWeight(NodeIds(reply'))
             IN  IF spread THEN w <= v ELSE w >= v
  PROVE  BestBuildable'
<1>1. /\ \A S : NodeIds(S)' = NodeIds(S) /\ (Buildable(S)' <=> Buildable(S))
      /\ \A ids : TotalWeight(ids)' = TotalWeight(ids)
  BY FrozenWeights
<1>2. UNCHANGED <<topo, spread, available, required, size>>
  BY DEF asked
<1>3. \A S : TotalWeight(NodeIds(S))' = TotalWeight(NodeIds(S))
  <2>1. ASSUME NEW S PROVE TotalWeight(NodeIds(S))' = TotalWeight(NodeIds(S))
    BY <1>2 DEF TotalWeight, Times, NodeIds, Below, Count, WeightOf, MapThenSumSet, MapThenFoldSet,
                PairWeight, LinkWeight, Nodes
  <2> QED BY <2>1
<1>4. TotalWeight(NodeIds(reply))' = TotalWeight(NodeIds(reply'))
  BY <1>2 DEF TotalWeight, Times, NodeIds, Below, Count, WeightOf, MapThenSumSet, MapThenFoldSet,
              PairWeight, LinkWeight, Nodes
<1> SUFFICES ASSUME Ghost \notin available, NEW S \in kSubset(size, available)', required \subseteq S, Buildable(S)'
             PROVE  NoBetter(S)'
  BY <1>2 DEF BestBuildable
<1>5. S \in kSubset(size, available) /\ Buildable(S)
  BY <1>1, <1>2 DEF kSubset
<1> QED BY <1>2, <1>3, <1>4, <1>5 DEF NoBetter

LEMMA BestInductive == PreferSpec => []BestBuildable
<1>1. PreferInit => BestBuildable
  BY DEF PreferInit, BestBuildable
<1>2. PreferInv /\ WeightInv /\ BestBuildable /\ [PreferNext]_preferVars => BestBuildable'
  <2>1. ASSUME PreferInv, TakeAll \/ TakeAny \/ Echo PROVE BestBuildable'
    <3>1. UNCHANGED <<asked, groups>> /\ RequestInv
      BY <2>1 DEF TakeAll, TakeAny, Echo, Reply, PreferInv
    <3>2. ASSUME Ghost \notin available, NEW S \in kSubset(size, available), required \subseteq S
          PROVE  /\ TotalWeight(NodeIds(S)) = TotalWeight(NodeIds(reply'))
                 /\ TotalWeight(NodeIds(S)) \in Nat
      <4>1. S \in SUBSET available
        BY DEF kSubset
      <4> QED BY <2>1, <3>1, <3>2, <4>1, EarlyReply, ChoiceWeighs
    <3> QED BY <3>1, <3>2, BestReplied
  <2>2. ASSUME PreferInv, WeightInv, Take PROVE BestBuildable'
    <3>1. UNCHANGED <<asked, groups>> /\ RequestInv /\ doing = "take"
      BY <2>2 DEF Take, Reply, PreferInv
    <3>2. ASSUME Ghost \notin available, NEW S \in kSubset(size, available), required \subseteq S, Buildable(S)
          PROVE  LET w == TotalWeight(NodeIds(S))  v == TotalWeight(NodeIds(reply'))
                 IN  IF spread THEN w <= v ELSE w >= v
      <4>1. candidate.weight = TotalWeight(NodeIds(reply')) /\ reply' \in SUBSET available
        BY <2>2, <3>2, ReplyTaken
      <4>2. PICK k \in DOMAIN built : built[k].weight = TotalWeight(NodeIds(S))
        BY <2>2, <3>1, <3>2, BuildableBuilt
      <4>3. ~Better(built[k].weight, candidate.weight)
        BY <2>2, <3>1 DEF WeightInv
      <4>4. S \in SUBSET available
        BY DEF kSubset
      <4>5. TotalWeight(NodeIds(S)) \in Nat /\ TotalWeight(NodeIds(reply')) \in Nat
        BY <3>1, <3>2, <4>1, <4>4, ChoiceWeighs
      <4> QED BY <4>1, <4>2, <4>3, <4>5 DEF Better
    <3> QED BY <3>1, <3>2, BestReplied
  <2>3. ASSUME Group \/ Extend \/ Extended \/ Choose PROVE BestBuildable'
    <3>1. doing' # "replied"
      BY <2>3 DEF Group, Extend, Extended, Choose
    <3> QED BY <3>1 DEF BestBuildable
  <2>4. ASSUME BestBuildable, UNCHANGED preferVars PROVE BestBuildable'
    <3>1. UNCHANGED <<asked, groups, reply, doing>>
      BY <2>4 DEF preferVars, asked
    <3>2. CASE doing = "replied"
      BY <2>4, <3>1, <3>2, BestReplied DEF BestBuildable, NoBetter
    <3>3. CASE doing # "replied"
      BY <3>1, <3>3 DEF BestBuildable
    <3> QED BY <3>2, <3>3
  <2> QED BY <2>1, <2>2, <2>3, <2>4 DEF PreferNext
<1> QED BY <1>1, <1>2, WeightInductive, PTL DEF PreferSpec

\* No GPU is divided into partitions; each may be split.
OneNodePerGPU == \A a, b \in Nodes : topo.gpu[a] = topo.gpu[b] => a = b

\* One device given for one of another node.
LEMMA Swapped ==
  ASSUME topo \in Topologies, NEW S, IsFiniteSet(S), \A d \in S : d[1] \in Nodes,
         NEW d \in S, NEW e, e \notin S, e[1] \in Nodes, d[1] # e[1],
         NEW n, n = [a \in Nodes |-> Count(S, a)]
  PROVE  LET T == (S \ {d}) \cup {e}
         IN  /\ Cardinality(T) = Cardinality(S)
             /\ n[d[1]] > 0
             /\ [a \in Nodes |-> Count(T, a)] = [n EXCEPT ![d[1]] = @ - 1, ![e[1]] = @ + 1]
<1> DEFINE R == S \ {d}
           T == R \cup {e}
<1>1. IsFiniteSet(R) /\ S = R \cup {d} /\ d \notin R /\ e \notin R /\ IsFiniteSet(T)
  <2>1. IsFiniteSet(R)
    BY FS_RemoveElement
  <2> QED BY <2>1, FS_AddElement
<1>2. Cardinality(S) = Cardinality(R) + 1 /\ Cardinality(T) = Cardinality(R) + 1
  BY <1>1, FS_AddElement
<1>3. ASSUME NEW a
      PROVE  /\ Count(R, a) \in Nat
             /\ Count(S, a) = Count(R, a) + (IF a = d[1] THEN 1 ELSE 0)
             /\ Count(T, a) = Count(R, a) + (IF a = e[1] THEN 1 ELSE 0)
  <2>1. ASSUME NEW f, f \notin R
        PROVE  Count(R \cup {f}, a) = Count(R, a) + (IF a = f[1] THEN 1 ELSE 0)
    <3> DEFINE A == {c \in R : c[1] = a}
               B == {c \in R \cup {f} : c[1] = a}
    <3>1. IsFiniteSet(A) /\ f \notin A /\ Cardinality(A) \in Nat
      <4>1. A \in SUBSET R
        OBVIOUS
      <4> QED BY <1>1, <2>1, <4>1, FS_Subset, FS_CardinalityType
    <3>2. B = IF a = f[1] THEN A \cup {f} ELSE A
      OBVIOUS
    <3>3. Cardinality(A \cup {f}) = Cardinality(A) + 1
      BY <3>1, FS_AddElement
    <3>4. Count(R, a) = Cardinality(A) /\ Count(R \cup {f}, a) = Cardinality(B)
      BY DEF Count
    <3> HIDE DEF A, B
    <3> QED BY <3>1, <3>2, <3>3, <3>4
  <2>2. Count(R, a) \in Nat
    BY <1>1, Counts
  <2>3. Count(S, a) = Count(R, a) + (IF a = d[1] THEN 1 ELSE 0)
    <3> HIDE DEF R
    <3> QED BY <1>1, <2>1
  <2>4. Count(T, a) = Count(R, a) + (IF a = e[1] THEN 1 ELSE 0)
    <3> HIDE DEF R
    <3> QED BY <1>1, <2>1
  <2> QED BY <2>2, <2>3, <2>4
<1> HIDE DEF R, T
<1>4. d[1] \in Nodes
  OBVIOUS
<1>5. n[d[1]] > 0
  BY <1>3, <1>4
<1>6. [a \in Nodes |-> Count(T, a)] = [n EXCEPT ![d[1]] = @ - 1, ![e[1]] = @ + 1]
  <2>1. ASSUME NEW a \in Nodes PROVE Count(T, a) = [n EXCEPT ![d[1]] = @ - 1, ![e[1]] = @ + 1][a]
    <3>1. n[a] = Count(S, a)
      OBVIOUS
    <3>2. [n EXCEPT ![d[1]] = @ - 1, ![e[1]] = @ + 1][a]
            = IF a = e[1] THEN n[a] + 1 ELSE IF a = d[1] THEN n[a] - 1 ELSE n[a]
      OBVIOUS
    <3>3. Count(R, a) \in Nat /\ Count(S, a) = Count(R, a) + (IF a = d[1] THEN 1 ELSE 0)
          /\ Count(T, a) = Count(R, a) + (IF a = e[1] THEN 1 ELSE 0)
      BY <1>3
    <3> QED BY <3>1, <3>2, <3>3
  <2>2. [n EXCEPT ![d[1]] = @ - 1, ![e[1]] = @ + 1]
          = [a \in Nodes |-> [n EXCEPT ![d[1]] = @ - 1, ![e[1]] = @ + 1][a]]
    OBVIOUS
  <2> QED BY <2>1, <2>2
<1> QED BY <1>1, <1>2, <1>5, <1>6 DEF T, R

\* With GPUs that are not divided, a choice with two of them in part can be made closer: one
\* of the two ways to take more of the one and less of the other does.
LEMMA Closest ==
  ASSUME RequestInv, Ghost \notin available, OneNodePerGPU,
         NEW S0 \in kSubset(size, available), required \subseteq S0
  PROVE  \E S \in kSubset(size, available) :
           required \subseteq S /\ Buildable(S) /\ TotalWeight(NodeIds(S)) <= TotalWeight(NodeIds(S0))
<1> DEFINE C == {S \in kSubset(size, available) : required \subseteq S}
           W == {TotalWeight(NodeIds(S)) : S \in C}
<1>1. ASSUME NEW S \in C
      PROVE  /\ S \in SUBSET available /\ Cardinality(S) = size /\ required \subseteq S
             /\ topo \in Topologies /\ IsFiniteSet(S) /\ \A d \in S : d[1] \in Nodes
             /\ [a \in Nodes |-> Count(S, a)] \in [Nodes -> Nat]
             /\ TotalWeight(NodeIds(S)) = WeightOf([a \in Nodes |-> Count(S, a)])
             /\ TotalWeight(NodeIds(S)) \in Nat
  <2>1. S \in SUBSET available /\ Cardinality(S) = size /\ required \subseteq S
    BY DEF kSubset
  <2> QED BY <2>1, ChoiceWeighs
<1>2. W \in SUBSET Nat /\ TotalWeight(NodeIds(S0)) \in W
  <2>1. S0 \in C
    OBVIOUS
  <2>2. \A S \in C : TotalWeight(NodeIds(S)) \in Nat
    BY <1>1
  <2> HIDE DEF C
  <2> QED BY <2>1, <2>2
<1> HIDE DEF W
<1>3. PICK m \in W : \A j \in W : m <= j
  <2>1. W = {j \in Nat : j \in W}
    BY <1>2
  <2> QED BY <1>2, <2>1, LeastNatural
<1>4. PICK S \in C : TotalWeight(NodeIds(S)) = m
  BY <1>3 DEF W
<1> DEFINE n == [a \in Nodes |-> Count(S, a)]
<1>5. ASSUME NEW p \in InPart(S)
      PROVE  /\ p[1] \in S \ required /\ p[2] \in available \ S /\ p[1][1] = p[2][1] /\ p[1][1] \in Nodes
             /\ topo.gpu[p[1][1]] = topo.gpu[p[2][1]]
  <2>1. p[1] \in S \ required /\ p[2] \in Free \ S /\ topo.gpu[p[1][1]] = topo.gpu[p[2][1]]
    BY DEF InPart
  <2>2. Free \in SUBSET available /\ \A d \in available : d[1] \in Nodes
    BY NothingUnknown
  <2>3. p[1][1] \in Nodes /\ p[2][1] \in Nodes
    <3> PICK d, e : d = p[1] /\ e = p[2]
      OBVIOUS
    <3>1. d \in S /\ e \in available /\ \A f \in S : f[1] \in Nodes
      BY <1>1, <2>1, <2>2
    <3>2. d[1] \in Nodes /\ e[1] \in Nodes
      BY <2>2, <3>1
    <3> QED BY <3>2
  <2> QED BY <2>1, <2>2, <2>3 DEF OneNodePerGPU
<1>6. ASSUME NEW d \in S \ required, NEW e \in available \ S, d[1] # e[1]
      PROVE  /\ n[d[1]] > 0 /\ d[1] \in Nodes /\ e[1] \in Nodes
             /\ m <= WeightOf([n EXCEPT ![d[1]] = @ - 1, ![e[1]] = @ + 1])
  <2> DEFINE T == (S \ {d}) \cup {e}
  <2>1. topo \in Topologies /\ IsFiniteSet(S) /\ (\A f \in S : f[1] \in Nodes) /\ e[1] \in Nodes /\ e \notin S
    BY <1>1, NothingUnknown
  <2>2. /\ Cardinality(T) = Cardinality(S) /\ n[d[1]] > 0
        /\ [a \in Nodes |-> Count(T, a)] = [n EXCEPT ![d[1]] = @ - 1, ![e[1]] = @ + 1]
    <3>1. d \in S /\ d[1] # e[1]
      BY <1>6
    <3>2. n = [a \in Nodes |-> Count(S, a)]
      OBVIOUS
    <3> HIDE DEF n
    <3> QED BY <2>1, <3>1, <3>2, Swapped
  <2>3. T \in C
    <3>1. T \in SUBSET available /\ Cardinality(T) = size /\ required \subseteq T
      BY <1>1, <2>2
    <3> QED BY <3>1 DEF kSubset
  <2>4. TotalWeight(NodeIds(T)) = WeightOf([a \in Nodes |-> Count(T, a)])
    BY <1>1, <2>3
  <2>5. TotalWeight(NodeIds(T)) \in W
    BY <2>3 DEF W
  <2> HIDE DEF n, T
  <2> QED BY <1>3, <2>1, <2>2, <2>4, <2>5
<1>7. ASSUME NEW p \in InPart(S), NEW q \in InPart(S) PROVE p[1][1] = q[1][1]
  <2> PICK a, b : a = p[1][1] /\ b = q[1][1]
    OBVIOUS
  <2>1. SUFFICES ASSUME a # b PROVE FALSE
    OBVIOUS
  <2>2. a \in Nodes /\ b \in Nodes /\ n[a] > 0 /\ n[b] > 0
        /\ m <= WeightOf([n EXCEPT ![a] = @ - 1, ![b] = @ + 1])
        /\ m <= WeightOf([n EXCEPT ![b] = @ - 1, ![a] = @ + 1])
    <3>1. /\ p[1] \in S \ required /\ p[2] \in available \ S /\ p[1][1] = a /\ p[2][1] = a
          /\ q[1] \in S \ required /\ q[2] \in available \ S /\ q[1][1] = b /\ q[2][1] = b
      BY <1>5
    <3> HIDE DEF n
    <3> QED BY <1>6, <2>1, <3>1
  <2>3. topo \in Topologies /\ n \in [Nodes -> Nat] /\ m = WeightOf(n)
    BY <1>1, <1>4
  <2>4. [n EXCEPT ![b] = @ - 1, ![a] = @ + 1] = [n EXCEPT ![a] = @ + 1, ![b] = @ - 1]
    <3> HIDE DEF n
    <3> DEFINE x == [n EXCEPT ![b] = @ - 1, ![a] = @ + 1]
               y == [n EXCEPT ![a] = @ + 1, ![b] = @ - 1]
    <3>1. DOMAIN x = Nodes /\ DOMAIN y = Nodes /\ x = [c \in Nodes |-> x[c]] /\ y = [c \in Nodes |-> y[c]]
      BY <2>3
    <3>2. ASSUME NEW c \in Nodes PROVE x[c] = y[c]
      BY <2>1, <2>2, <2>3
    <3> HIDE DEF x, y
    <3>3. x = y
      BY <3>1, <3>2
    <3> QED BY <3>3 DEF x, y
  <2> PICK v, w : /\ v = WeightOf([n EXCEPT ![a] = @ - 1, ![b] = @ + 1])
                  /\ w = WeightOf([n EXCEPT ![a] = @ + 1, ![b] = @ - 1])
    OBVIOUS
  <2> HIDE DEF n
  <2>5. v + w < m + m
    BY <2>1, <2>2, <2>3, Exchange
  <2>6. m \in Nat /\ v \in Nat /\ w \in Nat
    <3>1. /\ [n EXCEPT ![a] = @ - 1, ![b] = @ + 1] \in [Nodes -> Nat]
          /\ [n EXCEPT ![a] = @ + 1, ![b] = @ - 1] \in [Nodes -> Nat]
      BY <2>2, <2>3
    <3> QED BY <1>2, <1>3, <2>3, <3>1, WeightOfOne
  <2>7. m <= v /\ m <= w
    BY <2>2, <2>4
  <2> QED BY <2>5, <2>6, <2>7
<1>8. Buildable(S)
  <2>1. ASSUME NEW p \in InPart(S) PROVE p[1][1] <= p[2][1]
    <3>1. p[1][1] = p[2][1] /\ p[1][1] \in Nodes /\ Nodes \in SUBSET Nat
      BY <1>1, <1>5, PairsOfNodes
    <3>2. \A a \in Nodes : a <= a
      BY <3>1
    <3> QED BY <3>1, <3>2
  <2> QED BY <1>7, <2>1 DEF Buildable
<1> QED BY <1>1, <1>2, <1>3, <1>4, <1>8

\* Whatever is free and whatever the weights, no choice that the search builds is better than
\* the reply, under either policy.
THEOREM BestOfBuildable == PreferSpec => []BestBuildable
  BY BestInductive

\* With the policy spread no choice that the search builds is farther apart than the reply;
\* without it and with GPUs that are not divided into partitions, no choice at all is closer.
THEOREM BestReply == PreferSpec => [](spread \/ OneNodePerGPU => BestScore)
<1>1. PreferInv /\ BestBuildable => (spread \/ OneNodePerGPU => BestScore)
  <2> SUFFICES ASSUME PreferInv, BestBuildable, spread \/ OneNodePerGPU, doing = "replied",
                      Ghost \notin available, NEW S \in kSubset(size, available), required \subseteq S,
                      spread => Buildable(S)
               PROVE  NoBetter(S)
    BY DEF BestScore
  <2>1. CASE spread
    BY <2>1 DEF BestBuildable
  <2>2. CASE ~spread
    <3>1. PICK T \in kSubset(size, available) :
            required \subseteq T /\ Buildable(T) /\ TotalWeight(NodeIds(T)) <= TotalWeight(NodeIds(S))
      BY <2>2, Closest DEF PreferInv
    <3>2. TotalWeight(NodeIds(T)) >= TotalWeight(NodeIds(reply))
      BY <2>2, <3>1 DEF BestBuildable, NoBetter
    <3>3. S \in SUBSET available /\ T \in SUBSET available /\ reply \in SUBSET available
      BY DEF kSubset, PreferInv, ReplyFits
    <3>4. /\ TotalWeight(NodeIds(S)) \in Nat /\ TotalWeight(NodeIds(T)) \in Nat
          /\ TotalWeight(NodeIds(reply)) \in Nat
      BY <3>3, ChoiceWeighs DEF PreferInv
    <3> QED BY <2>2, <3>1, <3>2, <3>4 DEF NoBetter
  <2> QED BY <2>1, <2>2
<1> QED BY <1>1, PreferInductive, BestInductive, PTL

-------------------------------------------------------------------------------
(* A GPU that holds the request alone                                      *)

\* GPU g can hold the request alone.
Holds(g) == (\E a \in Nodes : topo.gpu[a] = g) /\ Cardinality(OfGPU(available, g)) >= size

\* Of those GPUs, one with the fewest free devices holds R.
FewestHold(R) ==
  \E g : /\ Holds(g) /\ R \subseteq OfGPU(available, g)
         /\ \A h : Holds(h) => Cardinality(OfGPU(available, g)) <= Cardinality(OfGPU(available, h))

\* Where GPUs are not divided, a candidate weighs nothing when it is of one GPU only.
LEMMA NoWeightIsAlone ==
  ASSUME PreferInv, WeightInv, doing = "take", OneNodePerGPU, required = {}, NEW k \in DOMAIN built
  PROVE  /\ built[k].weight \in Nat
         /\ built[k].weight = 0 <=> Alone(built[k])
<1> PICK c : c = built[k]
  OBVIOUS
<1>1. Fits(c) /\ Held(c) /\ Weighed(c) /\ c.last \in c.taken /\ Searching
  BY GroupsOfFree DEF WeightInv
<1> DEFINE n == [a \in Nodes |-> Times(c.ids, a)]
<1>2. c.ids \in Seq(Nodes) /\ c.taken \in SUBSET DOMAIN groups
      /\ \A l \in DOMAIN c.ids : c.ids[l] \in Nodes
  BY <1>1 DEF Fits
<1>3. n \in [Nodes -> Nat] /\ topo \in Topologies /\ \A a \in Nodes : n[a] = Times(c.ids, a)
  BY <1>1, <1>2, TimesType DEF Searching
<1>4. c.weight = WeightOf(n)
  <2>1. Known({}) = {} /\ IsFiniteSet({}) /\ \A d \in {} : d[1] \in Nodes
    BY FS_EmptySet DEF Known
  <2>2. TotalWeight(c.ids \o NodeIds({})) = WeightOf([a \in Nodes |-> Times(c.ids, a) + Count({}, a)])
    BY <1>2, <1>3, <2>1, WeightOfDevices
  <2>3. \A a \in Nodes : Count({}, a) = 0
    BY FS_EmptySet DEF Count
  <2>4. [a \in Nodes |-> Times(c.ids, a) + Count({}, a)] = n
    BY <1>3, <2>3
  <2> HIDE DEF n
  <2> QED BY <1>1, <2>1, <2>2, <2>4 DEF Weighed
<1>5. ASSUME NEW a \in Nodes, n[a] > 0
      PROVE  \E i \in c.taken : topo.gpu[a] = GPUAt(i)
  <2>1. PICK l \in DOMAIN c.ids : c.ids[l] = a
    <3>1. {l \in DOMAIN c.ids : c.ids[l] = a} # {}
      BY <1>3, <1>5, FS_EmptySet DEF Times
    <3> QED BY <3>1
  <2>2. PICK i \in c.taken : \E m \in DOMAIN groups[i] : topo.gpu[c.ids[l]] = topo.gpu[groups[i][m]]
    BY <1>1 DEF Fits
  <2>3. i \in DOMAIN groups /\ 1 \in DOMAIN groups[i]
    BY <1>1, <1>2, <2>2, GroupSizes
  <2> QED BY <1>1, <2>1, <2>2, <2>3 DEF Searching, Grouped, GPUAt
<1>6. ASSUME NEW i \in c.taken
      PROVE  \E a \in Nodes : n[a] > 0 /\ topo.gpu[a] = GPUAt(i)
  <2> DEFINE A == {l \in DOMAIN c.ids : topo.gpu[c.ids[l]] = topo.gpu[groups[i][1]]}
  <2>1. i \in DOMAIN groups /\ Shares(c)[i] > 0
    BY <1>1, <1>2 DEF Held
  <2>2. PICK l \in A : TRUE
    <3>1. Shares(c)[i] = Cardinality(A)
      BY <2>1 DEF Shares
    <3>2. A # {}
      BY <2>1, <3>1, FS_EmptySet
    <3> QED BY <3>2
  <2> DEFINE B == {m \in DOMAIN c.ids : c.ids[m] = c.ids[l]}
  <2>3. Cardinality(B) # 0
    <3>1. IsFiniteSet(DOMAIN c.ids)
      <4>1. DOMAIN c.ids = 1 .. Len(c.ids) /\ Len(c.ids) \in Nat
        BY <1>2
      <4> QED BY <4>1, FirstNumbers
    <3>2. IsFiniteSet(B) /\ l \in B
      BY <3>1, <2>2, FS_Subset
    <3> QED BY <3>2, FS_EmptySet
  <2>4. c.ids[l] \in Nodes /\ n[c.ids[l]] = Cardinality(B)
    BY <1>2, <1>3, <2>2 DEF Times
  <2>5. n[c.ids[l]] \in Nat
    BY <1>3, <2>4
  <2> HIDE DEF n, B
  <2> QED BY <2>2, <2>3, <2>4, <2>5 DEF GPUAt
<1> HIDE DEF n
<1>7. c.weight \in Nat /\ (c.weight = 0 <=> \A a, b \in Nodes : n[a] > 0 /\ n[b] > 0 => a = b)
  BY <1>3, <1>4, WeightOfOne
<1>8. ASSUME c.weight = 0 PROVE Alone(c)
  <2>1. ASSUME NEW i \in c.taken PROVE i = c.last
    <3>1. PICK a \in Nodes : n[a] > 0 /\ topo.gpu[a] = GPUAt(i)
      BY <1>6
    <3>2. PICK b \in Nodes : n[b] > 0 /\ topo.gpu[b] = GPUAt(c.last)
      BY <1>1, <1>6
    <3>3. GPUAt(i) = GPUAt(c.last)
      BY <1>7, <1>8, <3>1, <3>2
    <3> QED BY <1>1, <1>2, <3>3, GroupsOfFree
  <2> QED BY <1>1, <2>1 DEF Alone
<1>9. ASSUME Alone(c) PROVE c.weight = 0
  <2>1. ASSUME NEW a \in Nodes, NEW b \in Nodes, n[a] > 0, n[b] > 0 PROVE a = b
    <3>1. topo.gpu[a] = GPUAt(c.last) /\ topo.gpu[b] = GPUAt(c.last)
      BY <1>5, <1>9, <2>1 DEF Alone
    <3> QED BY <3>1 DEF OneNodePerGPU
  <2> QED BY <1>7, <2>1
<1> QED BY <1>7, <1>8, <1>9

\* Each GPU that can hold the request alone is such a candidate.
LEMMA AloneBuilt ==
  ASSUME PreferInv, WeightInv, doing = "take", required = {},
         NEW i \in DOMAIN groups, Len(groups[i]) >= NewSize
  PROVE  \E k \in DOMAIN built : Alone(built[k]) /\ built[k].last = i
<1> PICK z : z = [j \in DOMAIN groups |-> 0]
  OBVIOUS
<1> PICK x : x = [z EXCEPT ![i] = NewSize]
  OBVIOUS
<1>1. Searching /\ NewSize \in Nat /\ z \in [DOMAIN groups -> Nat] /\ z[i] = 0
  BY GroupsOfFree DEF Searching
<1>2. x \in [DOMAIN groups -> Nat] /\ Total(x) = NewSize
  <2>1. Total(z) = 0
    BY TotalOfNone
  <2>2. [z EXCEPT ![i] = NewSize] \in [DOMAIN groups -> Nat]
        /\ Total([z EXCEPT ![i] = NewSize]) = Total(z) + NewSize
    BY <1>1, TotalOfOneMore
  <2> QED BY <1>1, <2>1, <2>2
<1>3. x[i] = NewSize /\ \A j \in DOMAIN groups : j # i => x[j] = 0
  BY <1>1
<1>4. \A j \in DOMAIN groups : Len(groups[j]) \in Nat
  BY <1>1, GroupSizes
<1>5. x \in OneInPart
  <2>1. \A j \in DOMAIN groups : x[j] \in 0 .. NewSize /\ x[j] <= Len(groups[j])
    BY <1>1, <1>3, <1>4
  <2>2. x \in [DOMAIN groups -> 0 .. NewSize]
    BY <1>2, <2>1
  <2> QED BY <1>2, <1>3, <2>1, <2>2 DEF OneInPart
<1>6. PICK k \in DOMAIN built : Shares(built[k]) = x
  BY <1>5 DEF WeightInv
<1>7. Fits(built[k]) /\ Held(built[k]) /\ built[k].last \in built[k].taken
  BY DEF WeightInv
<1>8. built[k].taken \in SUBSET DOMAIN groups
  BY <1>7 DEF Fits
<1>9. \A j \in built[k].taken : j = i
  BY <1>3, <1>6, <1>7, <1>8 DEF Held
<1> QED BY <1>7, <1>9 DEF Alone

\* A reply whose devices are all of one such GPU.
LEMMA LeastReplied ==
  ASSUME RequestInv, UNCHANGED <<asked, groups>>, doing' = "replied",
         ~spread /\ required = {} /\ Ghost \notin available /\ (\E h : Holds(h)) => FewestHold(reply')
  PROVE  LeastFragmenting'
<1>1. /\ topo' = topo /\ spread' = spread /\ available' = available /\ required' = required /\ size' = size
  BY DEF asked
<1> DEFINE free(g) == {d \in Known(available') : topo'.gpu[d[1]] = g}
           fitting == {g \in {topo'.gpu[n] : n \in DOMAIN topo'.gpu} : Cardinality(free(g)) >= size'}
<1> SUFFICES ASSUME ~spread', required' = {}, Ghost \notin available', fitting # {}
             PROVE  \E g \in fitting :
                      /\ reply' \subseteq free(g)
                      /\ \A h \in fitting : Cardinality(free(g)) <= Cardinality(free(h))
  BY DEF LeastFragmenting, Known
<1>2. DOMAIN topo.gpu = Nodes /\ Known(available') = available
  BY <1>1, TopologiesAssumption DEF RequestInv, Nodes, Known
<1>3. \A g : free(g) = OfGPU(available, g) /\ (g \in fitting <=> Holds(g))
  BY <1>1, <1>2 DEF Holds, OfGPU
<1> HIDE DEF fitting, free
<1>4. PICK g : /\ Holds(g) /\ reply' \subseteq OfGPU(available, g)
               /\ \A h : Holds(h) => Cardinality(OfGPU(available, g)) <= Cardinality(OfGPU(available, h))
  BY <1>1, <1>3 DEF FewestHold
<1> QED BY <1>3, <1>4

LEMMA EarlyHolds ==
  ASSUME RequestInv, TakeAll \/ TakeAny \/ Echo, required = {}, Ghost \notin available, NEW h, Holds(h)
  PROVE  FewestHold(reply')
<1>1. /\ size \in Nat \ {0} /\ IsFiniteSet(available) /\ Cardinality(available) \in Nat
      /\ Known(available) = available /\ size <= Cardinality(available) /\ Cardinality(required) = 0
      /\ \A d \in available : d[1] \in Nodes
  BY FreeDevices, NothingUnknown, FS_CardinalityType, FS_EmptySet DEF RequestInv
<1>2. CASE TakeAll
  <2>1. Cardinality(available) = size /\ reply' = available
    BY <1>1, <1>2 DEF TakeAll, Exact, Reply
  <2>2. ASSUME NEW g, Holds(g) PROVE OfGPU(available, g) = available
    <3>1. OfGPU(available, g) \in SUBSET available
      BY DEF OfGPU
    <3>2. Cardinality(OfGPU(available, g)) <= Cardinality(available)
          /\ Cardinality(OfGPU(available, g)) \in Nat
      BY <1>1, <3>1, FS_Subset, FS_CardinalityType
    <3>3. Cardinality(OfGPU(available, g)) = Cardinality(available)
      BY <1>1, <2>1, <2>2, <3>2 DEF Holds
    <3> QED BY <1>1, <3>1, <3>3, AllOfIt
  <2> QED BY <1>1, <2>1, <2>2 DEF FewestHold
<1>3. CASE TakeAny
  <2>1. OneGPU /\ reply' \in SUBSET available
    BY <1>3 DEF TakeAny, Reply, kSubset
  <2>2. PICK a : Nodes = {a}
    <3>1. IsFiniteSet(Nodes) /\ Cardinality(Nodes) = 1
      BY <2>1, PairsOfNodes DEF OneGPU, RequestInv
    <3> QED BY <3>1, FS_Singleton
  <2>3. ASSUME NEW g, Holds(g) PROVE OfGPU(available, g) = available
    <3>1. topo.gpu[a] = g
      BY <2>2, <2>3 DEF Holds
    <3> QED BY <1>1, <2>2, <3>1 DEF OfGPU
  <2> QED BY <1>1, <2>1, <2>3 DEF FewestHold
<1>4. ~Echo
  BY <1>1 DEF Echo, Unregistered
<1> QED BY <1>2, <1>3, <1>4

LEMMA TakeHolds ==
  ASSUME PreferInv, WeightInv, Take, OneNodePerGPU, ~spread, required = {}, Ghost \notin available,
         NEW h, Holds(h)
  PROVE  FewestHold(reply')
<1>1. /\ RequestInv /\ doing = "take" /\ size \in Nat \ {0} /\ NewSize = size /\ Free = available
      /\ Known(available) = available /\ Searching
  <2>1. RequestInv /\ doing = "take" /\ size \in Nat \ {0}
    BY DEF PreferInv, RequestInv, Take
  <2>2. Free = available /\ Known(required) = {}
    BY <2>1, NothingUnknown
  <2>3. NewSize = size
    BY <2>1, <2>2, FS_EmptySet DEF NewSize
  <2> QED BY <2>1, <2>2, <2>3, NothingUnknown, GroupsOfFree
<1>2. ASSUME NEW g, Holds(g)
      PROVE  \E j \in DOMAIN groups :
               /\ GPUAt(j) = g /\ Len(groups[j]) = Cardinality(OfGPU(available, g))
               /\ \E k \in DOMAIN built : Alone(built[k]) /\ built[k].last = j /\ built[k].weight = 0
  <2>1. PICK d \in OfGPU(available, g) : TRUE
    <3>1. OfGPU(available, g) # {}
      BY <1>1, <1>2, FS_EmptySet DEF Holds
    <3> QED BY <3>1
  <2>2. d \in Free /\ topo.gpu[d[1]] = g
    BY <1>1 DEF OfGPU
  <2>3. PICK j \in DOMAIN groups : GPUAt(j) = g
    BY <1>1, <2>2, GroupsOfFree
  <2>4. Len(groups[j]) = Cardinality(OfGPU(available, g))
    BY <1>1, <2>3, GroupsOfFree
  <2>5. PICK k \in DOMAIN built : Alone(built[k]) /\ built[k].last = j
    BY <1>1, <1>2, <2>4, AloneBuilt DEF Holds
  <2>6. built[k].weight = 0
    BY <1>1, <2>5, NoWeightIsAlone
  <2> QED BY <2>3, <2>4, <2>5, <2>6
<1>3. PICK m \in DOMAIN built :
        /\ candidate = built[m]
        /\ \A j \in DOMAIN built : /\ ~Better(built[j].weight, candidate.weight)
                                   /\ built[j].weight = candidate.weight => m <= j
  BY <1>1 DEF WeightInv
<1> PICK c, i : c = built[m] /\ i = c.last
  OBVIOUS
<1>4. Alone(c) /\ c.weight = 0
  <2>1. PICK k \in DOMAIN built : built[k].weight = 0
    BY <1>2
  <2>2. c.weight \in Nat /\ (c.weight = 0 <=> Alone(c))
    BY <1>1, NoWeightIsAlone
  <2>3. ~(0 < c.weight)
    BY <1>3, <2>1 DEF Better
  <2> QED BY <2>2, <2>3
<1>5. Fits(c) /\ c.taken = {i} /\ i \in DOMAIN groups
  BY <1>1, <1>4 DEF WeightInv, Alone, Fits
<1>6. /\ reply' \in SUBSET available /\ Cardinality(reply') = size
      /\ \A a \in Nodes : Count(reply', a) = Times(c.ids, a)
  <2>1. reply' \ required = reply'
    OBVIOUS
  <2> QED BY <1>3, <2>1, ReplyTaken
<1>7. reply' \subseteq OfGPU(available, GPUAt(i))
  <2>1. ASSUME NEW d \in reply' PROVE topo.gpu[d[1]] = GPUAt(i)
    <3>1. d[1] \in Nodes
      BY <1>1, <1>6, NothingUnknown
    <3>2. Count(reply', d[1]) # 0
      <4> DEFINE D == {e \in reply' : e[1] = d[1]}
      <4>1. D \in SUBSET available /\ d \in D
        BY <1>6
      <4>2. IsFiniteSet(D)
        BY <1>1, <4>1, FreeDevices, FS_Subset
      <4>3. Cardinality(D) # 0
        BY <4>1, <4>2, FS_EmptySet
      <4> QED BY <4>3 DEF Count
    <3>3. PICK l \in DOMAIN c.ids : c.ids[l] = d[1]
      <4>1. {l \in DOMAIN c.ids : c.ids[l] = d[1]} # {}
        BY <1>6, <3>1, <3>2, FS_EmptySet DEF Times
      <4> QED BY <4>1
    <3>4. PICK n \in DOMAIN groups[i] : topo.gpu[c.ids[l]] = topo.gpu[groups[i][n]]
      BY <1>5 DEF Fits
    <3>5. 1 \in DOMAIN groups[i]
      BY <1>1, <1>5, GroupSizes
    <3> QED BY <1>1, <1>5, <3>3, <3>4, <3>5 DEF Searching, Grouped, GPUAt
  <2> QED BY <1>6, <2>1 DEF OfGPU
<1>8. Holds(GPUAt(i)) /\ Len(groups[i]) = Cardinality(OfGPU(available, GPUAt(i)))
  <2>1. Len(groups[i]) = Cardinality(OfGPU(available, GPUAt(i)))
    BY <1>1, <1>5, GroupsOfFree
  <2>2. groups[i][1] \in Nodes
    BY <1>1, <1>5, GroupSizes
  <2>3. IsFiniteSet(OfGPU(available, GPUAt(i)))
    <3>1. OfGPU(available, GPUAt(i)) \in SUBSET available
      BY DEF OfGPU
    <3> QED BY <1>1, <3>1, FreeDevices, FS_Subset
  <2>4. Cardinality(reply') <= Cardinality(OfGPU(available, GPUAt(i)))
        /\ Cardinality(OfGPU(available, GPUAt(i))) \in Nat
    BY <1>7, <2>3, FS_Subset, FS_CardinalityType
  <2> QED BY <1>1, <1>6, <2>1, <2>2, <2>4 DEF Holds, GPUAt
<1>9. ASSUME NEW g, Holds(g)
      PROVE  Cardinality(OfGPU(available, GPUAt(i))) <= Cardinality(OfGPU(available, g))
  <2>1. PICK j \in DOMAIN groups :
          /\ Len(groups[j]) = Cardinality(OfGPU(available, g))
          /\ \E k \in DOMAIN built : Alone(built[k]) /\ built[k].last = j /\ built[k].weight = 0
    BY <1>2, <1>9
  <2>2. PICK k \in DOMAIN built : Alone(built[k]) /\ built[k].last = j /\ built[k].weight = 0
    BY <2>1
  <2>3. /\ Len(groups[i]) \in Nat /\ Len(groups[j]) \in Nat /\ i \in Nat /\ j \in Nat
        /\ k \in Nat /\ m \in Nat
    BY <1>1, <1>5, GroupSizes DEF WeightInv
  <2>4. SUFFICES ASSUME Len(groups[j]) < Len(groups[i]) PROVE FALSE
    BY <1>8, <2>1, <2>3
  <2>5. j < i
    BY <1>1, <1>5, <2>4, GroupsOfFree
  <2>6. m <= k
    BY <1>3, <1>4, <2>2
  <2>7. m # k
    BY <2>2, <2>3, <2>5
  <2>8. built[m].last < built[k].last
    BY <1>1, <1>4, <2>2, <2>3, <2>6, <2>7 DEF WeightInv, InOrder
  <2> QED BY <2>2, <2>3, <2>5, <2>8
<1> QED BY <1>7, <1>8, <1>9 DEF FewestHold

\* Where GPUs are not divided, a request that one of them can hold goes to one of those with
\* the fewest free devices.
THEOREM LeastFragments == PreferSpec => [](OneNodePerGPU => LeastFragmenting)
<1> DEFINE I == OneNodePerGPU => LeastFragmenting
<1>1. PreferInit => I
  BY DEF PreferInit, LeastFragmenting
<1>2. PreferInv /\ WeightInv /\ I /\ [PreferNext]_preferVars => I'
  <2>1. ASSUME PreferInv, OneNodePerGPU', TakeAll \/ TakeAny \/ Echo PROVE LeastFragmenting'
    <3>1. UNCHANGED <<asked, groups>> /\ RequestInv /\ doing' = "replied"
      BY <2>1 DEF TakeAll, TakeAny, Echo, Reply, PreferInv
    <3>2. ~spread /\ required = {} /\ Ghost \notin available /\ (\E h : Holds(h)) => FewestHold(reply')
      BY <2>1, <3>1, EarlyHolds
    <3> QED BY <3>1, <3>2, LeastReplied
  <2>2. ASSUME PreferInv, WeightInv, OneNodePerGPU', Take PROVE LeastFragmenting'
    <3>1. UNCHANGED <<asked, groups>> /\ RequestInv /\ doing' = "replied"
      BY <2>2 DEF Take, Reply, PreferInv
    <3>2. OneNodePerGPU
      BY <2>2, <3>1 DEF OneNodePerGPU, Nodes, asked
    <3>3. ~spread /\ required = {} /\ Ghost \notin available /\ (\E h : Holds(h)) => FewestHold(reply')
      BY <2>2, <3>2, TakeHolds
    <3> QED BY <3>1, <3>3, LeastReplied
  <2>3. ASSUME Group \/ Extend \/ Extended \/ Choose PROVE LeastFragmenting'
    <3>1. doing' # "replied"
      BY <2>3 DEF Group, Extend, Extended, Choose
    <3> QED BY <3>1 DEF LeastFragmenting
  <2>4. ASSUME I, UNCHANGED preferVars PROVE I'
    <3>1. UNCHANGED <<topo, spread, available, required, size, reply, doing>>
      BY <2>4 DEF preferVars, asked
    <3>2. OneNodePerGPU' <=> OneNodePerGPU
      BY <3>1 DEF OneNodePerGPU, Nodes
    <3>3. LeastFragmenting' <=> LeastFragmenting
      BY <3>1 DEF LeastFragmenting, Known
    <3> QED BY <2>4, <3>2, <3>3
  <2> QED BY <2>1, <2>2, <2>3, <2>4 DEF PreferNext
<1> QED BY <1>1, <1>2, WeightInductive, PTL DEF PreferSpec

===============================================================================
