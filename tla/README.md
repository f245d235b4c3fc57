# TLA+ models of the HAMi AMD device plugin

These modules model the parts of the AMD device plugin that decide who gets
which GPU and which compute units (CUs), and that tell the scheduler what the
node offers, and kubelet what it can hand out. TLC checks them on small
instances; TLAPS proves the most important properties for every instance.

    tlc -config NodeFaults.cfg MCNodeAllocate.tla
    tlapm NodeAllocate_proofs.tla

Paths below are relative to the repository; `plugin.go` is
`internal/pkg/plugin/plugin.go`.

## 1. The system

A node runs one plugin process. HAMi's scheduler places a pod on the node: it
takes the node's lock (annotation `hami.io/mutex.lock`, the owner in its value),
writes the devices of each container into the pod's annotation
`hami.io/amd-devices-to-allocate`, sets `hami.io/bind-phase=allocating` and binds
the pod. kubelet admits the pod and calls `Allocate` once per container. The call
carries neither pod nor container, so the plugin looks up the owner of the lock
and takes the first slot left in its annotation. It computes CU masks from the
CUs it finds persisted on the node's other pods (`hami.io/amd-cu-allocated`),
persists the new ones, and on the last slot reports success and releases the
lock. Beside this a loop registers the node's GPUs every 30 s.

### Components, their state and what makes them correct

| Component | Code | State | Operations | Hard part | Correct when |
|---|---|---|---|---|---|
| Allocate handler | `plugin.go` `Allocate`, `utils/utils.go` | locals of each call; pod annotations | ~13 API calls in sequence, each with an error path | calls carry no identity; stale reads; failures between two patches; crash; expired lock; a handler that outlives its kubelet | slices never overlap; a slot reaches its container; success is complete; the lock is released |
| Node lock | `utils/nodelocks.go` | node annotation, one mutex per node | `ReleaseNodeLock` with retries | the lock changes hands between attempts | only its owner's lock is deleted; every release ends |
| CU bitmaps | `cuallocation` | words of bits | `AllocateN`, `AddAllocation` | words, units across words, rounding | equals first fit over sets |
| CU annotation codec | `plugin.go` `allocationToIDList`, `idListToAllocation` | none | write, read | ranges, last run, another CU count | read gives what was written |
| Registration loop | `plugin.go` `RegisterInAnnotation`, `getAPIDevices` | device cache, last capacities, operating mode; node annotation and capacity | discover, patch capacity, warn, patch annotation, retry | GPUs that come and go between two reads; failed calls; restarts; two loops | annotation follows the hardware; a known GPU is not dropped |
| Health events | `health_events.go` | `gpuStates` | compare, report; mode-change warning | failed rounds between two reports | each change once, nothing lost |
| AMD SMI cache | `amdsmi.go` | map from GPU to answer | `Get` | failures for some GPUs | an answer once given is kept |
| Device stream | `plugin.go` `ListAndWatch`, `serveDevices`; `exporter/health.go` | device list per stream, one heartbeat channel for all | send, beat, mark | a stale stream takes beats of the live one; three sources of health | health reaches kubelet; it recovers; no GPU is offered twice |
| Device manager | `cmd/k8s-device-plugin/main.go` | channels of pulse and resources | pulse, resource list | blocking sends | a beat reaches every plugin in turn |
| Preferred allocation | `allocator/`, `plugin.go` `GetPreferredAllocation` | weights of device pairs | `Allocate`, `echoPreferred` | a search that skips most sets; splits and partitions of one GPU | size, must-include, subset of available; best score |
| dmem backend | `dmem/dmem.go`, `plugin.go` | cgroup files, a goroutine per device | set, retry | the pod's cgroup appears late; the pod ends; two writers of a file | the cap is one of the pod's limits |
| Libc inspector | `libcheck/libcheck.go` | images being pulled | inspect, pull in background | concurrent calls for one image; images with several C libraries | one pull at a time, retried after a failure; a slice loses its limit only for a known reason |
| GPU discovery | `amdgpu`, `hwloc`; `plugin.go` lookups | maps of keys, UUIDs and devices | discover, publish, resolve an id | maps replaced one by one while an id is resolved | an id leads to one GPU |
| CDI spec writer | `cdi.go` | one file | write | - | output |
| API client | `utils/client.go` | client | build | - | I/O |
| vGPU monitor | `vgpumonitor`, `cmd/k8s-vgpu-monitor` | metrics of running pods | scrape | - | reads only |
| Node labeller | `cmd/k8s-node-labeller` | node labels | reconcile | - | idempotent |
| Exporter protocol | `exporter/metricssvc` | - | generated | - | generated |

How they interact: Allocate reads the device cache that registration publishes;
registration writes the annotation HAMi schedules by; health flows from the
exporter both into registration and into the device stream; Allocate starts dmem
writers and asks the libc inspector; all of them call the API server.

## 2. The modules

| Module | Models |
|---|---|
| `CuBitmap` | `cuallocation` as operators on sets of CUs: first fit by units. Used by `NodeAllocate`. |
| `NodeAllocate` | The Allocate handlers, the lock release, the API objects, HAMi's scheduler and kubelet. |
| `CULedger` | What Allocate promises about CUs; `NodeAllocate` implements it. |
| `CuWords` | `AllocateN` and `AddAllocation` as they run, over machine words; they agree with `CuBitmap`. |
| `CuIDList` | The writer and the reader of `hami.io/amd-cu-allocated`, range by range. |
| `CuAnnotation` | `CuWords` and `CuIDList` one after the other: what is allocated is persisted and read back. |
| `Registration` | The registration loops, health events, capacity and AMD SMI caches, boot and crash. |
| `DeviceLookup` | What registration and `ListAndWatch` publish of the GPUs, and how `Allocate` resolves an id in it, lookup by lookup. |
| `DeviceStream` | The resource names, the `ListAndWatch` streams, the heartbeat and kubelet's view of health. |
| `SliceGuards` | The LD_AUDIT hook, the dmem cap and the inspection of images: what limits a slice's VRAM. |
| `PreferredAllocation` | `GetPreferredAllocation` with the allocator's search. |
| `NodeAllocate_proofs` | What is proved of `NodeAllocate`: types, slices and the lock, then the slots. Section 4 has the theorems. |
| `NodeLedger_proofs` | What rests on the slots: the ledger, the masks and the bookings. |
| `CuBitmap_proofs` | Lemmas about division, units and first fit that the proofs of `NodeAllocate` and `CuAnnotation` cite. |
| `CuAnnotation_proofs` | What is proved of `CuWords`, `CuIDList` and `CuAnnotation`. |
| `Devices_proofs` | What is proved of `DeviceLookup` and `PreferredAllocation`. |
| `Registration_proofs`, `DeviceStream_proofs`, `SliceGuards_proofs` | What is proved of each. |
| `MCNodeAllocate`, `MCRegistration`, `MCDeviceStream`, `MCSliceGuards` | Values of the constants for TLC. |
| `MCAlgorithms` | `CuAnnotation`, `PreferredAllocation` and `DeviceLookup` in one run: a behaviour is one of either. |

Operators marked `Mutant:` are wrong versions of the definition that follows
them: a bug one could have made in that code. Each property is violated when one
of them takes the definition's place, which shows that the property depends on
that code in that run. No specification uses them.

### NodeAllocate

State. `lock`, `bindPhase`, `todo` (slots left), `cu` (persisted CUs per GPU)
and `job` (the request, which never changes) are the annotations; `phase` is a
pod's life; `kcall` and `got` are kubelet's side: the call it waits for and the
answers it received. Each handler has a `pc` and a record of the locals of
`Allocate` and of the functions it calls.

Actions. A handler's step is one call to the API server and the code up to the
next: `GetNode`, `GetPod`, `ListPending` (`GetPendingPod`), `Rebuild`
(`rebuildCUAllocations` and `GetNextDeviceRequest`), `Erase`
(`EraseNextDeviceTypeFromAnnotation`), `Compute` (the device loop), `Validate`
(the second read of the lock), `Commit`, `ReadBack`, `TrySuccess`, `PatchPhase`,
`ReleaseGet`, `ReleasePatch`, `Answer`. Every step has the failing branch of its
call; a failing patch may or may not have been applied; `Fail` and `GiveUp` are
the code's two ways out, with and without `PodAllocationFailed`. An answer is lost
when kubelet stopped waiting.

Decisions, each weaker than or equal to what the code and its callers do:

- A call to the API server is one atomic step. A patch that is applied after the
  plugin's process ended is not modelled.
- The resourceVersion that protects the deletion of the lock is the local
  `fresh`: any change of the node clears it.
- The mutex of `ReleaseNodeLock` is `InRelease`: it is held across retries.
- Calls with the request's context fail once kubelet went away (`CtxError`);
  `Commit` and `ReadBack` do not use that context.
- kubelet's device manager makes one call at a time and one per container, and
  does not call for containers without a device; a pod is not recreated under its
  name; a running pod is deleted only by force (`MaxLosses`).
- HAMi's `Bind` is one step (lock, annotations, bind) that needs the lock free,
  or, with `LockExpires`, at any time. Its `FitsNode` books whole work group
  processors (`custominfo.cuPerWGP`) and whole GPUs, as registered by the plugin.
- Foreign pods, which another scheduler places, carry no HAMi annotations.
- A malformed annotation, environment variables and mounts are left out; a failure
  there is the fault branch of `Compute`. So is a refusal by the lookup of a device
  (`DeviceLookup`) or by the guards of a slice (`SliceGuards`).

### Registration

State. `listed`, `openable`, `sick`: what sysfs, libdrm and the exporter say of
each GPU; `wanted` is the node's mode annotation; `annot`, `capacity`, `warned`
are on the API server; `uuids` is the AMD SMI cache of the process; `reg[i]` holds
what one plugin instance keeps (`lastCapacity`, `deviceCache`, `gpuStates`,
`operatingMode`) and the locals of its round. `held` is the mode in which the
pods on a GPU were placed.

Actions. `Boot` and `Clear` are `main`; `Start` reads the mode; `Scan`, `Open`,
`Publish` are `getAPIDevices` in three reads of the world, between which a GPU may
go; `GetNode`, `Capacity`, `WarnModes`, `Patch`, `Events` are the rest of
`RegisterInAnnotation`; `Wake` is the loop. A failed `GetNode` or `Patch` ends the
round; other failures are logged and the round goes on, as in the code. An
exporter that cannot be reached reports nobody sick.

Left out: the flip of compute partitions and the allocator's `Init` in `Start`,
XCP partitions (in `DeviceLookup`), XGMI peers, product names and the remaining fields of a device,
the failure to create an Event (best effort, no retry). The capacity is the number
of healthy GPUs, in place of the sums of their memory and CUs. How often the
device manager retries a failed `Start` is its own affair; the model always does.

### CuWords, CuIDList and CuAnnotation

`CuWords` runs the loop of `AllocateN` over words of `BitsPerWord` bits and then
adds the result to another bitmap, as Allocate adds it to what the pod has.
`CuIDList` writes the list of a bitmap one range after the other and reads it back
part by part against a second CU count, that of the rebuild. `CuAnnotation` is the
way of a GPU's CUs through both. The text of a number is left out, the bounds
checks of the reader are not.

### DeviceLookup

State. `there`, `divided` and `unnamed` are the hardware: the GPUs in sysfs, those
divided into XCP partitions, those AMD SMI has no UUID for. `AMDGPUs` is the
plugin's map of GPUs, `registered` stands for the UUID maps and the device cache,
which `getAPIDevices` swaps together. `scanned` and `listed` are discoveries that
the registration loop and `ListAndWatch` made and have not published yet.
`request` is the id that one `Allocate` resolves, `found` what its lookups
answered, and `lost` remembers whether the id's GPU was unpublished meanwhile.

Actions. `GPUGoes` and `Repartition` are the environment. `Discover` and
`publish`, `FindGPUs` and `ListAndWatch` are the two publishers, each in two steps;
the second replaces the map of GPUs only. `Allocate` takes an id of the
scheduler (a UUID), of kubelet (a key, with a split or a partition type after it)
or of another scheduler (`<node>-AMDGPU-<n>`). `deviceDataFromAllocationUUID`,
`rocrUUIDFromAllocationUUID` and `getDeviceTotalCUs` are the lookups in their
order, each under its own lock; a slot takes three looks (`See`,
`gpuIndexOfSlot`, then the lookup).

What the module shows about ids by omission: `Named` lists the ids that can lead
to devices, and the others never do. kubelet's ids of partition mode,
`<key>#<type>`, lose their suffix and are then found by none of the maps
(`plugin.go:999` and `:1061`), so a pod HAMi did not schedule is refused there
although `plugin.go:1104` and `ONBOARDING.md:22` say that kubelet's ids are served
as whole GPUs. Splits of the XCP partitions of a GPU that cannot be changed and
`AMDGPU-<n>` slots resolve to device nodes and to a ROCr UUID, but not to a CU
count, and are refused as well, as are GPUs that kubelet is offered and that have
no UUID to be registered by.

Left out: `rocrVisibleList`, which only orders what was resolved; GPUs with
different numbers of slots. An XCP partition keeps its key and its parent.

### DeviceStream

State. `names` are the resources `main` listed, with one plugin each; `known[r]` is
that plugin's map of GPUs; `stream` holds each connection's position and device
list; `waiting` is the channel's queue of blocked receivers, `pulse` is `main`'s
heartbeat goroutine. `live` and `seen` are kubelet's side: the connection it reads
and the last list it got. `listed`, `openable`, `sick` and `exporter` are the
hardware and the exporter.

Actions. `Connect` and `Disconnect` are kubelet; `List` is `ListAndWatch` up to the
first list, `Send` each `s.Send`, `Done` the select's case of a finished context,
`Beat` a beat and `PopulatePerGPUDHealth`, `Snapshot` and `Mark` the two halves of
`markNonFunctional`; `Publish` is the registration loop, which replaces the same
map. `Tick` is the sleep of the heartbeat goroutine.

`steady` is an auxiliary part of a stream: the GPUs of which neither the hardware
nor the plugin's map changed since its beat. `BeatTellsTruth` speaks of them.

What reading the code showed beside the properties:

- Under the mixed strategy `docs/user-guide/configuration.md:109` says unpartitioned
  GPUs stay `amd.com/gpu` and GPUs that cannot change their partition count as
  unpartitioned. On a node with several partition types no such name is listed, so
  neither kind has a resource; `devicesForResource` falls back to every device
  when none has the resource's type, and on a homogeneous node with a GPU that
  cannot change next to others only the former is listed. `OfferedOnce` is
  therefore checked and proved for nodes whose GPUs all have a type that can
  change. The names are listed before `Start` flips partitions.
- `ONBOARDING.md:24` says "every `-pulse` seconds it re-sends device health". With two
  streams, each of them is sent every other pulse; `KubeletFollows` shows that each gets
  its turn, since receivers queue in order.

Left out: the `p.signal` case, by which a stream ends with the process; the
partition flip; filtering by XCP parent (`DeviceLookup`); the splits of a GPU,
which share its verdict; the CDI specification. That one is written by
`ListAndWatch` only (`plugin.go:842-848`): a GPU registered later has no CDI name
until the next stream, and one failed write turns CDI off for the process.

### SliceGuards

State. `content` and `present` describe images, `pulling` is the inspector's map
and `pulls` the `ctr` processes; `call` is each pod's `Allocate`, `guards` what its
containers got; `cgroup` and `cap` are the pod's cgroup and its `dmem.max`;
`writers` are the goroutines of `applyDmemCap`.

Actions. `Inspect`, `PullInBackground`, `Decide` and `Answer` are `Allocate`;
`PullEnds` and `ForgetPull` the pull and the end of its goroutine; `NoRegion`,
`Write`, `WriteFails` and `Retry` a writer's attempts; `Admit`, `CreateCgroup`, `Run`
and `Finish` are kubelet and the runtime; `Crash` ends everything in flight.
`InspectRoot` is the verdict of `libcheck` on kinds of images: a distribution, and
a C library added to it. `content` also says what the container's program is linked with:
the distribution's library, the added one, or none. The inspection does not look at that;
`Loads`, which says where the hook is loaded, asks how new that library is and nothing else. Names are what
pods write, and `ImageOf` gives the reference that `normalizeRef` makes of each; it does
not unify every spelling (`index.docker.io/...` stays another one), and `OnePull` speaks of
references. A name stands for the same image when it is inspected and when the container
starts. Pods that HAMi does not track and whole GPUs get no guards and are left out.

`LimitLostForACause` says when a slice can run without a limit under
`-musl_fail_closed`, and that nothing else leads there:

- Its program is not the ordinary one of its image: a static program, or one on an added
  C library, beside a glibc that is new enough. The verdict is that of the image's
  glibc, the standard one first, the hook is handed out, and the program does not load it.
  `libcheck.go:17-23` names the static entrypoint as what the check is to catch, and
  `ONBOARDING.md:142` and `helm/amd-gpu/README.md:40` say that such a slice is refused. The code
  judges the image and not its entrypoint.
- The cap is its only guard, and the writer of it has not written: it is still waiting
  for the cgroup, its attempts ran out (some 20 s), the write or the lookup of the GPU
  failed (neither is retried), or the process ended.

`StillHardCap` is the second of these read the other way, as `plugin.go:1293-1296` has it:
"otherwise the limit is still a hard kernel-enforced cap". It is false (`SliceUncapped`):
no process writes the cap again after the one that admitted the pod has ended, and the
slice has no limit as long as it runs. The same happens, with a line in the log, when
the write fails or the attempts run out. The comment on `applyDmemCap` (`plugin.go:1387-1389`) accepts
failures since "libamvgpu's HIP_DEVICE_MEMORY_LIMIT_<i> is the enforcement path regardless", but
that variable is set only for slices with the hook. Without any fault `StillHardCap` is
false as well, for another reason: the file is the pod's, and when two of its containers
have different limits on one GPU the last writer's holds (`plugin.go:1340`), so that
a container may use more than its own limit. `CapsAreTheirPods` accepts either limit.

### PreferredAllocation

State. The allocator's topology and policy, kubelet's request, and the search:
`groups` (free devices by GPU, GPUs with fewer first), `todo` and `built` (the code's
`subsetsTemp` and `subsetsFinal`), `idx` (how far the loop over the GPUs has come for the
first of `todo`), `candidate` and `reply`.

Actions. `TakeAll`, `TakeAny` and `Echo` are the answers without a search;
`Group` starts the search, `Extend` adds one GPU to the candidate that is extended,
`Extended` drops that candidate at the end of the loop, `Choose` takes the best of
`built`; `Take` turns the candidate's node ids into devices: of each node as many as the
candidate holds or, should there be fewer, all of them. Their order among splits of one
node is left to the sort.

`EverySetOnce` says what the search is to find: every set of the size asked for in
which at most one GPU is taken in part, each once. So there is a candidate whenever
there are enough devices.

`BestScore` compares the reply with every subset of the right size, although the search
builds few of them. With the policy `spread` the others are left out: there it says
that no set which the search builds (`Buildable`: at most one GPU in part, from its
first partition on) is farther apart. Sets with two GPUs in part can be, and are not found:
a GPU with enough free devices is a candidate by itself and never mixed with others
(`device.go:386-402`), although `docs/user-guide/resource-allocation.md:32` says `spread`
"prefers the farthest GPUs". `LeastFragmenting` is about requests that one GPU can hold.
`ReplyFits` allows a longer reply if a must-include id is unknown: the code adds it on top
of what the search returned.

## 3. The runs

Passing runs explore every reachable state within their bounds.

| Run | Instance | Shows |
|---|---|---|
| `NodeFaults` | 3 HAMi pods, 2 GPUs (CDNA with 3 CUs, RDNA with 4), 4 kinds of jobs, two failed calls, one crash or forced deletion | `MasksNeverOverlap`, `SlotServesItsContainer`, `LockedUntilPersisted`, `BookedCUsAreFree`, `SuccessIsComplete`, `ImplementsLedger` |
| `NodeExpiry` | 2 HAMi pods and a foreign one, 1 GPU, locks expire at any moment, one fault, one loss | `TypeOK`, `DisjointSlices`, `PlansStayFree`, `PersistedCUsGrow`, `ReleasesOnlyOwnLock` |
| `NodeProgress` | 2 pods, 2 handlers, 1 GPU, a kubelet restart, fairness | `LockReleasedWithoutFaults`, `PodsSettle`, `CallsAnswered` |
| `RegEvents` | 2 GPUs, 3 changes, one fault, one crash | `TypeOK`, `EventsMatchAnnotation`, `NoRepeatedEvent`, `KeepsKnownGPUs`, `ModeSwitchWarned` |
| `RegMixed` | 2 loops, 1 GPU, one change, one fault, one crash, capacity reported or not, fairness | `Converges` |
| `StreamHealth` | 2 GPUs of equal or different partition type, both naming strategies, with and without heartbeats, 2 changes, fairness | `TypeOK`, `BeatTellsTruth`, `OfferedOnce`, `StaleStreamsEnd`, `KubeletFollows` |
| `SliceGuards` | 2 pods, one with two containers on one GPU with different limits, one on two GPUs of which one cannot be capped; 2 images under 3 names, 5 pairs of contents; static programs and programs on an added library; with and without the check and the backend; one fault, fairness | `TypeOK`, `LimitLostForACause`, `CapsAreTheirPods`, `OnePull`, `MissingIsPulled`, `BackgroundEnds` |
| `Algorithms` | every bitmap of up to 6 CUs in words of 2 bits, units 0-3, read against every count; every request on 4 topologies; 2 GPUs, one of them divisible and one fixed, 2 slots, 2 changes | `WordsAgreeWithSets`, `ReadBackIsFaithful`, `Terminates`; `ReplyFits`, `BestScore`, `LeastFragmenting`, `EverySetOnce`; `OneGPUPerId`, `StayingIsServed` |

Runs that find a violation; each is a statement of the repository that the code
does not keep in every behaviour:

| Run | Property | What happens |
|---|---|---|
| `NodeForeign` | `SlotServesItsContainer` | While a HAMi pod is pending, the call for a pod that HAMi did not schedule takes that pod's slot: `GetPendingPod` returns the owner of the lock whoever is admitted (`ONBOARDING.md:18` and `:22`). |
| `NodeRestart` | `DisjointSlices` | A handler left behind by a restarted kubelet passed `Validate`, another handler serves the retried pods, and the old one commits CUs that are taken (`docs/user-guide/resource-allocation.md:15`). |
| `RegHealth` | `HealthyMeansOpenable` | A GPU that cannot be opened any more keeps its last capacity and is registered as healthy (`ONBOARDING.md:49`). |
| `SliceUncapped` | `StillHardCap` | The process ends before the background write, and a slice that was admitted without the hook because dmem caps its VRAM runs without a limit (`plugin.go:1293-1296`, `docs/user-guide/configuration.md:94`). |

What the Node runs say together. As long as kubelet makes one call at a time,
slices stay disjoint whatever happens to the lock; the lock is what makes the
slot, the booking and the whole-GPU masks right. With expiring locks
`DisjointSlices`, `PlansStayFree`, `PersistedCUsGrow` and `ReleasesOnlyOwnLock`
hold and the rest does not; with a kubelet restart only `ReleasesOnlyOwnLock` is
left of the safety properties, and that one is proved for any number of restarts.

`LockReleasedWithoutFaults` speaks of undisturbed calls because a failed one may leave the
lock behind: when `GetPendingPod` fails for another reason than `ErrNoPendingPod`, for
example in its read of the node, `Allocate` returns without `PodAllocationFailed`
(`plugin.go:1096-1098`), and the lock stays until HAMi lets it expire. `CHANGELOG.md:62` says "node
locks are always released (#118)"; `ONBOARDING.md:144` knows that a lock may stay.

What the Reg runs leave open. `ModeSwitchWarned` is about a GPU that was in the
annotation written last: one that was missing for a round has nothing to be
compared with. `Converges` asks nothing of the capacity while a listed GPU cannot
be opened: under the mixed strategy a loop that has read it before registers it
and a loop that has not leaves it out, each in turn overwriting the other. And
after a restart a GPU that cannot be opened is missing from the device cache even
if pods hold it.

### Bounds

- Pods, GPUs, handlers: two live pods are needed to overlap, a third one to be
  bound while a stale handler runs; two handlers are one orphan and its successor.
- Jobs: slices of two containers; a memory-only slice next to one that is rounded up,
  after a container without GPU; a slice next to a whole GPU; a whole GPU. The smaller
  runs have jobs of the same kinds on one GPU; `NodeProgress` has two of
  them, for two handlers and fairness are costly. CUs: an odd unit left
  over (3 CUs), and units of two (4 CUs in pairs).
- `MaxFaults`, `MaxLosses`, `MaxRestarts`, `MaxChanges`, `MaxCrashes` bound what
  the environment does; each guard names its bound. One failed call reaches every
  error path, and a crash next to it the recovery from it. `NodeFaults` has two failed
  calls, and needs them: a call that fails and cannot patch `bind-phase` either leaves
  its refused pod `allocating`, and a later call whose own pod was deleted finds that
  pod in `GetPendingPod`'s list and erases its slot. It commits nothing, because
  `Validate` no longer finds the lock, and nobody reads its answer; therefore
  `LockedUntilPersisted`, `BookedCUsAreFree` and `SuccessIsComplete` speak of pods
  kubelet still admits or runs. The code keeps no
  count across calls besides the release's attempts (`ReleaseAttempts` 2: a first
  attempt and a retry; `DefaultStrategy` has more, all alike).
- Three changes let a GPU leave, return and leave again, or sicken while missing.
- `StreamHealth`: two changes break a connection and change a GPU's health, or change
  it and change it back; every plugin gets up to three connections, so a stale stream
  and a live one wait at once. Two GPUs are one of each type, or two of one.
- `SliceGuards`: the pairs of contents put every kind of distribution and of added
  library in some image, and static programs and programs on an added library beside
  the ordinary ones; `Tries` 2 is a first attempt and a retry (the code has 9, and so has `SliceUncapped`);
  the region of one GPU is missing, so one container can be capped on all its GPUs and
  another one cannot.
- `Algorithms`: the topologies are one GPU in splits, three GPUs in two splits each on
  two NUMA nodes, GPUs divided into two and three partitions, and four whole GPUs with
  unequal links. Two changes take a GPU away and bring it back, or divide and undivide
  it; `Xcps` 1 suffices to tell a GPU from its partition, `Slots` 2 to tell a slot from
  a GPU.
- The CUs in `Algorithms`: up to 6 CUs are up to three words of two bits, the last one half
  used when there are 5; units of 3 cross words; lists have single CUs and ranges
  at both ends and up to three parts.
- Deadlock is not checked where pods end and bounds run out; a run that claims
  progress states it as a liveness property.
- Pods and GPUs are symmetric in the runs that check safety only and whose GPUs
  are alike (`SYMMETRY`).

### Fairness

`NodeAllocate`: kubelet keeps calling for the next container (weak fairness of
`Call`), starts a pod whose containers are admitted and removes a refused one;
every handler is a goroutine that keeps running (weak fairness of its `Step`).
Nothing is assumed of the scheduler, of running pods, of crashes or of failures.
`Registration`: kubelet restarts the container (`Boot`), `main` goes on (`Clear`),
and each plugin's goroutine runs (`Step`). The code's waits are finite sleeps.
`DeviceStream`: `main`'s goroutine ticks and its send succeeds if somebody receives
(`Tick`, `Beat`), every stream's goroutine runs (`Work` or `Done`), the registration
loop repeats (`Publish`) and kubelet dials a registered plugin (`Connect`). That the
longest waiting receiver gets the beat is how Go's channels work, and no fairness
assumption. `SliceGuards`: handlers, writers and the goroutines of pulls run, and a
pull ends, since `pullTimeout` kills it; nothing is assumed of kubelet.
`Algorithms`: the loops of `CuAnnotation` go on; the other two parts state no
liveness.

## 4. What is proved

Every theorem holds for all values of the constants that the named assumption of
its module admits (`ConstantsAssumption`, `GuardAssumption`, `RegistrationAssumption`,
`LookupAssumption`, `StreamAssumption`, `BoundsAssumption`, `TopologiesAssumption`), which
say what the constants are: sets, functions on them, natural bounds.

| Module | Theorem | States | Further assumption |
|---|---|---|---|
| `NodeAllocate_proofs` | `TypeCorrect` | `TypeOK` | - |
| | `SlicesDisjoint`, `PlansFree` | `DisjointSlices`, `PlansStayFree` | `MaxRestarts = 0` |
| | `PersistedGrow` | `PersistedCUsGrow` | `MaxRestarts = 0` |
| | `OwnLockReleased` | `ReleasesOnlyOwnLock` | - |
| | `SlotsServed`, `LockedToCommit` | `SlotServesItsContainer`, `LockedUntilPersisted` | `Undisturbed` |
| `NodeLedger_proofs` | `LedgerImplemented` | `ImplementsLedger` | `Undisturbed` |
| | `MasksApart` | `MasksNeverOverlap` | `Undisturbed` |
| | `BookedFree` | `BookedCUsAreFree` | `Undisturbed` |
| | `SuccessComplete` | `SuccessIsComplete` | `Undisturbed` |
| `CuAnnotation_proofs` | `WordsFaithful` | `WordsAgreeWithSets` | - |
| | `ReadBackFaithful` | `ReadBackIsFaithful` | - |
| `SliceGuards_proofs` | `TypeCorrect` | `TypeOK` | - |
| | `PullsOnce` | `OnePull` | - |
| | `CapsOwned` | `CapsAreTheirPods` | - |
| | `LimitsKept` | `LimitLostForACause` | - |
| `Registration_proofs` | `TypeCorrect` | `TypeOK` | - |
| | `ReportedOnce` | `NoRepeatedEvent` | - |
| | `KnownGPUsKept` | `KeepsKnownGPUs` | - |
| | `EventsMatch`, `SwitchWarned` | `EventsMatchAnnotation`, `ModeSwitchWarned` | one plugin |
| `Devices_proofs` | `IdMeansOneGPU`, `StayingServed` | `OneGPUPerId`, `StayingIsServed` | - |
| | `ReplyFitsRequest`, `SetsOnce` | `ReplyFits`, `EverySetOnce` | - |
| | `BestOfBuildable` | `BestBuildable` | - |
| | `BestReply` | `BestScore` | `spread` or `OneNodePerGPU` |
| | `LeastFragments` | `LeastFragmenting` | `OneNodePerGPU` |
| `DeviceStream_proofs` | `TypeCorrect` | `TypeOK` | - |
| | `BeatsTellTruth` | `BeatTellsTruth` | - |
| | `OffersOnce` | `OfferedOnce` | every GPU has a type that can change |

`Undisturbed` says that locks do not expire, that all pods are HAMi's and that kubelet
does not restart during a call. Failed calls, patches that were applied although the
call failed, crashes of the plugin and forced deletions stay in, any number of them.
The conditions are needed: with a foreign pod `NodeForeign` violates
`SlotServesItsContainer`, with a restart `NodeRestart` violates `DisjointSlices`, and
an expired lock lets HAMi bind a second pod whose slots the first one's call takes.

`OneNodePerGPU` says that no GPU of the topology is divided into compute partitions; each may
be split, and links and NUMA nodes are arbitrary. With partitions both properties
depend on the weights: two partitions of one GPU without a link between them weigh more
than two GPUs that have one. The runs check topologies where the hardware's weights make
them hold. `BestOfBuildable` needs no condition: of the sets the search builds, the reply is
among the best, under either policy.

The arguments:

- *Slices.* `TypeOK` alone is not inductive: that `Call` finds a container and an
  answered container belongs to a placed pod needs `Placed`; `TypeInv` is both.
  `DisjointSlices` rests on `SliceInv`: the persisted CUs of live pods are disjoint,
  unbound pods have none, and *at most one handler is not idle, the one kubelet
  waits for*; what that handler read as used covers the CUs of all other live
  pods, and what it plans is disjoint from them. No other step can add CUs to a
  pod, so this stays true until the commit. It does not mention the lock: the
  disjointness comes from kubelet's serial calls, and therefore fails with
  `MaxRestarts > 0`, which is the run `NodeRestart`. The lemma `AllocateNIsFree`
  says that `AllocateN` returns free CUs of the GPU.
- *Commits.* `GrowInv`: what a handler is about to commit contains what its pod has,
  since it merged it and nobody else changed it meanwhile (`SliceInv`).
- *The lock.* `LockInv`: a handler at the deletion whose read of the node is still
  fresh served the pod that owns the lock; every change of the node takes the
  freshness away, so no assumption on restarts or expiry is needed.
- *Slots.* `SlotInv`: between two calls the annotation of a pending pod lists exactly
  the containers kubelet has not admitted, and the node is locked for the pod while
  there are any (`PodSlots`); during a call the lock is the call's pod's until the call
  releases it (`CallLock`); and the call of a pod that is still wanted works on the
  first slot left, which is the slot of the container called for (`CallServes`). A call
  can find another pod than its own only once its own is refused or gone, and then one
  with no slots left (`CallStrays`), so it erases nothing of a pod that still needs it.
- *The ledger.* `TellInv`: what a handler is about to tell its container is within what
  it plans, and after the commit within what is persisted, and no sibling was told of
  it. Under the refinement mapping `Bind` is the ledger's `Enter`, `Commit` its `Take`,
  `Answer` its `Tell`, the end of a pod its `Leave`, and every other step a stutter:
  `Take` is allowed by `SliceInv` (the CUs are free) and `GrowInv` (none is lost), `Tell`
  by `TellInv`.
- *Masks.* Two slices do not overlap since each is told persisted CUs: of different pods
  by `SliceInv`, of one pod by `TellInv`. A whole GPU overlaps with nothing because
  HAMi's fit gives it to one container of one pod (`Exclusive`) and each container
  answers for its own slot, which is the theorem on slots.
- *Bookings.* `BookInv` keeps HAMi's books next to the plugin's. The scheduler's side:
  what is booked on a GPU by live pods, counted as pairs of a pod and a unit, never
  exceeds its CUs (`NodeFits`, which only `Bind` can break and its fit does not). The
  plugin's side: a pod's persisted CUs are whole units within its own booking, and
  between two calls exactly as many as its admitted containers booked (`PodBooks`,
  `Fills`). Pod by pod the persisted CUs inject into the bookings, so the booking of the
  container being admitted is still free on the GPU (`OccupancyFits`). That is enough
  for first fit because everything persisted is whole units: free CUs make free units,
  and the lemma `FirstFitSucceeds` turns enough of them into a success of `AllocateN`.
  `SuccessComplete` follows from the same count at the last container.
- *Words.* `WordsInv` is the invariant of the loops of `AllocateN`: what is found so far
  is the first units that fit below the current word and bit. The proof is for words of
  any size, the code's 64 bits included, where TLC's words have two.
- *List.* `ListInv`: the ranges written, the current run and the bits not looked at yet
  make up the bitmap; the ranges read and those left are the list; and a range that
  ends beyond the reader's CU count means a bit of the bitmap does.
- *Preferred allocation.* `SearchInv`: the groups list free devices of one GPU each, of
  different GPUs (`Grouped`); a candidate has nodes of the GPUs it took, of no node more
  than are free (`Fits`), is short of devices while it is in `todo` and has exactly as many as
  are missing once it is in `built`. So `Take` finds a device for every node of the
  candidate, and counted node by node they are as many (`AsManyAsListed`). Required and
  other devices are disjoint, and only a required device of another plugin (`Ghost`)
  makes the reply longer.
- *Every set once.* A candidate in `todo` took GPUs whole, none after its last
  (`Partial`). `OnceInv` says of every set in which at most one GPU is in part that there is
  *one way* to it: either it is in `built` once and no candidate leads to it, or it is not,
  and exactly one candidate does, the one whose GPUs are the first of those that the set has
  whole and for which the loop has not passed the next GPU yet (`Ahead`). The next GPU
  is the lowest that is missing whole, or the part when there is none (`Toward`): there
  is one such GPU (`TowardOnce`) as long as the candidate is short (`TowardSome`), the
  loop does not skip it (`TowardArrives`), and it leads to no other set
  (`ArrivedToward`). When `todo` is empty no candidate is left to lead anywhere, so the
  set was built.
- *Guards.* `PullInv` ties the `ctr` processes to the map of pulls, `CapInv` a cap to
  a writer that has written it while the cgroup was there. `ProtInv` counts the
  containers answered by the position of the call, and says of each of them that it
  is guarded: its image's verdict was a new glibc, or each of its GPUs can be capped and
  has a writer. That this verdict means a hook that an ordinary program loads is a lemma
  about `InspectRoot` (`GlibcLoads`). `EndsInv` says why a writer ended without writing; a writer
  that has written left its cap for as long as the pod runs (`CapInv`). The theorem is
  safety only. With `BackgroundEnds`, which is model-checked, every writer comes to its
  end, so the cap is written at last or the reason is one of those named.
- *Registration.* `RegInv` keeps what was told of each GPU in step with what
  `healthTransitions` remembers (`Tells`), and what was opened, cached and registered
  within what has a last capacity and a UUID. `RoundInv` adds the annotation: with one
  writer, at the events it is the cache, and in a sleep after a good round it
  mirrors the states remembered. `ModeInv` says that a serving plugin registered its
  own mode and will again, so that no pod can be placed between a warning and the
  registration it is about. Several loops may have been started in different modes and
  overwrite each other's, hence one plugin.
- *Lookups.* `LookupInv`: whatever is published was found at some time, so its entries
  are GPUs or partitions the node can have; a split kubelet names belongs to a GPU
  that has no registered partitions; each answer is the id's entry; and as long as
  `lost` is false the entry is in both maps.
- *Streams.* `TypeInv` includes that no stream is twice in the queue, which is why
  leaving it removes the stream, and that kubelet makes one connection more than were
  broken, so all connections fit in `Streams`. `TruthInv` follows the verdict of a
  steady GPU through exporter, map and device. `OfferInv`: a stream serves the
  devices of its resource; the lemmas below it show that the groups of
  `DevicesFor` are disjoint and cover the GPUs when all have a type.

Model-checked only:

- every liveness property: the prover does not handle ENABLED and fairness over
  quantified actions;
- `BestScore` without `spread`, and `LeastFragmenting`, where GPUs are divided into
  partitions: they depend on the weights there, as said above, and are claimed for
  topologies like those of `MCAlgorithms`.

## 5. Not modelled

- The CDI writer, the API client and the generated exporter code keep no state: output,
  construction and generated text. The effects of when CDI is written are told under
  DeviceStream.
- The vGPU monitor reads cgroups and pods anew at each scrape and the labeller
  reconciles labels through its library; neither influences allocation. One thing
  reading the monitor shows: it takes `dmem.max` of the container's cgroup
  (`cgroup.go:86`), while the plugin writes the pod's, so the limit it reports is
  never the cap although `collector.go:232` says "The dmem cap is the exact limit".
- Reading sysfs, libdrm, AMD SMI and hwloc is input to the models: sets of GPUs that
  change at any moment and calls that fail.
- The compute-partition flip, the allocator's `Init`, XGMI peers and product names in
  the registration; the device manager library (`dpm`), which is vendored.
- Five hazards have no property. A restart while a GPU cannot be opened, with pods on
  it: every rebuild of the node then fails; a model of registration, restart and
  allocation together is beyond what TLC can explore here. A failed
  `ClearRegistration` on a node without GPUs, which the code logs and leaves. kubelet's ids
  of partition mode, which no lookup finds (DeviceLookup). An image that changes between
  inspection and start, by a moved tag under `imagePullPolicy: Always`. And the fallbacks of
  `cuMaskUnit`, `cuPerWGP` and `isWholeGPU` (`plugin.go:1536-1592`): when a GPU is unpublished
  between two lookups of a call they answer 1 or false and no error, so that an RDNA GPU
  might get a mask in single CUs, or a whole GPU be counted as a slice; showing what follows
  needs the lookups and the CUs in one model.
