# Verification of the multi-network-interface operator

TLA+ specifications of the operator that reads the ports OpenStack has attached
to VMs, turns them into node configs, and posts these to Viola, which applies
them as `MultiNicNodeConfig` objects in a target cluster. TLC checks the
specifications on small instances; TLAPS proves the central invariants for every
value of the constants. Paths below are relative to the repository; `ctl` is
`internal/controller/openstackconfig_controller.go`.

## 1. The system

| Component | State | Operations | Interacts with |
| --- | --- | --- | --- |
| Reconcile (`ctl:116-387`) | `r.cache` (config and hash by provider and node name), `r.lastChange` | one worker; per object: settings, Contrabass, Keystone, Neutron, Nova, mapping, `filterChanged`, `mergeNodesToSend`, `SendNodeConfigs`, record loop, requeue | everything below; started by watch events, `RequeueAfter`, restarts |
| Inventory store (`internal/inventory/store.go`) | map behind a mutex, JSON file, temporary file | `NewStore`/`load`, `Upsert` + `persist`, `GetHash`, `List` | Reconcile writes and reads, HTTP handlers read |
| Retry and poll (`ctl:919-1053`, `ctl:1125-1198`) | `status.downPortRetry`, conditions, `lastSyncedAt` in the API server; the watch cache; the work queue | `shouldRetryDownPorts`, `nextDownPortRetryStatus`, `adaptiveRequeue`, `setReadyCondition`, `updateDownPortRetryStatus` | a status write is an event that starts Reconcile again |
| Port mapping (`ctl:400-572`, `ctl:823-916`, `ctl:1200-1217`) | none | status, creation and subnet filters, order, limit of ten, normalisation, DOWN ports | between Neutron's answer and the change detection |
| Viola client and test API (`pkg/viola/client.go`, `cmd/viola-test-api/main.go`) | routing file; the objects of the clusters | `handleApply`, `pickTarget`, `buildManifest`, `kubectl apply` locally or over ssh | answers the operator; concurrent requests |
| Settings (`ctl:574-753`, `ctl:803-820`) | Secrets and spec | `resolveSettings` | can fail Reconcile; sets its intervals and timeouts |
| Status conditions (`ctl:1140-1198`) | `status` | Ready, Degraded, `lastError`, `observedGeneration` | API server, watch cache |
| Inventory HTTP server (`internal/inventory/server.go`) | none | node configs, catalog, lookup by instance | `List` of the store |
| OpenStack, Contrabass clients, decryption (`pkg/openstack`, `pkg/contrabass`, `pkg/crypto`) | none | HTTP requests, AES-CBC, endpoint lookup | may fail or hang |
| Manager (`cmd/main.go`) | leader lease | wiring, start | opens the inventory before it is leader |

What makes it hard, and what correctness means for each part:

* **Reconcile.** There is no transaction over Viola, cache and inventory. A
  request may be applied in part, late, or without an answer; a save may fail; the
  process may be killed between any two steps; two objects may list one VM. A node
  may be skipped only if the cluster has its config; nothing may be recorded that
  was not acknowledged; the present ports must reach the cluster in the end; and
  unchanged data must not be sent again.
* **Inventory store.** Several goroutines, one temporary file name, kills in the
  middle of a write. The file must always load, what was confirmed must survive,
  and readers must not see what a kill would take back.
* **Retry and poll.** Two clocks (poll and retry), a record in a status that is
  read from a cache which may be behind and written under optimistic locking. DOWN
  ports must be sent again, but not too often and not too soon, and the
  operator's own writes must not keep it running.
* **Port mapping.** Two sorts around a cut-off. The result must not depend on the
  order of Neutron's answer, and a port that does not count must not take a place.
* **Viola API.** Concurrent kubectls without a lock, killed ones that go on over
  ssh, three layers of routing. A 200 must mean applied, a 400 nothing applied,
  and no provider may end in the cluster of another.
* **Settings and status.** Durations of any sign, three places for a key, an
  endpoint lookup that falls back twice; conditions written to a copy that may be
  newer than the one reconciled, and perhaps not written at all. Nothing but a
  requeue brings a repaired Secret or service to the operator's notice, so none may
  be lost; the conditions must tell the truth in the end; and a key or a region that
  was named must not be replaced by another.
* **Manager.** The inventory is read before the process is leader. The records of
  the leader before it must not be taken for older ones.
* **Inventory HTTP server.** Clients put several answers together. What one answer
  names must be found by the next, and the order of a Go map must not show.

`PROJECT.json` lists the hazards at their lines with the properties that cover
them, and for every definition the lines it translates.

## 2. Modules

```
DurableMap  <--implements--  InventoryStore  <--EXTENDS--  InventoryStoreProofs
    ^ INSTANCE                   InventoryStore  <--EXTENDS--  Catalog  <--EXTENDS--  MCInventoryStore, CatalogProofs
NodeSync    <--EXTENDS--  MCNodeSync, NodeSyncProofs
    : cluster
AppliedConfigs <--implements-- ViolaApi  <--EXTENDS--  MCViolaApi, ViolaApiProofs
DownPortRetry  <--EXTENDS--  MCDownPortRetry, DownPortRetryProofs
PortMapping    <--EXTENDS--  MCPortMapping, PortMappingProofs
Settings  <--EXTENDS--  ObjectStatus  <--EXTENDS--  MCObjectStatus, ObjectStatusProofs
Lists  <--EXTENDS--  PortMapping, ObjectStatus, Catalog, and ListsProofs, which their proofs extend
```

**DurableMap** is what a user of the inventory may rely on: a map in memory and a
whole earlier state of it on disk. **InventoryStore** is the implementation, in
file operations: `UpsertSet` (lock, assign), `OpenTmp` (truncate), `WriteTmp`,
`RenameTmp`, `PersistFails`, `UpsertReturns`, and `Boot` and `Crash` around them. A
record is the number of the `Upsert` that wrote it.

**NodeSync** is Reconcile from the listed ports on. `Collect` takes what Neutron and
Nova answer; `DropNode`, `SkipCached`, `SkipInventoried`, `KeepChanged` are one turn
of `filterNodesWithInterfaces` and `filterChanged`; `MergeNode` one turn of
`mergeNodesToSend`; `Send`, `ViolaApplies`, `ViolaRefuses`, `ViolaAnswers`,
`ViolaAnswersError`, `PostLost`, `LateViolaApplies` are the request; `RecordNode` is
`setCache` followed by `Upsert`. The inventory is an instance of DurableMap, used one
step per `Upsert`: InventoryStore shows that this is all a caller can see of it.
The interface list of a VM is a single value; `Selected` says what an object's
filters leave of it. `ProcessEnds` is a process that ends, whether killed or no
longer leader: `Crash` starts one that reads the inventory file now (or finds it
gone, if the volume is not `Persistent`), `Handover` makes a waiting one leader that
has read the file before (`ReadByWaiting`, with `Standby`). `outdated` remembers the
keys the waiting one has missed, and `suspect` those with a request whose outcome
was not recorded.

**DownPortRetry** is the same Reconcile seen from the clock: one object, ages in
ticks, a stored time that loses its fraction of a second, the watch cache (`cached`,
`lag`), the work queue (`queued`) and its delaying part (`wake`). Whether nodes
changed is one bit here. The cache may be behind at every read, in every run and
every theorem. `misread` remembers that the retry record `Begin` read was older than
the one in the status, and `staleSends` counts the fast requests decided on such a
record, which `fastSends` leaves out.

**PortMapping** is the algorithm between the two, as operators on sequences, and
a machine that changes its inputs: ports attached anywhere in the answer, detached,
listed in another order, with another status, and another `spec.subnetIDs`. Each
time some networks may not be readable, which leaves their interfaces without MTU.

**Settings** is `resolveSettings` and `FindEndpoint` as operators on a spec, the
Secrets and Keystone's catalog. **ObjectStatus** is Reconcile once more, from the
point of view of the object: read from the watch cache (`Begin`), settings
(`ResolveSettings`), one action for each answer (`GetProvider`, `GetToken`,
`ListPorts`, `FindSubnet`, `Post`) and `CallFails` for the errors and timeouts of all
of them, and `Return`, which writes the conditions to a second copy from the cache
(`SetReady`) and leaves a requeue. Whether there is something to send is one bit;
the rest is NodeSync's. The owner edits and deletes, Secrets, catalog, subnets and
services change, and `Deliver` and `WakeUp` are the watch and the delaying queue.

**Catalog** adds to InventoryStore what the HTTP server makes of the records.

**Lists** is how the code goes through slices: a loop that appends what it keeps
(`Selected`), and `sort.Slice` (`SortedBy`). They are `SelectSeq` and `SortSeq`
written as recursive functions, with a set for the test and a relation for the order,
because an operator parameter is something the provers cannot instantiate.

**AppliedConfigs** is what NodeSync's `cluster` stands for: the config of a
provider and node is what some document sent for it said, applied one by one in any
order. **ViolaApi** is the API: the router (`MergeTarget`, `NormalizeTarget`,
`ValidTarget`, `PickTarget`), `Accept`/`Reject`, and `kubectl` document by document
with `RefuseDoc`, `Kill` and `ApplyLate`.

Definitions marked "Mutated form" are not part of a specification. Each is a
plausible bug; put in the place of the definition it belongs to, it must break the
property `PROJECT.json` names.

## 3. Checks

| Run | Property | What it says |
| --- | --- | --- |
| inventory_store | `FileLoads` | a kill or second writer never leaves a half-written file |
| | `AckedIsDurable` | an `Upsert` that returned nil is in the file from then on |
| | `IdleMatchesFile`, `ServedSurvives` | memory and readers are ahead of the file only by records reported as failed |
| | `FileNeverGoesBack` | no save brings an older record back |
| | `ImplementsDurableMap` | refinement |
| | `CatalogIsComplete` | in whatever order the records come, the catalog has each once, sorted, with the newest time |
| | `CatalogCanBeFollowed` | provider, nodes, instance: the next request finds what the last one named, across restarts |
| node_sync_safety | `RecordedWasAcked` | cache, inventory and file hold only what Viola acknowledged |
| | `SkipIsSound` | what is recorded under a key is what the cluster has, unless a request for it is open or its outcome was never recorded |
| | `CacheFollowsInventory` | the inventory has every hash the cache has: the repairing `Upsert` at `ctl:1082-1090` is dead code |
| | `RecordsAreCoherent` | a record's hash is the hash of its own config |
| | `SentAsNeeded` | a request has just the nodes whose config is not recorded, with those of DOWN ports, or these alone when a retry is due; each once |
| | `ReadyMeansApplied` | when Ready is set, the config of every node is recorded, and the cluster has it, with the exceptions of `SkipIsSound` |
| node_sync_live | `RecordsConverge` | the present config of each node is recorded in the end, after any failure, kill and loss of the inventory |
| | `AnsweredConverges` | and the cluster has it, unless the outcome of a request was never recorded |
| | `GoesQuiet` | then Viola is left alone |
| down_port_retry | `FastRetriesBounded` | at most `downPortFastRetryMax` requests for one set of ports below the slow interval, plus one per attempt that could not be written; a request decided on an old record comes on top and is the only one missing from the count |
| | `ResendSpacing` | never two within the fast interval, but when Reconcile read the record before its own last write was in the cache |
| | `NoOversleep` | the requeue is never later than the retry, or the event of a record newer than the one read is on its way |
| down_port_retry_live | `KeepsResending`, `StatusSettles` | retries never end; without DOWN ports status writes do |
| port_mapping | `FirstPortsWin`, `DownPortsAreSent` | interfaces and DOWN ports equal a reference set |
| | `NetworksAgreeOnMTU` | interfaces of one network have one MTU, or none when it could not be read |
| | `RelistChangesNothing`, `SubnetOrderIsNoChange` | order alone never makes a request |
| object_status | `NeverForgotten` | an object that exists is queued, about to be, or being reconciled, whatever intervals it asks for |
| | `RestIsCurrent` | conditions left standing are about the present spec and are what the last Reconcile found |
| | `EndpointIsNearest` | no other endpoint is nearer to the region and interface asked for |
| | `StatusTellsTruth` | in the end Ready means that everything the spec names works, and Degraded that something does not |
| | `DeletedIsDropped` | a deleted object is not queued for ever |
| viola_api | `AppliedWhenAnswered` | 200 means that each node has what was sent, unless another kubectl was at it |
| | `RefusedAsAWhole`, `KeepsToItsRoute` | 400 means that nothing is applied; configs stay on the provider's route (a route with an sshHost and no mode takes the default's mode, and the property says nothing of its host) |
| | `ImplementsAppliedConfigs` | refinement, for nodes with an object of their own |

The action properties and liveness runs use no symmetry where it would not be
sound (liveness), and symmetry of interchangeable values elsewhere.

### What the code does otherwise than documented

Four runs expect a violation:

* **node_sync_lost_answer** (`ClusterConverges`): a request is applied, its answer
  is lost, and the ports go back to what had been recorded before. `filterChanged`
  finds the old hash in the cache and never sends again, so the cluster keeps the
  config in between. Nothing but another change repairs it.
* **node_sync_removal** (`RemovalIsSent`): a node that loses its last port is
  dropped at `ctl:328` before it is compared, so the cluster and the inventory keep
  its last config for ever. `docs/PLAN.md:53` has a request for removed ports as well,
  and `README.md:583` lists "포트 제거 시 CR 반영 확인" (a removed port is reflected in
  the CR) as verified, while `README.md:30-31` says what the code does: a node without
  interfaces is left out of what is sent. The claims hold as long as the node keeps
  another port.
* **node_sync_handover** (`AnsweredConverges`): every request is answered and
  recorded, and still the cluster keeps an old config. A replica reads the inventory
  when it starts (`cmd/main.go:195`) and waits for the lease; the leader records a
  new config; the replica becomes leader, the ports go back to what it had read, and
  `filterChanged` skips the node. The chart runs one replica, but a rolling update
  runs two for a while.
* **down_port_retry_stale** (`FastRetriesAsDocumented`): the Ready write at `ctl:377`
  starts Reconcile again, which may read the cache before the retry record written
  at `ctl:384` is in it. It sends at once, and writes the number of attempts that was
  there already. `README.md:33` has the slow interval after `downPortFastRetryMax`
  requests. What remains true is in the properties of down_port_retry, which runs
  with the same cache: an old record is behind by one request at most, so each such
  request is one more and costs the count no other, and a Reconcile that read the record in
  the status keeps the distance and the limit.

Also met while modelling, without a run of their own:

* A failed Nova call at `ctl:511` names the node by its VM id for one Reconcile. That
  config is sent and recorded beside the one under the server name, and nothing ever
  removes it. The convergence properties are about the present names only.
* Two VMs of one object with the same server name share one key, so one of them
  differs at every poll and Viola is called for ever, against `docs/PLAN.md:52`
  ("동일 데이터는 전송/저장되지 않음", equal data is not sent). Two objects of a
  provider that list the same VM with other subnets do the same to each other.
  `GoesQuiet` holds for distinct names and disjoint interests, so neither it nor
  `SentAsNeeded` says anything about this.
* `observedGeneration` is that of the copy written, so a condition may for a moment
  claim a generation nobody has looked at. `RestIsCurrent` says that it does not
  stay so: the edit is an event.
* A message that is never the same twice (the source port of a broken connection,
  the time in a certificate error) makes every status write a change and starts
  Reconcile again at once: `pollErrorInterval` is not kept. The models name an error
  by its reason, so `StatusSettles` is about messages that do not vary.
* `contrabassTimeout` and `openstackTimeout` of `0s` or below mean no timeout, and a
  service that hangs then holds the one worker. `StatusTellsTruth` and
  `DeletedIsDropped` make an exception for it (`HeldUp`).
* A ConfigError is retried after 30 seconds whatever `pollErrorInterval` says.
* `README.md:487` has `lastSyncedAt` for Synced and NoChange; the code sets it for
  Synced only (`ctl:1179`). `docs/PLAN.md:26` lets `k8sProviderID` be left out; the code
  requires it (`ctl:133`).
* The API documents 503 for an inventory that is switched off; then the server is
  not started at all (`cmd/main.go:231`).

### Bounds

* `MaxUpserts = 3`, three keys of two providers, two clients, `MaxCrashes = 1`: two
  writers and a reader overlap, a kill leaves a temporary file that a later save
  reuses, a provider has two records and an instance moves between nodes.
* NodeSync: two objects that share a VM, two VMs, two interface lists; one change of
  ports, one failure, one kill or hand-over. In the safety run the two see different
  interfaces of the VM and overwrite each other, so a key changes back and forth
  without further changes of ports. In the live run both want the same of it, as
  converging to two different values is impossible, and the inventory may be lost.
  The proofs lift all bounds for the safety properties.
* ObjectStatus: two edits or other changes, one status write that fails, one kill:
  enough for a change while Reconcile is away with an old copy, and another one to
  meet its outcome. The specs cover a named Secret that is absent with other keys at
  hand, a wrong key that unpads, no selector, a timeout of 0, intervals of 0 and
  below, and a duration that does not parse; the catalogs an empty service before a
  full one, a region without the interface, and no endpoint in the region.
* DownPortRetry: half a second per tick; fast 4, slow 7, window 5 ticks, 2 fast
  retries: all three intervals differ, none is a multiple of a second, and there is
  time for more retries than allowed. Ages are capped at the largest interval they
  are compared with (`Slow`, `Window + 1`), beyond which nothing distinguishes them.
  `MaxStale` only ends the counting of `staleSends`, at one where the violation needs it.
* PortMapping: five ports, one in both subnets, one older than the object, one of
  another VM, and two that may be DOWN or in other states; a limit of two stands for
  ten, so it is reached, exceeded and missed. One network, read or not for each
  collection.
* ViolaApi: two requests, so that every pair of requests overlaps; bodies with one
  node, two, the same node twice, a nameless node, a name that sanitises to another's,
  and none; four routing files: none, strict with two routes of a provider, default
  with inherited fields, and one with invalid targets; two faults and one kill.

Deadlock is checked everywhere but in viola_api, whose behaviours end when both
requests are done, and object_status, where a deleted object leaves nothing to do.

### Fairness

* NodeSync: weak fairness of a running Reconcile (`Reconciling`) and of Viola's
  answers (`Answering`, bounded by the client's timeout otherwise); strong fairness
  of `CollectOf(c)` for each object, since every return of Reconcile sets
  `RequeueAfter`, the single worker takes objects in the order of the queue, and
  OpenStack does not fail for ever (failures are bounded by `MaxFaults`). Strong,
  because the worker is busy with other objects in between.
* DownPortRetry: weak fairness of Reconcile, of a successful request, of the watch
  and of time. The requeue needs no fairness: it is part of the state.
* ObjectStatus: weak fairness of the worker (`Reconciling`), of the delaying queue
  (`WakeUp`) and of the watch (`Deliver`). A request to a service that hangs ends by
  its timeout, so `CallFails` is part of `Reconciling`.
* No fairness for edits, deletions, changes of services and data, ports, failures, kills or late documents.

## 4. Proofs

Every theorem is about any values of the constants, as far as the named assumptions
of the modules restrict them. `PROJECT.json` lists the theorems with the properties
they state.

**InventoryStoreProofs.** `StoreInv` is inductive: the mutex is held by the one
client inside `Upsert`; what that client has written is the map in memory
(`Carried`); the file is never ahead of memory (`Ordered`); and they differ only in
records that were reported as lost or are being saved (`Accounted`). `FileLoads`
alone is not inductive: it needs that the client about to rename has a whole
temporary file, which needs that no other client truncated it since, which is the
mutex. From it follow `StoreIsTyped`, `FileAlwaysLoads`, `AckedStaysDurable`,
`ServedAlwaysSurvives`, `IdleAlwaysMatchesFile`, `FileOnlyGoesForward` and the
refinement `StoreImplementsMap`.

**NodeSyncProofs.** `NodeSyncInv` is inductive. Next to the types it says what the
request under construction is (`RequestInv`: every node of `toSend` is in `Nodes`,
its hash is in `hashes` under its name), that documents already applied in the
running request are in the cluster and its keys are suspect (`Posting`), that keys
with documents on the way or applied late are suspect (`StraySuspect`,
`LateSuspect`), that an inventory that is off stays empty (`InventoryUnused`), that
the files a waiting process may have read hold what was acknowledged (`FilesAcked`),
and the three properties. `SkipIsSound` needs all of it: when `RecordNode` clears a
suspect key, the recorded hash must be that of the document applied last, which holds
because every document of the request was applied (`Posting`), no late one came after
(`LateSuspect`), and the hash looked up by name is the hash of that node
(`RequestInv`). A hand-over adds to `outdated` just the keys whose record the new
leader has not read. Theorems: `CoreTyped`, `RecordsAreAcked`, `SkippingIsSound`,
`CacheNeverLeads`. They rest on `NodeSyncAssumption` (types of the constants, and that
VM ids are names) and `NilAssumption`.

`RecordsStayCoherent` needs `DistinctNames`, that no two VMs of an object can have one
name. Then the nodes of a Reconcile have distinct names, so have those of the request,
as each is taken from `nodes` once (`SentWasSeen`) or merged when its name is new, and
the hash under a name is that of the only node with it. Without the assumption the
property fails: the entry of the first of two nodes gets the hash of the last.

`RequestsAreNeeded` and `ReadyIsTrue` need `DistinctNames` as well, and `NeededInv`,
which says for each place in Reconcile which nodes are in the request: while it
filters, those seen so far whose config is not the recorded one (`FilteredAt`); while
it merges, also the nodes of DOWN ports seen so far (`MergedAt`), and there is a reason
for a request; then what `SentAsNeeded` says (`DecidedAt`); on the way, every node that
is not known; while it records, every node is known or still to be recorded
(`RecordedAt`). The cache changes under the filter, but only at the key of the node
that is looked at, and distinct names have distinct keys. That the merge compares names and not configs makes no difference, for the same reason.
`SkipIsSound` turns what is recorded into what the cluster has.
`ReadyIsExact` shows that the exceptions are not an excuse: when Viola answers and no
process ends (`NothingLost`), whatever else fails, there is nothing to except, since a
key is suspect only while its request is sent and recorded (`SettledInv`).

**DownPortRetryProofs.** No theorem has an assumption but those on the constants,
which `PollSettings` below establishes for every spec; the watch may be late by any
time. `RetryInv` says that Reconcile has read the present record and the cache shows
it, or has `misread` (`ReadIsCurrent`); that what it decided still holds when it acts
(`Decided`); that the record is about the last request, if that attempt was written
(`RecordedIsLast`); and that the fast requests are at most the attempts recorded plus
those that were not written (`SendsAreCounted`). This alone is not inductive when a
Reconcile that has misread overwrites the record: `OldIsOneBehind` says that the cache,
and what Reconcile holds, are one attempt behind at most, so what is written then
makes up for what it replaces. It holds because a status write is refused while the
cache has not seen the one before. `MisreadHasEvent` says that the event of the record
that was not read is on its way or waits. `RetriesAreBounded`, `RetriesAreNotSleptOver`
and `RetriesKeepTheirDistance` follow.

**ListsProofs.** What the loops of Lists compute, for sequences of any length.
Induction is over sets of numbers, by their least elements (`InductionTo`), since the
library's induction theorems cannot be used; `LoopExists` shows that the function a
loop defines exists. `SelectedPlaces` has the elements and their order,
`SortedElements` the order, the elements and their number, `SortedUnique` that two
sorts of the same set agree when the order is total on it.

**PortMappingProofs.** `MappingInv` says that a listing and the filters are without
duplicates (`Sound`) and that the nodes are the mapping of them (`UpToDate`), which is
all the history there is: the work is in the algorithm. `TakenLoop` and `TakeHolds`
are the invariant of the loop over the sorted ports: after n of them a VM has the
first of its candidates, at most the limit. With `SortedUnique` the result depends only on the
set of ports (`PortsAreMapped`, `SameNodes`). Theorems: `MappingIsTyped`,
`FirstPortsAreTaken`, `DownPortsAreInterfaces`, `RelistingIsNoChange`,
`FilterOrderIsNoChange` (for filters of which no port matches two and ports within the
limit, as the property says), and `OneMTUPerNetwork`: the MTUs of a collection are read
in one pass over the subnets (`ReadInOneRun`), and an interface takes that of the
network of its subnet. They assume that there are finitely many subnets and that a port
has a status it can be in.

**CatalogProofs.** The state is InventoryStore's and so is the invariant, `StoreInv`.
`Collected` is the invariant of the loop of `buildProviderCatalog`: each provider of
the records seen so far has one entry, with its nodes and its newest time. For any
order in which a Go map may be gone through, `CatalogIsAlwaysComplete`. `CatalogCanAlwaysBeFollowed`:
what a catalog names is found by the next request, since what was served is in the
file (`ServedSurvives`) and the file is not ahead of memory (`Ordered`). The keys are
assumed to be finitely many.

**ObjectStatusProofs.** `PollSettings`: whatever durations a spec has, the intervals
are positive and the slow one is not below the fast one. `StatusIsTyped`,
`ObjectIsNeverForgotten` and `ConditionsAtRest` rest on `ObjectInv`: the cache is the
object but for a change whose event is on the way (`CacheCurrent`), Reconcile has read
a copy that is current or will be started again (`ReadIsCurrent`), its settings are
those of that copy (`SettingsParsed`). A requeue is never 0, which is what
`NeverForgotten` needs of `PollSettings`. `PortsAreListedAtTheNearest` is about the
result of `FindEndpoint` for any catalog: the first endpoint that fits, by the lemmas
on Lists, has the least distance.

**ViolaApiProofs.** `ApiInv` says that only accepted requests are applied (`Accepted`),
that every object is from a document of such a request and at its place
(`ObjectsFromDocs`), that kubectls at work at the same time know of each other
(`Overlapping`), and that what a request has applied so far is there, or something of
one that overlapped (`AppliedSoFar`). Theorems: `ApiIsTyped`, `AnswersAreTrue`,
`NothingOfARefusedRequest`, `RoutesAreKept`, and the refinement
`ApiImplementsAppliedConfigs`. They rest on `ViolaAssumption`, `ViolaNilAssumption` and
`LocalTargetAssumption` (a local target has the fields of a target).

Every safety invariant and action property of the passing runs, and both refinements,
is stated by a theorem. The type invariants of PortMapping and ViolaApi are proved
(`MappingIsTyped`, `ApiIsTyped`) and not checked by a run.

Only model-checked: liveness (`RecordsConverge`, `AnsweredConverges`, `GoesQuiet`,
`KeepsResending`, `StatusSettles`, `StatusTellsTruth`, `DeletedIsDropped`), since fairness
and ENABLED are out of the prover's reach, and the four violations, which are
counterexamples.

## 5. Not modelled, and the plan

Abstracted on purpose: HTTP, JSON, YAML, TLS, log lines, the wording of conditions;
SHA-256 (equal hashes mean equal configs); AES-CBC; flags; charts and e2e tests.
CIDRs, which follow from the subnets, are left out of PortMapping; `lastSyncedAt` is
only what makes every Synced a change; the three TLS flags, the Nova overrides and the
list of statuses are passed on by the settings and left out of them.

Not modelled:

* A loss of the page cache (`internal/inventory/store.go:128-131` does not sync). After
  a power failure the file may be empty, and then `NewStore` refuses it
  (`cmd/main.go:195-199`). What a file system may lose is not in this code.
* `api/v1alpha1/zz_generated.deepcopy.go` and the declarations of the API types, which
  are generated or have no behaviour.
* In ObjectStatus, the requests to Nova and `GetNetwork`: their failures leave no trace in
  the status. NodeSync has what a failure of Nova does to a name, PortMapping what one of
  `GetNetwork` does to an MTU. That a server is renamed in Nova is not modelled.
* `pkg/crypto` beyond a key that is right, refused by the padding or not refused.
* The wiring, flags and probes of `cmd/main.go`; the pages and the health check of the
  HTTP servers; charts, manifests and the e2e harness.

What is left to do: two replicas that both believe to be leader for a moment (the lease
of controller-runtime rules it out but for a stopped clock).
