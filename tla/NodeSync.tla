------------------------------ MODULE NodeSync ------------------------------
(***************************************************************************)
(* The core of the operator: Reconcile of                                  *)
(* internal/controller/openstackconfig_controller.go, from the ports that  *)
(* Neutron lists to the node configs that Viola has applied, with the      *)
(* in-memory cache and the inventory that decide which nodes are sent.     *)
(*                                                                         *)
(* One worker runs Reconcile (MaxConcurrentReconciles is left at 1) for    *)
(* one OpenstackConfig after another.  Around it ports come, change and    *)
(* go, OpenStack and Viola fail, a Viola request is applied document by    *)
(* document and may be applied late or lose its answer, a save of the      *)
(* inventory fails, and the process is killed and started again, or a      *)
(* process that waits for the lease, with the inventory file already       *)
(* loaded, takes its place.                                                *)
(*                                                                         *)
(* The ports of a VM are one value here: the normalised interface list     *)
(* they make when no filter applies.  Selected is what the status, creation*)
(* time and subnet filters of an object leave of it.  PortMapping has the  *)
(* algorithm, and DownPortRetry the clock: here a retry is due at any time.*)
(***************************************************************************)
EXTENDS Naturals, Sequences

CONSTANTS
    CRs,            \* OpenstackConfig objects
    VMs,            \* Nova server ids
    Names,          \* node names, VM ids among them
    Providers,      \* k8sProviderID values
    ProviderOf,     \* [CRs -> Providers]
    VmsOf,          \* [CRs -> Seq(VMs)], spec.vmNames without duplicates
    ServerName,     \* [VMs -> Names], what Nova calls the server
    Ifaces,         \* the interface lists a node can have
    NoIface,        \* the empty one
    Selected,       \* [CRs -> [Ifaces -> Ifaces or NoIface]], see below
    NoRecord,       \* nothing under a key
    NoHash,         \* no hash under a name
    NoCR,           \* the worker is idle
    InventoryOn,    \* the manager was given an inventory store
    LateApply,      \* Viola may apply a request it has not answered
    ViolaFaults,    \* Viola may fail
    Standby,        \* a second process waits to become the leader
    Persistent,     \* the inventory file is on a volume that outlives the pod
    MaxChanges,     \* bound: changes of ports
    MaxFaults,      \* bound: failures of a call
    MaxCrashes      \* bound: kills of the process

ASSUME NodeSyncAssumption ==
    /\ ProviderOf \in [CRs -> Providers]
    /\ VmsOf \in [CRs -> Seq(VMs)]
    /\ ServerName \in [VMs -> Names]
    /\ VMs \subseteq Names
    /\ NoIface \notin Ifaces
    /\ Selected \in [CRs -> [Ifaces -> Ifaces \cup {NoIface}]]
    /\ NoCR \notin CRs
    /\ InventoryOn \in BOOLEAN
    /\ LateApply \in BOOLEAN
    /\ ViolaFaults \in BOOLEAN
    /\ Standby \in BOOLEAN /\ Persistent \in BOOLEAN
    /\ MaxChanges \in Nat /\ MaxFaults \in Nat /\ MaxCrashes \in Nat

\* providerID + "|" + nodeName
Keys == Providers \X Names

\* viola.NodeConfig
Nodes == [name : Names, vm : VMs, ifaces : Ifaces \cup {NoIface}]

\* hashNodeConfig: equal exactly for equal configs.
HashOf(n) == [sha256 |-> n]

Hashes == [sha256 : Nodes]

\* cacheEntry, and the part of an inventory Record that Reconcile reads.
Entries == [hash : Hashes, node : Nodes]

ASSUME NilAssumption == NoRecord \notin Entries \cup Nodes /\ NoHash \notin Hashes

VARIABLES
    ports,      \* the interfaces Neutron would list for each VM
    down,       \* VMs with a DOWN port among them
    cluster,    \* the MultiNicNodeConfig of each key in the target cluster
    stray,      \* documents of unanswered requests that may still be applied
    cache,      \* r.cache
    inv,        \* the inventory in memory
    disk,       \* the inventory file
    files,      \* what it has held: a waiting process has read one of these
    cr,         \* the object being reconciled
    pc,         \* where Reconcile is
    i,          \* the loop index of that place
    nodes,      \* the configs this Reconcile built, one per VM
    seenDown,   \* the VMs it saw a DOWN port of
    retryDue,   \* shouldRetryDownPorts said yes
    toSend,     \* nodesToSend
    hashes,     \* hashes, by node name
    refused,    \* documents of this request that were refused, by index
    acked,      \* history: <<key, hash>> of every request answered 200
    suspect,    \* history: keys with a request whose outcome was never recorded
    unsaved,    \* history: keys whose last Upsert did not reach the disk
    late,       \* history: keys whose last document was applied late
    outdated,   \* history: keys of which the leader has not read the last record
    changes, faults, crashes

environment == <<ports, down, cluster, stray>>
memory == <<cache, inv, disk, files>>
locals == <<cr, pc, i, nodes, seenDown, retryDue, toSend, hashes, refused>>
history == <<acked, suspect, unsaved, late, outdated>>
bounds == <<changes, faults, crashes>>
vars == <<environment, memory, locals, history, bounds>>

TypeOK ==
    /\ ports \in [VMs -> Ifaces \cup {NoIface}]
    /\ down \subseteq VMs
    /\ cluster \in [Keys -> Nodes \cup {NoRecord}]
    /\ stray \subseteq Keys \X Nodes
    /\ cache \in [Keys -> Entries \cup {NoRecord}]
    /\ inv \in [Keys -> Entries \cup {NoRecord}]
    /\ disk \in [Keys -> Entries \cup {NoRecord}]
    /\ files \subseteq [Keys -> Entries \cup {NoRecord}]
    /\ cr \in CRs \cup {NoCR}
    /\ pc \in {"idle", "filter", "merge", "decide", "post", "record"}
    /\ i \in Nat
    /\ nodes \in Seq(Nodes)
    /\ seenDown \subseteq VMs
    /\ retryDue \in BOOLEAN
    /\ toSend \in Seq(Nodes)
    /\ hashes \in [Names -> Hashes \cup {NoHash}]
    /\ refused \subseteq Nat
    /\ acked \subseteq Keys \X Hashes
    /\ suspect \subseteq Keys
    /\ unsaved \subseteq Keys
    /\ late \subseteq Keys
    /\ outdated \subseteq Keys
    /\ changes \in 0..MaxChanges
    /\ faults \in 0..MaxFaults
    /\ crashes \in 0..MaxCrashes

Nothing == [k \in Keys |-> NoRecord]
NoHashes == [x \in Names |-> NoHash]

\* What a waiting process may have read; of no concern after the last of the
\* hand-overs, the n-th end of a process.
ReadByWaiting(maps, n) == IF Standby /\ n < MaxCrashes THEN maps ELSE {}

Init ==
    /\ ports \in [VMs -> Ifaces \cup {NoIface}]
    /\ down = {}
    /\ cluster = Nothing
    /\ stray = {}
    /\ cache = Nothing /\ inv = Nothing /\ disk = Nothing /\ files = ReadByWaiting({Nothing}, 0)
    /\ cr = NoCR /\ pc = "idle" /\ i = 1
    /\ nodes = <<>> /\ seenDown = {} /\ retryDue = FALSE
    /\ toSend = <<>> /\ hashes = NoHashes /\ refused = {}
    /\ acked = {} /\ suspect = {} /\ unsaved = {} /\ late = {}
    /\ outdated = {}
    /\ changes = 0 /\ faults = 0 /\ crashes = 0

\* The inventory as its users see it.
Inventory == INSTANCE DurableMap WITH
    Records <- Entries, mem <- inv, disk <- disk

----------------------------------------------------------------------------
(* Helpers of Reconcile.                                                   *)

\* Mutated form: the key has no part of the node.
KeyOfProvider(n) == <<ProviderOf[cr], CHOOSE x \in Names : TRUE>>

\* The key of a node in cache and inventory.
KeyOf(n) == <<ProviderOf[cr], n.name>>

Fault == faults < MaxFaults /\ faults' = faults + 1

\* Reconcile returns; every return asks for another one by RequeueAfter.
Return ==
    /\ cr' = NoCR /\ pc' = "idle" /\ i' = 1
    /\ nodes' = <<>> /\ seenDown' = {} /\ retryDue' = FALSE
    /\ toSend' = <<>> /\ hashes' = NoHashes /\ refused' = {}

\* The interfaces an object finds for a VM.
Seen(c, vm) == IF ports[vm] = NoIface THEN NoIface ELSE Selected[c][ports[vm]]

\* resolveNodeNames and mapPortsToNodes: one config per VM, in the order of
\* spec.vmNames; a VM that Nova cannot be asked about is named by its id.
NodesOf(c, unnamed) ==
    [j \in 1..Len(VmsOf[c]) |->
        LET vm == VmsOf[c][j] IN
        [name |-> IF vm \in unnamed THEN vm ELSE ServerName[vm],
         vm |-> vm,
         ifaces |-> Seen(c, vm)]]

VmSet(c) == {VmsOf[c][j] : j \in 1..Len(VmsOf[c])}

\* The names of the nodes with a DOWN port.
DownNames == {nodes[j].name : j \in {l \in 1..Len(nodes) : nodes[l].vm \in seenDown}}

\* Mutated form: the cache is asked for the node, not for its hash.
CacheHasNode(n) == cache[KeyOf(n)] # NoRecord

\* The cache has this very config under the key of the node.
CacheHit(n) == cache[KeyOf(n)] # NoRecord /\ cache[KeyOf(n)].hash = HashOf(n)

\* GetHash of the inventory returns the hash of this very config.
InventoryHit(n) ==
    InventoryOn /\ inv[KeyOf(n)] # NoRecord /\ inv[KeyOf(n)].hash = HashOf(n)


\* Upsert of the inventory; its error is only logged.
Upsert(k, e) ==
    \/ /\ Inventory!PutAndSave(k, e)
       /\ files' = ReadByWaiting(files \cup {disk'}, crashes)
       /\ unsaved' = {} /\ UNCHANGED faults
    \/ Inventory!Put(k, e) /\ unsaved' = unsaved \cup {k} /\ Fault /\ UNCHANGED files

\* A node without interfaces is dropped before anything looks at it.
Dropped(n) == n.ifaces = NoIface

----------------------------------------------------------------------------
(* Steps of Reconcile.                                                     *)

\* Everything up to mapPortsToNodes succeeds: the ports are listed once, the
\* Nova calls of the VMs in "unnamed" fail.
Collect(c, unnamed, due) ==
    /\ pc = "idle"
    /\ unnamed \subseteq VmSet(c)
    /\ IF unnamed = {} THEN UNCHANGED faults ELSE Fault
    /\ cr' = c
    /\ nodes' = NodesOf(c, unnamed)
    /\ seenDown' = {vm \in down \cap VmSet(c) : Seen(c, vm) # NoIface}
    /\ retryDue' = (due /\ seenDown' # {})
    /\ pc' = "filter" /\ i' = 1
    /\ UNCHANGED <<environment, memory, toSend, hashes, refused, history, changes, crashes>>

\* Settings, Contrabass, Keystone, Neutron or a subnet lookup fails: Ready is
\* set to False and the object is requeued.
CollectFails(c) ==
    /\ pc = "idle"
    /\ Fault
    /\ UNCHANGED <<environment, memory, locals, history, changes, crashes>>

Filtering == pc = "filter" /\ i <= Len(nodes)

\* filterNodesWithInterfaces drops the node.
DropNode ==
    /\ Filtering /\ Dropped(nodes[i])
    /\ i' = i + 1
    /\ UNCHANGED <<environment, memory, cr, pc, nodes, seenDown, retryDue, toSend,
                   hashes, refused, history, bounds>>

\* filterChanged finds the config in the cache; an inventory that has
\* something else under the key is given the cached entry again.
SkipCached ==
    /\ Filtering /\ ~Dropped(nodes[i]) /\ CacheHit(nodes[i])
    /\ IF InventoryOn /\ ~InventoryHit(nodes[i])
       THEN Upsert(KeyOf(nodes[i]), cache[KeyOf(nodes[i])])
       ELSE UNCHANGED <<inv, disk, files, unsaved, faults>>
    /\ i' = i + 1
    /\ UNCHANGED <<environment, cache, cr, pc, nodes, seenDown, retryDue, toSend,
                   hashes, refused, acked, suspect, late, outdated, changes, crashes>>

\* filterChanged finds it in the inventory, after a restart, and caches it.
SkipInventoried ==
    /\ Filtering /\ ~Dropped(nodes[i])
    /\ ~CacheHit(nodes[i]) /\ InventoryHit(nodes[i])
    /\ cache' = [cache EXCEPT ![KeyOf(nodes[i])] =
                    [hash |-> HashOf(nodes[i]), node |-> nodes[i]]]
    /\ i' = i + 1
    /\ UNCHANGED <<environment, inv, disk, files, cr, pc, nodes, seenDown, retryDue, toSend,
                   hashes, refused, history, bounds>>

\* filterChanged keeps the node for Viola.
KeepChanged ==
    /\ Filtering /\ ~Dropped(nodes[i])
    /\ ~CacheHit(nodes[i]) /\ ~InventoryHit(nodes[i])
    /\ toSend' = Append(toSend, nodes[i])
    /\ hashes' = [hashes EXCEPT ![nodes[i].name] = HashOf(nodes[i])]
    /\ i' = i + 1
    /\ UNCHANGED <<environment, memory, cr, pc, nodes, seenDown, retryDue, refused,
                   history, bounds>>

\* With DOWN ports, their nodes join when a retry is due or a request is sent
\* anyway.
FilterDone ==
    /\ pc = "filter" /\ i > Len(nodes)
    /\ pc' = IF seenDown # {} /\ (retryDue \/ toSend # <<>>) THEN "merge" ELSE "decide"
    /\ i' = 1
    /\ UNCHANGED <<environment, memory, cr, nodes, seenDown, retryDue, toSend, hashes,
                   refused, history, bounds>>

\* Mutated form: the hash of a merged node is not kept for the record.
HashesUnset(n) == hashes

\* mergeNodesToSend sets the hash of a name that has none.
HashesWith(n) == [hashes EXCEPT ![n.name] = IF @ = NoHash THEN HashOf(n) ELSE @]

\* Mutated form: the nodes are not looked for in the request.
MergedAgain(n) == ~Dropped(n) /\ n.name \in DownNames

\* selectNodesByName and mergeNodesToSend take this node.
Merged(n) ==
    /\ ~Dropped(n) /\ n.name \in DownNames
    /\ \A j \in 1..Len(toSend) : toSend[j].name # n.name

MergeNode ==
    /\ pc = "merge" /\ i <= Len(nodes)
    /\ IF Merged(nodes[i])
       THEN toSend' = Append(toSend, nodes[i]) /\ hashes' = HashesWith(nodes[i])
       ELSE UNCHANGED <<toSend, hashes>>
    /\ i' = i + 1
    /\ UNCHANGED <<environment, memory, cr, pc, nodes, seenDown, retryDue, refused,
                   history, bounds>>

MergeDone ==
    /\ pc = "merge" /\ i > Len(nodes)
    /\ pc' = "decide" /\ i' = 1
    /\ UNCHANGED <<environment, memory, cr, nodes, seenDown, retryDue, toSend, hashes,
                   refused, history, bounds>>

\* Nothing to send: Ready with reason NoChange.
NoChange ==
    /\ pc = "decide" /\ toSend = <<>>
    /\ Return
    /\ UNCHANGED <<environment, memory, history, bounds>>

\* SendNodeConfigs sends the request.
Send ==
    /\ pc = "decide" /\ toSend # <<>>
    /\ pc' = "post" /\ i' = 1
    /\ suspect' = suspect \cup {KeyOf(toSend[j]) : j \in 1..Len(toSend)}
    /\ UNCHANGED <<environment, memory, cr, nodes, seenDown, retryDue, toSend, hashes,
                   refused, acked, unsaved, late, outdated, bounds>>

----------------------------------------------------------------------------
(* Viola, and the outcome of the request.                                  *)

\* Documents of the request from index i on.
Remaining == {<<KeyOf(toSend[j]), toSend[j]>> : j \in i..Len(toSend)}

\* kubectl apply brings the next document of the manifest into the cluster.
ViolaApplies ==
    /\ pc = "post" /\ i <= Len(toSend)
    /\ cluster' = [cluster EXCEPT ![KeyOf(toSend[i])] = toSend[i]]
    /\ late' = late \ {KeyOf(toSend[i])}
    /\ i' = i + 1
    /\ UNCHANGED <<ports, down, stray, memory, cr, pc, nodes, seenDown, retryDue,
                   toSend, hashes, refused, acked, suspect, unsaved, outdated, bounds>>

\* kubectl apply reports an error for the next document and goes on.
ViolaRefuses ==
    /\ pc = "post" /\ i <= Len(toSend)
    /\ ViolaFaults /\ Fault
    /\ refused' = refused \cup {i}
    /\ i' = i + 1
    /\ UNCHANGED <<environment, memory, cr, pc, nodes, seenDown, retryDue, toSend,
                   hashes, history, changes, crashes>>

\* Mutated form: the answer is not looked at.
AcceptsAnything == TRUE

\* The answer is 200 (or 202): every document was applied.
Accepted == refused = {}

ViolaAnswers ==
    /\ pc = "post" /\ i > Len(toSend) /\ Accepted
    /\ pc' = "record" /\ i' = 1
    /\ acked' = acked \cup
           {<<KeyOf(toSend[j]), HashOf(toSend[j])>> :
                j \in 1..Len(toSend) \ refused}
    /\ UNCHANGED <<environment, memory, cr, nodes, seenDown, retryDue, toSend, hashes,
                   refused, suspect, unsaved, late, outdated, bounds>>

\* The answer is 500: Ready is False with reason ViolaPostError.
ViolaAnswersError ==
    /\ pc = "post" /\ i > Len(toSend) /\ ~Accepted
    /\ Return
    /\ UNCHANGED <<environment, memory, history, bounds>>

\* No answer comes: Viola was not reached, timed out or its answer was lost.
\* What it had not applied yet is dropped, or applied when nobody waits.
PostLost ==
    /\ pc = "post"
    /\ ViolaFaults /\ Fault
    /\ \/ UNCHANGED stray
       \/ LateApply /\ stray' = stray \cup Remaining
    /\ Return
    /\ UNCHANGED <<ports, down, cluster, memory, history, changes, crashes>>

LateViolaApplies ==
    \E d \in stray :
        /\ cluster' = [cluster EXCEPT ![d[1]] = d[2]]
        /\ stray' = stray \ {d}
        /\ late' = late \cup {d[1]}
        /\ UNCHANGED <<ports, down, memory, locals, acked, suspect, unsaved,
                       outdated, bounds>>

----------------------------------------------------------------------------
(* Recording what was sent.                                                *)

\* Mutated form: one hash for all the nodes of a request.
EntryOfFirst(n) == [hash |-> HashOf(toSend[1]), node |-> n]

\* The entry for a node of the request: the hash is looked up by node name.
EntryOf(n) == [hash |-> hashes[n.name], node |-> n]

\* An earlier request for this key was applied last, or may still be.
Overtaken(k) == k \in late \/ \E d \in stray : d[1] = k

\* setCache, then Upsert.
RecordNode ==
    /\ pc = "record" /\ i <= Len(toSend)
    /\ LET k == KeyOf(toSend[i])
           e == EntryOf(toSend[i])
       IN /\ cache' = [cache EXCEPT ![k] = e]
          /\ IF InventoryOn THEN Upsert(k, e)
                             ELSE UNCHANGED <<inv, disk, files, unsaved, faults>>
          /\ suspect' = IF Overtaken(k) THEN suspect ELSE suspect \ {k}
          /\ outdated' = outdated \ {k}
    /\ i' = i + 1
    /\ UNCHANGED <<environment, cr, pc, nodes, seenDown, retryDue, toSend, hashes,
                   refused, acked, late, changes, crashes>>

\* Ready with reason Synced.
Synced ==
    /\ pc = "record" /\ i > Len(toSend)
    /\ Return
    /\ UNCHANGED <<environment, memory, history, bounds>>

----------------------------------------------------------------------------
(* The world around the operator.                                          *)

Change == changes < MaxChanges /\ changes' = changes + 1

\* Ports of a VM are added, changed or removed.
PortsChange(vm, x) ==
    /\ Change
    /\ ports[vm] # x
    /\ ports' = [ports EXCEPT ![vm] = x]
    /\ down' = IF x = NoIface THEN down \ {vm} ELSE down
    /\ UNCHANGED <<cluster, stray, memory, locals, history, faults, crashes>>

\* A port of the VM becomes DOWN, or its DOWN ports become ACTIVE.
StatusChanges(vm) ==
    /\ Change
    /\ ports[vm] # NoIface
    /\ down' = IF vm \in down THEN down \ {vm} ELSE down \cup {vm}
    /\ UNCHANGED <<ports, cluster, stray, memory, locals, history, faults,
                   crashes>>

\* The process ends: its cache and its Reconcile are gone.  A request on its
\* way may be finished.
ProcessEnds ==
    /\ crashes < MaxCrashes /\ crashes' = crashes + 1
    /\ cache' = Nothing
    /\ \/ UNCHANGED stray
       \/ LateApply /\ pc = "post" /\ stray' = stray \cup Remaining
    /\ suspect' = suspect \cup unsaved
    /\ unsaved' = {}
    /\ Return
    /\ UNCHANGED <<ports, down, cluster, acked, late, changes, faults>>

\* It is started again and reads its file, or an empty one: a pod that is
\* replaced loses the file when it is not on a persistent volume.
Crash ==
    /\ ProcessEnds
    /\ \/ /\ Inventory!Restart
          /\ files' = ReadByWaiting(files, crashes')
          /\ UNCHANGED outdated
       \/ /\ ~Persistent /\ Inventory!Lose
          /\ files' = ReadByWaiting({Nothing}, crashes')
          /\ outdated' = {}

\* The leader ends and a process that was waiting is elected: it read the file
\* when it started, before it asked for the lease, and goes on with that map
\* whatever was written to the file since.
Handover ==
    /\ Standby /\ Persistent /\ ProcessEnds
    /\ \E m \in files :
          /\ Inventory!TakeOver(m)
          /\ outdated' = outdated \cup {k \in Keys : m[k] # disk[k]}
    /\ files' = ReadByWaiting(files, crashes')

----------------------------------------------------------------------------
CollectOf(c) ==
    \E unnamed \in SUBSET VmSet(c), due \in BOOLEAN : Collect(c, unnamed, due)

\* What Reconcile does by itself once it has begun, up to the request.
Reconciling ==
    \/ DropNode \/ SkipCached \/ SkipInventoried \/ KeepChanged \/ FilterDone
    \/ MergeNode \/ MergeDone
    \/ NoChange \/ Send
    \/ RecordNode \/ Synced

Answering == ViolaApplies \/ ViolaAnswers \/ ViolaAnswersError

Next ==
    \/ \E c \in CRs : CollectOf(c) \/ CollectFails(c)
    \/ Reconciling
    \/ Answering
    \/ ViolaRefuses \/ PostLost \/ LateViolaApplies
    \/ \E vm \in VMs : \/ \E x \in Ifaces \cup {NoIface} : PortsChange(vm, x)
                       \/ StatusChanges(vm)
    \/ Crash \/ Handover

Spec == Init /\ [][Next]_vars

\* Every return of Reconcile asks for a requeue, the queue hands out every
\* object that is due, a running Reconcile goes on, and Viola answers.
Fairness ==
    /\ \A c \in CRs : SF_vars(CollectOf(c))
    /\ WF_vars(Reconciling)
    /\ WF_vars(Answering)

FairSpec == Spec /\ Fairness

----------------------------------------------------------------------------
(* Safety.                                                                 *)

\* The hash under a key, in the cache, the inventory or its file.
HasHash(store, k, h) == store[k] # NoRecord /\ store[k].hash = h

(* Nothing is recorded as sent that Viola has not acknowledged: every hash *)
(* in the cache, the inventory and its file is the hash of a document that *)
(* was part of a request answered with success.  A request that failed, or *)
(* lost its answer, or was cut off by a kill, leaves no trace there, so it *)
(* is sent again (filterChanged, and the order of SendNodeConfigs, setCache*)
(* and Upsert).                                                            *)
RecordedWasAcked ==
    \A k \in Keys : \A store \in {cache, inv, disk} :
        store[k] # NoRecord => <<k, store[k].hash>> \in acked

(* A node is skipped only when the cluster has its config, unless a        *)
(* request for it went unanswered, was still being applied, or was never   *)
(* recorded because of a kill, or the leader began with a map read before  *)
(* the record was written: whatever the cache and the inventory say about  *)
(* any other key is true of the cluster, and so is what the file says when *)
(* the last save of the key succeeded.                                     *)
SkipIsSound ==
    \A k \in Keys \ (suspect \cup outdated) :
        LET true(store) == store[k] # NoRecord =>
                              /\ cluster[k] # NoRecord
                              /\ store[k].hash = HashOf(cluster[k])
        IN true(cache) /\ true(inv) /\ (k \notin unsaved => true(disk))

(* The cache never has a hash the inventory does not have under the same   *)
(* key.  So the branch of filterChanged that writes the cached entry to an *)
(* inventory that differs never runs, and a save that failed is repeated   *)
(* only when the node is sent again.                                       *)
CacheFollowsInventory ==
    InventoryOn => \A k \in Keys :
        cache[k] # NoRecord => HasHash(inv, k, cache[k].hash)

\* No two VMs of an object can have one name, not even when Nova cannot be
\* asked: otherwise the entry of the first would have the hash of the last.
DistinctNames ==
    \A c \in CRs : \A j, k \in 1..Len(VmsOf[c]) :
        {VmsOf[c][j], ServerName[VmsOf[c][j]]} \cap {VmsOf[c][k], ServerName[VmsOf[c][k]]} # {}
            => j = k

(* The hash of a record is the hash of the config stored with it, and the  *)
(* config is the one of the node the key names: the hash is looked up by   *)
(* node name when the request is recorded, after down nodes were merged in.*)
(* It holds for DistinctNames.                                             *)
RecordsAreCoherent ==
    \A k \in Keys : \A store \in {cache, inv, disk} :
        store[k] # NoRecord => /\ store[k].hash = HashOf(store[k].node)
                              /\ store[k].node.name = k[2]

\* The config of n is the one recorded for it.
Known(n) == HasHash(cache, KeyOf(n), HashOf(n))

(* A request has exactly the nodes that need it, each of them once: those  *)
(* whose config is not the one recorded for them, and with them the nodes  *)
(* of DOWN ports, which are sent for themselves only when their retry is   *)
(* due.  The cache that filterChanged asks changes while it goes through   *)
(* the nodes, and the merge goes by names (filterChanged,                  *)
(* selectNodesByName, mergeNodesToSend).  It holds for DistinctNames.      *)
SentAsNeeded ==
    pc = "decide" =>
        LET kept == {nodes[j] : j \in {j \in 1..Len(nodes) : ~Dropped(nodes[j])}}
            changed == {n \in kept : ~Known(n)}
            retried == {n \in kept : n.name \in DownNames}
        IN  /\ {toSend[j] : j \in 1..Len(toSend)} =
                   IF retryDue \/ changed # {} THEN changed \cup retried ELSE {}
            /\ \A j, k \in 1..Len(toSend) : toSend[j] = toSend[k] => j = k

\* Reconcile is about to set Ready to True, with NoChange or Synced.
Succeeding == \/ pc = "decide" /\ toSend = <<>>
              \/ pc = "record" /\ i > Len(toSend)

(* Ready says what it seems to say: when Reconcile reports NoChange or     *)
(* Synced, the config of every node with an interface is recorded, those   *)
(* that were skipped and those that were sent, and it is the one in the    *)
(* cluster, but for a key with a request whose outcome was never recorded  *)
(* and what a new leader had read too early.  It holds for DistinctNames.  *)
ReadyMeansApplied ==
    Succeeding =>
        \A j \in 1..Len(nodes) : ~Dropped(nodes[j]) =>
            /\ Known(nodes[j])
            /\ \/ KeyOf(nodes[j]) \in suspect \cup outdated
               \/ cluster[KeyOf(nodes[j])] = nodes[j]

----------------------------------------------------------------------------
(* Liveness.                                                               *)

\* What a Reconcile of c would send for its j-th VM if Nova answers.
Wanted(c, j) == NodesOf(c, {})[j]
WantedKey(c, j) == <<ProviderOf[c], Wanted(c, j).name>>
AllNodes == UNION {{<<c, j>> : j \in 1..Len(VmsOf[c])} : c \in CRs}

(* Once ports, failures and kills have come to rest, the operator has      *)
(* recorded the present config of every node that has an interface.        *)
RecordsConverge ==
    \A x \in AllNodes : <>[](Wanted(x[1], x[2]).ifaces # NoIface =>
        HasHash(cache, WantedKey(x[1], x[2]), HashOf(Wanted(x[1], x[2]))))

(* And the cluster has that config, too.                                   *)
ClusterConverges ==
    \A x \in AllNodes : <>[](Wanted(x[1], x[2]).ifaces # NoIface =>
        cluster[WantedKey(x[1], x[2])] = Wanted(x[1], x[2]))

(* The cluster has it whatever failed and was killed, but for a key with a *)
(* request whose outcome was never recorded.                               *)
AnsweredConverges ==
    \A x \in AllNodes : <>[](Wanted(x[1], x[2]).ifaces # NoIface =>
        LET k == WantedKey(x[1], x[2]) IN
        k \in suspect \/ cluster[k] = Wanted(x[1], x[2]))

(* When no port stays DOWN, Viola is not called again for data it has.     *)
GoesQuiet == <>[](down = {}) => <>[](pc # "post")

(* The config of a node that has lost its last port does not stay recorded *)
(* as the one that was sent.                                               *)
RemovalIsSent ==
    \A x \in AllNodes : <>[](Wanted(x[1], x[2]).ifaces = NoIface =>
        LET k == WantedKey(x[1], x[2]) IN
        cache[k] # NoRecord => cache[k].node.ifaces = NoIface)
=============================================================================
