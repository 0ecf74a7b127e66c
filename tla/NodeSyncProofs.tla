--------------------------- MODULE NodeSyncProofs ---------------------------
(***************************************************************************)
(* Proofs about NodeSync for any number of objects, VMs, interface lists,  *)
(* faults, kills and hand-overs.                                           *)
(***************************************************************************)
EXTENDS NodeSync, SequenceTheorems, TLAPS

Unfinished == {"filter", "merge", "decide", "post", "record"}

\* The types, and that only a running Reconcile has locals.
Typed == /\ TypeOK
         /\ cr = NoCR <=> pc = "idle"
         /\ pc = "idle" => toSend = <<>> /\ hashes = NoHashes
         /\ i >= 1

LEMMA NodesTyped ==
    ASSUME TypeOK, NEW c \in CRs, NEW unnamed
    PROVE  NodesOf(c, unnamed) \in Seq(Nodes)
<1>1. VmsOf[c] \in Seq(VMs)
  BY NodeSyncAssumption
<1>2. Len(VmsOf[c]) \in Nat
  BY <1>1, LenProperties
<1>3. ASSUME NEW j \in 1..Len(VmsOf[c])
      PROVE  NodesOf(c, unnamed)[j] \in Nodes
  <2>1. VmsOf[c][j] \in VMs
    BY <1>1, <1>3, ElementOfSeq
  <2>2. Seen(c, VmsOf[c][j]) \in Ifaces \cup {NoIface}
    BY <2>1, NodeSyncAssumption DEF TypeOK, Seen
  <2>3. ServerName[VmsOf[c][j]] \in Names /\ VmsOf[c][j] \in Names
    BY <2>1, NodeSyncAssumption
  <2> QED
    BY <2>1, <2>2, <2>3 DEF NodesOf, Nodes
<1>4. NodesOf(c, unnamed) \in [1..Len(VmsOf[c]) -> Nodes]
  BY <1>3 DEF NodesOf
<1> QED
  BY <1>2, <1>4, SeqDef

\* A config of this Reconcile, its key and its hash.
LEMMA ElementTyped ==
    ASSUME Typed, pc # "idle", NEW n \in Nodes
    PROVE  KeyOf(n) \in Keys /\ HashOf(n) \in Hashes /\ n.name \in Names
<1>1. cr \in CRs
  BY DEF Typed, TypeOK
<1> QED
  BY <1>1, NodeSyncAssumption DEF KeyOf, Keys, HashOf, Hashes, Nodes

LEMMA InitTyped == Init => Typed
<1> SUFFICES ASSUME Init PROVE Typed
  OBVIOUS
<1> USE NodeSyncAssumption DEF Init
<1>1. Nothing \in [Keys -> Nodes \cup {NoRecord}] /\ Nothing \in [Keys -> Entries \cup {NoRecord}]
  BY DEF Nothing
<1>2. NoHashes \in [Names -> Hashes \cup {NoHash}]
  BY DEF NoHashes
<1>3. <<>> \in Seq(Nodes)
  BY EmptySeq
<1>4. changes \in 0..MaxChanges /\ faults \in 0..MaxFaults /\ crashes \in 0..MaxCrashes
  OBVIOUS
<1>5. TypeOK
  BY <1>1, <1>2, <1>3, <1>4 DEF TypeOK, ReadByWaiting
<1> QED
  BY <1>5 DEF Typed

LEMMA ReturnTyped ==
    ASSUME Typed, Return
    PROVE  /\ cr' \in CRs \cup {NoCR} /\ pc' = "idle" /\ i' = 1
           /\ nodes' \in Seq(Nodes) /\ seenDown' \subseteq VMs /\ retryDue' \in BOOLEAN
           /\ toSend' \in Seq(Nodes) /\ hashes' \in [Names -> Hashes \cup {NoHash}]
           /\ refused' \subseteq Nat
           /\ cr' = NoCR /\ toSend' = <<>> /\ hashes' = NoHashes
<1>1. <<>> \in Seq(Nodes)
  BY EmptySeq
<1>2. NoHashes \in [Names -> Hashes \cup {NoHash}]
  BY DEF NoHashes
<1> QED
  BY <1>1, <1>2 DEF Return

LEMMA UpsertTyped ==
    ASSUME TypeOK, NEW k \in Keys, NEW e \in Entries, Upsert(k, e)
    PROVE  /\ inv' \in [Keys -> Entries \cup {NoRecord}]
           /\ disk' \in [Keys -> Entries \cup {NoRecord}]
           /\ files' \subseteq [Keys -> Entries \cup {NoRecord}]
           /\ unsaved' \subseteq Keys
           /\ faults' \in 0..MaxFaults
           /\ files' \subseteq files \cup {disk'}
           /\ inv' = [inv EXCEPT ![k] = e]
           /\ \/ disk' = inv' /\ unsaved' = {}
              \/ disk' = disk /\ unsaved' = unsaved \cup {k}
<1> USE NodeSyncAssumption DEF TypeOK, Fault
<1>1. CASE /\ Inventory!PutAndSave(k, e)
           /\ files' = ReadByWaiting(files \cup {disk'}, crashes)
           /\ unsaved' = {} /\ UNCHANGED faults
  <2>1. /\ inv' = [inv EXCEPT ![k] = e] /\ disk' = inv'
        /\ inv' \in [Keys -> Entries \cup {NoRecord}]
    BY <1>1 DEF Inventory!PutAndSave
  <2>2. files' \subseteq files \cup {disk'}
    BY <1>1 DEF ReadByWaiting
  <2> QED
    BY <1>1, <2>1, <2>2
<1>2. CASE /\ Inventory!Put(k, e) /\ unsaved' = unsaved \cup {k} /\ Fault
           /\ UNCHANGED files
  <2>1. faults' \in 0..MaxFaults
    BY <1>2
  <2> QED
    BY <1>2, <2>1 DEF Inventory!Put
<1> QED
  BY <1>1, <1>2 DEF Upsert

----------------------------------------------------------------------------
\* The loops that build the request.
LEMMA BuildTyped ==
    ASSUME Typed,
           \/ \E c \in CRs : CollectOf(c)
           \/ DropNode \/ KeepChanged \/ FilterDone \/ MergeNode \/ MergeDone
    PROVE  Typed'
<1> USE NodeSyncAssumption DEF Typed, environment, memory, locals, history, bounds
<1>1. ASSUME NEW c \in CRs, NEW unnamed, NEW due \in BOOLEAN, Collect(c, unnamed, due)
      PROVE  Typed'
  <2>1. nodes' \in Seq(Nodes) /\ cr' \in CRs
    BY <1>1, NodesTyped DEF Collect
  <2>2. faults' \in 0..MaxFaults
    BY <1>1 DEF Collect, Fault, TypeOK
  <2>3. seenDown' \subseteq VMs /\ retryDue' \in BOOLEAN
    BY <1>1 DEF Collect, TypeOK
  <2> QED
    BY <1>1, <2>1, <2>2, <2>3 DEF Collect, TypeOK
<1>2. CASE DropNode
  BY <1>2 DEF DropNode, Filtering, TypeOK
<1>3. CASE KeepChanged
  <2>1. nodes[i] \in Nodes
    BY <1>3, ElementOfSeq DEF KeepChanged, Filtering, TypeOK
  <2>2. toSend' \in Seq(Nodes)
    BY <1>3, <2>1, AppendProperties DEF KeepChanged, TypeOK
  <2>3. hashes' \in [Names -> Hashes \cup {NoHash}]
    BY <1>3, <2>1, ElementTyped DEF KeepChanged, Filtering, TypeOK
  <2> QED
    BY <1>3, <2>2, <2>3 DEF KeepChanged, Filtering, TypeOK
<1>4. CASE FilterDone
  BY <1>4 DEF FilterDone, TypeOK
<1>5. CASE MergeNode
  <2>1. nodes[i] \in Nodes
    BY <1>5, ElementOfSeq DEF MergeNode, TypeOK
  <2>2. toSend' \in Seq(Nodes)
    <3>1. toSend \in Seq(Nodes) /\ Append(toSend, nodes[i]) \in Seq(Nodes)
      BY <2>1, AppendProperties DEF TypeOK
    <3> QED
      BY <1>5, <3>1 DEF MergeNode
  <2>3. hashes' \in [Names -> Hashes \cup {NoHash}]
    <3>1. HashOf(nodes[i]) \in Hashes /\ hashes \in [Names -> Hashes \cup {NoHash}]
      BY <1>5, <2>1, ElementTyped DEF MergeNode, TypeOK
    <3>2. HashesWith(nodes[i]) \in [Names -> Hashes \cup {NoHash}]
      BY <3>1 DEF HashesWith
    <3> QED
      BY <1>5, <3>1, <3>2 DEF MergeNode
  <2> QED
    BY <1>5, <2>2, <2>3 DEF MergeNode, TypeOK
<1>6. CASE MergeDone
  BY <1>6 DEF MergeDone, TypeOK
<1> QED
  BY <1>1, <1>2, <1>3, <1>4, <1>5, <1>6 DEF CollectOf

\* The lookups that decide what the request leaves out.
LEMMA SkipTyped ==
    ASSUME Typed, SkipCached \/ SkipInventoried
    PROVE  Typed'
<1> USE NodeSyncAssumption DEF Typed, environment, memory, locals, history, bounds
<1>1. pc = "filter" /\ nodes[i] \in Nodes
  BY ElementOfSeq DEF SkipCached, SkipInventoried, Filtering, TypeOK
<1>2. KeyOf(nodes[i]) \in Keys /\ HashOf(nodes[i]) \in Hashes
  BY <1>1, ElementTyped
<1>3. CASE SkipCached
  <2>1. cache[KeyOf(nodes[i])] \in Entries
    BY <1>2, <1>3 DEF SkipCached, CacheHit, TypeOK
  <2>2. /\ inv' \in [Keys -> Entries \cup {NoRecord}]
        /\ disk' \in [Keys -> Entries \cup {NoRecord}]
        /\ files' \subseteq [Keys -> Entries \cup {NoRecord}]
        /\ unsaved' \subseteq Keys
        /\ faults' \in 0..MaxFaults
    <3>1. CASE InventoryOn /\ ~InventoryHit(nodes[i])
      BY <1>2, <1>3, <2>1, <3>1, UpsertTyped DEF SkipCached
    <3>2. CASE ~(InventoryOn /\ ~InventoryHit(nodes[i]))
      BY <1>3, <3>2 DEF SkipCached, TypeOK
    <3> QED
      BY <3>1, <3>2
  <2> QED
    BY <1>3, <2>2 DEF SkipCached, Filtering, TypeOK
<1>4. CASE SkipInventoried
  <2>1. [hash |-> HashOf(nodes[i]), node |-> nodes[i]] \in Entries
    BY <1>1, <1>2 DEF Entries
  <2>2. cache' \in [Keys -> Entries \cup {NoRecord}]
    BY <1>2, <1>4, <2>1 DEF SkipInventoried, TypeOK
  <2> QED
    BY <1>4, <2>2 DEF SkipInventoried, Filtering, TypeOK
<1> QED
  BY <1>3, <1>4

LEMMA RemainingTyped ==
    ASSUME Typed, pc # "idle"
    PROVE  Remaining \subseteq Keys \X Nodes
<1> SUFFICES ASSUME NEW j \in i..Len(toSend)
             PROVE  <<KeyOf(toSend[j]), toSend[j]>> \in Keys \X Nodes
  BY DEF Remaining
<1>1. toSend[j] \in Nodes
  BY ElementOfSeq, LenProperties DEF Typed, TypeOK
<1> QED
  BY <1>1, ElementTyped

LEMMA SendTyped ==
    ASSUME Typed, Send
    PROVE  Typed'
<1> USE NodeSyncAssumption DEF Typed, environment, memory, locals, history, bounds
<1>1. \A j \in 1..Len(toSend) : toSend[j] \in Nodes /\ KeyOf(toSend[j]) \in Keys
  BY ElementOfSeq, ElementTyped DEF Send, TypeOK
<1> QED
  BY <1>1 DEF Send, TypeOK

\* Viola and the fate of the request.
LEMMA ViolaTyped ==
    ASSUME Typed,
           \/ ViolaApplies \/ ViolaRefuses \/ ViolaAnswers \/ ViolaAnswersError
           \/ PostLost \/ LateViolaApplies
    PROVE  Typed'
<1> USE NodeSyncAssumption DEF Typed, environment, memory, locals, history, bounds
<1>1. \A j \in 1..Len(toSend) : toSend[j] \in Nodes
  BY ElementOfSeq DEF TypeOK
<1>2. ASSUME pc = "post", NEW j \in 1..Len(toSend)
      PROVE  KeyOf(toSend[j]) \in Keys /\ HashOf(toSend[j]) \in Hashes
  BY <1>1, <1>2, ElementTyped
<1>3. CASE ViolaApplies
  <2>1. i \in 1..Len(toSend)
    BY <1>3, LenProperties DEF ViolaApplies, TypeOK
  <2> QED
    BY <1>1, <1>2, <1>3, <2>1 DEF ViolaApplies, TypeOK
<1>4. CASE ViolaRefuses
  BY <1>4 DEF ViolaRefuses, Fault, TypeOK
<1>5. CASE ViolaAnswers
  <2>1. acked' \subseteq Keys \X Hashes
    BY <1>2, <1>5 DEF ViolaAnswers, TypeOK
  <2> QED
    BY <1>5, <2>1 DEF ViolaAnswers, TypeOK
<1>6. CASE ViolaAnswersError
  BY <1>6, ReturnTyped DEF ViolaAnswersError, TypeOK
<1>7. CASE PostLost
  <2>1. stray' \subseteq Keys \X Nodes
    BY <1>7, RemainingTyped DEF PostLost, TypeOK
  <2>2. faults' \in 0..MaxFaults
    BY <1>7 DEF PostLost, Fault, TypeOK
  <2> QED
    BY <1>7, <2>1, <2>2, ReturnTyped DEF PostLost, TypeOK
<1>8. CASE LateViolaApplies
  <2>1. PICK d \in stray : /\ cluster' = [cluster EXCEPT ![d[1]] = d[2]]
                            /\ stray' = stray \ {d}
                            /\ late' = late \cup {d[1]}
    BY <1>8 DEF LateViolaApplies
  <2>2. d[1] \in Keys /\ d[2] \in Nodes
    BY DEF TypeOK
  <2>3. /\ cluster' \in [Keys -> Nodes \cup {NoRecord}]
        /\ stray' \subseteq Keys \X Nodes
        /\ late' \subseteq Keys
    BY <2>1, <2>2 DEF TypeOK
  <2> QED
    BY <1>8, <2>3 DEF LateViolaApplies, TypeOK
<1> QED
  BY <1>3, <1>4, <1>5, <1>6, <1>7, <1>8

----------------------------------------------------------------------------
(* The request.                                                            *)

\* The hash under the name of a node is the hash of the last node of the
\* request with that name.
HashKept ==
    \A j \in 1..Len(toSend) : \E l \in 1..Len(toSend) :
        /\ toSend[l].name = toSend[j].name
        /\ hashes[toSend[j].name] = HashOf(toSend[l])
        /\ \A m \in l+1..Len(toSend) : toSend[m].name # toSend[j].name

\* Only names of the request have a hash.
NamesHashed ==
    \A x \in Names : hashes[x] # NoHash => \E j \in 1..Len(toSend) : toSend[j].name = x

RequestInv == HashKept /\ NamesHashed

LEMMA AppendKeepsRequest ==
    ASSUME Typed, RequestInv, NEW n \in Nodes,
           toSend' = Append(toSend, n),
           hashes' = [hashes EXCEPT ![n.name] = HashOf(n)]
    PROVE  RequestInv'
<1> DEFINE L == Len(toSend)
<1>1. /\ L \in Nat /\ Len(toSend') = L + 1
      /\ \A j \in 1..L : toSend'[j] = toSend[j]
      /\ toSend'[L + 1] = n
  BY AppendProperties, LenProperties DEF Typed, TypeOK
<1>2. /\ n.name \in Names
      /\ hashes'[n.name] = HashOf(n)
      /\ \A x \in Names : x # n.name => hashes'[x] = hashes[x]
  BY DEF Nodes, Typed, TypeOK
<1>3. \A j \in 1..L : toSend[j].name \in Names
  <2>1. \A j \in 1..L : toSend[j] \in Nodes
    BY ElementOfSeq DEF Typed, TypeOK
  <2> QED
    BY <2>1 DEF Nodes
<1>4. HashKept'
  <2> SUFFICES ASSUME NEW j \in 1..Len(toSend')
               PROVE  \E l \in 1..Len(toSend') :
                          /\ toSend'[l].name = toSend'[j].name
                          /\ hashes'[toSend'[j].name] = HashOf(toSend'[l])
                          /\ \A m \in l+1..Len(toSend') : toSend'[m].name # toSend'[j].name
    BY DEF HashKept, HashOf
  <2>1. CASE toSend'[j].name = n.name
    <3>1. L + 1 \in 1..L+1 /\ ~(\E m \in (L+1)+1..L+1 : TRUE)
      BY <1>1
    <3> QED
      BY <1>1, <1>2, <2>1, <3>1
  <2>2. CASE toSend'[j].name # n.name
    <3>1. j \in 1..L /\ toSend'[j] = toSend[j]
      BY <1>1, <2>2
    <3>2. PICK l \in 1..L : /\ toSend[l].name = toSend[j].name
                            /\ hashes[toSend[j].name] = HashOf(toSend[l])
                            /\ \A m \in l+1..L : toSend[m].name # toSend[j].name
      BY <3>1 DEF RequestInv, HashKept
    <3>3. \A m \in l+1..L+1 : toSend'[m].name # toSend'[j].name
      BY <1>1, <2>2, <3>1, <3>2
    <3>4. hashes'[toSend'[j].name] = HashOf(toSend'[l])
      BY <1>1, <1>2, <1>3, <2>2, <3>1, <3>2
    <3>5. l \in 1..L+1 /\ toSend'[l].name = toSend'[j].name
      BY <1>1, <3>1, <3>2
    <3> HIDE DEF L
    <3> QED
      BY <1>1, <3>3, <3>4, <3>5
  <2> QED
    BY <2>1, <2>2
<1>5. NamesHashed'
  <2> SUFFICES ASSUME NEW x \in Names, hashes'[x] # NoHash
               PROVE  \E j \in 1..L+1 : toSend'[j].name = x
    BY <1>1 DEF NamesHashed
  <2>1. CASE x = n.name
    BY <1>1, <2>1
  <2>2. CASE x # n.name
    <3>1. PICK j \in 1..L : toSend[j].name = x
      BY <1>2, <2>2 DEF RequestInv, NamesHashed
    <3> QED
      BY <1>1, <3>1
  <2> QED
    BY <2>1, <2>2
<1> QED
  BY <1>4, <1>5 DEF RequestInv

LEMMA KeepChangedRequest ==
    ASSUME Typed, RequestInv, KeepChanged
    PROVE  RequestInv'
<1>1. nodes[i] \in Nodes
  BY ElementOfSeq DEF KeepChanged, Filtering, Typed, TypeOK
<1> QED
  BY <1>1, AppendKeepsRequest DEF KeepChanged

LEMMA SameRequest ==
    ASSUME RequestInv, UNCHANGED <<toSend, hashes>>
    PROVE  RequestInv'
BY DEF RequestInv, HashKept, NamesHashed, HashOf

LEMMA MergeNodeRequest ==
    ASSUME Typed, RequestInv, MergeNode
    PROVE  RequestInv'
<1>1. nodes[i] \in Nodes
  BY ElementOfSeq DEF MergeNode, Typed, TypeOK
<1>2. CASE Merged(nodes[i])
  <2>1. hashes[nodes[i].name] = NoHash
    BY <1>1, <1>2 DEF Merged, RequestInv, NamesHashed, Nodes
  <2>2. hashes' = [hashes EXCEPT ![nodes[i].name] = HashOf(nodes[i])]
    BY <1>2, <2>1 DEF MergeNode, HashesWith
  <2> QED
    BY <1>1, <1>2, <2>2, AppendKeepsRequest DEF MergeNode
<1>3. CASE ~Merged(nodes[i])
  BY <1>3, SameRequest DEF MergeNode
<1> QED
  BY <1>2, <1>3

LEMMA ReturnRequest ==
    ASSUME Return
    PROVE  RequestInv'
<1>1. toSend' = <<>> /\ Len(toSend') = 0 /\ hashes' = NoHashes
  BY DEF Return
<1> QED
  BY <1>1 DEF RequestInv, HashKept, NamesHashed, NoHashes

\* What is recorded for a node of the request is an entry with the hash of
\* the last node of its name.
LEMMA EntryTyped ==
    ASSUME Typed, RequestInv, pc # "idle", NEW j \in 1..Len(toSend)
    PROVE  /\ KeyOf(toSend[j]) \in Keys
           /\ EntryOf(toSend[j]) \in Entries
           /\ \E l \in 1..Len(toSend) :
                 /\ KeyOf(toSend[l]) = KeyOf(toSend[j])
                 /\ EntryOf(toSend[j]).hash = HashOf(toSend[l])
                 /\ \A m \in l+1..Len(toSend) : toSend[m].name # toSend[l].name
<1>1. \A m \in 1..Len(toSend) : toSend[m] \in Nodes
  BY ElementOfSeq DEF Typed, TypeOK
<1>2. PICK l \in 1..Len(toSend) :
         /\ toSend[l].name = toSend[j].name
         /\ hashes[toSend[j].name] = HashOf(toSend[l])
         /\ \A m \in l+1..Len(toSend) : toSend[m].name # toSend[j].name
  BY DEF RequestInv, HashKept
<1>3. KeyOf(toSend[j]) \in Keys /\ HashOf(toSend[l]) \in Hashes
  BY <1>1, ElementTyped
<1>4. EntryOf(toSend[j]) \in Entries
  BY <1>1, <1>2, <1>3 DEF EntryOf, Entries
<1> QED
  BY <1>2, <1>3, <1>4 DEF KeyOf, EntryOf

----------------------------------------------------------------------------
\* The steps that leave the request alone.
LEMMA RecordNodeTyped ==
    ASSUME Typed, RequestInv, RecordNode
    PROVE  Typed'
<1> USE NodeSyncAssumption DEF Typed, environment, memory, locals, history, bounds
<1>1. i \in 1..Len(toSend) /\ pc = "record"
  BY LenProperties DEF RecordNode, TypeOK
<1> DEFINE k == KeyOf(toSend[i])
           e == EntryOf(toSend[i])
<1>2. k \in Keys /\ e \in Entries
  BY <1>1, EntryTyped
<1>3. /\ inv' \in [Keys -> Entries \cup {NoRecord}]
      /\ disk' \in [Keys -> Entries \cup {NoRecord}]
      /\ files' \subseteq [Keys -> Entries \cup {NoRecord}]
      /\ unsaved' \subseteq Keys
      /\ faults' \in 0..MaxFaults
  <2>1. CASE InventoryOn
    BY <1>2, <2>1, UpsertTyped DEF RecordNode
  <2>2. CASE ~InventoryOn
    BY <2>2 DEF RecordNode, TypeOK
  <2> QED
    BY <2>1, <2>2
<1>4. cache' \in [Keys -> Entries \cup {NoRecord}]
  BY <1>2 DEF RecordNode, TypeOK
<1>5. suspect' \subseteq Keys /\ outdated' \subseteq Keys
  BY DEF RecordNode, TypeOK
<1> QED
  BY <1>1, <1>3, <1>4, <1>5 DEF RecordNode, TypeOK

LEMMA EnvironmentTyped ==
    ASSUME Typed, NEW vm \in VMs, NEW x \in Ifaces \cup {NoIface},
           PortsChange(vm, x) \/ StatusChanges(vm)
    PROVE  Typed'
<1> USE NodeSyncAssumption DEF Typed, environment, memory, locals, history, bounds
<1>1. changes' \in 0..MaxChanges
  BY DEF PortsChange, StatusChanges, Change, TypeOK
<1>2. CASE PortsChange(vm, x)
  BY <1>1, <1>2 DEF PortsChange, TypeOK
<1>3. CASE StatusChanges(vm)
  BY <1>1, <1>3 DEF StatusChanges, TypeOK
<1> QED
  BY <1>2, <1>3

LEMMA EndTyped ==
    ASSUME Typed, Crash \/ Handover
    PROVE  Typed'
<1> USE NodeSyncAssumption DEF Typed, environment, memory, locals, history, bounds
<1>1. ProcessEnds
  BY DEF Crash, Handover
<1>2. crashes' \in 0..MaxCrashes
  BY <1>1 DEF ProcessEnds, TypeOK
<1>3. stray' \subseteq Keys \X Nodes
  BY <1>1, RemainingTyped DEF ProcessEnds, TypeOK
<1>4. Nothing \in [Keys -> Entries \cup {NoRecord}] /\ cache' = Nothing
  BY <1>1 DEF ProcessEnds, Nothing
<1>5. /\ inv' \in [Keys -> Entries \cup {NoRecord}]
      /\ disk' \in [Keys -> Entries \cup {NoRecord}]
      /\ files' \subseteq [Keys -> Entries \cup {NoRecord}]
      /\ outdated' \subseteq Keys
  <2>1. CASE Inventory!Restart /\ files' = ReadByWaiting(files, crashes') /\ UNCHANGED outdated
    BY <2>1 DEF Inventory!Restart, ReadByWaiting, TypeOK
  <2>2. CASE Inventory!Lose /\ files' = ReadByWaiting({Nothing}, crashes') /\ outdated' = {}
    BY <1>4, <2>2 DEF Inventory!Lose, Inventory!Empty, Nothing, ReadByWaiting, TypeOK
  <2>3. CASE Handover
    BY <2>3 DEF Handover, Inventory!TakeOver, ReadByWaiting, TypeOK
  <2> QED
    BY <2>1, <2>2, <2>3 DEF Crash
<1>6. suspect' \subseteq Keys /\ unsaved' \subseteq Keys
  BY <1>1 DEF ProcessEnds, TypeOK
<1> QED
  BY <1>1, <1>2, <1>3, <1>4, <1>5, <1>6, ReturnTyped DEF ProcessEnds, TypeOK

LEMMA QuietTyped ==
    ASSUME Typed,
           \/ NoChange \/ Synced \/ \E c \in CRs : CollectFails(c)
           \/ UNCHANGED vars
    PROVE  Typed'
<1> USE NodeSyncAssumption DEF Typed, environment, memory, locals, history, bounds
<1>1. CASE NoChange \/ Synced
  <2>1. Return /\ UNCHANGED <<environment, memory, history, bounds>>
    BY <1>1 DEF NoChange, Synced
  <2> QED
    BY <2>1, ReturnTyped DEF TypeOK
<1>2. ASSUME NEW c \in CRs, CollectFails(c) PROVE Typed'
  BY <1>2 DEF CollectFails, Fault, TypeOK
<1>3. CASE UNCHANGED vars
  BY <1>3 DEF vars, TypeOK
<1> QED
  BY <1>1, <1>2, <1>3

LEMMA TypedNext ==
    ASSUME Typed, RequestInv, [Next]_vars
    PROVE  Typed'
<1>1. ASSUME NEW c \in CRs, CollectOf(c) PROVE Typed'
  BY <1>1, BuildTyped
<1>2. CASE Reconciling
  BY <1>2, BuildTyped, SkipTyped, QuietTyped, SendTyped, RecordNodeTyped DEF Reconciling
<1>3. CASE Answering \/ ViolaRefuses \/ PostLost \/ LateViolaApplies
  BY <1>3, ViolaTyped DEF Answering
<1>4. CASE \E vm \in VMs : \/ \E x \in Ifaces \cup {NoIface} : PortsChange(vm, x)
                           \/ StatusChanges(vm)
  <2>1. NoIface \in Ifaces \cup {NoIface}
    OBVIOUS
  <2> QED
    BY <1>4, <2>1, EnvironmentTyped
<1>5. CASE Crash \/ Handover
  BY <1>5, EndTyped
<1>6. CASE (\E c \in CRs : CollectFails(c)) \/ UNCHANGED vars
  BY <1>6, QuietTyped
<1> QED
  BY <1>1, <1>2, <1>3, <1>4, <1>5, <1>6 DEF Next

LEMMA RequestNext ==
    ASSUME Typed, RequestInv, [Next]_vars
    PROVE  RequestInv'
<1> USE DEF environment, memory, locals, history, bounds
<1>1. ASSUME NEW c \in CRs, CollectOf(c) \/ CollectFails(c) PROVE RequestInv'
  BY <1>1, SameRequest DEF CollectOf, Collect, CollectFails
<1>2. CASE DropNode \/ SkipCached \/ SkipInventoried \/ FilterDone \/ MergeDone \/ Send \/ RecordNode
  BY <1>2, SameRequest
     DEF DropNode, SkipCached, SkipInventoried, FilterDone, MergeDone, Send, RecordNode
<1>3. CASE KeepChanged
  BY <1>3, KeepChangedRequest
<1>4. CASE MergeNode
  BY <1>4, MergeNodeRequest
<1>5. CASE NoChange \/ Synced \/ ViolaAnswersError \/ PostLost \/ Crash \/ Handover
  BY <1>5, ReturnRequest
     DEF NoChange, Synced, ViolaAnswersError, PostLost, Crash, Handover, ProcessEnds
<1>6. CASE ViolaApplies \/ ViolaAnswers \/ ViolaRefuses \/ LateViolaApplies
  BY <1>6, SameRequest DEF ViolaApplies, ViolaAnswers, ViolaRefuses, LateViolaApplies
<1>7. CASE \E vm \in VMs : \/ \E x \in Ifaces \cup {NoIface} : PortsChange(vm, x)
                           \/ StatusChanges(vm)
  BY <1>7, SameRequest DEF PortsChange, StatusChanges
<1>8. CASE UNCHANGED vars
  BY <1>8, SameRequest DEF vars
<1> QED
  BY <1>1, <1>2, <1>3, <1>4, <1>5, <1>6, <1>7, <1>8 DEF Next, Reconciling, Answering

----------------------------------------------------------------------------
(* While a request is on its way.                                          *)

\* Of the first n documents, the last one of each name is in the cluster,
\* unless an older document of that name has been applied late.
Reached(n) ==
    \A j \in 1..n :
        \/ KeyOf(toSend[j]) \in late
        \/ \E m \in j+1..n : toSend[m].name = toSend[j].name
        \/ cluster[KeyOf(toSend[j])] = toSend[j]

AllSuspect == \A j \in 1..Len(toSend) : KeyOf(toSend[j]) \in suspect

AllAcked == \A j \in 1..Len(toSend) : <<KeyOf(toSend[j]), HashOf(toSend[j])>> \in acked

Posting ==
    /\ pc # "post" => refused = {}
    /\ pc = "post" => /\ i <= Len(toSend) + 1
                      /\ AllSuspect
                      /\ refused = {} => Reached(i - 1)
    /\ pc = "record" => Reached(Len(toSend)) /\ AllAcked

\* Only keys whose request was never answered have a stray document.
StraySuspect == \A d \in stray : d[1] \in suspect

\* And only they have had one applied late.
LateSuspect == late \subseteq suspect

LEMMA SameSuspect ==
    ASSUME AllSuspect, UNCHANGED <<cr, toSend, suspect>>
    PROVE  AllSuspect'
BY DEF AllSuspect, KeyOf

LEMMA SameAcked ==
    ASSUME AllAcked, UNCHANGED <<cr, toSend, acked>>
    PROVE  AllAcked'
BY DEF AllAcked, KeyOf, HashOf

\* The next document is applied.
LEMMA AppliesReached ==
    ASSUME Typed, Reached(i - 1), ViolaApplies
    PROVE  Reached(i - 1)'
<1> USE DEF locals
<1>1. /\ i \in Nat /\ i >= 1 /\ i \in 1..Len(toSend)
      /\ UNCHANGED <<cr, toSend>>
      /\ pc = "post"
      /\ i' = i + 1
      /\ cluster' = [cluster EXCEPT ![KeyOf(toSend[i])] = toSend[i]]
      /\ late' = late \ {KeyOf(toSend[i])}
  BY LenProperties DEF ViolaApplies, Typed, TypeOK
<1>2. toSend[i] \in Nodes /\ KeyOf(toSend[i]) \in Keys
  BY <1>1, ElementOfSeq, ElementTyped DEF Typed, TypeOK
<1>3. cluster'[KeyOf(toSend[i])] = toSend[i]
  BY <1>1, <1>2 DEF Typed, TypeOK
<1>4. \A k : k # KeyOf(toSend[i]) => cluster'[k] = cluster[k]
  BY <1>1, <1>2 DEF Typed, TypeOK
<1>5. ASSUME NEW j \in 1..i
      PROVE  \/ KeyOf(toSend[j]) \in late'
             \/ \E m \in j+1..i : toSend[m].name = toSend[j].name
             \/ cluster'[KeyOf(toSend[j])] = toSend[j]
  <2>1. CASE j = i
    BY <1>3, <2>1
  <2>2. CASE j # i /\ toSend[j].name = toSend[i].name
    <3>1. i \in j+1..i
      BY <1>1, <2>2
    <3> QED
      BY <2>2, <3>1
  <2>3. CASE j # i /\ toSend[j].name # toSend[i].name
    <3>1. j \in 1..i-1 /\ KeyOf(toSend[j]) # KeyOf(toSend[i])
      BY <1>1, <2>3 DEF KeyOf
    <3>2. \/ KeyOf(toSend[j]) \in late
          \/ \E m \in j+1..i-1 : toSend[m].name = toSend[j].name
          \/ cluster[KeyOf(toSend[j])] = toSend[j]
      BY <3>1 DEF Reached
    <3>3. CASE \E m \in j+1..i-1 : toSend[m].name = toSend[j].name
      BY <1>1, <3>3
    <3>4. CASE KeyOf(toSend[j]) \in late \/ cluster[KeyOf(toSend[j])] = toSend[j]
      BY <1>1, <1>4, <3>1, <3>4
    <3> QED
      BY <3>2, <3>3, <3>4
  <2> QED
    BY <2>1, <2>2, <2>3
<1>6. i' - 1 = i
  BY <1>1
<1> QED
  BY <1>1, <1>5, <1>6 DEF Reached, KeyOf

LEMMA PostingNext ==
    ASSUME Typed, Posting, StraySuspect, [Next]_vars
    PROVE  Posting' /\ StraySuspect'
<1> USE DEF environment, memory, locals, history, bounds
<1>0. Len(toSend) \in Nat /\ i \in Nat /\ i >= 1
  BY LenProperties DEF Typed, TypeOK
<1>1. CASE Return /\ UNCHANGED <<stray, suspect>>
  BY <1>1 DEF Posting, StraySuspect, Return
<1>2. CASE \/ DropNode \/ SkipCached \/ SkipInventoried \/ KeepChanged
           \/ FilterDone \/ MergeNode \/ MergeDone
  <2>1. pc' \in {"filter", "merge", "decide"} /\ pc # "post"
    BY <1>2 DEF DropNode, SkipCached, SkipInventoried, KeepChanged, Filtering, FilterDone,
                MergeNode, MergeDone
  <2>2. UNCHANGED <<stray, suspect, refused>>
    BY <1>2 DEF DropNode, SkipCached, SkipInventoried, KeepChanged, FilterDone,
                MergeNode, MergeDone
  <2> QED
    BY <2>1, <2>2 DEF Posting, StraySuspect
<1>3. ASSUME NEW c \in CRs, CollectOf(c) PROVE Posting' /\ StraySuspect'
  <2>1. pc = "idle" /\ pc' = "filter" /\ UNCHANGED <<stray, suspect, refused>>
    BY <1>3 DEF CollectOf, Collect
  <2> QED
    BY <2>1 DEF Posting, StraySuspect
<1>4. CASE Send
  <2>1. /\ pc = "decide" /\ pc' = "post" /\ i' = 1
        /\ suspect' = suspect \cup {KeyOf(toSend[j]) : j \in 1..Len(toSend)}
        /\ UNCHANGED <<cr, toSend, stray, refused>>
    BY <1>4 DEF Send
  <2>2. AllSuspect'
    BY <2>1 DEF AllSuspect, KeyOf
  <2>3. Reached(i - 1)'
    BY <2>1 DEF Reached
  <2> QED
    BY <1>0, <2>1, <2>2, <2>3 DEF Posting, StraySuspect
<1>5. CASE ViolaApplies
  <2>1. /\ pc = "post" /\ pc' = "post" /\ i <= Len(toSend) /\ i' = i + 1
        /\ UNCHANGED <<cr, toSend, refused, suspect, stray>>
    BY <1>5 DEF ViolaApplies
  <2>2. AllSuspect'
    BY <2>1, SameSuspect DEF Posting
  <2>3. refused = {} => Reached(i - 1)'
    BY <1>5, <2>1, AppliesReached DEF Posting
  <2> QED
    BY <1>0, <2>1, <2>2, <2>3 DEF Posting, StraySuspect
<1>6. CASE ViolaRefuses
  <2>1. /\ pc = "post" /\ pc' = "post" /\ i <= Len(toSend) /\ i' = i + 1
        /\ refused' # {}
        /\ UNCHANGED <<cr, toSend, suspect, stray>>
    BY <1>6 DEF ViolaRefuses
  <2>2. AllSuspect'
    BY <2>1, SameSuspect DEF Posting
  <2> QED
    BY <1>0, <2>1, <2>2 DEF Posting, StraySuspect
<1>7. CASE ViolaAnswers
  <2>1. /\ pc = "post" /\ pc' = "record" /\ i > Len(toSend) /\ refused = {}
        /\ UNCHANGED <<cr, toSend, cluster, late, refused, suspect, stray>>
        /\ acked' = acked \cup {<<KeyOf(toSend[j]), HashOf(toSend[j])>> :
                                  j \in 1..Len(toSend) \ refused}
    BY <1>7 DEF ViolaAnswers, Accepted
  <2>2. i - 1 = Len(toSend)
    BY <1>0, <2>1 DEF Posting
  <2>3. Reached(Len(toSend))
    BY <2>1, <2>2 DEF Posting
  <2>4. Reached(Len(toSend))'
    BY <2>1, <2>3 DEF Reached, KeyOf
  <2>5. AllAcked'
    BY <2>1 DEF AllAcked, KeyOf, HashOf
  <2> QED
    BY <2>1, <2>4, <2>5 DEF Posting, StraySuspect
<1>8. CASE RecordNode
  <2>1. /\ pc = "record" /\ pc' = "record"
        /\ UNCHANGED <<cr, toSend, cluster, late, refused, acked, stray>>
        /\ suspect' \in {suspect, suspect \ {KeyOf(toSend[i])}}
        /\ (\E d \in stray : d[1] = KeyOf(toSend[i])) => suspect' = suspect
    BY <1>8 DEF RecordNode, Overtaken
  <2>2. Reached(Len(toSend))'
    BY <2>1 DEF Posting, Reached, KeyOf
  <2>3. AllAcked'
    BY <2>1, SameAcked DEF Posting
  <2>4. StraySuspect'
    BY <2>1 DEF StraySuspect
  <2> QED
    BY <2>1, <2>2, <2>3, <2>4 DEF Posting
<1>9. CASE PostLost \/ Crash \/ Handover
  <2>1. stray' = stray \/ (pc = "post" /\ stray' = stray \cup Remaining)
    BY <1>9 DEF PostLost, Crash, Handover, ProcessEnds
  <2>2. suspect \subseteq suspect' /\ Return
    BY <1>9 DEF PostLost, Crash, Handover, ProcessEnds
  <2>3. ASSUME pc = "post", NEW d \in Remaining PROVE d[1] \in suspect
    BY <1>0, <2>3 DEF Remaining, Posting, AllSuspect
  <2>4. StraySuspect'
    BY <2>1, <2>2, <2>3 DEF StraySuspect
  <2>5. Posting'
    BY <2>2 DEF Return, Posting
  <2> QED
    BY <2>4, <2>5
<1>10. CASE LateViolaApplies
  <2>1. UNCHANGED <<cr, pc, i, toSend, refused, suspect, acked>> /\ stray' \subseteq stray
    BY <1>10 DEF LateViolaApplies
  <2>2. pc = "post" /\ refused = {} => Reached(i - 1)'
    <3>1. ASSUME Reached(i - 1) PROVE Reached(i - 1)'
      <4> DEFINE n == i - 1
      <4>1. n \in Nat /\ n' = n
        BY <1>0, <2>1
      <4>2. PICK d \in stray : /\ cluster' = [cluster EXCEPT ![d[1]] = d[2]]
                                /\ late' = late \cup {d[1]}
        BY <1>10 DEF LateViolaApplies
      <4>3. \A k : k # d[1] => cluster'[k] = cluster[k]
        BY <4>2 DEF Typed, TypeOK
      <4> QED
        BY <2>1, <3>1, <4>2, <4>3 DEF Reached, KeyOf
    <3> QED
      BY <3>1 DEF Posting
  <2>3. pc = "record" => Reached(Len(toSend))'
    <3>1. ASSUME Reached(Len(toSend)) PROVE Reached(Len(toSend))'
      <4>1. PICK d \in stray : /\ cluster' = [cluster EXCEPT ![d[1]] = d[2]]
                                /\ late' = late \cup {d[1]}
        BY <1>10 DEF LateViolaApplies
      <4>2. \A k : k # d[1] => cluster'[k] = cluster[k]
        BY <4>1 DEF Typed, TypeOK
      <4> QED
        BY <2>1, <3>1, <4>1, <4>2 DEF Reached, KeyOf
    <3> QED
      BY <3>1 DEF Posting
  <2>4. pc = "post" => AllSuspect'
    BY <2>1, SameSuspect DEF Posting
  <2>5. pc = "record" => AllAcked'
    BY <2>1, SameAcked DEF Posting
  <2> QED
    BY <2>1, <2>2, <2>3, <2>4, <2>5 DEF Posting, StraySuspect
<1>11. CASE UNCHANGED <<cr, pc, i, toSend, refused, suspect, acked, stray, cluster, late>>
  <2>1. AllSuspect => AllSuspect'
    BY <1>11, SameSuspect
  <2>2. AllAcked => AllAcked'
    BY <1>11, SameAcked
  <2>3. Reached(i - 1) => Reached(i - 1)'
    BY <1>11 DEF Reached, KeyOf
  <2>4. Reached(Len(toSend)) => Reached(Len(toSend))'
    BY <1>11 DEF Reached, KeyOf
  <2> QED
    BY <1>11, <2>1, <2>2, <2>3, <2>4 DEF Posting, StraySuspect
<1>12. CASE NoChange \/ Synced \/ ViolaAnswersError
  BY <1>1, <1>12 DEF NoChange, Synced, ViolaAnswersError
<1>13. CASE \/ \E c \in CRs : CollectFails(c)
            \/ \E vm \in VMs : \/ \E x \in Ifaces \cup {NoIface} : PortsChange(vm, x)
                                \/ StatusChanges(vm)
            \/ UNCHANGED vars
  BY <1>11, <1>13 DEF CollectFails, PortsChange, StatusChanges, vars
<1> QED
  BY <1>2, <1>3, <1>4, <1>5, <1>6, <1>7, <1>8, <1>9, <1>10, <1>12, <1>13
     DEF Next, Reconciling, Answering

LEMMA LateSuspectNext ==
    ASSUME Typed, StraySuspect, LateSuspect, [Next]_vars
    PROVE  LateSuspect'
<1> USE DEF environment, memory, locals, history, bounds
<1>1. CASE late' \subseteq late /\ suspect \subseteq suspect'
  BY <1>1 DEF LateSuspect
<1>2. CASE RecordNode
  BY <1>2 DEF RecordNode, Overtaken, LateSuspect
<1>3. CASE LateViolaApplies
  BY <1>3 DEF LateViolaApplies, StraySuspect, LateSuspect
<1>4. ASSUME NEW c \in CRs, CollectOf(c) \/ CollectFails(c) PROVE LateSuspect'
  BY <1>1, <1>4 DEF CollectOf, Collect, CollectFails
<1>5. CASE \/ DropNode \/ SkipCached \/ SkipInventoried \/ KeepChanged \/ FilterDone
           \/ MergeNode \/ MergeDone \/ NoChange \/ Send \/ Synced
  BY <1>1, <1>5 DEF DropNode, SkipCached, SkipInventoried, KeepChanged, FilterDone,
                    MergeNode, MergeDone, NoChange, Send, Synced
<1>6. CASE Answering \/ ViolaRefuses \/ PostLost
  BY <1>1, <1>6 DEF Answering, ViolaApplies, ViolaAnswers, ViolaAnswersError, ViolaRefuses,
                    PostLost
<1>7. CASE \/ \E vm \in VMs : \/ \E x \in Ifaces \cup {NoIface} : PortsChange(vm, x)
                               \/ StatusChanges(vm)
           \/ Crash \/ Handover \/ UNCHANGED vars
  BY <1>1, <1>7 DEF PortsChange, StatusChanges, Crash, Handover, ProcessEnds, vars
<1> QED
  BY <1>2, <1>3, <1>4, <1>5, <1>6, <1>7 DEF Next, Reconciling

----------------------------------------------------------------------------
(* What is recorded.                                                       *)

\* Without an inventory there is nothing in it.
InventoryUnused == ~InventoryOn => inv = Nothing /\ disk = Nothing /\ files \subseteq {Nothing}

\* What a waiting process has read was acknowledged, too.
FilesAcked ==
    \A m \in files, k \in Keys : m[k] # NoRecord => <<k, m[k].hash>> \in acked

NodeSyncInv ==
    /\ Typed
    /\ RequestInv
    /\ Posting
    /\ StraySuspect
    /\ LateSuspect
    /\ InventoryUnused
    /\ FilesAcked
    /\ RecordedWasAcked
    /\ SkipIsSound
    /\ CacheFollowsInventory

\* The two facts about a key that SkipIsSound relates.
True(store, k) == store[k] # NoRecord => /\ cluster[k] # NoRecord
                                         /\ store[k].hash = HashOf(cluster[k])

AckedAt(store, k) == store[k] # NoRecord => <<k, store[k].hash>> \in acked

LEMMA SoundByKey ==
    SkipIsSound <=> \A k \in Keys \ (suspect \cup outdated) :
                        True(cache, k) /\ True(inv, k) /\ (k \notin unsaved => True(disk, k))
BY DEF SkipIsSound, True

LEMMA AckedByKey ==
    RecordedWasAcked <=>
        \A k \in Keys : AckedAt(cache, k) /\ AckedAt(inv, k) /\ AckedAt(disk, k)
BY DEF RecordedWasAcked, AckedAt

\* The inventory never differs from the cache where filterChanged looks.
LEMMA RepairNeverRuns ==
    ASSUME Typed, CacheFollowsInventory, SkipCached
    PROVE  UNCHANGED <<cache, inv, disk, files, unsaved, suspect, outdated, acked, cluster>>
<1>1. pc # "idle" /\ nodes[i] \in Nodes
  BY ElementOfSeq DEF SkipCached, Filtering, Typed, TypeOK
<1>2. KeyOf(nodes[i]) \in Keys
  BY <1>1, ElementTyped
<1>3. InventoryOn => InventoryHit(nodes[i])
  BY <1>2 DEF SkipCached, CacheHit, CacheFollowsInventory, HasHash, InventoryHit
<1> QED
  BY <1>3 DEF SkipCached, environment

\* What recording one node of a request does.
LEMMA RecordNodeEffect ==
    ASSUME Typed, RequestInv, Posting, RecordNode
    PROVE  \E k \in Keys, e \in Entries :
             /\ <<k, e.hash>> \in acked
             /\ k \in late \/ (cluster[k] # NoRecord /\ e.hash = HashOf(cluster[k]))
             /\ cache' = [cache EXCEPT ![k] = e]
             /\ \/ /\ InventoryOn /\ inv' = [inv EXCEPT ![k] = e]
                   /\ \/ disk' = inv' /\ unsaved' = {}
                      \/ disk' = disk /\ unsaved' = unsaved \cup {k}
                   /\ files' \subseteq files \cup {disk'}
                \/ ~InventoryOn /\ UNCHANGED <<inv, disk, files, unsaved>>
             /\ suspect' = suspect \/ (k \notin late /\ suspect' = suspect \ {k})
             /\ outdated' = outdated \ {k}
             /\ UNCHANGED <<cluster, acked>>
<1>1. pc = "record" /\ i \in 1..Len(toSend)
  BY LenProperties DEF RecordNode, Typed, TypeOK
<1> DEFINE k == KeyOf(toSend[i])
           e == EntryOf(toSend[i])
<1>2. PICK l \in 1..Len(toSend) :
         /\ KeyOf(toSend[l]) = k
         /\ e.hash = HashOf(toSend[l])
         /\ \A m \in l+1..Len(toSend) : toSend[m].name # toSend[l].name
  BY <1>1, EntryTyped
<1>3. k \in Keys /\ e \in Entries
  BY <1>1, EntryTyped
<1>4. <<k, e.hash>> \in acked
  BY <1>1, <1>2 DEF Posting, AllAcked
<1>5. k \in late \/ cluster[k] = toSend[l]
  BY <1>1, <1>2 DEF Posting, Reached
<1>6. toSend[l] # NoRecord
  <2>1. toSend[l] \in Nodes
    BY ElementOfSeq DEF Typed, TypeOK
  <2> QED
    BY <2>1, NilAssumption
<1>7. cache' = [cache EXCEPT ![k] = e] /\ UNCHANGED <<cluster, acked>>
  BY DEF RecordNode, environment
<1>8. /\ suspect' = suspect \/ (k \notin late /\ suspect' = suspect \ {k})
      /\ outdated' = outdated \ {k}
  BY DEF RecordNode, Overtaken
<1>9. CASE InventoryOn
  <2>1. Upsert(k, e)
    BY <1>9 DEF RecordNode
  <2>2. /\ inv' = [inv EXCEPT ![k] = e]
        /\ \/ disk' = inv' /\ unsaved' = {}
           \/ disk' = disk /\ unsaved' = unsaved \cup {k}
        /\ files' \subseteq files \cup {disk'}
    BY <1>3, <2>1, UpsertTyped DEF Typed
  <2> QED
    BY <1>2, <1>3, <1>4, <1>5, <1>6, <1>7, <1>8, <1>9, <2>2
<1>10. CASE ~InventoryOn
  <2>1. UNCHANGED <<inv, disk, files, unsaved>>
    BY <1>10 DEF RecordNode
  <2> QED
    BY <1>2, <1>3, <1>4, <1>5, <1>6, <1>7, <1>8, <1>10, <2>1
<1> QED
  BY <1>9, <1>10

\* What a restart finds in the inventory is enough to skip a node.
LEMMA SkipInventoriedEffect ==
    ASSUME Typed, SkipInventoried
    PROVE  \E k \in Keys, e \in Entries :
             /\ InventoryOn /\ inv[k] # NoRecord /\ inv[k].hash = e.hash
             /\ cache' = [cache EXCEPT ![k] = e]
             /\ UNCHANGED <<inv, disk, files, unsaved, suspect, outdated, acked, cluster>>
<1>1. pc # "idle" /\ nodes[i] \in Nodes
  BY ElementOfSeq DEF SkipInventoried, Filtering, Typed, TypeOK
<1>2. KeyOf(nodes[i]) \in Keys /\ HashOf(nodes[i]) \in Hashes
  BY <1>1, ElementTyped
<1>3. [hash |-> HashOf(nodes[i]), node |-> nodes[i]] \in Entries
  BY <1>1, <1>2 DEF Entries
<1> QED
  BY <1>2, <1>3 DEF SkipInventoried, InventoryHit, environment, history

\* A step that records nothing, and changes the cluster only under a key with
\* a request whose outcome is open.
Keeps ==
    /\ UNCHANGED <<cache, inv, disk, files, unsaved, outdated>>
    /\ suspect \subseteq suspect'
    /\ acked \subseteq acked'
    /\ \A k \in Keys \ suspect : cluster'[k] = cluster[k]

LEMMA MostStepsKeep ==
    ASSUME Typed, Posting, StraySuspect, CacheFollowsInventory, [Next]_vars
    PROVE  Keeps \/ RecordNode \/ SkipInventoried \/ Crash \/ Handover
<1> USE DEF environment, memory, history, bounds
<1>1. CASE UNCHANGED <<cache, inv, disk, files, unsaved, suspect, outdated, acked, cluster>>
  BY <1>1 DEF Keeps
<1>2. CASE \/ \E c \in CRs : CollectOf(c) \/ CollectFails(c)
           \/ DropNode \/ KeepChanged \/ FilterDone \/ MergeNode \/ MergeDone
           \/ NoChange \/ Synced \/ ViolaAnswersError \/ ViolaRefuses \/ PostLost
           \/ \E vm \in VMs : \/ \E x \in Ifaces \cup {NoIface} : PortsChange(vm, x)
                              \/ StatusChanges(vm)
           \/ UNCHANGED vars
  BY <1>1, <1>2
     DEF CollectOf, Collect, CollectFails, DropNode, KeepChanged, FilterDone, MergeNode,
         MergeDone, NoChange, Synced, ViolaAnswersError, ViolaRefuses, PostLost,
         PortsChange, StatusChanges, vars
<1>3. CASE SkipCached
  BY <1>1, <1>3, RepairNeverRuns
<1>4. CASE Send \/ ViolaAnswers
  BY <1>4 DEF Send, ViolaAnswers, Keeps
<1>5. CASE ViolaApplies
  <2>1. /\ pc = "post" /\ i \in 1..Len(toSend)
        /\ cluster' = [cluster EXCEPT ![KeyOf(toSend[i])] = toSend[i]]
        /\ UNCHANGED <<cache, inv, disk, files, unsaved, suspect, outdated, acked>>
    BY <1>5, LenProperties DEF ViolaApplies, Typed, TypeOK
  <2>2. KeyOf(toSend[i]) \in suspect
    BY <2>1 DEF Posting, AllSuspect
  <2> QED
    BY <2>1, <2>2 DEF Keeps, Typed, TypeOK
<1>6. CASE LateViolaApplies
  <2>1. PICK d \in stray : cluster' = [cluster EXCEPT ![d[1]] = d[2]]
    BY <1>6 DEF LateViolaApplies
  <2>2. d[1] \in suspect
    BY DEF StraySuspect
  <2> QED
    BY <1>6, <2>1, <2>2 DEF LateViolaApplies, Keeps, Typed, TypeOK
<1> QED
  BY <1>2, <1>3, <1>4, <1>5, <1>6 DEF Next, Reconciling, Answering

\* What a kill or a hand-over leaves.
LEMMA EndEffect ==
    ASSUME Crash \/ Handover
    PROVE  /\ cache' = Nothing /\ unsaved' = {} /\ suspect' = suspect \cup unsaved
           /\ UNCHANGED <<cluster, acked>>
           /\ \/ /\ inv' = disk /\ UNCHANGED <<disk, outdated>> /\ files' \subseteq files
              \/ /\ inv' = Nothing /\ disk' = Nothing /\ outdated' = {}
                 /\ files' \subseteq {Nothing}
              \/ \E m \in files :
                    /\ inv' = m /\ UNCHANGED disk /\ files' \subseteq files
                    /\ outdated' = outdated \cup {k \in Keys : m[k] # disk[k]}
<1>1. /\ cache' = Nothing /\ unsaved' = {} /\ suspect' = suspect \cup unsaved
      /\ UNCHANGED <<cluster, acked>>
  BY DEF Crash, Handover, ProcessEnds
<1>2. \A S, n : ReadByWaiting(S, n) \subseteq S
  BY DEF ReadByWaiting
<1>3. CASE Crash
  BY <1>1, <1>2, <1>3
     DEF Crash, Inventory!Restart, Inventory!Lose, Inventory!Empty, Nothing
<1>4. CASE Handover
  BY <1>1, <1>2, <1>4 DEF Handover, Inventory!TakeOver
<1> QED
  BY <1>3, <1>4

LEMMA AckedNext ==
    ASSUME NodeSyncInv, [Next]_vars
    PROVE  RecordedWasAcked' /\ FilesAcked'
<1> USE DEF NodeSyncInv
<1>0. \A k \in Keys : /\ AckedAt(cache, k) /\ AckedAt(inv, k) /\ AckedAt(disk, k)
                      /\ \A m \in files : AckedAt(m, k)
  BY AckedByKey DEF FilesAcked, AckedAt
<1>1. SUFFICES ASSUME NEW k \in Keys
               PROVE  /\ (AckedAt(cache, k) /\ AckedAt(inv, k) /\ AckedAt(disk, k))'
                      /\ \A m \in files' : AckedAt(m, k)'
  BY DEF RecordedWasAcked, FilesAcked, AckedAt
<1>2. CASE Keeps
  BY <1>0, <1>2 DEF Keeps, AckedAt
<1>3. CASE RecordNode
  <2>1. PICK l \in Keys, e \in Entries :
             /\ <<l, e.hash>> \in acked
             /\ cache' = [cache EXCEPT ![l] = e]
             /\ \/ /\ inv' = [inv EXCEPT ![l] = e]
                   /\ disk' = inv' \/ disk' = disk
                   /\ files' \subseteq files \cup {disk'}
                \/ UNCHANGED <<inv, disk, files>>
             /\ UNCHANGED acked
    BY <1>3, RecordNodeEffect
  <2>2. AckedAt(cache, k)' /\ (AckedAt(inv, k) /\ AckedAt(disk, k))'
    <3>1. AckedAt(cache, k)'
      BY <1>0, <2>1 DEF AckedAt, Typed, TypeOK
    <3>2. AckedAt(inv, k)'
      BY <1>0, <2>1 DEF AckedAt, Typed, TypeOK
    <3>3. disk' = inv' \/ disk' = disk
      BY <2>1
    <3> QED
      BY <1>0, <2>1, <3>1, <3>2, <3>3 DEF AckedAt
  <2>3. ASSUME NEW m \in files' PROVE AckedAt(m, k)'
    <3>1. m \in files \/ m = disk'
      BY <2>1, <2>3
    <3>2. CASE m \in files
      BY <1>0, <2>1, <3>2 DEF AckedAt
    <3>3. CASE m = disk'
      BY <2>2, <3>3 DEF AckedAt
    <3> QED
      BY <3>1, <3>2, <3>3
  <2> QED
    BY <2>2, <2>3
<1>4. CASE SkipInventoried
  <2>1. PICK l \in Keys, e \in Entries :
             /\ inv[l] # NoRecord /\ inv[l].hash = e.hash
             /\ cache' = [cache EXCEPT ![l] = e]
             /\ UNCHANGED <<inv, disk, files, acked>>
    BY <1>4, SkipInventoriedEffect
  <2> QED
    BY <1>0, <2>1 DEF AckedAt, Typed, TypeOK
<1>5. CASE Crash \/ Handover
  <2>1. /\ cache' = Nothing /\ UNCHANGED acked
        /\ inv' \in files \cup {disk, Nothing} /\ disk' \in {disk, Nothing}
        /\ files' \subseteq files \cup {Nothing}
    BY <1>5, EndEffect
  <2>2. AckedAt(Nothing, k)
    BY DEF AckedAt, Nothing
  <2> QED
    BY <1>0, <2>1, <2>2 DEF AckedAt
<1> QED
  BY <1>2, <1>3, <1>4, <1>5, MostStepsKeep

LEMMA FollowsNext ==
    ASSUME NodeSyncInv, [Next]_vars
    PROVE  CacheFollowsInventory' /\ InventoryUnused'
<1> USE DEF NodeSyncInv
<1>1. CASE Keeps
  BY <1>1 DEF Keeps, CacheFollowsInventory, InventoryUnused, HasHash, Nothing
<1>2. CASE RecordNode
  <2>1. PICK l \in Keys, e \in Entries :
             /\ cache' = [cache EXCEPT ![l] = e]
             /\ \/ InventoryOn /\ inv' = [inv EXCEPT ![l] = e]
                \/ ~InventoryOn /\ UNCHANGED <<inv, disk, files>>
    BY <1>2, RecordNodeEffect
  <2>2. e # NoRecord
    BY NilAssumption
  <2> QED
    BY <2>1, <2>2 DEF CacheFollowsInventory, InventoryUnused, HasHash, Nothing, Typed, TypeOK
<1>3. CASE SkipInventoried
  <2>1. PICK l \in Keys, e \in Entries :
             /\ InventoryOn /\ inv[l] # NoRecord /\ inv[l].hash = e.hash
             /\ cache' = [cache EXCEPT ![l] = e]
             /\ UNCHANGED <<inv, disk, files>>
    BY <1>3, SkipInventoriedEffect
  <2> QED
    BY <2>1 DEF CacheFollowsInventory, InventoryUnused, HasHash, Typed, TypeOK
<1>4. CASE Crash \/ Handover
  <2>1. /\ cache' = Nothing
        /\ inv' \in files \cup {disk, Nothing} /\ disk' \in {disk, Nothing}
        /\ files' \subseteq files \cup {Nothing}
    BY <1>4, EndEffect
  <2>2. \A k \in Keys : cache'[k] = NoRecord
    BY <2>1 DEF Nothing
  <2>3. InventoryUnused'
    BY <2>1 DEF InventoryUnused, Nothing
  <2> QED
    BY <2>2, <2>3 DEF CacheFollowsInventory
<1> QED
  BY <1>1, <1>2, <1>3, <1>4, MostStepsKeep

LEMMA SoundNext ==
    ASSUME NodeSyncInv, [Next]_vars
    PROVE  SkipIsSound'
<1> USE DEF NodeSyncInv
<1>0. \A k \in Keys \ (suspect \cup outdated) :
          True(cache, k) /\ True(inv, k) /\ (k \notin unsaved => True(disk, k))
  BY SoundByKey
<1>1. SUFFICES ASSUME NEW k \in Keys, k \notin suspect', k \notin outdated'
               PROVE  (True(cache, k) /\ True(inv, k) /\ (k \notin unsaved => True(disk, k)))'
  BY DEF SkipIsSound, True
<1>2. CASE Keeps
  <2>1. cluster'[k] = cluster[k] /\ k \notin suspect /\ k \notin outdated
    BY <1>1, <1>2 DEF Keeps
  <2> QED
    BY <1>0, <1>2, <2>1 DEF Keeps, True, HashOf
<1>3. CASE RecordNode
  <2>1. PICK l \in Keys, e \in Entries :
             /\ l \in late \/ (cluster[l] # NoRecord /\ e.hash = HashOf(cluster[l]))
             /\ cache' = [cache EXCEPT ![l] = e]
             /\ \/ /\ InventoryOn /\ inv' = [inv EXCEPT ![l] = e]
                   /\ \/ disk' = inv' /\ unsaved' = {}
                      \/ disk' = disk /\ unsaved' = unsaved \cup {l}
                \/ ~InventoryOn /\ UNCHANGED <<inv, disk, unsaved>>
             /\ suspect' = suspect \/ (l \notin late /\ suspect' = suspect \ {l})
             /\ outdated' = outdated \ {l}
             /\ UNCHANGED cluster
    BY <1>3, RecordNodeEffect
  <2>2. CASE k # l
    <3>1. k \notin suspect /\ k \notin outdated
      BY <1>1, <2>1, <2>2
    <3>2. /\ cache'[k] = cache[k] /\ inv'[k] = inv[k] /\ cluster'[k] = cluster[k]
          /\ disk'[k] = disk[k] \/ disk'[k] = inv[k]
          /\ k \notin unsaved' /\ disk'[k] = disk[k] /\ disk'[k] # inv[k] => k \notin unsaved
      BY <2>1, <2>2 DEF Typed, TypeOK
    <3> QED
      BY <1>0, <3>1, <3>2 DEF True, HashOf
  <2>3. CASE k = l
    <3>1. l \notin late
      BY <1>1, <2>1, <2>3 DEF LateSuspect
    <3>2. cluster'[k] # NoRecord /\ e.hash = HashOf(cluster[k]) /\ cluster' = cluster
      BY <2>1, <2>3, <3>1
    <3>3. cache'[k] = e
      BY <2>1, <2>3 DEF Typed, TypeOK
    <3>4. CASE InventoryOn
      <4>1. inv'[k] = e /\ (disk' = inv' \/ k \in unsaved')
        BY <2>1, <2>3, <3>4 DEF Typed, TypeOK
      <4> QED
        BY <3>2, <3>3, <4>1 DEF True, HashOf
    <3>5. CASE ~InventoryOn
      <4>1. inv'[k] = NoRecord /\ disk'[k] = NoRecord
        BY <2>1, <3>5 DEF InventoryUnused, Nothing
      <4> QED
        BY <3>2, <3>3, <4>1 DEF True, HashOf
    <3> QED
      BY <3>4, <3>5
  <2> QED
    BY <2>2, <2>3
<1>4. CASE SkipInventoried
  <2>1. PICK l \in Keys, e \in Entries :
             /\ inv[l] # NoRecord /\ inv[l].hash = e.hash
             /\ cache' = [cache EXCEPT ![l] = e]
             /\ UNCHANGED <<inv, disk, unsaved, suspect, outdated, cluster>>
    BY <1>4, SkipInventoriedEffect
  <2> QED
    BY <1>0, <1>1, <2>1 DEF True, HashOf, Typed, TypeOK
<1>5. CASE Crash \/ Handover
  <2>1. /\ cache' = Nothing /\ unsaved' = {} /\ suspect' = suspect \cup unsaved
        /\ UNCHANGED cluster
    BY <1>5, EndEffect
  <2>2. True(Nothing, k)' /\ k \notin suspect /\ k \notin unsaved
    BY <1>1, <2>1 DEF True, Nothing
  <2>3. CASE inv' = Nothing /\ disk' = Nothing
    BY <2>1, <2>2, <2>3 DEF True
  <2>4. CASE /\ k \notin outdated /\ disk' = disk /\ inv'[k] = disk[k]
    BY <1>0, <2>1, <2>2, <2>4 DEF True, HashOf
  <2>5. \/ inv' = Nothing /\ disk' = Nothing
        \/ k \notin outdated /\ disk' = disk /\ inv'[k] = disk[k]
    BY <1>1, <1>5, EndEffect
  <2> QED
    BY <2>3, <2>4, <2>5
<1> QED
  BY <1>2, <1>3, <1>4, <1>5, MostStepsKeep

----------------------------------------------------------------------------
(* Theorems.                                                               *)

LEMMA InitInv == Init => NodeSyncInv
<1> SUFFICES ASSUME Init PROVE NodeSyncInv
  OBVIOUS
<1>1. Typed
  BY InitTyped
<1>2. toSend = <<>> /\ Len(toSend) = 0 /\ hashes = NoHashes
  BY DEF Init
<1>3. RequestInv
  BY <1>2 DEF RequestInv, HashKept, NamesHashed, NoHashes
<1>4. Posting /\ StraySuspect /\ LateSuspect
  BY DEF Init, Posting, StraySuspect, LateSuspect
<1>5. InventoryUnused /\ CacheFollowsInventory
  BY DEF Init, InventoryUnused, CacheFollowsInventory, ReadByWaiting, Nothing
<1>6. RecordedWasAcked /\ FilesAcked /\ SkipIsSound
  BY AckedByKey, SoundByKey DEF Init, AckedAt, FilesAcked, ReadByWaiting, True, Nothing
<1> QED
  BY <1>1, <1>3, <1>4, <1>5, <1>6 DEF NodeSyncInv

LEMMA NextInv == NodeSyncInv /\ [Next]_vars => NodeSyncInv'
<1> SUFFICES ASSUME NodeSyncInv, [Next]_vars PROVE NodeSyncInv'
  OBVIOUS
<1>1. Typed' /\ RequestInv'
  BY TypedNext, RequestNext DEF NodeSyncInv
<1>2. Posting' /\ StraySuspect' /\ LateSuspect'
  BY PostingNext, LateSuspectNext DEF NodeSyncInv
<1>3. /\ InventoryUnused' /\ CacheFollowsInventory' /\ RecordedWasAcked' /\ FilesAcked'
      /\ SkipIsSound'
  BY FollowsNext, AckedNext, SoundNext
<1> QED
  BY <1>1, <1>2, <1>3 DEF NodeSyncInv

\* The inductive invariant of the core: the types, what the request under way
\* has reached, and what is recorded.
THEOREM CoreInvariant == Spec => []NodeSyncInv
BY InitInv, NextInv, PTL DEF Spec

\* Every variable keeps its type.
THEOREM CoreTyped == Spec => []TypeOK
<1>1. NodeSyncInv => TypeOK
  BY DEF NodeSyncInv, Typed
<1> QED
  BY <1>1, CoreInvariant, PTL

\* Reconcile, with its order of request, setCache and Upsert, never records a
\* config that Viola has not acknowledged, whatever fails or is killed.
THEOREM RecordsAreAcked == Spec => []RecordedWasAcked
<1>1. NodeSyncInv => RecordedWasAcked
  BY DEF NodeSyncInv
<1> QED
  BY <1>1, CoreInvariant, PTL

\* What filterChanged skips is in the cluster, but for the keys whose last
\* request has no recorded outcome, or that a new leader read too early.
THEOREM SkippingIsSound == Spec => []SkipIsSound
<1>1. NodeSyncInv => SkipIsSound
  BY DEF NodeSyncInv
<1> QED
  BY <1>1, CoreInvariant, PTL

\* The cache has no hash the inventory has not, so the repairing Upsert of
\* filterChanged never runs.
THEOREM CacheNeverLeads == Spec => []CacheFollowsInventory
<1>1. NodeSyncInv => CacheFollowsInventory
  BY DEF NodeSyncInv
<1> QED
  BY <1>1, CoreInvariant, PTL

----------------------------------------------------------------------------
(* Records and their own configs.                                          *)

NamedOnce(s) == \A j, k \in 1..Len(s) : s[j].name = s[k].name => j = k

\* While the request is collected, its names are those of nodes already seen.
SentWasSeen ==
    pc = "filter" => \A j \in 1..Len(toSend) :
        \E l \in 1..Len(nodes) : l < i /\ nodes[l].name = toSend[j].name

CoherentAt(store, k) ==
    store[k] # NoRecord => /\ store[k].hash = HashOf(store[k].node)
                           /\ store[k].node.name = k[2]

StoresCoherent ==
    \A k \in Keys : /\ CoherentAt(cache, k) /\ CoherentAt(inv, k) /\ CoherentAt(disk, k)
                    /\ \A m \in files : CoherentAt(m, k)

RecordsInv == NamedOnce(nodes) /\ NamedOnce(toSend) /\ SentWasSeen /\ StoresCoherent

LEMMA NodesNamedOnce ==
    ASSUME DistinctNames, NEW c \in CRs, NEW unnamed
    PROVE  NamedOnce(NodesOf(c, unnamed))
<1> DEFINE s == NodesOf(c, unnamed)
<1>1. Len(VmsOf[c]) \in Nat
  BY NodeSyncAssumption, LenProperties
<1>2. /\ Len(s) = Len(VmsOf[c])
      /\ \A j \in 1..Len(VmsOf[c]) : s[j].name \in {VmsOf[c][j], ServerName[VmsOf[c][j]]}
  <2>1. DOMAIN s = 1..Len(VmsOf[c])
    BY DEF NodesOf
  <2>2. \A j \in 1..Len(VmsOf[c]) : s[j].name \in {VmsOf[c][j], ServerName[VmsOf[c][j]]}
    BY DEF NodesOf
  <2>3. s \in Seq({s[j] : j \in 1..Len(VmsOf[c])})
    <3>1. s \in [1..Len(VmsOf[c]) -> {s[j] : j \in 1..Len(VmsOf[c])}]
      BY DEF NodesOf
    <3> QED
      BY <1>1, <3>1, SeqDef
  <2> QED
    BY <1>1, <2>1, <2>2, <2>3, LenProperties
<1>3. SUFFICES ASSUME NEW j \in 1..Len(s), NEW k \in 1..Len(s), s[j].name = s[k].name
               PROVE  j = k
  BY DEF NamedOnce
<1> HIDE DEF s
<1>4. j \in 1..Len(VmsOf[c]) /\ k \in 1..Len(VmsOf[c])
  BY <1>2
<1>5. s[j].name \in {VmsOf[c][j], ServerName[VmsOf[c][j]]}
                    \cap {VmsOf[c][k], ServerName[VmsOf[c][k]]}
  BY <1>2, <1>3, <1>4
<1> QED
  BY <1>4, <1>5 DEF DistinctNames

\* A request stays without a name twice when a node with a new name joins.
LEMMA AppendNamedOnce ==
    ASSUME Typed, NamedOnce(toSend), NEW n \in Nodes,
           toSend' = Append(toSend, n),
           \A j \in 1..Len(toSend) : toSend[j].name # n.name
    PROVE  /\ NamedOnce(toSend)'
           /\ Len(toSend') = Len(toSend) + 1 /\ toSend'[Len(toSend) + 1] = n
           /\ \A j \in 1..Len(toSend) : toSend'[j] = toSend[j]
           /\ Len(toSend) \in Nat
<1>1. /\ Len(toSend) \in Nat /\ Len(toSend') = Len(toSend) + 1
      /\ \A j \in 1..Len(toSend) : toSend'[j] = toSend[j]
      /\ toSend'[Len(toSend) + 1] = n
  BY AppendProperties, LenProperties DEF Typed, TypeOK
<1>2. \A j \in 1..Len(toSend') : j \in 1..Len(toSend) \/ j = Len(toSend) + 1
  BY <1>1
<1> QED
  BY <1>1, <1>2 DEF NamedOnce

\* The request, by the steps that build it.
LEMMA NamesNext ==
    ASSUME DistinctNames, NodeSyncInv, RecordsInv, [Next]_vars
    PROVE  NamedOnce(nodes)' /\ NamedOnce(toSend)' /\ SentWasSeen'
<1> USE DEF NodeSyncInv, RecordsInv, locals
<1>1. CASE \E c \in CRs : CollectOf(c)
  <2>1. PICK c \in CRs : \E unnamed, due : Collect(c, unnamed, due)
    BY <1>1 DEF CollectOf
  <2>2. PICK unnamed : nodes' = NodesOf(c, unnamed) /\ toSend' = <<>> /\ Len(toSend') = 0
    BY <2>1 DEF Collect, Typed
  <2>3. NamedOnce(nodes')
    BY <2>2, NodesNamedOnce
  <2> QED
    BY <2>2, <2>3 DEF NamedOnce, SentWasSeen
<1>2. CASE DropNode \/ SkipCached \/ SkipInventoried
  <2>1. UNCHANGED <<nodes, toSend, pc>> /\ i' = i + 1 /\ i \in Nat
    BY <1>2 DEF DropNode, SkipCached, SkipInventoried, Typed, TypeOK
  <2>2. ASSUME NEW l \in 1..Len(nodes), l < i PROVE l < i + 1
    BY <2>1, <2>2, LenProperties DEF Typed, TypeOK
  <2> QED
    BY <2>1, <2>2 DEF NamedOnce, SentWasSeen
<1>3. CASE KeepChanged
  <2>1. /\ pc = "filter" /\ UNCHANGED <<nodes, pc>> /\ i' = i + 1 /\ i \in 1..Len(nodes)
        /\ i \in Nat /\ Len(nodes) \in Nat /\ nodes[i] \in Nodes
        /\ toSend' = Append(toSend, nodes[i])
    BY <1>3, LenProperties, ElementOfSeq DEF KeepChanged, Filtering, Typed, TypeOK
  <2>2. \A j \in 1..Len(toSend) : toSend[j].name # nodes[i].name
    BY <2>1 DEF SentWasSeen, NamedOnce
  <2>3. /\ NamedOnce(toSend)'
        /\ Len(toSend') = Len(toSend) + 1 /\ toSend'[Len(toSend) + 1] = nodes[i]
        /\ \A j \in 1..Len(toSend) : toSend'[j] = toSend[j]
        /\ Len(toSend) \in Nat
    BY <2>1, <2>2, AppendNamedOnce
  <2>4. SentWasSeen'
    <3>1. SUFFICES ASSUME NEW j \in 1..Len(toSend')
                   PROVE  \E l \in 1..Len(nodes) : l < i + 1 /\ nodes[l].name = toSend'[j].name
      BY <2>1 DEF SentWasSeen
    <3>2. CASE j \in 1..Len(toSend)
      <4>1. PICK l \in 1..Len(nodes) : l < i /\ nodes[l].name = toSend[j].name
        BY <2>1, <3>2 DEF SentWasSeen
      <4>2. l < i + 1 /\ toSend'[j] = toSend[j]
        BY <2>1, <2>3, <3>2, <4>1
      <4> QED
        BY <4>1, <4>2
    <3>3. CASE j = Len(toSend) + 1
      BY <2>1, <2>3, <3>3
    <3> QED
      BY <2>3, <3>1, <3>2, <3>3
  <2> QED
    BY <2>1, <2>3, <2>4 DEF NamedOnce
<1>4. CASE MergeNode
  <2>1. /\ pc = "merge" /\ UNCHANGED <<nodes, pc>> /\ nodes[i] \in Nodes
    BY <1>4, LenProperties, ElementOfSeq DEF MergeNode, Typed, TypeOK
  <2>2. CASE Merged(nodes[i])
    <3>1. NamedOnce(toSend)'
      BY <1>4, <2>1, <2>2, AppendNamedOnce DEF MergeNode, Merged
    <3> QED
      BY <2>1, <3>1 DEF NamedOnce, SentWasSeen
  <2>3. CASE ~Merged(nodes[i])
    BY <1>4, <2>1, <2>3 DEF MergeNode, NamedOnce, SentWasSeen
  <2> QED
    BY <2>2, <2>3
<1>5. CASE NoChange \/ Synced \/ ViolaAnswersError \/ PostLost \/ Crash \/ Handover
  <2>1. Return
    BY <1>5 DEF NoChange, Synced, ViolaAnswersError, PostLost, Crash, Handover, ProcessEnds
  <2>2. nodes' = <<>> /\ toSend' = <<>> /\ pc' = "idle"
    BY <2>1 DEF Return
  <2>3. Len(nodes') = 0 /\ Len(toSend') = 0
    BY <2>2
  <2> QED
    BY <2>2, <2>3 DEF NamedOnce, SentWasSeen
<1>6. CASE \/ UNCHANGED <<nodes, toSend, pc, i>>
           \/ UNCHANGED <<nodes, toSend>> /\ pc' # "filter"
  BY <1>6 DEF NamedOnce, SentWasSeen
<1>7. CASE \/ FilterDone \/ MergeDone \/ Send \/ RecordNode
           \/ ViolaApplies \/ ViolaAnswers \/ ViolaRefuses
  BY <1>6, <1>7 DEF FilterDone, MergeDone, Send, RecordNode, ViolaApplies, ViolaAnswers,
                    ViolaRefuses
<1>8. CASE \/ \E c \in CRs : CollectFails(c)
           \/ LateViolaApplies
           \/ \E vm \in VMs : \/ \E x \in Ifaces \cup {NoIface} : PortsChange(vm, x)
                              \/ StatusChanges(vm)
           \/ UNCHANGED vars
  BY <1>6, <1>8 DEF CollectFails, LateViolaApplies, PortsChange, StatusChanges, vars
<1> QED
  BY <1>1, <1>2, <1>3, <1>4, <1>5, <1>7, <1>8 DEF Next, Reconciling, Answering

\* What is written for a node of the request is its own config and hash.
LEMMA RecordNodeCoherent ==
    ASSUME NodeSyncInv, NamedOnce(toSend), RecordNode
    PROVE  \E k \in Keys, e \in Entries :
             /\ e.hash = HashOf(e.node) /\ e.node.name = k[2]
             /\ cache' = [cache EXCEPT ![k] = e]
             /\ \/ /\ inv' = [inv EXCEPT ![k] = e]
                   /\ disk' = inv' \/ disk' = disk
                   /\ files' \subseteq files \cup {disk'}
                \/ UNCHANGED <<inv, disk, files>>
<1> USE DEF NodeSyncInv
<1>1. pc = "record" /\ i \in 1..Len(toSend)
  BY LenProperties DEF RecordNode, Typed, TypeOK
<1> DEFINE k == KeyOf(toSend[i])
           e == EntryOf(toSend[i])
<1>2. k \in Keys /\ e \in Entries
  BY <1>1, EntryTyped
<1>3. hashes[toSend[i].name] = HashOf(toSend[i])
  BY <1>1 DEF RequestInv, HashKept, NamedOnce
<1>4. e.hash = HashOf(e.node) /\ e.node.name = k[2]
  BY <1>3 DEF EntryOf, KeyOf
<1>5. cache' = [cache EXCEPT ![k] = e]
  BY DEF RecordNode
<1>6. CASE InventoryOn
  <2>1. Upsert(k, e)
    BY <1>6 DEF RecordNode
  <2>2. /\ inv' = [inv EXCEPT ![k] = e]
        /\ disk' = inv' \/ disk' = disk
        /\ files' \subseteq files \cup {disk'}
    BY <1>2, <2>1, UpsertTyped DEF Typed
  <2> QED
    BY <1>2, <1>4, <1>5, <2>2
<1>7. CASE ~InventoryOn
  <2>1. UNCHANGED <<inv, disk, files>>
    BY <1>7 DEF RecordNode
  <2> QED
    BY <1>2, <1>4, <1>5, <2>1
<1> QED
  BY <1>6, <1>7

\* And so is what filterChanged caches of an inventoried node.
LEMMA SkipInventoriedCoherent ==
    ASSUME NodeSyncInv, SkipInventoried
    PROVE  \E k \in Keys, e \in Entries :
             /\ e.hash = HashOf(e.node) /\ e.node.name = k[2]
             /\ cache' = [cache EXCEPT ![k] = e]
             /\ UNCHANGED <<inv, disk, files>>
<1> USE DEF NodeSyncInv
<1>1. pc # "idle" /\ nodes[i] \in Nodes
  BY ElementOfSeq DEF SkipInventoried, Filtering, Typed, TypeOK
<1> DEFINE k == KeyOf(nodes[i])
           e == [hash |-> HashOf(nodes[i]), node |-> nodes[i]]
<1>2. k \in Keys /\ e \in Entries
  BY <1>1, ElementTyped DEF Entries
<1>3. e.hash = HashOf(e.node) /\ e.node.name = k[2]
  BY DEF KeyOf
<1>4. cache' = [cache EXCEPT ![k] = e] /\ UNCHANGED <<inv, disk, files>>
  BY DEF SkipInventoried
<1> QED
  BY <1>2, <1>3, <1>4

LEMMA StoresNext ==
    ASSUME NodeSyncInv, RecordsInv, [Next]_vars
    PROVE  StoresCoherent'
<1> USE DEF NodeSyncInv, RecordsInv
<1>1. SUFFICES ASSUME NEW k \in Keys
               PROVE  /\ (CoherentAt(cache, k) /\ CoherentAt(inv, k) /\ CoherentAt(disk, k))'
                      /\ \A m \in files' : CoherentAt(m, k)'
  BY DEF StoresCoherent, CoherentAt, HashOf
<1>2. /\ CoherentAt(cache, k) /\ CoherentAt(inv, k) /\ CoherentAt(disk, k)
      /\ \A m \in files : CoherentAt(m, k)
  BY DEF StoresCoherent
<1>3. CASE Keeps
  BY <1>2, <1>3 DEF Keeps, CoherentAt, HashOf
<1>4. CASE RecordNode
  <2>1. PICK l \in Keys, e \in Entries :
             /\ e.hash = HashOf(e.node) /\ e.node.name = l[2]
             /\ cache' = [cache EXCEPT ![l] = e]
             /\ \/ /\ inv' = [inv EXCEPT ![l] = e]
                   /\ disk' = inv' \/ disk' = disk
                   /\ files' \subseteq files \cup {disk'}
                \/ UNCHANGED <<inv, disk, files>>
    BY <1>4, RecordNodeCoherent
  <2>2. cache'[k] = cache[k] \/ (k = l /\ cache'[k] = e)
    BY <2>1 DEF Typed, TypeOK
  <2>3. inv'[k] = inv[k] \/ (k = l /\ inv'[k] = e)
    BY <2>1 DEF Typed, TypeOK
  <2>4. CoherentAt(cache, k)' /\ CoherentAt(inv, k)'
    BY <1>2, <2>1, <2>2, <2>3 DEF CoherentAt, HashOf
  <2>5. CoherentAt(disk, k)'
    BY <1>2, <2>1, <2>4 DEF CoherentAt, HashOf
  <2>6. ASSUME NEW m \in files' PROVE CoherentAt(m, k)'
    <3>1. m \in files \/ m = disk'
      BY <2>1, <2>6
    <3> QED
      BY <1>2, <2>5, <3>1 DEF CoherentAt, HashOf
  <2> QED
    BY <2>4, <2>5, <2>6
<1>5. CASE SkipInventoried
  <2>1. PICK l \in Keys, e \in Entries :
             /\ e.hash = HashOf(e.node) /\ e.node.name = l[2]
             /\ cache' = [cache EXCEPT ![l] = e]
             /\ UNCHANGED <<inv, disk, files>>
    BY <1>5, SkipInventoriedCoherent
  <2>2. cache'[k] = cache[k] \/ (k = l /\ cache'[k] = e)
    BY <2>1 DEF Typed, TypeOK
  <2> QED
    BY <1>2, <2>1, <2>2 DEF CoherentAt, HashOf
<1>6. CASE Crash \/ Handover
  <2>1. /\ cache' = Nothing
        /\ inv' \in files \cup {disk, Nothing} /\ disk' \in {disk, Nothing}
        /\ files' \subseteq files \cup {Nothing}
    BY <1>6, EndEffect
  <2>2. Nothing[k] = NoRecord
    BY DEF Nothing
  <2> QED
    BY <1>2, <2>1, <2>2 DEF CoherentAt, HashOf
<1> QED
  BY <1>3, <1>4, <1>5, <1>6, MostStepsKeep

LEMMA RecordsInit == Init => RecordsInv
<1> SUFFICES ASSUME Init PROVE RecordsInv
  OBVIOUS
<1>1. Len(nodes) = 0 /\ Len(toSend) = 0 /\ pc = "idle"
  BY DEF Init
<1>2. StoresCoherent
  BY DEF Init, StoresCoherent, CoherentAt, Nothing, ReadByWaiting
<1> QED
  BY <1>1, <1>2 DEF RecordsInv, NamedOnce, SentWasSeen

\* With distinct names, cache, inventory and file keep for each node its own
\* config and the hash of this config.
THEOREM RecordsStayCoherent == ASSUME DistinctNames PROVE Spec => []RecordsAreCoherent
<1>1. NodeSyncInv /\ RecordsInv /\ [Next]_vars => RecordsInv'
  BY NamesNext, StoresNext DEF RecordsInv
<1>2. RecordsInv => RecordsAreCoherent
  BY DEF RecordsInv, StoresCoherent, CoherentAt, RecordsAreCoherent
<1> QED
  BY <1>1, <1>2, RecordsInit, CoreInvariant, PTL DEF Spec

----------------------------------------------------------------------------
(* What a request has to have, and what Ready means.                       *)

InRequest(n) == \E m \in 1..Len(toSend) : toSend[m] = n

Changed == \E j \in 1..Len(nodes) : ~Dropped(nodes[j]) /\ ~Known(nodes[j])

FromNodes ==
    \A m \in 1..Len(toSend) : \E j \in 1..Len(nodes) : toSend[m] = nodes[j] /\ ~Dropped(nodes[j])

\* The node that is the j-th is in the request when it has to be.
FilteredAt(j) == InRequest(nodes[j]) <=> ~Known(nodes[j])

MergedAt(j) ==
    InRequest(nodes[j]) <=> ~Known(nodes[j]) \/ (j < i /\ nodes[j].name \in DownNames)

DecidedAt(j) ==
    InRequest(nodes[j]) <=> /\ retryDue \/ Changed
                            /\ ~Known(nodes[j]) \/ nodes[j].name \in DownNames

RecordedAt(j) ==
    Known(nodes[j]) \/ \E m \in 1..Len(toSend) : m >= i /\ toSend[m] = nodes[j]

Kept == {j \in 1..Len(nodes) : ~Dropped(nodes[j])}

NeededInv ==
    /\ FromNodes
    /\ pc = "filter" => \A j \in Kept : j < i => FilteredAt(j)
    /\ pc = "merge" => (retryDue \/ Changed) /\ \A j \in Kept : MergedAt(j)
    /\ pc = "decide" => \A j \in Kept : DecidedAt(j)
    /\ pc = "post" => \A j \in Kept : Known(nodes[j]) \/ InRequest(nodes[j])
    /\ pc = "record" => \A j \in Kept : RecordedAt(j)

\* What all these steps start from.
Begun == NodeSyncInv /\ RecordsInv /\ NeededInv

LEMMA BegunTypes ==
    ASSUME Begun
    PROVE  /\ i \in Nat /\ i >= 1 /\ Len(nodes) \in Nat /\ Len(toSend) \in Nat
           /\ \A j \in 1..Len(nodes) : nodes[j] \in Nodes
           /\ \A j \in 1..Len(toSend) : toSend[j] \in Nodes
           /\ NamedOnce(nodes) /\ NamedOnce(toSend)
           /\ cache \in [Keys -> Entries \cup {NoRecord}]
BY LenProperties, ElementOfSeq DEF Begun, NodeSyncInv, RecordsInv, Typed, TypeOK

LEMMA SameNeeds ==
    ASSUME NeededInv, UNCHANGED <<cr, pc, i, cache, nodes, toSend, seenDown, retryDue>>
    PROVE  NeededInv'
<1>1. \A n : (Known(n)' <=> Known(n)) /\ (InRequest(n)' <=> InRequest(n))
  BY DEF Known, HasHash, KeyOf, HashOf, InRequest
<1>2. Kept' = Kept /\ DownNames' = DownNames /\ (FromNodes' <=> FromNodes)
  BY DEF Kept, DownNames, FromNodes, Dropped
<1>3. Changed' <=> Changed
  BY <1>1 DEF Changed, Dropped
<1>4. ASSUME NEW j
      PROVE  /\ FilteredAt(j)' <=> FilteredAt(j)
             /\ MergedAt(j)' <=> MergedAt(j)
             /\ DecidedAt(j)' <=> DecidedAt(j)
             /\ (Known(nodes[j]) \/ InRequest(nodes[j]))' <=> (Known(nodes[j]) \/ InRequest(nodes[j]))
             /\ RecordedAt(j)' <=> RecordedAt(j)
  BY <1>1, <1>2, <1>3 DEF FilteredAt, MergedAt, DecidedAt, RecordedAt
<1> QED
  BY <1>2, <1>3, <1>4 DEF NeededInv

\* Without nodes there is nothing to need.
LEMMA NoNeeds ==
    ASSUME nodes' = <<>>, toSend' = <<>>, pc' = "idle"
    PROVE  NeededInv'
<1>1. Len(toSend') = 0
  BY DEF Len
<1> QED
  BY <1>1 DEF NeededInv, FromNodes

LEMMA CollectNeeds ==
    ASSUME Begun, NEW c \in CRs, CollectOf(c)
    PROVE  NeededInv'
<1>1. /\ pc' = "filter" /\ i' = 1 /\ toSend' = <<>>
  BY DEF CollectOf, Collect, Begun, NodeSyncInv, Typed
<1>2. Len(toSend') = 0
  BY <1>1
<1>3. \A j \in Kept' : ~(j < i')
  BY <1>1 DEF Kept
<1> QED
  BY <1>1, <1>2, <1>3 DEF NeededInv, FromNodes

\* No node that is still to be filtered is in the request.
LEMMA NotYetSent ==
    ASSUME Begun, Filtering
    PROVE  /\ i \in 1..Len(nodes)
           /\ \A m \in 1..Len(toSend) : toSend[m].name # nodes[i].name
           /\ ~InRequest(nodes[i])
<1>1. i \in 1..Len(nodes)
  BY BegunTypes DEF Filtering
<1>2. ASSUME NEW m \in 1..Len(toSend), toSend[m].name = nodes[i].name PROVE FALSE
  <2>1. PICK l \in 1..Len(nodes) : l < i /\ nodes[l].name = toSend[m].name
    BY DEF Begun, RecordsInv, SentWasSeen, Filtering
  <2> QED
    BY <1>1, <1>2, <2>1, BegunTypes DEF NamedOnce
<1> QED
  BY <1>1, <1>2 DEF InRequest

LEMMA SkipNeeds ==
    ASSUME Begun, DropNode \/ SkipCached \/ SkipInventoried
    PROVE  NeededInv'
<1>1. /\ Filtering /\ pc = "filter" /\ i' = i + 1
      /\ UNCHANGED <<cr, pc, nodes, toSend>>
  BY DEF DropNode, SkipCached, SkipInventoried, Filtering
<1>2. PICK h \in 1..Len(nodes) : h = i /\ ~InRequest(nodes[h])
  BY <1>1, NotYetSent
<1>3. \A n : InRequest(n)' <=> InRequest(n)
  BY <1>1 DEF InRequest
<1>4. ASSUME NEW j \in Kept, j < i PROVE FilteredAt(j)
  BY <1>1, <1>4 DEF Begun, NeededInv
<1>5. \A j \in Kept : j < i + 1 => j < i \/ j = i
  BY BegunTypes DEF Kept
<1>6. \A n : /\ KeyOf(n)' = KeyOf(n) /\ HashOf(n)' = HashOf(n)
  BY <1>1 DEF KeyOf, HashOf
<1>7. /\ \A j \in Kept : j < i => (Known(nodes[j])' <=> Known(nodes[j]))
      /\ h \in Kept => Known(nodes[h])'
  <2>1. CASE DropNode
    <3>1. UNCHANGED cache /\ Dropped(nodes[h])
      BY <1>2, <2>1 DEF DropNode, memory
    <3> QED
      BY <3>1, <1>1, <1>6 DEF Kept, Known, HasHash
  <2>2. CASE SkipCached
    <3>1. UNCHANGED cache /\ CacheHit(nodes[h])
      BY <1>2, <2>2, RepairNeverRuns DEF SkipCached, Begun, NodeSyncInv
    <3> QED
      BY <3>1, <1>1, <1>6 DEF CacheHit, Known, HasHash
  <2>3. CASE SkipInventoried
    <3> DEFINE e == [hash |-> HashOf(nodes[h]), node |-> nodes[h]]
    <3>1. cache' = [cache EXCEPT ![KeyOf(nodes[h])] = e]
      BY <1>2, <2>3 DEF SkipInventoried
    <3>2. KeyOf(nodes[h]) \in Keys /\ e \in Entries
      <4>1. nodes[h] \in Nodes /\ pc # "idle"
        BY <1>1, <1>2, BegunTypes
      <4> QED
        BY <4>1, ElementTyped DEF Entries, Begun, NodeSyncInv
    <3>3. e # NoRecord /\ e.hash = HashOf(nodes[h])
      BY <3>2, NilAssumption
    <3> HIDE DEF e
    <3>4. Known(nodes[h])'
      BY <3>1, <3>2, <3>3, <1>1, <1>6, BegunTypes DEF Known, HasHash
    <3>5. ASSUME NEW j \in Kept, j < i PROVE Known(nodes[j])' <=> Known(nodes[j])
      <4>1. nodes[j].name # nodes[h].name
        BY <1>2, <3>5, BegunTypes DEF NamedOnce, Kept
      <4>2. KeyOf(nodes[j]) # KeyOf(nodes[h])
        BY <4>1 DEF KeyOf
      <4>3. cache'[KeyOf(nodes[j])] = cache[KeyOf(nodes[j])]
        BY <4>2, <3>1, <3>2, BegunTypes
      <4> QED
        BY <4>3, <1>1, <1>6 DEF Known, HasHash
    <3> QED
      BY <3>4, <3>5
  <2> QED
    BY <2>1, <2>2, <2>3
<1>8. Kept' = Kept
  BY <1>1 DEF Kept, Dropped
<1>9. ASSUME NEW j \in Kept', j < i' PROVE FilteredAt(j)'
  <2>1. InRequest(nodes[j])' <=> InRequest(nodes[j])
    BY <1>1 DEF InRequest
  <2>2. CASE j < i
    BY <2>1, <2>2, <1>4, <1>7, <1>8 DEF FilteredAt
  <2>3. CASE j = i
    BY <2>1, <2>3, <1>2, <1>7, <1>8 DEF FilteredAt
  <2> QED
    BY <2>2, <2>3, <1>1, <1>5, <1>8, <1>9
<1>10. FromNodes'
  BY <1>1 DEF Begun, NeededInv, FromNodes, Dropped
<1> QED
  BY <1>1, <1>9, <1>10 DEF NeededInv

LEMMA KeepChangedNeeds ==
    ASSUME Begun, KeepChanged
    PROVE  NeededInv'
<1>1. /\ Filtering /\ pc = "filter" /\ i' = i + 1 /\ ~Dropped(nodes[i]) /\ ~CacheHit(nodes[i])
      /\ UNCHANGED <<cr, pc, nodes, cache>> /\ toSend' = Append(toSend, nodes[i])
  BY DEF KeepChanged, Filtering, memory
<1>2. PICK h \in 1..Len(nodes) : h = i /\ \A m \in 1..Len(toSend) : toSend[m].name # nodes[h].name
  BY <1>1, NotYetSent
<1>3. nodes[h] \in Nodes
  BY BegunTypes
<1>4. /\ Len(toSend') = Len(toSend) + 1 /\ toSend'[Len(toSend) + 1] = nodes[h]
      /\ \A m \in 1..Len(toSend) : toSend'[m] = toSend[m]
      /\ Len(toSend) \in Nat
  BY <1>1, <1>2, <1>3, AppendNamedOnce DEF Begun, NodeSyncInv, RecordsInv
<1>5. \A n : InRequest(n)' <=> InRequest(n) \/ n = nodes[h]
  BY <1>4 DEF InRequest
<1>6. \A n : Known(n)' <=> Known(n)
  BY <1>1 DEF Known, HasHash, KeyOf, HashOf
<1>7. Kept' = Kept /\ \A j \in Kept : j \in 1..Len(nodes) /\ (j < i + 1 => j < h \/ j = h)
  BY <1>1, <1>2, BegunTypes DEF Kept, Dropped
<1>8. ~Known(nodes[h])
  BY <1>1, <1>2 DEF Known, HasHash, CacheHit
<1>9. ASSUME NEW j \in Kept', j < i' PROVE FilteredAt(j)'
  <2>1. nodes' = nodes /\ j \in Kept /\ (j < h \/ j = h)
    BY <1>1, <1>7, <1>9
  <2>2. CASE j = h
    BY <2>1, <2>2, <1>5, <1>6, <1>8 DEF FilteredAt
  <2>3. CASE j < h
    <3>1. nodes[j] # nodes[h]
      BY <2>1, <2>3, <1>7, BegunTypes DEF NamedOnce
    <3>2. FilteredAt(j)
      BY <2>1, <2>3, <1>1, <1>2 DEF Begun, NeededInv
    <3> QED
      BY <3>1, <3>2, <2>1, <1>5, <1>6 DEF FilteredAt
  <2> QED
    BY <2>1, <2>2, <2>3
<1>10. FromNodes'
  <2>1. \A m \in 1..Len(toSend) : \E j \in 1..Len(nodes) : toSend[m] = nodes[j] /\ ~Dropped(nodes[j])
    BY DEF Begun, NeededInv, FromNodes
  <2>2. \A m \in 1..Len(toSend') : m \in 1..Len(toSend) \/ m = Len(toSend) + 1
    BY <1>4
  <2>3. \A m \in 1..Len(toSend') : \E j \in 1..Len(nodes) : toSend'[m] = nodes[j] /\ ~Dropped(nodes[j])
    BY <2>1, <2>2, <1>1, <1>2, <1>4
  <2> QED
    BY <2>3, <1>1 DEF FromNodes, Dropped
<1> QED
  BY <1>1, <1>9, <1>10 DEF NeededInv

\* With no DOWN port, and when there is neither a retry nor a changed node, the
\* request is what the filter has left.
LEMMA FilterDoneNeeds ==
    ASSUME Begun, FilterDone
    PROVE  NeededInv'
<1>1. /\ pc = "filter" /\ i > Len(nodes) /\ i' = 1
      /\ pc' = IF seenDown # {} /\ (retryDue \/ toSend # <<>>) THEN "merge" ELSE "decide"
      /\ UNCHANGED <<cr, cache, nodes, toSend, seenDown, retryDue>>
  BY DEF FilterDone, memory
<1>2. \A n : (Known(n)' <=> Known(n)) /\ (InRequest(n)' <=> InRequest(n))
  BY <1>1 DEF Known, HasHash, KeyOf, HashOf, InRequest
<1>3. Kept' = Kept /\ DownNames' = DownNames /\ FromNodes'
  BY <1>1 DEF Kept, DownNames, FromNodes, Dropped, Begun, NeededInv
<1>4. \A j \in Kept : j \in 1..Len(nodes) /\ j < i
  BY <1>1, BegunTypes DEF Kept
<1>5. ASSUME NEW j \in Kept PROVE FilteredAt(j)
  BY <1>1, <1>4 DEF Begun, NeededInv
<1>6. Changed' <=> Changed
  BY <1>1, <1>2 DEF Changed, Dropped
<1>7. \A j \in Kept : ~Known(nodes[j]) => Changed
  BY DEF Kept, Changed
<1>8. toSend # <<>> => Changed
  <2> SUFFICES ASSUME toSend # <<>> PROVE Changed
    OBVIOUS
  <2>1. 1 \in 1..Len(toSend)
    BY EmptySeq DEF Begun, NodeSyncInv, Typed, TypeOK
  <2>2. PICK j \in 1..Len(nodes) : toSend[1] = nodes[j] /\ ~Dropped(nodes[j])
    BY <2>1 DEF Begun, NeededInv, FromNodes
  <2>3. j \in Kept /\ InRequest(nodes[j])
    BY <2>1, <2>2 DEF Kept, InRequest
  <2> QED
    BY <2>3, <1>5, <1>7 DEF FilteredAt
<1>9. CASE pc' = "merge"
  <2>1. \A j \in Kept' : MergedAt(j)'
    <3>1. \A j \in Kept : ~(j < i')
      BY <1>1 DEF Kept
    <3> QED
      BY <3>1, <1>1, <1>2, <1>3, <1>5 DEF MergedAt, FilteredAt
  <2>2. (retryDue \/ Changed)'
    BY <1>1, <1>6, <1>8, <1>9
  <2> QED
    BY <2>1, <2>2, <1>3, <1>9 DEF NeededInv
<1>10. CASE pc' = "decide" /\ seenDown = {}
  <2>1. DownNames = {}
    BY <1>10 DEF DownNames
  <2>2. \A j \in Kept' : DecidedAt(j)'
    BY <2>1, <1>1, <1>2, <1>3, <1>5, <1>6, <1>7 DEF DecidedAt, FilteredAt
  <2> QED
    BY <2>2, <1>3, <1>10 DEF NeededInv
<1>11. CASE pc' = "decide" /\ ~retryDue /\ toSend = <<>>
  <2>1. \A n : ~InRequest(n)
    <3>1. Len(toSend) = 0
      BY <1>11
    <3> QED
      BY <3>1 DEF InRequest
  <2>2. ~Changed
    <3> SUFFICES ASSUME Changed PROVE FALSE
      OBVIOUS
    <3>1. PICK j \in 1..Len(nodes) : ~Dropped(nodes[j]) /\ ~Known(nodes[j])
      BY DEF Changed
    <3>2. j \in Kept
      BY <3>1 DEF Kept
    <3> QED
      BY <3>1, <3>2, <2>1, <1>5 DEF FilteredAt
  <2>3. \A j \in Kept' : DecidedAt(j)'
    BY <2>1, <2>2, <1>1, <1>2, <1>3, <1>6, <1>11 DEF DecidedAt
  <2> QED
    BY <2>3, <1>3, <1>11 DEF NeededInv
<1> QED
  BY <1>1, <1>9, <1>10, <1>11

\* The nodes of the request are looked for by name, which is as good as by
\* config.
LEMMA MergeNodeNeeds ==
    ASSUME Begun, MergeNode
    PROVE  NeededInv'
<1>1. /\ pc = "merge" /\ i <= Len(nodes) /\ i' = i + 1
      /\ UNCHANGED <<cr, pc, cache, nodes, seenDown, retryDue>>
  BY DEF MergeNode, memory
<1>2. PICK h \in 1..Len(nodes) : h = i
  BY <1>1, BegunTypes
<1>3. nodes[h] \in Nodes
  BY BegunTypes
<1>4. \A n : Known(n)' <=> Known(n)
  BY <1>1 DEF Known, HasHash, KeyOf, HashOf
<1>5. /\ Kept' = Kept /\ DownNames' = DownNames
      /\ \A j \in Kept : j \in 1..Len(nodes) /\ (j < i + 1 <=> j < i \/ j = h) /\ ~(h < i)
  BY <1>1, <1>2, BegunTypes DEF Kept, DownNames, Dropped
<1>6. (retryDue \/ Changed)'
  <2>1. retryDue \/ Changed
    BY <1>1 DEF Begun, NeededInv
  <2>2. Changed' <=> Changed
    BY <1>1, <1>4 DEF Changed, Dropped
  <2> QED
    BY <2>1, <2>2, <1>1
<1>7. ASSUME NEW j \in Kept PROVE MergedAt(j)
  BY <1>1, <1>7 DEF Begun, NeededInv
<1>8. \A m \in 1..Len(toSend) : \E j \in 1..Len(nodes) : toSend[m] = nodes[j] /\ ~Dropped(nodes[j])
  BY DEF Begun, NeededInv, FromNodes
<1>9. CASE Merged(nodes[h])
  <2>1. /\ toSend' = Append(toSend, nodes[h]) /\ ~Dropped(nodes[h]) /\ nodes[h].name \in DownNames
        /\ \A m \in 1..Len(toSend) : toSend[m].name # nodes[h].name
    BY <1>2, <1>9 DEF MergeNode, Merged
  <2>2. /\ Len(toSend') = Len(toSend) + 1 /\ toSend'[Len(toSend) + 1] = nodes[h]
        /\ \A m \in 1..Len(toSend) : toSend'[m] = toSend[m]
        /\ Len(toSend) \in Nat
    BY <2>1, <1>3, AppendNamedOnce DEF Begun, NodeSyncInv, RecordsInv
  <2>3. \A n : InRequest(n)' <=> InRequest(n) \/ n = nodes[h]
    BY <2>2 DEF InRequest
  <2>4. ASSUME NEW j \in Kept' PROVE MergedAt(j)'
    <3>1. nodes' = nodes /\ j \in Kept /\ MergedAt(j) /\ i' = i + 1
      BY <1>1, <1>5, <1>7, <2>4
    <3>2. CASE j = h
      <4>1. (j < i)'
        BY <3>1, <3>2, <1>5
      <4> QED
        BY <4>1, <3>1, <3>2, <1>5, <2>1, <2>3 DEF MergedAt
    <3>3. CASE j # h
      <4>1. nodes[j] # nodes[h]
        BY <3>1, <3>3, <1>5, BegunTypes DEF NamedOnce
      <4>2. (j < i)' <=> j < i
        BY <3>1, <3>3, <1>5
      <4> QED
        BY <4>1, <4>2, <3>1, <1>4, <1>5, <2>3 DEF MergedAt
    <3> QED
      BY <3>2, <3>3
  <2>5. FromNodes'
    <3>1. \A m \in 1..Len(toSend') : m \in 1..Len(toSend) \/ m = Len(toSend) + 1
      BY <2>2
    <3>2. \A m \in 1..Len(toSend') : \E j \in 1..Len(nodes) : toSend'[m] = nodes[j] /\ ~Dropped(nodes[j])
      BY <3>1, <1>8, <2>1, <2>2
    <3> QED
      BY <3>2, <1>1 DEF FromNodes, Dropped
  <2> QED
    BY <1>1, <1>6, <2>4, <2>5 DEF NeededInv
<1>10. CASE ~Merged(nodes[h])
  <2>1. UNCHANGED toSend
    BY <1>2, <1>10 DEF MergeNode
  <2>2. \A n : InRequest(n)' <=> InRequest(n)
    BY <2>1 DEF InRequest
  <2>3. h \in Kept => nodes[h].name \notin DownNames \/ InRequest(nodes[h])
    <3> SUFFICES ASSUME h \in Kept, nodes[h].name \in DownNames PROVE InRequest(nodes[h])
      OBVIOUS
    <3>1. PICK m \in 1..Len(toSend) : toSend[m].name = nodes[h].name
      BY <1>10 DEF Merged, Kept
    <3>2. PICK j \in 1..Len(nodes) : toSend[m] = nodes[j]
      BY <1>8
    <3>3. j = h
      BY <3>1, <3>2, BegunTypes DEF NamedOnce
    <3> QED
      BY <3>2, <3>3 DEF InRequest
  <2>4. ASSUME NEW j \in Kept' PROVE MergedAt(j)'
    <3>1. nodes' = nodes /\ j \in Kept /\ MergedAt(j) /\ i' = i + 1
      BY <1>1, <1>5, <1>7, <2>4
    <3>2. (j < i)' <=> j < i \/ j = h
      BY <3>1, <1>5
    <3>3. CASE j = h
      BY <3>1, <3>2, <3>3, <1>4, <1>5, <2>2, <2>3 DEF MergedAt
    <3>4. CASE j # h
      BY <3>1, <3>2, <3>4, <1>4, <1>5, <2>2 DEF MergedAt
    <3> QED
      BY <3>3, <3>4
  <2>5. FromNodes'
    BY <2>1, <1>1, <1>8 DEF FromNodes, Dropped
  <2> QED
    BY <1>1, <1>6, <2>4, <2>5 DEF NeededInv
<1> QED
  BY <1>9, <1>10

\* After the merge every node of a DOWN port is in the request.
LEMMA MergeDoneNeeds ==
    ASSUME Begun, MergeDone
    PROVE  NeededInv'
<1>1. /\ pc = "merge" /\ i > Len(nodes) /\ pc' = "decide"
      /\ UNCHANGED <<cr, cache, nodes, toSend, seenDown, retryDue>>
  BY DEF MergeDone, memory
<1>2. \A n : (Known(n)' <=> Known(n)) /\ (InRequest(n)' <=> InRequest(n))
  BY <1>1 DEF Known, HasHash, KeyOf, HashOf, InRequest
<1>3. Kept' = Kept /\ DownNames' = DownNames /\ FromNodes'
  BY <1>1 DEF Kept, DownNames, FromNodes, Dropped, Begun, NeededInv
<1>4. \A j \in Kept : j < i
  BY <1>1, BegunTypes DEF Kept
<1>5. Changed' <=> Changed
  BY <1>1, <1>2 DEF Changed, Dropped
<1>6. (retryDue \/ Changed) /\ \A j \in Kept : MergedAt(j)
  BY <1>1 DEF Begun, NeededInv
<1>7. ASSUME NEW j \in Kept' PROVE DecidedAt(j)'
  BY <1>7, <1>1, <1>2, <1>3, <1>4, <1>5, <1>6 DEF DecidedAt, MergedAt
<1> QED
  BY <1>1, <1>3, <1>7 DEF NeededInv

\* Every node whose config is not recorded is sent, whatever made the request.
LEMMA SendNeeds ==
    ASSUME Begun, Send
    PROVE  NeededInv'
<1>1. /\ pc = "decide" /\ pc' = "post"
      /\ UNCHANGED <<cr, cache, nodes, toSend>>
  BY DEF Send, memory
<1>2. \A n : (Known(n)' <=> Known(n)) /\ (InRequest(n)' <=> InRequest(n))
  BY <1>1 DEF Known, HasHash, KeyOf, HashOf, InRequest
<1>3. Kept' = Kept /\ FromNodes'
  BY <1>1 DEF Kept, FromNodes, Dropped, Begun, NeededInv
<1>4. ASSUME NEW j \in Kept PROVE Known(nodes[j]) \/ InRequest(nodes[j])
  <2>1. DecidedAt(j)
    BY <1>1, <1>4 DEF Begun, NeededInv
  <2>2. ~Known(nodes[j]) => Changed
    BY <1>4 DEF Kept, Changed
  <2> QED
    BY <2>1, <2>2 DEF DecidedAt
<1> QED
  BY <1>1, <1>2, <1>3, <1>4 DEF NeededInv

\* While Viola applies or refuses documents the request stays what it is.
LEMMA PostNeeds ==
    ASSUME Begun, ViolaApplies \/ ViolaRefuses \/ ViolaAnswers
    PROVE  NeededInv'
<1>1. /\ pc = "post" /\ UNCHANGED <<cr, cache, nodes, toSend>>
      /\ pc' = "post" \/ (pc' = "record" /\ i' = 1)
  BY DEF ViolaApplies, ViolaRefuses, ViolaAnswers, memory
<1>2. \A n : (Known(n)' <=> Known(n)) /\ (InRequest(n)' <=> InRequest(n))
  BY <1>1 DEF Known, HasHash, KeyOf, HashOf, InRequest
<1>3. Kept' = Kept /\ FromNodes'
  BY <1>1 DEF Kept, FromNodes, Dropped, Begun, NeededInv
<1>4. ASSUME NEW j \in Kept PROVE Known(nodes[j]) \/ InRequest(nodes[j])
  BY <1>1, <1>4 DEF Begun, NeededInv
<1>5. CASE pc' = "post"
  BY <1>1, <1>2, <1>3, <1>4, <1>5 DEF NeededInv
<1>6. CASE pc' = "record" /\ i' = 1
  <2>1. ASSUME NEW j \in Kept' PROVE RecordedAt(j)'
    <3>1. j \in Kept /\ nodes' = nodes /\ toSend' = toSend
      BY <1>1, <1>3, <2>1
    <3>2. CASE Known(nodes[j])
      BY <3>1, <3>2, <1>2 DEF RecordedAt
    <3>3. CASE InRequest(nodes[j])
      <4>1. PICK m \in 1..Len(toSend) : toSend[m] = nodes[j] /\ m >= 1
        BY <3>3, BegunTypes DEF InRequest
      <4> QED
        BY <4>1, <3>1, <1>6 DEF RecordedAt
    <3> QED
      BY <3>1, <3>2, <3>3, <1>4
  <2> QED
    BY <2>1, <1>3, <1>6 DEF NeededInv
<1> QED
  BY <1>1, <1>5, <1>6

\* What is recorded for a node of the request makes this node known, and no
\* other one unknown.
LEMMA RecordNodeNeeds ==
    ASSUME Begun, RecordNode
    PROVE  NeededInv'
<1>1. /\ pc = "record" /\ i' = i + 1 /\ UNCHANGED <<cr, pc, nodes, toSend, seenDown, retryDue>>
  BY DEF RecordNode
<1>2. PICK h \in 1..Len(toSend) : h = i
  BY BegunTypes DEF RecordNode
<1> DEFINE e == EntryOf(toSend[h])
<1>3. KeyOf(toSend[h]) \in Keys /\ e \in Entries
  BY <1>1, EntryTyped DEF Begun, NodeSyncInv
<1>4. e.hash = HashOf(toSend[h]) /\ e # NoRecord
  <2>1. hashes[toSend[h].name] = HashOf(toSend[h])
    BY BegunTypes DEF Begun, NodeSyncInv, RequestInv, HashKept, NamedOnce
  <2> QED
    BY <2>1, <1>3, NilAssumption DEF EntryOf
<1>5. cache' = [cache EXCEPT ![KeyOf(toSend[h])] = e]
  BY <1>2 DEF RecordNode
<1> HIDE DEF e
<1>6. \A n : KeyOf(n)' = KeyOf(n) /\ HashOf(n)' = HashOf(n)
  BY <1>1 DEF KeyOf, HashOf
<1>7. Kept' = Kept /\ FromNodes'
  BY <1>1 DEF Kept, FromNodes, Dropped, Begun, NeededInv
<1>8. PICK g \in 1..Len(nodes) : toSend[h] = nodes[g]
  BY DEF Begun, NeededInv, FromNodes
<1>9. Known(nodes[g])'
  BY <1>1, <1>3, <1>4, <1>5, <1>6, <1>8, BegunTypes DEF Known, HasHash
<1>10. ASSUME NEW j \in Kept, j # g PROVE Known(nodes[j])' <=> Known(nodes[j])
  <2>1. KeyOf(nodes[j]) # KeyOf(toSend[h])
    BY <1>8, <1>10, BegunTypes DEF NamedOnce, Kept, KeyOf
  <2>2. cache'[KeyOf(nodes[j])] = cache[KeyOf(nodes[j])]
    BY <2>1, <1>3, <1>5, BegunTypes
  <2> QED
    BY <2>2, <1>1, <1>6 DEF Known, HasHash
<1>11. ASSUME NEW j \in Kept' PROVE RecordedAt(j)'
  <2>1. j \in Kept /\ RecordedAt(j) /\ nodes' = nodes /\ toSend' = toSend
    BY <1>1, <1>7, <1>11 DEF Begun, NeededInv
  <2>2. CASE j = g
    BY <2>2, <1>9 DEF RecordedAt
  <2>3. CASE j # g /\ Known(nodes[j])
    BY <2>1, <2>3, <1>10 DEF RecordedAt
  <2>4. CASE j # g /\ \E m \in 1..Len(toSend) : m >= i /\ toSend[m] = nodes[j]
    <3>1. PICK m \in 1..Len(toSend) : m >= i /\ toSend[m] = nodes[j]
      BY <2>4
    <3>2. m # i
      BY <3>1, <2>1, <2>4, <1>2, <1>8, BegunTypes DEF NamedOnce, Kept
    <3>3. m >= i + 1
      BY <3>1, <3>2, BegunTypes
    <3> QED
      BY <3>1, <3>3, <2>1, <1>1 DEF RecordedAt
  <2> QED
    BY <2>1, <2>2, <2>3, <2>4 DEF RecordedAt
<1> QED
  BY <1>1, <1>7, <1>11 DEF NeededInv

LEMMA NeededNext ==
    ASSUME NodeSyncInv, RecordsInv, NeededInv, [Next]_vars
    PROVE  NeededInv'
<1>0. Begun
  BY DEF Begun
<1>1. CASE \E c \in CRs : CollectOf(c)
  BY <1>0, <1>1, CollectNeeds
<1>2. CASE DropNode \/ SkipCached \/ SkipInventoried
  BY <1>0, <1>2, SkipNeeds
<1>3. CASE KeepChanged
  BY <1>0, <1>3, KeepChangedNeeds
<1>4. CASE FilterDone
  BY <1>0, <1>4, FilterDoneNeeds
<1>5. CASE MergeNode
  BY <1>0, <1>5, MergeNodeNeeds
<1>6. CASE MergeDone
  BY <1>0, <1>6, MergeDoneNeeds
<1>7. CASE Send
  BY <1>0, <1>7, SendNeeds
<1>8. CASE ViolaApplies \/ ViolaRefuses \/ ViolaAnswers
  BY <1>0, <1>8, PostNeeds
<1>9. CASE RecordNode
  BY <1>0, <1>9, RecordNodeNeeds
<1>10. CASE NoChange \/ Synced \/ ViolaAnswersError \/ PostLost \/ Crash \/ Handover
  <2>1. Return
    BY <1>10 DEF NoChange, Synced, ViolaAnswersError, PostLost, Crash, Handover, ProcessEnds
  <2> QED
    BY <2>1, NoNeeds DEF Return
<1>11. CASE \/ \E c \in CRs : CollectFails(c)
            \/ LateViolaApplies
            \/ \E vm \in VMs : \/ \E x \in Ifaces \cup {NoIface} : PortsChange(vm, x)
                               \/ StatusChanges(vm)
            \/ UNCHANGED vars
  <2>1. UNCHANGED <<cr, pc, i, cache, nodes, toSend, seenDown, retryDue>>
    BY <1>11 DEF CollectFails, LateViolaApplies, PortsChange, StatusChanges, vars, locals, memory
  <2> QED
    BY <2>1, SameNeeds
<1> QED
  BY <1>1, <1>2, <1>3, <1>4, <1>5, <1>6, <1>7, <1>8, <1>9, <1>10, <1>11
     DEF Next, Reconciling, Answering

LEMMA NeededInit == Init => NeededInv
<1> SUFFICES ASSUME Init PROVE NeededInv
  OBVIOUS
<1>1. Len(toSend) = 0 /\ pc = "idle"
  BY DEF Init
<1> QED
  BY <1>1 DEF NeededInv, FromNodes

\* What has been decided is what was asked for.
LEMMA DecidedIsNeeded ==
    ASSUME NamedOnce(toSend), NeededInv
    PROVE  SentAsNeeded
<1> SUFFICES ASSUME pc = "decide" PROVE SentAsNeeded
  BY DEF SentAsNeeded
<1> DEFINE kept == {nodes[j] : j \in {j \in 1..Len(nodes) : ~Dropped(nodes[j])}}
           changed == {n \in kept : ~Known(n)}
           retried == {n \in kept : n.name \in DownNames}
           needed == IF retryDue \/ changed # {} THEN changed \cup retried ELSE {}
           sent == {toSend[j] : j \in 1..Len(toSend)}
<1>1. \A n : n \in sent <=> InRequest(n)
  BY DEF InRequest
<1>2. \A n : n \in kept <=> \E j \in Kept : n = nodes[j]
  BY DEF Kept
<1>3. changed # {} <=> Changed
  BY DEF Changed
<1>4. \A n : InRequest(n) => n \in kept
  BY DEF NeededInv, FromNodes, InRequest
<1>5. \A n \in kept :
          InRequest(n) <=> (retryDue \/ Changed) /\ (~Known(n) \/ n.name \in DownNames)
  BY <1>2 DEF NeededInv, DecidedAt
<1>6. \A n :
          n \in needed <=> /\ n \in kept
                          /\ (retryDue \/ Changed) /\ (~Known(n) \/ n.name \in DownNames)
  <2> HIDE DEF kept
  <2> QED
    BY <1>3
<1>7. sent = needed
  <2> HIDE DEF kept, sent, needed
  <2> QED
    BY <1>1, <1>4, <1>5, <1>6
<1>8. \A j, k \in 1..Len(toSend) : toSend[j] = toSend[k] => j = k
  BY DEF NamedOnce
<1> QED
  BY <1>7, <1>8 DEF SentAsNeeded

\* A Reconcile that succeeds has recorded all its nodes, and a record is true
\* of the cluster.
LEMMA SuccessIsKnown ==
    ASSUME NodeSyncInv, RecordsInv, NeededInv
    PROVE  ReadyMeansApplied
<1>0. Begun
  BY DEF Begun
<1> SUFFICES ASSUME Succeeding, NEW j \in Kept
             PROVE  /\ Known(nodes[j])
                    /\ \/ KeyOf(nodes[j]) \in suspect \cup outdated
                       \/ cluster[KeyOf(nodes[j])] = nodes[j]
  BY DEF ReadyMeansApplied, Kept
<1>1. Known(nodes[j])
  <2>1. CASE pc = "decide" /\ toSend = <<>>
    <3>1. ~InRequest(nodes[j]) /\ DecidedAt(j)
      BY <2>1 DEF InRequest, NeededInv
    <3>2. ~Known(nodes[j]) => Changed
      BY DEF Kept, Changed
    <3> QED
      BY <3>1, <3>2 DEF DecidedAt
  <2>2. CASE pc = "record" /\ i > Len(toSend)
    <3>1. RecordedAt(j) /\ ~\E m \in 1..Len(toSend) : m >= i
      BY <2>2, <1>0, BegunTypes DEF NeededInv
    <3> QED
      BY <3>1 DEF RecordedAt
  <2> QED
    BY <2>1, <2>2 DEF Succeeding
<1>2. nodes[j] \in Nodes /\ pc # "idle"
  BY <1>0, BegunTypes DEF Kept, Succeeding
<1>3. KeyOf(nodes[j]) \in Keys
  BY <1>2, ElementTyped DEF NodeSyncInv
<1>4. ASSUME KeyOf(nodes[j]) \notin suspect \cup outdated
      PROVE  cluster[KeyOf(nodes[j])] = nodes[j]
  <2>1. HashOf(nodes[j]) = HashOf(cluster[KeyOf(nodes[j])])
    BY <1>1, <1>3, <1>4 DEF NodeSyncInv, SkipIsSound, Known, HasHash
  <2> QED
    BY <2>1 DEF HashOf
<1> QED
  BY <1>1, <1>4

\* With distinct names, filterChanged, selectNodesByName and mergeNodesToSend
\* together make the request of just the nodes that need it.
THEOREM RequestsAreNeeded == ASSUME DistinctNames PROVE Spec => []SentAsNeeded
<1>1. NodeSyncInv /\ RecordsInv /\ [Next]_vars => RecordsInv'
  BY NamesNext, StoresNext DEF RecordsInv
<1>2. NodeSyncInv /\ RecordsInv /\ NeededInv /\ [Next]_vars => NeededInv'
  BY NeededNext
<1>3. RecordsInv /\ NeededInv => SentAsNeeded
  BY DecidedIsNeeded DEF RecordsInv
<1> QED
  BY <1>1, <1>2, <1>3, RecordsInit, NeededInit, CoreInvariant, PTL DEF Spec

\* With distinct names, Reconcile reports success only when the config of every
\* node is recorded, and is in the cluster but for an outcome never recorded
\* and a hand-over that read too early.
THEOREM ReadyIsTrue == ASSUME DistinctNames PROVE Spec => []ReadyMeansApplied
<1>1. NodeSyncInv /\ RecordsInv /\ [Next]_vars => RecordsInv'
  BY NamesNext, StoresNext DEF RecordsInv
<1>2. NodeSyncInv /\ RecordsInv /\ NeededInv /\ [Next]_vars => NeededInv'
  BY NeededNext
<1>3. NodeSyncInv /\ RecordsInv /\ NeededInv => ReadyMeansApplied
  BY SuccessIsKnown
<1> QED
  BY <1>1, <1>2, <1>3, RecordsInit, NeededInit, CoreInvariant, PTL DEF Spec

----------------------------------------------------------------------------
(* Nothing is excepted where nothing is lost.                              *)

\* Viola answers every request, and no process ends.
NothingLost == ~ViolaFaults /\ MaxCrashes = 0

\* Then the outcome of a request is open only while it is sent and recorded.
SettledInv ==
    /\ stray = {} /\ late = {} /\ outdated = {} /\ refused = {}
    /\ pc \notin {"post", "record"} => suspect = {}
    /\ pc = "post" => \A k \in suspect : \E j \in 1..Len(toSend) : KeyOf(toSend[j]) = k
    /\ pc = "record" =>
           \A k \in suspect : \E j \in 1..Len(toSend) : j >= i /\ KeyOf(toSend[j]) = k

LEMMA NeverEnds ==
    ASSUME NothingLost, Typed
    PROVE  ~Crash /\ ~Handover /\ ~ViolaRefuses /\ ~PostLost
<1>1. ~(crashes < MaxCrashes)
  BY NodeSyncAssumption DEF NothingLost, Typed, TypeOK
<1> QED
  BY <1>1 DEF Crash, Handover, ProcessEnds, ViolaRefuses, PostLost, NothingLost

\* A key leaves suspect when its node is recorded.
LEMMA RecordNodeSettles ==
    ASSUME Typed, SettledInv, RecordNode
    PROVE  SettledInv'
<1>1. /\ pc = "record" /\ i \in Nat /\ i' = i + 1
      /\ suspect' = suspect \ {KeyOf(toSend[i])}
      /\ outdated' = outdated \ {KeyOf(toSend[i])}
      /\ UNCHANGED <<cr, pc, toSend, stray, late, refused>>
  BY DEF RecordNode, Overtaken, SettledInv, environment, Typed, TypeOK
<1>2. \A n : KeyOf(n)' = KeyOf(n)
  BY <1>1 DEF KeyOf
<1>3. ASSUME NEW k \in suspect'
      PROVE  \E j \in 1..Len(toSend) : j >= i + 1 /\ KeyOf(toSend[j]) = k
  <2>1. PICK j \in 1..Len(toSend) : j >= i /\ KeyOf(toSend[j]) = k
    BY <1>1, <1>3 DEF SettledInv
  <2>2. j # i
    BY <1>1, <1>3, <2>1
  <2>3. j >= i + 1
    BY <1>1, <2>1, <2>2
  <2> QED
    BY <2>1, <2>3
<1> QED
  BY <1>1, <1>2, <1>3 DEF SettledInv

LEMMA SettledNext ==
    ASSUME NothingLost, Typed, SettledInv, [Next]_vars
    PROVE  SettledInv'
<1> USE DEF environment, memory, locals, history, bounds
<1>1. CASE RecordNode
  BY <1>1, RecordNodeSettles
<1>2. CASE Send
  <2>1. /\ pc' = "post" /\ suspect = {}
        /\ suspect' = {KeyOf(toSend[j]) : j \in 1..Len(toSend)}
        /\ UNCHANGED <<cr, toSend, stray, late, outdated, refused>>
    BY <1>2 DEF Send, SettledInv
  <2>2. \A k \in suspect' : \E j \in 1..Len(toSend) : KeyOf(toSend[j]) = k
    BY <2>1
  <2> QED
    BY <2>1, <2>2 DEF SettledInv, KeyOf
<1>3. CASE ViolaApplies
  <2>1. /\ pc = "post" /\ late' = late \ {KeyOf(toSend[i])}
        /\ UNCHANGED <<cr, pc, toSend, stray, outdated, refused, suspect>>
    BY <1>3 DEF ViolaApplies
  <2> QED
    BY <2>1 DEF SettledInv, KeyOf
<1>4. CASE ViolaAnswers
  <2>1. /\ pc = "post" /\ pc' = "record" /\ i' = 1
        /\ UNCHANGED <<cr, toSend, stray, late, outdated, refused, suspect>>
    BY <1>4 DEF ViolaAnswers
  <2>2. \A n : KeyOf(n)' = KeyOf(n)
    BY <2>1 DEF KeyOf
  <2>3. \A k \in suspect : \E j \in 1..Len(toSend) : j >= 1 /\ KeyOf(toSend[j]) = k
    BY <2>1 DEF SettledInv
  <2> QED
    BY <2>1, <2>2, <2>3 DEF SettledInv
<1>5. CASE NoChange \/ Synced
  <2>1. suspect = {}
    <3>1. CASE NoChange
      BY <3>1 DEF NoChange, SettledInv
    <3>2. CASE Synced
      <4>1. pc = "record" /\ i > Len(toSend) /\ i \in Nat /\ Len(toSend) \in Nat
        BY <3>2, LenProperties DEF Synced, Typed, TypeOK
      <4> QED
        BY <4>1 DEF SettledInv
    <3> QED
      BY <1>5, <3>1, <3>2
  <2> QED
    BY <1>5, <2>1 DEF NoChange, Synced, Return, SettledInv
<1>6. CASE ViolaAnswersError \/ LateViolaApplies
  BY <1>6 DEF ViolaAnswersError, Accepted, LateViolaApplies, SettledInv
<1>7. CASE SkipCached
  <2>1. UNCHANGED <<pc, stray, late, outdated, refused, suspect>> /\ pc = "filter"
    BY <1>7 DEF SkipCached, Filtering
  <2> QED
    BY <2>1 DEF SettledInv
<1>8. CASE \/ \E c \in CRs : CollectOf(c)
           \/ DropNode \/ SkipInventoried \/ KeepChanged \/ FilterDone \/ MergeNode \/ MergeDone
  <2>1. /\ UNCHANGED <<stray, late, outdated, refused, suspect>>
        /\ pc \notin {"post", "record"} /\ pc' \notin {"post", "record"}
    BY <1>8 DEF CollectOf, Collect, DropNode, SkipInventoried, KeepChanged, FilterDone,
                MergeNode, MergeDone, Filtering
  <2> QED
    BY <2>1 DEF SettledInv
<1>9. CASE \/ \E c \in CRs : CollectFails(c)
           \/ \E vm \in VMs : \/ \E x \in Ifaces \cup {NoIface} : PortsChange(vm, x)
                              \/ StatusChanges(vm)
           \/ UNCHANGED vars
  <2>1. UNCHANGED <<cr, pc, i, toSend, stray, late, outdated, refused, suspect>>
    BY <1>9 DEF CollectFails, PortsChange, StatusChanges, vars
  <2> QED
    BY <2>1 DEF SettledInv, KeyOf
<1> QED
  BY <1>1, <1>2, <1>3, <1>4, <1>5, <1>6, <1>7, <1>8, <1>9, NeverEnds
     DEF Next, Reconciling, Answering

LEMMA SuccessIsExact ==
    ASSUME Typed, ReadyMeansApplied, SettledInv, Succeeding,
           NEW j \in 1..Len(nodes), ~Dropped(nodes[j])
    PROVE  cluster[KeyOf(nodes[j])] = nodes[j]
<1>1. i \in Nat /\ Len(toSend) \in Nat
  BY LenProperties DEF Typed, TypeOK
<1>2. suspect = {} /\ outdated = {}
  BY <1>1 DEF SettledInv, Succeeding
<1> QED
  BY <1>2 DEF ReadyMeansApplied

\* As long as Viola answers and no process ends, and whatever else fails, a
\* Reconcile that sets Ready has brought the cluster to just what it listed:
\* the exceptions that ReadyMeansApplied makes are for lost outcomes only.
THEOREM ReadyIsExact ==
    ASSUME DistinctNames, NothingLost
    PROVE  Spec => [](Succeeding => \A j \in 1..Len(nodes) :
                         ~Dropped(nodes[j]) => cluster[KeyOf(nodes[j])] = nodes[j])
<1>1. Init => SettledInv
  BY DEF Init, SettledInv
<1>2. NodeSyncInv /\ SettledInv /\ [Next]_vars => SettledInv'
  BY SettledNext DEF NodeSyncInv
<1>3. NodeSyncInv /\ ReadyMeansApplied /\ SettledInv
      => (Succeeding => \A j \in 1..Len(nodes) :
             ~Dropped(nodes[j]) => cluster[KeyOf(nodes[j])] = nodes[j])
  BY SuccessIsExact DEF NodeSyncInv
<1>4. Spec => []ReadyMeansApplied
  BY ReadyIsTrue
<1> QED
  BY <1>1, <1>2, <1>3, <1>4, CoreInvariant, PTL DEF Spec
=============================================================================
