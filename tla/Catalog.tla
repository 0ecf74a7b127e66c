------------------------------- MODULE Catalog -------------------------------
(***************************************************************************)
(* What the inventory HTTP server (internal/inventory/server.go) answers   *)
(* from the records of InventoryStore: the providers with their nodes, the *)
(* nodes of a provider, and the nodes of an instance.                      *)
(*                                                                         *)
(* A key is a pair of a provider and a node name, numbered in their        *)
(* alphabetical order; 0 is "".  The instance of a record is that of the   *)
(* Upsert that wrote it.                                                   *)
(***************************************************************************)
EXTENDS InventoryStore, Lists, SequencesExt

CONSTANT InstanceOf     \* [1..MaxUpserts -> Nat \ {0}], instanceId

ASSUME CatalogAssumption == /\ Keys \subseteq (Nat \ {0}) \X (Nat \ {0})
                            /\ IsFiniteSet(Keys)
                            /\ InstanceOf \in [1..MaxUpserts -> Nat \ {0}]

RecordsOf(map) ==
    {[provider |-> k[1], node |-> k[2], instance |-> InstanceOf[map[k]], updated |-> map[k]] :
        k \in {k \in Keys : map[k] # 0}}

\* List: an argument that is "" selects everything.
List(map, provider, node, instance) ==
    {rec \in RecordsOf(map) : /\ provider \in {0, rec.provider}
                              /\ node \in {0, rec.node}
                              /\ instance \in {0, rec.instance}}

NoSummary == [nodes |-> <<>>, nodeCount |-> 0, updated |-> 0]

\* Mutated form: the record that comes last gives the time.
AddRecordOfLast(entry, rec) ==
    [nodes |-> Append(entry.nodes, rec),
     nodeCount |-> Len(entry.nodes) + 1,
     updated |-> rec.updated]

\* A record is appended to the entry of its provider and counted.
AddRecord(entry, rec) ==
    [nodes |-> Append(entry.nodes, rec),
     nodeCount |-> Len(entry.nodes) + 1,
     updated |-> IF rec.updated > entry.updated THEN rec.updated ELSE entry.updated]

ProvidersOf(records) == {rec.provider : rec \in ToSet(records)}

\* perProvider after the loop of buildProviderCatalog.
PerProvider(records) ==
    LET entries[n \in 0..Len(records)] ==
            IF n = 0 THEN [p \in ProvidersOf(records) |-> NoSummary]
            ELSE LET rec == records[n]
                 IN  [entries[n - 1] EXCEPT ![rec.provider] = AddRecord(@, rec)]
    IN  entries[Len(records)]

ByNodeName(nodes) == {xy \in nodes \X nodes : xy[1].node < xy[2].node}
ByProvider(summaries) == {xy \in summaries \X summaries : xy[1].provider < xy[2].provider}

Summary(p, entry) ==
    [provider |-> p,
     nodeCount |-> entry.nodeCount,
     updated |-> entry.updated,
     nodes |-> SortedBy(entry.nodes, ByNodeName(ToSet(entry.nodes)))]

\* buildProviderCatalog: a summary of every provider, sorted as their nodes are.
BuildProviderCatalog(records) ==
    LET entries == PerProvider(records)
        summaries == {Summary(p, entries[p]) : p \in ProvidersOf(records)}
    IN  SortedBy(SetToSeq(summaries), ByProvider(summaries))

\* The answers of GET /v1/interfaces/providers: List ranges over a Go map.
HandleProviders(map) == {BuildProviderCatalog(s) : s \in SetToSeqs(List(map, 0, 0, 0))}

Answer(status, records) == [status |-> status, records |-> records]

\* GET /v1/interfaces/node-configs?providerId=
HandleList(map, provider) ==
    IF provider = 0 THEN Answer(400, {}) ELSE Answer(200, List(map, provider, 0, 0))

FoundAmong(records) == Answer(IF records = {} THEN 404 ELSE 200, records)

\* Mutated form: the instance is passed in the place of the node name.
HandleGetByInstanceSwapped(map, instance, provider) ==
    IF instance = 0 THEN Answer(400, {}) ELSE FoundAmong(List(map, provider, instance, 0))

\* GET /v1/interfaces/node-configs/by-instance/<instance>, providerId optional.
HandleGetByInstance(map, instance, provider) ==
    IF instance = 0 THEN Answer(400, {}) ELSE FoundAmong(List(map, provider, 0, instance))

----------------------------------------------------------------------------
\* The catalog a set of records stands for.
IsCatalogOf(catalog, map) ==
    /\ \A i, j \in DOMAIN catalog : i < j => catalog[i].provider < catalog[j].provider
    /\ {catalog[i].provider : i \in DOMAIN catalog} = {rec.provider : rec \in RecordsOf(map)}
    /\ \A i \in DOMAIN catalog :
          LET own == {rec \in RecordsOf(map) : rec.provider = catalog[i].provider}
              nodes == catalog[i].nodes
          IN  /\ ToSet(nodes) = own
              /\ catalog[i].nodeCount = Len(nodes)
              /\ \A n \in 1..Len(nodes) - 1 : nodes[n].node < nodes[n + 1].node
              /\ catalog[i].updated \in {rec.updated : rec \in own}
              /\ \A rec \in own : rec.updated <= catalog[i].updated

(* In whatever order List finds the records, the catalog has each of them  *)
(* once, under its provider and in the order of the names, and a provider  *)
(* is as new as its newest record.                                         *)
CatalogIsComplete ==
    running /\ MutexFree => \A catalog \in HandleProviders(data) : IsCatalogOf(catalog, data)

\* Another record has taken the place of this one.
Superseded(rec) == data[<<rec.provider, rec.node>>] > rec.updated

(* Who was shown the catalog can follow it (README, Inventory API): the    *)
(* provider still lists each of its nodes, and the instance of the node is *)
(* found, with the provider and without, although the process was killed   *)
(* and the records changed in between.  Not so a record whose save failed, *)
(* nor an instance whose node was recorded anew.                           *)
CatalogCanBeFollowed ==
    running /\ MutexFree =>
        \A c \in Clients : \A catalog \in HandleProviders(served[c]) :
        \A i \in DOMAIN catalog : \A rec \in ToSet(catalog[i].nodes) :
            \/ rec.updated \in lost
            \/ /\ \E now \in HandleList(data, catalog[i].provider).records : now.node = rec.node
               /\ \/ Superseded(rec)
                  \/ \A p \in {0, rec.provider} :
                        rec \in HandleGetByInstance(data, rec.instance, p).records
=============================================================================
