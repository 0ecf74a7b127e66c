---------------------------- MODULE CatalogProofs ----------------------------
(***************************************************************************)
(* Proofs about Catalog for any number of records, in any order in which   *)
(* List may find them.                                                     *)
(*                                                                         *)
(* What a catalog is built of is the state of InventoryStore, so the       *)
(* invariant is StoreInv.  The loop of buildProviderCatalog has one of its *)
(* own (Collected).                                                        *)
(***************************************************************************)
EXTENDS Catalog, InventoryStoreProofs, ListsProofs, TLAPS

----------------------------------------------------------------------------
(* The records of a map.                                                   *)

RecordAt(map, k) ==
    [provider |-> k[1], node |-> k[2], instance |-> InstanceOf[map[k]], updated |-> map[k]]

Record == [provider : Nat \ {0}, node : Nat \ {0}, instance : Nat \ {0}, updated : Nat \ {0}]

\* Each record has a key of its own.
KeyedRecords(records, map) ==
    /\ records \subseteq Record
    /\ \A rec \in records : /\ <<rec.provider, rec.node>> \in Keys
                            /\ map[<<rec.provider, rec.node>>] = rec.updated
    /\ \A r1, r2 \in records : r1.provider = r2.provider /\ r1.node = r2.node => r1 = r2

LEMMA RecordsAreKeyed ==
    ASSUME NEW map \in Maps
    PROVE  /\ IsFiniteSet(RecordsOf(map))
           /\ KeyedRecords(RecordsOf(map), map)
  <1> DEFINE stored == {k \in Keys : map[k] # 0}
             record == [k \in stored |-> RecordAt(map, k)]
  <1>1. RecordsOf(map) = {RecordAt(map, k) : k \in stored}
    BY DEF RecordsOf, RecordAt
  <1>2. IsFiniteSet(stored)
    BY CatalogAssumption, FS_Subset
  <1>3. \A k \in stored : /\ k \in Keys /\ k[1] \in Nat \ {0} /\ k[2] \in Nat \ {0}
                          /\ k = <<k[1], k[2]>>
    BY CatalogAssumption
  <1>4. \A k \in stored : map[k] \in 1..MaxUpserts
    BY StoreAssumption DEF Maps
  <1> HIDE DEF stored
  <1>5. record \in [stored -> RecordsOf(map)] /\ \A k \in stored : record[k] = RecordAt(map, k)
    BY <1>1
  <1>6. \A rec \in RecordsOf(map) : \E k \in stored : record[k] = rec
    BY <1>1, <1>5
  <1>7. IsFiniteSet(RecordsOf(map))
    <2> HIDE DEF record
    <2> QED
      BY <1>2, <1>5, <1>6, ImageIsFinite
  <1>8. \A rec \in RecordsOf(map) :
           /\ rec = RecordAt(map, <<rec.provider, rec.node>>)
           /\ <<rec.provider, rec.node>> \in stored
    <2> SUFFICES ASSUME NEW rec \in RecordsOf(map)
                 PROVE  /\ rec = RecordAt(map, <<rec.provider, rec.node>>)
                        /\ <<rec.provider, rec.node>> \in stored
      OBVIOUS
    <2>1. PICK k \in stored : rec = RecordAt(map, k)
      BY <1>1
    <2>2. rec.provider = k[1] /\ rec.node = k[2]
      BY <2>1 DEF RecordAt
    <2>3. <<rec.provider, rec.node>> = k
      BY <2>2, <1>3
    <2> QED
      BY <2>1, <2>3
  <1>9. \A rec \in RecordsOf(map) : rec \in Record
    <2> SUFFICES ASSUME NEW rec \in RecordsOf(map) PROVE rec \in Record
      OBVIOUS
    <2>1. PICK k \in stored : rec = RecordAt(map, k)
      BY <1>1
    <2>2. map[k] \in 1..MaxUpserts /\ InstanceOf[map[k]] \in Nat \ {0} /\ map[k] \in Nat \ {0}
      BY <1>4, CatalogAssumption, StoreAssumption
    <2> QED
      BY <2>1, <2>2, <1>3 DEF RecordAt, Record
  <1>10. \A rec \in RecordsOf(map) : map[<<rec.provider, rec.node>>] = rec.updated
    <2> SUFFICES ASSUME NEW rec \in RecordsOf(map)
                 PROVE  map[<<rec.provider, rec.node>>] = rec.updated
      OBVIOUS
    <2> DEFINE k == <<rec.provider, rec.node>>
    <2>1. rec = RecordAt(map, k)
      BY <1>8
    <2> HIDE DEF k
    <2>2. rec.updated = map[k]
      BY <2>1 DEF RecordAt
    <2> QED
      BY <2>2 DEF k
  <1>11. KeyedRecords(RecordsOf(map), map)
    BY <1>3, <1>8, <1>9, <1>10 DEF KeyedRecords
  <1> QED
    BY <1>7, <1>11

\* A key with a value has its record.
LEMMA RecordOfKey ==
    ASSUME NEW map, NEW k \in Keys, map[k] # 0
    PROVE  RecordAt(map, k) \in RecordsOf(map)
  BY DEF RecordsOf, RecordAt

\* "" selects everything.
LEMMA ListAll ==
    ASSUME NEW map \in Maps
    PROVE  List(map, 0, 0, 0) = RecordsOf(map)
  BY DEF List

----------------------------------------------------------------------------
(* The loop of buildProviderCatalog.                                       *)

Entries(S) == [nodes : Seq(S), nodeCount : Nat, updated : Nat]

\* entries holds perProvider after each round.
Builds(entries, records, P, S) ==
    /\ entries \in [0..Len(records) -> [P -> Entries(S)]]
    /\ \A p \in P : entries[0][p] = NoSummary
    /\ \A n \in 1..Len(records), p \in P :
          /\ p = records[n].provider => entries[n][p] = AddRecord(entries[n - 1][p], records[n])
          /\ p # records[n].provider => entries[n][p] = entries[n - 1][p]

LEMMA EntryIsTyped ==
    ASSUME NEW S \in SUBSET Record, NEW entry \in Entries(S), NEW rec \in S
    PROVE  AddRecord(entry, rec) \in Entries(S)
  <1>1. Append(entry.nodes, rec) \in Seq(S) /\ Len(entry.nodes) + 1 \in Nat
    BY DEF Entries
  <1>2. rec.updated \in Nat
    BY DEF Record
  <1> QED
    BY <1>1, <1>2 DEF AddRecord, Entries

LEMMA ProviderLoop ==
    ASSUME NEW S \in SUBSET Record, NEW records \in Seq(S)
    PROVE  \E entries : /\ Builds(entries, records, ProvidersOf(records), S)
                        /\ PerProvider(records) = entries[Len(records)]
  <1> DEFINE N == Len(records)
             P == ProvidersOf(records)
             X == [P -> Entries(S)]
             none == [p \in P |-> NoSummary]
             next(n, E) == [E EXCEPT ![records[n].provider] = AddRecord(@, records[n])]
             step == [nE \in (1..N) \X X |-> next(nE[1], nE[2])]
             body(f) == [n \in 0..N |-> IF n = 0 THEN none ELSE next(n, f[n - 1])]
             entries == CHOOSE f : f = body(f)
  <1>1. N \in Nat
    OBVIOUS
  <1>2. \A n \in 1..N : records[n] \in S /\ records[n].provider \in P
    BY SequencePlaces DEF ProvidersOf
  <1>3. PerProvider(records) = entries[N]
    BY DEF PerProvider
  <1>4. none \in X
    BY DEF NoSummary, Entries
  <1>5. \A n \in 1..N, E \in X : next(n, E) \in X
    <2> SUFFICES ASSUME NEW n \in 1..N, NEW E \in X PROVE next(n, E) \in X
      OBVIOUS
    <2> HIDE DEF P
    <2>1. AddRecord(E[records[n].provider], records[n]) \in Entries(S)
      BY <1>2, EntryIsTyped
    <2> QED
      BY <2>1
  <1>6. ASSUME NEW n \in 1..N, NEW E \in X, NEW p \in P
        PROVE  /\ p = records[n].provider => next(n, E)[p] = AddRecord(E[p], records[n])
               /\ p # records[n].provider => next(n, E)[p] = E[p]
    OBVIOUS
  <1> HIDE DEF N, X, next, none
  <1>7. step \in [(1..N) \X X -> X]
    BY <1>5
  <1>8. ASSUME NEW n \in 1..N, NEW E \in X PROVE step[<<n, E>>] = next(n, E)
    OBVIOUS
  <1> HIDE DEF step
  <1>9. PICK f : IsLoop(f, X, N, none, step)
    BY <1>1, <1>4, <1>7, LoopExists
  <1>10. f = body(f)
    <2>1. ASSUME NEW n \in 0..N PROVE f[n] = body(f)[n]
      <3>1. CASE n = 0
        BY <3>1, <1>9 DEF IsLoop
      <3>2. CASE n # 0
        <4>1. n \in 1..N /\ n - 1 \in 0..N
          BY <3>2, <1>1
        <4>2. f[n - 1] \in X /\ f[n] = step[<<n, f[n - 1]>>]
          BY <4>1, <1>9 DEF IsLoop
        <4> QED
          BY <4>1, <4>2, <1>8, <3>2
      <3> QED
        BY <3>1, <3>2
    <2> QED
      BY <2>1, <1>9 DEF IsLoop
  <1>11. entries = body(entries)
    BY <1>10
  <1> HIDE DEF entries
  <1>12. entries = [n \in 0..N |-> entries[n]] /\ entries[0] = none
    BY <1>11, <1>1
  <1>13. ASSUME NEW n \in 1..N PROVE entries[n] = next(n, entries[n - 1])
    BY <1>11, <1>1
  <1>14. IsLoop(entries, X, N, none, step)
    BY <1>12, <1>13, <1>8, <1>1, <1>4, <1>7, LoopIsTyped
  <1>15. \A n \in 1..N : n - 1 \in 0..N
    BY <1>1
  <1>16. Builds(entries, records, P, S)
    <2>1. entries \in [0..N -> [P -> Entries(S)]]
      BY <1>14 DEF IsLoop, X
    <2>2. \A p \in P : entries[0][p] = NoSummary
      BY <1>12 DEF none
    <2>3. \A n \in 1..N : entries[n - 1] \in X
      BY <1>14, <1>15 DEF IsLoop
    <2> HIDE DEF P
    <2>4. \A n \in 1..N, p \in P :
             /\ p = records[n].provider => entries[n][p] = AddRecord(entries[n - 1][p], records[n])
             /\ p # records[n].provider => entries[n][p] = entries[n - 1][p]
      BY <2>3, <1>6, <1>13
    <2> QED
      BY <2>1, <2>2, <2>4 DEF Builds, N
  <1> QED
    BY <1>3, <1>16 DEF N

\* entry has each record of T once, and the time of the newest of them.
Collected(entry, T) ==
    /\ Lists(entry.nodes, T)
    /\ entry.nodeCount = Len(entry.nodes)
    /\ \A rec \in T : rec.updated <= entry.updated
    /\ \/ T = {} /\ entry.updated = 0
       \/ \E rec \in T : rec.updated = entry.updated

LEMMA NothingCollected == Collected(NoSummary, {})
<1>1. <<>> \in Seq({}) /\ ToSet(<<>>) = {} /\ IsInjective(<<>>)
  BY DEF ToSet, IsInjective
<1> QED
  BY <1>1 DEF Collected, NoSummary, Lists

LEMMA OneMoreCollected ==
    ASSUME NEW T \in SUBSET Record, NEW entry, entry.updated \in Nat,
           Collected(entry, T), NEW rec \in Record, rec \notin T
    PROVE  Collected(AddRecord(entry, rec), T \cup {rec})
  <1> DEFINE U == T \cup {rec}
             nodes == entry.nodes
             more == AddRecord(entry, rec)
  <1>1. nodes \in Seq(T) /\ ToSet(nodes) = T /\ IsInjective(nodes) /\ T \subseteq U /\ rec \in U
    BY DEF Collected, Lists
  <1> HIDE DEF U
  <1>2. nodes \in Seq(U)
    BY <1>1, SequencePlaces, SequenceOf
  <1>3. /\ Append(nodes, rec) \in Seq(U)
        /\ Len(Append(nodes, rec)) = Len(nodes) + 1
        /\ ToSet(Append(nodes, rec)) = U
        /\ IsInjective(Append(nodes, rec))
    <2>1. /\ Append(nodes, rec) \in Seq(U)
          /\ Len(Append(nodes, rec)) = Len(nodes) + 1
          /\ ToSet(Append(nodes, rec)) = ToSet(nodes) \cup {rec}
          /\ IsInjective(nodes) /\ rec \notin ToSet(nodes) => IsInjective(Append(nodes, rec))
      <3> HIDE DEF nodes
      <3> QED
        BY <1>1, <1>2, AppendedSet
    <2> QED
      BY <2>1, <1>1 DEF U
  <1>4. more.nodes = Append(nodes, rec) /\ more.nodeCount = Len(nodes) + 1
    BY DEF AddRecord
  <1>5. Lists(more.nodes, U) /\ more.nodeCount = Len(more.nodes)
    BY <1>3, <1>4 DEF Lists
  <1>6. rec.updated \in Nat /\ rec.updated > 0 /\ \A r \in T : r.updated \in Nat
    BY DEF Record
  <1>7. more.updated = IF rec.updated > entry.updated THEN rec.updated ELSE entry.updated
    BY DEF AddRecord
  <1> HIDE DEF more
  <1>8. \A r \in U : r.updated <= more.updated
    BY <1>6, <1>7 DEF U, Collected
  <1>9. \E r \in U : r.updated = more.updated
    <2>1. CASE rec.updated > entry.updated
      BY <2>1, <1>1, <1>7
    <2>2. CASE ~(rec.updated > entry.updated)
      <3>1. entry.updated # 0
        BY <2>2, <1>6
      <3>2. PICK r \in T : r.updated = entry.updated
        BY <3>1 DEF Collected
      <3> QED
        BY <3>2, <2>2, <1>1, <1>7
    <2> QED
      BY <2>1, <2>2
  <1> QED
    BY <1>5, <1>8, <1>9 DEF Collected, U, more

\* The records of p.
OwnedBy(S, p) == {rec \in S : rec.provider = p}

LEMMA EntriesAreCollected ==
    ASSUME NEW S \in SUBSET Record, NEW records, Lists(records, S)
    PROVE  /\ ProvidersOf(records) = {rec.provider : rec \in S}
           /\ \A p \in ProvidersOf(records) :
                 /\ PerProvider(records)[p] \in Entries(S)
                 /\ Collected(PerProvider(records)[p], OwnedBy(S, p))
  <1> DEFINE N == Len(records)
             P == ProvidersOf(records)
             Upto(n) == {rec \in S : \E k \in 1..n : records[k] = rec}
  <1>1. records \in Seq(S) /\ ToSet(records) = S /\ IsInjective(records)
    BY DEF Lists
  <1>2. N \in Nat /\ DOMAIN records = 1..N /\ \A k \in 1..N : records[k] \in S
    BY <1>1, SequencePlaces
  <1>3. Upto(N) = S /\ Upto(0) = {}
    BY <1>1, <1>2 DEF ToSet
  <1>4. P = {rec.provider : rec \in S}
    BY <1>1 DEF ProvidersOf
  <1>5. PICK entries : Builds(entries, records, P, S) /\ PerProvider(records) = entries[N]
    BY <1>1, ProviderLoop
  <1> DEFINE Done(n) == \A p \in P : Collected(entries[n][p], OwnedBy(Upto(n), p))
             Claim == {n \in 0..N : Done(n)}
  <1> HIDE DEF P
  <1>6. 0 \in Claim
    <2>1. \A p \in P : entries[0][p] = NoSummary
      BY <1>5 DEF Builds
    <2>2. \A p \in P : OwnedBy(Upto(0), p) = {}
      BY <1>3 DEF OwnedBy
    <2> HIDE DEF Upto
    <2>3. Done(0)
      BY <2>1, <2>2, NothingCollected
    <2> QED
      BY <2>3, <1>2
  <1>7. ASSUME NEW n \in 0..N - 1, n \in Claim PROVE n + 1 \in Claim
    <2> DEFINE rec == records[n + 1]
    <2>1. n + 1 \in 1..N /\ n \in Nat /\ (n + 1) - 1 = n /\ n \in 0..N /\ n + 1 \in 0..N /\ Done(n)
      BY <1>2, <1>7
    <2>2. rec \in S /\ rec \in Record /\ \A k \in 1..n : records[k] # rec
      BY <2>1, <1>1, <1>2 DEF IsInjective
    <2>3. Upto(n + 1) = Upto(n) \cup {rec}
      <3>1. \A r \in S : (\E k \in 1..n + 1 : records[k] = r) <=> r = rec \/ \E k \in 1..n : records[k] = r
        BY <2>1
      <3> QED
        BY <3>1, <2>2
    <2>4. rec \notin Upto(n) /\ Upto(n) \subseteq S
      BY <2>2
    <2>5. ASSUME NEW p \in P PROVE Collected(entries[n + 1][p], OwnedBy(Upto(n + 1), p))
      <3>1. entries[n] \in [P -> Entries(S)] /\ entries[n][p].updated \in Nat
        BY <1>5, <2>1 DEF Builds, Entries
      <3>2. Collected(entries[n][p], OwnedBy(Upto(n), p))
        BY <2>1
      <3>3. /\ p = rec.provider => entries[n + 1][p] = AddRecord(entries[n][p], rec)
            /\ p # rec.provider => entries[n + 1][p] = entries[n][p]
        BY <1>5, <2>1 DEF Builds
      <3> HIDE DEF rec, Upto
      <3>4. CASE p = rec.provider
        <4>1. OwnedBy(Upto(n + 1), p) = OwnedBy(Upto(n), p) \cup {rec}
          BY <2>3, <3>4 DEF OwnedBy
        <4>2. rec \notin OwnedBy(Upto(n), p) /\ OwnedBy(Upto(n), p) \in SUBSET Record
          BY <2>4 DEF OwnedBy
        <4>3. Collected(AddRecord(entries[n][p], rec), OwnedBy(Upto(n), p) \cup {rec})
          BY <3>1, <3>2, <4>2, <2>2, OneMoreCollected
        <4> QED
          BY <4>1, <4>3, <3>3, <3>4
      <3>5. CASE p # rec.provider
        <4>1. OwnedBy(Upto(n + 1), p) = OwnedBy(Upto(n), p)
          BY <2>3, <3>5 DEF OwnedBy
        <4> QED
          BY <4>1, <3>2, <3>3, <3>5
      <3> QED
        BY <3>4, <3>5
    <2> HIDE DEF Upto
    <2>6. Done(n + 1)
      BY <2>5
    <2> HIDE DEF Done
    <2> QED
      BY <2>6, <2>1
  <1> HIDE DEF Upto, Done
  <1>8. N \in Claim
    <2> HIDE DEF Claim, N
    <2>1. \A n \in 0..N : n \in Claim
      BY <1>2, <1>6, <1>7, InductionTo
    <2> QED
      BY <2>1, <1>2
  <1>9. N \in 0..N
    BY <1>2
  <1>10. \A p \in P : PerProvider(records)[p] \in Entries(S)
    BY <1>5, <1>9 DEF Builds
  <1>11. \A p \in P : Collected(PerProvider(records)[p], OwnedBy(S, p))
    BY <1>3, <1>5, <1>8 DEF Done
  <1> QED
    BY <1>4, <1>10, <1>11 DEF P

----------------------------------------------------------------------------
(* The catalog.                                                            *)

ByNode(nodes) == \A n \in 1..Len(nodes) - 1 : nodes[n].node < nodes[n + 1].node

\* sum is the summary of the provider p of the records own.
Summarizes(sum, own) ==
    /\ ToSet(sum.nodes) = own
    /\ sum.nodeCount = Len(sum.nodes)
    /\ ByNode(sum.nodes)
    /\ sum.updated \in {rec.updated : rec \in own}
    /\ \A rec \in own : rec.updated <= sum.updated

LEMMA SummaryOfEntry ==
    ASSUME NEW map, NEW S, KeyedRecords(S, map), NEW p, OwnedBy(S, p) # {},
           NEW entry, Collected(entry, OwnedBy(S, p))
    PROVE  Summarizes(Summary(p, entry), OwnedBy(S, p))
  <1> DEFINE own == OwnedBy(S, p)
             R == ByNodeName(own)
             nodes == SortedBy(entry.nodes, R)
             sum == Summary(p, entry)
  <1>1. own \subseteq Record /\ \A r \in own : r.provider = p /\ r \in S /\ r.node \in Nat
    BY DEF OwnedBy, KeyedRecords, Record
  <1>2. \A r1, r2 \in own : r1.node = r2.node => r1 = r2
    BY <1>1 DEF KeyedRecords
  <1>3. entry.nodes \in Seq(own) /\ ToSet(entry.nodes) = own /\ IsInjective(entry.nodes)
    BY DEF Collected, Lists
  <1>4. /\ sum.nodes = nodes /\ sum.nodeCount = entry.nodeCount
        /\ sum.updated = entry.updated
    BY <1>3 DEF Summary
  <1> HIDE DEF own, sum
  <1>5. \A x, y \in own : <<x, y>> \in R <=> x.node < y.node
    BY DEF ByNodeName
  <1> HIDE DEF R
  <1>6. StrictOrder(R, own)
    <2>1. \A x \in own : <<x, x>> \notin R
      BY <1>1, <1>5
    <2>2. \A x, y, z \in own : <<x, y>> \in R /\ <<y, z>> \in R => <<x, z>> \in R
      BY <1>1, <1>5
    <2>3. \A x, y \in own : x # y => <<x, y>> \in R \/ <<y, x>> \in R
      BY <1>1, <1>2, <1>5
    <2> QED
      BY <2>1, <2>2, <2>3 DEF StrictOrder
  <1>7. /\ nodes \in Seq(own) /\ ToSet(nodes) = own
        /\ Len(nodes) = Len(entry.nodes) /\ Ranked(nodes, R)
    BY <1>3, <1>6, SortedElements
  <1> HIDE DEF nodes
  <1>8. ByNode(nodes)
    <2> SUFFICES ASSUME NEW n \in 1..Len(nodes) - 1 PROVE nodes[n].node < nodes[n + 1].node
      BY DEF ByNode
    <2>1. n \in 1..Len(nodes) /\ n + 1 \in 1..Len(nodes) /\ n < n + 1
      BY <1>7
    <2>2. nodes[n] \in own /\ nodes[n + 1] \in own
      BY <2>1, <1>7
    <2> QED
      BY <2>1, <2>2, <1>5, <1>7 DEF Ranked
  <1>9. \A rec \in own : rec.updated <= sum.updated
    BY <1>4 DEF Collected, own
  <1>10. \E rec \in own : rec.updated = sum.updated
    BY <1>4 DEF Collected, own
  <1>11. sum.nodeCount = Len(sum.nodes)
    BY <1>4, <1>7 DEF Collected
  <1> QED
    BY <1>4, <1>7, <1>8, <1>9, <1>10, <1>11 DEF Summarizes, own, sum

\* The catalog of the records of a map, whose summaries are right.
IsCatalogOfRecords(catalog, S) ==
    /\ \A i, j \in DOMAIN catalog : i < j => catalog[i].provider < catalog[j].provider
    /\ {catalog[i].provider : i \in DOMAIN catalog} = {rec.provider : rec \in S}
    /\ \A i \in DOMAIN catalog : Summarizes(catalog[i], OwnedBy(S, catalog[i].provider))

LEMMA CatalogOfRecords ==
    ASSUME NEW map, NEW S, IsFiniteSet(S), KeyedRecords(S, map), NEW records, Lists(records, S)
    PROVE  IsCatalogOfRecords(BuildProviderCatalog(records), S)
  <1> DEFINE P == ProvidersOf(records)
             entries == PerProvider(records)
             summaries == {Summary(p, entries[p]) : p \in P}
             R == ByProvider(summaries)
             unsorted == SetToSeq(summaries)
             catalog == BuildProviderCatalog(records)
  <1>1. S \in SUBSET Record
    BY DEF KeyedRecords
  <1>2. P = {rec.provider : rec \in S}
    BY <1>1, EntriesAreCollected
  <1>3. \A p \in P : Collected(entries[p], OwnedBy(S, p))
    BY <1>1, EntriesAreCollected
  <1>4. catalog = SortedBy(unsorted, R)
    BY DEF BuildProviderCatalog
  <1>5. \A p \in P : p \in Nat /\ OwnedBy(S, p) # {}
    BY <1>1, <1>2 DEF Record, OwnedBy
  <1>6. ASSUME NEW p \in P PROVE Summary(p, entries[p]).provider = p
    BY DEF Summary
  <1> HIDE DEF P, entries, catalog
  <1>7. ASSUME NEW p \in P
        PROVE  Summarizes(Summary(p, entries[p]), OwnedBy(S, p))
    BY <1>3, <1>5, SummaryOfEntry
  <1>8. IsFiniteSet(P)
    <2> DEFINE f == [rec \in S |-> rec.provider]
    <2>1. f \in [S -> P] /\ \A p \in P : \E rec \in S : f[rec] = p
      BY <1>2
    <2> HIDE DEF f
    <2> QED
      BY <2>1, ImageIsFinite
  <1>9. IsFiniteSet(summaries)
    <2> DEFINE f == [p \in P |-> Summary(p, entries[p])]
    <2>1. f \in [P -> summaries] /\ \A sum \in summaries : \E p \in P : f[p] = sum
      OBVIOUS
    <2> HIDE DEF f, summaries
    <2> QED
      BY <2>1, <1>8, ImageIsFinite
  <1>10. \A sum \in summaries : /\ sum.provider \in P
                                /\ sum = Summary(sum.provider, entries[sum.provider])
    BY <1>6
  <1>11. \A p \in P : \E sum \in summaries : sum.provider = p
    BY <1>6
  <1> HIDE DEF summaries
  <1>12. \A x, y \in summaries : <<x, y>> \in R <=> x.provider < y.provider
    BY DEF ByProvider
  <1> HIDE DEF R
  <1>13. StrictOrder(R, summaries)
    <2>0. \A x \in summaries : x.provider \in Nat
      BY <1>5, <1>10
    <2>1. \A x \in summaries : <<x, x>> \notin R
      BY <2>0, <1>12
    <2>2. \A x, y, z \in summaries : <<x, y>> \in R /\ <<y, z>> \in R => <<x, z>> \in R
      BY <2>0, <1>12
    <2>3. \A x, y \in summaries : x.provider = y.provider => x = y
      BY <1>10
    <2>4. \A x, y \in summaries : x # y => <<x, y>> \in R \/ <<y, x>> \in R
      BY <2>0, <2>3, <1>12
    <2> QED
      BY <2>1, <2>2, <2>4 DEF StrictOrder
  <1>14. unsorted \in Seq(summaries) /\ ToSet(unsorted) = summaries /\ IsInjective(unsorted)
    BY <1>9, SetToSeqLists DEF Lists
  <1> HIDE DEF unsorted
  <1>15. catalog \in Seq(summaries) /\ ToSet(catalog) = summaries /\ Ranked(catalog, R)
    BY <1>4, <1>13, <1>14, SortedElements
  <1>16. /\ DOMAIN catalog = 1..Len(catalog)
         /\ \A i \in DOMAIN catalog : catalog[i] \in summaries
         /\ \A sum \in summaries : \E i \in DOMAIN catalog : catalog[i] = sum
    BY <1>15 DEF ToSet
  <1>17. \A i, j \in DOMAIN catalog : i < j => catalog[i].provider < catalog[j].provider
    BY <1>12, <1>15, <1>16 DEF Ranked
  <1>18. {catalog[i].provider : i \in DOMAIN catalog} = {rec.provider : rec \in S}
    <2>1. \A i \in DOMAIN catalog : catalog[i].provider \in P
      BY <1>10, <1>16
    <2>2. \A p \in P : \E i \in DOMAIN catalog : catalog[i].provider = p
      BY <1>11, <1>16
    <2> QED
      BY <2>1, <2>2, <1>2
  <1>19. ASSUME NEW i \in DOMAIN catalog
         PROVE  Summarizes(catalog[i], OwnedBy(S, catalog[i].provider))
    <2> DEFINE p == catalog[i].provider
    <2>1. p \in P /\ catalog[i] = Summary(p, entries[p])
      BY <1>10, <1>16
    <2> HIDE DEF p
    <2>2. Summarizes(Summary(p, entries[p]), OwnedBy(S, p))
      BY <2>1, <1>7
    <2> QED
      BY <2>1, <2>2 DEF p
  <1> QED
    BY <1>17, <1>18, <1>19 DEF IsCatalogOfRecords, catalog

----------------------------------------------------------------------------
(* The properties.                                                         *)

LEMMA ProvidersAnswer ==
    ASSUME NEW map \in Maps, NEW catalog \in HandleProviders(map)
    PROVE  IsCatalogOfRecords(catalog, RecordsOf(map))
  <1>1. PICK records \in SetToSeqs(RecordsOf(map)) : catalog = BuildProviderCatalog(records)
    BY ListAll DEF HandleProviders
  <1>2. IsFiniteSet(RecordsOf(map)) /\ KeyedRecords(RecordsOf(map), map)
    BY RecordsAreKeyed
  <1>3. Lists(records, RecordsOf(map))
    BY <1>2, SetToSeqsLists
  <1> QED
    BY <1>1, <1>2, <1>3, CatalogOfRecords

LEMMA CatalogIsOfMap ==
    ASSUME NEW map, NEW catalog, IsCatalogOfRecords(catalog, RecordsOf(map))
    PROVE  IsCatalogOf(catalog, map)
  <1> DEFINE S == RecordsOf(map)
  <1>1. ASSUME NEW i \in DOMAIN catalog
        PROVE  LET own == {rec \in S : rec.provider = catalog[i].provider}
                   nodes == catalog[i].nodes
               IN  /\ ToSet(nodes) = own
                   /\ catalog[i].nodeCount = Len(nodes)
                   /\ \A n \in 1..Len(nodes) - 1 : nodes[n].node < nodes[n + 1].node
                   /\ catalog[i].updated \in {rec.updated : rec \in own}
                   /\ \A rec \in own : rec.updated <= catalog[i].updated
    <2>1. Summarizes(catalog[i], OwnedBy(S, catalog[i].provider))
      BY DEF IsCatalogOfRecords
    <2> QED
      BY <2>1 DEF Summarizes, OwnedBy, ByNode
  <1> QED
    BY <1>1 DEF IsCatalogOf, IsCatalogOfRecords

(* In whatever order the records are found, the catalog has each of them   *)
(* once, under its provider, in order, and with the newest time.           *)
THEOREM CatalogIsAlwaysComplete == Spec => []CatalogIsComplete
<1>1. StoreInv => CatalogIsComplete
  <2> SUFFICES ASSUME StoreInv, NEW catalog \in HandleProviders(data)
               PROVE  IsCatalogOf(catalog, data)
    BY DEF CatalogIsComplete
  <2>1. data \in Maps
    BY DEF StoreInv, TypeOK
  <2> QED
    BY <2>1, ProvidersAnswer, CatalogIsOfMap
<1> QED
  BY <1>1, StoreInvariant, PTL

\* A listed record is one of the map the catalog was made of.
LEMMA ListedRecord ==
    ASSUME NEW map \in Maps, NEW catalog \in HandleProviders(map),
           NEW i \in DOMAIN catalog, NEW rec \in ToSet(catalog[i].nodes)
    PROVE  /\ rec \in RecordsOf(map)
           /\ rec.provider = catalog[i].provider
  <1>1. Summarizes(catalog[i], OwnedBy(RecordsOf(map), catalog[i].provider))
    BY ProvidersAnswer DEF IsCatalogOfRecords
  <1> QED
    BY <1>1 DEF Summarizes, OwnedBy

(* A client that was shown a catalog still finds its nodes under their     *)
(* provider, and their instances, after restarts and other updates.        *)
THEOREM CatalogCanAlwaysBeFollowed == Spec => []CatalogCanBeFollowed
<1>1. StoreInv => CatalogCanBeFollowed
  <2> SUFFICES ASSUME StoreInv, running, MutexFree, NEW c \in Clients,
                      NEW catalog \in HandleProviders(served[c]),
                      NEW i \in DOMAIN catalog, NEW rec \in ToSet(catalog[i].nodes),
                      rec.updated \notin lost
               PROVE  /\ \E now \in HandleList(data, catalog[i].provider).records : now.node = rec.node
                      /\ \/ Superseded(rec)
                         \/ \A p \in {0, rec.provider} :
                               rec \in HandleGetByInstance(data, rec.instance, p).records
    BY DEF CatalogCanBeFollowed
  <2> DEFINE k == <<rec.provider, rec.node>>
  <2>1. served[c] \in Maps /\ data \in Maps /\ file.map \in Maps
    BY DEF StoreInv, TypeOK, Contents
  <2>2. rec \in RecordsOf(served[c]) /\ rec.provider = catalog[i].provider
    BY <2>1, ListedRecord
  <2>3. /\ rec \in Record /\ k \in Keys /\ served[c][k] = rec.updated
    BY <2>1, <2>2, RecordsAreKeyed DEF KeyedRecords
  <2>4. rec.provider # 0 /\ rec.instance # 0 /\ rec.updated \in Nat /\ rec.updated # 0
    BY <2>3 DEF Record
  <2>5. rec = RecordAt(served[c], k)
    <3>1. PICK h \in Keys : rec = RecordAt(served[c], h)
      BY <2>2 DEF RecordsOf, RecordAt
    <3>2. h = <<h[1], h[2]>> /\ rec.provider = h[1] /\ rec.node = h[2]
      BY <3>1, CatalogAssumption DEF RecordAt
    <3> QED
      BY <3>1, <3>2
  <2>6. k[1] = rec.provider /\ k[2] = rec.node
    OBVIOUS
  <2> HIDE DEF k
  <2>7. data[k] \in Nat /\ data[k] >= rec.updated
    <3>1. served[c][k] <= file.map[k]
      BY <2>3 DEF StoreInv, ServedSurvives
    <3>2. file.map[k] <= data[k]
      BY <2>3 DEF StoreInv, Ordered
    <3>3. data[k] \in Nat /\ file.map[k] \in Nat
      BY <2>1, <2>3, StoreAssumption DEF Maps
    <3> QED
      BY <3>1, <3>2, <3>3, <2>3, <2>4
  <2> DEFINE now == RecordAt(data, k)
  <2>8. now \in RecordsOf(data) /\ now.provider = rec.provider /\ now.node = rec.node
    <3>1. data[k] # 0
      BY <2>4, <2>7
    <3> QED
      BY <3>1, <2>3, <2>6, RecordOfKey DEF RecordAt
  <2>9. \E r \in HandleList(data, catalog[i].provider).records : r.node = rec.node
    <3> HIDE DEF now
    <3>1. now \in List(data, rec.provider, 0, 0)
      BY <2>8 DEF List
    <3>2. HandleList(data, rec.provider).records = List(data, rec.provider, 0, 0)
      BY <2>4 DEF HandleList, Answer
    <3> QED
      BY <3>1, <3>2, <2>2, <2>8
  <2>10. CASE data[k] > rec.updated
    BY <2>10, <2>9 DEF Superseded, k
  <2>11. CASE ~(data[k] > rec.updated)
    <3>1. data[k] = served[c][k]
      BY <2>3, <2>4, <2>7, <2>11
    <3>2. now = rec
      BY <3>1, <2>5 DEF RecordAt
    <3>3. rec \in RecordsOf(data)
      BY <3>2, <2>8
    <3>4. \A p \in {0, rec.provider} :
             rec \in HandleGetByInstance(data, rec.instance, p).records
      <4> SUFFICES ASSUME NEW p \in {0, rec.provider}
                   PROVE  rec \in HandleGetByInstance(data, rec.instance, p).records
        OBVIOUS
      <4>1. rec \in List(data, p, 0, rec.instance)
        BY <3>3 DEF List
      <4>2. HandleGetByInstance(data, rec.instance, p).records = List(data, p, 0, rec.instance)
        BY <2>4 DEF HandleGetByInstance, FoundAmong, Answer
      <4> QED
        BY <4>1, <4>2
    <3> QED
      BY <3>4, <2>9
  <2> QED
    BY <2>10, <2>11
<1> QED
  BY <1>1, StoreInvariant, PTL
=============================================================================
