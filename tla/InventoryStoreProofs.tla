------------------------ MODULE InventoryStoreProofs ------------------------
(***************************************************************************)
(* Proofs about InventoryStore for any number of keys, clients, updates    *)
(* and kills.                                                              *)
(*                                                                         *)
(* StoreInv is the inductive invariant all of them rest on: the mutex is   *)
(* held by the one client inside Upsert; that client's temporary file is   *)
(* the map in memory; the disk is never ahead of memory; and they differ   *)
(* only in records that were reported as lost or are being saved.          *)
(***************************************************************************)
EXTENDS InventoryStore, TLAPS

\* Only the holder of the mutex is inside Upsert, and only in a live process.
Exclusive == /\ \A c \in Clients : pc[c] # "idle" <=> mu = c
             /\ mu # Nobody => running

\* The holder is saving the newest record, and what it has written so far is
\* the map in memory.
Carried == \A c \in Clients :
    /\ pc[c] # "idle" => data[arg[c]] = upserts /\ upserts # 0
    /\ pc[c] = "write" => raw[c] = data
    /\ pc[c] = "rename" => tmp = Whole(data)
    /\ pc[c] = "saved" => file = Whole(data)

\* Upserts are numbered upwards, and the disk follows the memory.
Ordered == \A k \in Keys :
    /\ file.map[k] <= upserts
    /\ running => data[k] <= upserts /\ file.map[k] <= data[k]

\* A record that is not on disk was lost or is the one being saved.
Accounted == running => \A k \in Keys :
    \/ data[k] = file.map[k]
    \/ data[k] \in lost
    \/ mu # Nobody /\ k = arg[mu]

StoreInv == /\ TypeOK
            /\ Exclusive
            /\ Carried
            /\ Ordered
            /\ Accounted
            /\ FileLoads
            /\ AckedIsDurable
            /\ ServedSurvives

LEMMA InitStoreInv == Init => StoreInv
<1> SUFFICES ASSUME Init PROVE StoreInv
  OBVIOUS
<1> USE StoreAssumption DEF Init
<1>1. Empty \in Maps
  BY DEF Empty, Maps
<1>2. Absent \in Contents
  BY <1>1 DEF Absent, Contents
<1>3. TypeOK
  <2>1. data \in Maps /\ acked \in Maps /\ file \in Contents /\ tmp \in Contents
    BY <1>1, <1>2
  <2>2. raw \in [Clients -> Maps] /\ served \in [Clients -> Maps]
    BY <1>1
  <2>3. pc \in [Clients -> {"idle", "persist", "write", "rename", "saved", "failed"}]
    OBVIOUS
  <2>4. upserts \in 0..MaxUpserts /\ crashes \in 0..MaxCrashes
    OBVIOUS
  <2> QED
    BY <2>1, <2>2, <2>3, <2>4 DEF TypeOK
<1>4. Exclusive /\ Carried
  BY DEF Exclusive, Carried
<1>5. Ordered /\ Accounted
  BY DEF Ordered, Accounted, Absent, Empty
<1>6. FileLoads /\ AckedIsDurable /\ ServedSurvives
  BY DEF FileLoads, AckedIsDurable, ServedSurvives, Absent, Empty
<1> QED
  BY <1>3, <1>4, <1>5, <1>6 DEF StoreInv

----------------------------------------------------------------------------
LEMMA BootKeeps == StoreInv /\ Boot => StoreInv'
<1> SUFFICES ASSUME StoreInv, Boot PROVE StoreInv'
  OBVIOUS
<1> USE StoreAssumption DEF StoreInv, Boot, Loaded, calls, history
<1>1. TypeOK'
  <2>1. file.map \in Maps
    BY DEF TypeOK, Contents
  <2>2. data' \in Maps /\ running' \in BOOLEAN
    BY <2>1
  <2> QED
    BY <2>2 DEF TypeOK
<1>2. \A c \in Clients : pc[c] = "idle"
  BY DEF Exclusive
<1>3. Exclusive'
  BY DEF Exclusive
<1>4. Carried'
  BY <1>2 DEF Carried
<1>5. Ordered' /\ Accounted'
  BY DEF TypeOK, Ordered, Accounted, Contents, Maps
<1>6. (FileLoads /\ AckedIsDurable /\ ServedSurvives)'
  BY DEF FileLoads, AckedIsDurable, ServedSurvives
<1> QED
  BY <1>1, <1>3, <1>4, <1>5, <1>6

LEMMA CrashKeeps == StoreInv /\ Crash => StoreInv'
<1> SUFFICES ASSUME StoreInv, Crash PROVE StoreInv'
  OBVIOUS
<1> USE StoreAssumption DEF StoreInv, Crash, history
<1>1. TypeOK'
  <2>1. data' \in Maps
    BY DEF Empty, Maps
  <2>2. pc' \in [Clients -> {"idle", "persist", "write", "rename", "saved", "failed"}]
    OBVIOUS
  <2>3. crashes' \in 0..MaxCrashes
    BY DEF TypeOK
  <2>4. mu' \in Clients \cup {Nobody} /\ running' \in BOOLEAN
    OBVIOUS
  <2> QED
    BY <2>1, <2>2, <2>3, <2>4 DEF TypeOK
<1>2. Exclusive' /\ Carried'
  BY DEF TypeOK, Exclusive, Carried
<1>3. Ordered' /\ Accounted'
  BY DEF Ordered, Accounted
<1>4. (FileLoads /\ AckedIsDurable /\ ServedSurvives)'
  BY DEF FileLoads, AckedIsDurable, ServedSurvives
<1> QED
  BY <1>1, <1>2, <1>3, <1>4

LEMMA UpsertSetKeeps ==
    ASSUME NEW c \in Clients, NEW k \in Keys, StoreInv, UpsertSet(c, k)
    PROVE  StoreInv'
<1> USE StoreAssumption DEF StoreInv, UpsertSet, SetRecord, MutexFree, Goto, history
<1>1. TypeOK'
  BY DEF TypeOK, Maps
<1>2. Exclusive'
  BY DEF TypeOK, Exclusive
<1>3. Carried'
  BY DEF TypeOK, Exclusive, Carried, Maps
<1>4. Ordered'
  BY DEF TypeOK, Ordered, Contents, Maps
<1>5. Accounted'
  BY DEF TypeOK, Accounted, Maps
<1>6. (FileLoads /\ AckedIsDurable /\ ServedSurvives)'
  BY DEF FileLoads, AckedIsDurable, ServedSurvives
<1> QED
  BY <1>1, <1>2, <1>3, <1>4, <1>5, <1>6

LEMMA OpenTmpKeeps ==
    ASSUME NEW c \in Clients, StoreInv, OpenTmp(c)
    PROVE  StoreInv'
<1> USE StoreAssumption DEF StoreInv, OpenTmp, Payload, Goto, history
<1>1. TypeOK'
  BY DEF TypeOK, Torn, Contents, Empty, Maps
<1>2. Exclusive'
  BY DEF TypeOK, Exclusive
<1>3. Carried'
  BY DEF TypeOK, Exclusive, Carried
<1>4. Ordered' /\ Accounted'
  BY DEF Ordered, Accounted
<1>5. (FileLoads /\ AckedIsDurable /\ ServedSurvives)'
  BY DEF FileLoads, AckedIsDurable, ServedSurvives
<1> QED
  BY <1>1, <1>2, <1>3, <1>4, <1>5

LEMMA WriteTmpKeeps ==
    ASSUME NEW c \in Clients, StoreInv, WriteTmp(c)
    PROVE  StoreInv'
<1> USE StoreAssumption DEF StoreInv, WriteTmp, Goto, history
<1>1. TypeOK'
  BY DEF TypeOK, Whole, Contents
<1>2. Exclusive'
  BY DEF TypeOK, Exclusive
<1>3. Carried'
  BY DEF TypeOK, Exclusive, Carried
<1>4. Ordered' /\ Accounted'
  BY DEF Ordered, Accounted
<1>5. (FileLoads /\ AckedIsDurable /\ ServedSurvives)'
  BY DEF FileLoads, AckedIsDurable, ServedSurvives
<1> QED
  BY <1>1, <1>2, <1>3, <1>4, <1>5

\* The step that replaces the file: it becomes the map in memory, whole.
LEMMA RenameTmpKeeps ==
    ASSUME NEW c \in Clients, StoreInv, RenameTmp(c)
    PROVE  StoreInv'
<1> USE StoreAssumption DEF StoreInv, RenameTmp, Goto, history
<1>1. file' = Whole(data) /\ running
  BY DEF Carried, Exclusive
<1>2. file'.map = data /\ file'.state = "whole"
  BY <1>1 DEF Whole
<1>3. TypeOK'
  BY DEF TypeOK, Absent, Contents, Empty, Maps
<1>4. Exclusive'
  BY DEF TypeOK, Exclusive
<1>5. Carried'
  BY <1>1 DEF TypeOK, Exclusive, Carried, Whole
<1>6. Ordered' /\ Accounted'
  BY <1>1, <1>2 DEF TypeOK, Ordered, Accounted, Maps
<1>7. \A k \in Keys : file.map[k] <= file'.map[k]
  BY <1>1, <1>2 DEF Ordered
<1>8. AckedIsDurable' /\ ServedSurvives'
  BY <1>7, <1>3 DEF TypeOK, AckedIsDurable, ServedSurvives, Contents, Maps
<1>9. FileLoads'
  BY <1>2 DEF FileLoads
<1> QED
  BY <1>3, <1>4, <1>5, <1>6, <1>8, <1>9

LEMMA PersistFailsKeeps ==
    ASSUME NEW c \in Clients, StoreInv, PersistFails(c)
    PROVE  StoreInv'
<1> USE StoreAssumption DEF StoreInv, PersistFails, Goto, history
<1>1. TypeOK'
  BY DEF TypeOK
<1>2. Exclusive'
  BY DEF TypeOK, Exclusive
<1>3. Carried'
  BY DEF TypeOK, Exclusive, Carried
<1>4. Ordered' /\ Accounted'
  BY DEF Ordered, Accounted
<1>5. (FileLoads /\ AckedIsDurable /\ ServedSurvives)'
  BY DEF FileLoads, AckedIsDurable, ServedSurvives
<1> QED
  BY <1>1, <1>2, <1>3, <1>4, <1>5

LEMMA UpsertReturnsKeeps ==
    ASSUME NEW c \in Clients, StoreInv, UpsertReturns(c)
    PROVE  StoreInv'
<1> USE StoreAssumption DEF StoreInv, UpsertReturns, ReturnsNil, Goto
<1>1. mu = c /\ running /\ arg[c] \in Keys /\ data[arg[c]] \in 1..MaxUpserts
  BY DEF TypeOK, Exclusive, Carried, Maps
<1>2. TypeOK'
  BY <1>1 DEF TypeOK, Maps
<1>3. Exclusive'
  BY <1>1 DEF TypeOK, Exclusive
<1>4. Carried'
  BY <1>1 DEF TypeOK, Exclusive, Carried
<1>5. pc[c] = "saved" => file.map = data
  BY DEF Carried, Whole
<1>6. Ordered'
  BY DEF Ordered
<1>7. Accounted'
  BY <1>1, <1>5 DEF TypeOK, Accounted
<1>8. AckedIsDurable'
  BY <1>1, <1>5 DEF TypeOK, AckedIsDurable, Maps
<1>9. FileLoads' /\ ServedSurvives'
  BY DEF FileLoads, ServedSurvives
<1> QED
  BY <1>2, <1>3, <1>4, <1>6, <1>7, <1>8, <1>9

LEMMA ReadKeeps ==
    ASSUME NEW c \in Clients, StoreInv, Read(c)
    PROVE  StoreInv'
<1> USE StoreAssumption DEF StoreInv, Read, MutexFree, calls
<1>1. TypeOK'
  BY DEF TypeOK
<1>2. Exclusive' /\ Carried'
  BY DEF Exclusive, Carried
<1>3. Ordered' /\ Accounted'
  BY DEF Ordered, Accounted
<1>4. ServedSurvives'
  BY DEF TypeOK, Accounted, ServedSurvives, Contents, Maps
<1>5. FileLoads' /\ AckedIsDurable'
  BY DEF FileLoads, AckedIsDurable
<1> QED
  BY <1>1, <1>2, <1>3, <1>4, <1>5

LEMMA StutterKeeps == StoreInv /\ UNCHANGED vars => StoreInv'
<1> SUFFICES ASSUME StoreInv, UNCHANGED vars PROVE StoreInv'
  OBVIOUS
<1> USE DEF StoreInv, vars, calls, history
<1>1. TypeOK' /\ Exclusive' /\ Carried'
  BY DEF TypeOK, Exclusive, Carried
<1>2. Ordered' /\ Accounted'
  BY DEF Ordered, Accounted
<1>3. (FileLoads /\ AckedIsDurable /\ ServedSurvives)'
  BY DEF FileLoads, AckedIsDurable, ServedSurvives
<1> QED
  BY <1>1, <1>2, <1>3

LEMMA NextStoreInv == StoreInv /\ [Next]_vars => StoreInv'
<1> SUFFICES ASSUME StoreInv, [Next]_vars PROVE StoreInv'
  OBVIOUS
<1>1. CASE Boot
  BY <1>1, BootKeeps
<1>2. CASE Crash
  BY <1>2, CrashKeeps
<1>3. CASE \E c \in Clients : ClientStep(c)
  <2>1. PICK c \in Clients : ClientStep(c)
    BY <1>3
  <2> QED
    BY <2>1, UpsertSetKeeps, OpenTmpKeeps, WriteTmpKeeps, RenameTmpKeeps,
       PersistFailsKeeps, UpsertReturnsKeeps, ReadKeeps DEF ClientStep
<1>4. CASE UNCHANGED vars
  BY <1>4, StutterKeeps
<1> QED
  BY <1>1, <1>2, <1>3, <1>4 DEF Next

(* StoreInv holds in every reachable state of the store.                   *)
THEOREM StoreInvariant == Spec => []StoreInv
<1> QED
  BY InitStoreInv, NextStoreInv, PTL DEF Spec

----------------------------------------------------------------------------
(* Memory, file, temporary file and the places of the clients keep their   *)
(* types: no reader or writer meets anything but a map or a torn file.     *)
THEOREM StoreIsTyped == Spec => []TypeOK
<1>1. StoreInv => TypeOK
  BY DEF StoreInv
<1> QED
  BY <1>1, StoreInvariant, PTL

(* The inventory file can be loaded at any time, so NewStore never fails   *)
(* on what an earlier process, or a save that failed, left behind.         *)
THEOREM FileAlwaysLoads == Spec => []FileLoads
<1>1. StoreInv => FileLoads
  BY DEF StoreInv
<1> QED
  BY <1>1, StoreInvariant, PTL

(* An Upsert that returned nil stays on disk.                              *)
THEOREM AckedStaysDurable == Spec => []AckedIsDurable
<1>1. StoreInv => AckedIsDurable
  BY DEF StoreInv
<1> QED
  BY <1>1, StoreInvariant, PTL

(* Whatever GetHash or List answered survives a kill, except a record      *)
(* whose save was reported as failed.                                      *)
THEOREM ServedAlwaysSurvives == Spec => []ServedSurvives
<1>1. StoreInv => ServedSurvives
  BY DEF StoreInv
<1> QED
  BY <1>1, StoreInvariant, PTL

(* Between calls the file lacks only records that were reported as lost.   *)
THEOREM IdleAlwaysMatchesFile == Spec => []IdleMatchesFile
<1>1. StoreInv => IdleMatchesFile
  BY DEF StoreInv, Accounted, IdleMatchesFile, MutexFree
<1> QED
  BY <1>1, StoreInvariant, PTL

\* The file changes only when it is replaced by the map in memory.
LEMMA FileSteps == StoreInv /\ [Next]_vars => file' = file \/ (file' = Whole(data) /\ running)
<1> SUFFICES ASSUME StoreInv, [Next]_vars, file' # file
             PROVE  file' = Whole(data) /\ running
  OBVIOUS
<1>1. PICK c \in Clients : RenameTmp(c)
  BY DEF Next, vars, Boot, Crash, ClientStep, UpsertSet, OpenTmp, WriteTmp,
     PersistFails, UpsertReturns, Read
<1> QED
  BY <1>1, StoreAssumption DEF StoreInv, Carried, Exclusive, RenameTmp

(* No step of the store brings an older record back to the disk.           *)
THEOREM FileOnlyGoesForward == Spec => FileNeverGoesBack
<1>1. StoreInv /\ [Next]_vars => [\A k \in Keys : file'.map[k] >= file.map[k]]_vars
  <2> SUFFICES ASSUME StoreInv, [Next]_vars, NEW k \in Keys
               PROVE  file'.map[k] >= file.map[k]
    OBVIOUS
  <2>1. file.map[k] \in Nat
    BY DEF StoreInv, TypeOK, Contents, Maps
  <2>2. running => data[k] >= file.map[k]
    BY <2>1 DEF StoreInv, TypeOK, Ordered, Maps
  <2> QED
    BY <2>1, <2>2, FileSteps DEF Whole
<1> QED
  BY <1>1, StoreInvariant, PTL DEF Spec, FileNeverGoesBack

----------------------------------------------------------------------------
(* The store implements the promise of DurableMap.                         *)

LEMMA InitImplements == Init => Durable!MapInit
BY DEF Init, Durable!MapInit, Durable!Empty, Empty, Absent

LEMMA StepImplements == StoreInv /\ [Next]_vars => [Durable!MapNext]_(Durable!mapVars)
<1> DEFINE mem == IF running THEN data ELSE file.map
<1> SUFFICES ASSUME StoreInv, [Next]_vars
             PROVE  Durable!MapNext \/ UNCHANGED <<mem, file.map>>
  BY DEF Durable!mapVars
<1>1. CASE Boot
  BY <1>1 DEF Boot, Loaded
<1>2. CASE Crash
  <2>1. mem' = file.map /\ UNCHANGED file
    BY <1>2 DEF Crash
  <2> QED
    BY <2>1 DEF Durable!MapNext, Durable!Restart
<1>3. ASSUME NEW c \in Clients, NEW k \in Keys, UpsertSet(c, k)
      PROVE  Durable!MapNext
  <2>1. running /\ running' /\ UNCHANGED file
    BY <1>3 DEF UpsertSet
  <2>2. data' = [data EXCEPT ![k] = upserts + 1] /\ upserts + 1 \in 1..MaxUpserts
    BY <1>3, StoreAssumption DEF UpsertSet, SetRecord, StoreInv, TypeOK
  <2>3. Durable!Put(k, upserts + 1)
    BY <2>1, <2>2 DEF Durable!Put
  <2> QED
    BY <2>2, <2>3 DEF Durable!MapNext
<1>4. ASSUME NEW c \in Clients, RenameTmp(c)
      PROVE  Durable!MapNext
  <2>1. file' = Whole(data) /\ running /\ UNCHANGED <<running, data>>
    BY <1>4, StoreAssumption DEF RenameTmp, StoreInv, Carried, Exclusive
  <2>2. Durable!Save
    BY <2>1 DEF Durable!Save, Whole
  <2> QED
    BY <2>2 DEF Durable!MapNext
<1>5. ASSUME NEW c \in Clients,
             OpenTmp(c) \/ WriteTmp(c) \/ PersistFails(c) \/ UpsertReturns(c) \/ Read(c)
      PROVE  UNCHANGED <<mem, file.map>>
  BY <1>5 DEF OpenTmp, WriteTmp, PersistFails, UpsertReturns, Read
<1>6. CASE UNCHANGED vars
  BY <1>6 DEF vars
<1> QED
  BY <1>1, <1>2, <1>3, <1>4, <1>5, <1>6 DEF Next, ClientStep

(* Every behaviour of the file-backed store is, seen through its memory    *)
(* and its file, a behaviour of DurableMap: NodeSync may use one step per  *)
(* Upsert.                                                                 *)
THEOREM StoreImplementsMap == Spec => ImplementsDurableMap
<1> QED
  BY InitImplements, StepImplements, StoreInvariant, PTL
  DEF Spec, ImplementsDurableMap, Durable!MapSpec
=============================================================================
