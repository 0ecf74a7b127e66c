--------------------------- MODULE InventoryStore ---------------------------
(***************************************************************************)
(* The file-backed inventory (internal/inventory/store.go): a map behind a *)
(* mutex, written out whole to path.tmp and renamed over path by every     *)
(* Upsert.  Its callers are the reconcile worker (Upsert, GetHash) and the *)
(* goroutines of the HTTP server (List).  The process may be killed at any *)
(* point and started again; a file operation may fail.                     *)
(*                                                                         *)
(* A record is represented by the number of the Upsert that wrote it (the  *)
(* order UpdatedAt stands for); 0 is no record.                            *)
(***************************************************************************)
EXTENDS Naturals

CONSTANTS
    Keys,           \* providerID|nodeName
    Clients,        \* goroutines that call the store
    Nobody,         \* the mutex is free
    MaxUpserts,     \* bound: Upsert calls in a behaviour
    MaxCrashes      \* bound: process kills in a behaviour

ASSUME StoreAssumption == /\ Nobody \notin Clients
                          /\ MaxUpserts \in Nat
                          /\ MaxCrashes \in Nat

VARIABLES
    running,    \* NewStore has returned and the process is alive
    data,       \* s.data
    mu,         \* holder of s.mu
    pc,         \* where each client is inside Upsert
    arg,        \* the key of each client's Upsert
    raw,        \* the bytes persist marshalled, as the map they encode
    file,       \* contents of path
    tmp,        \* contents of path.tmp
    upserts,    \* Upsert calls so far
    crashes,    \* kills so far
    acked,      \* history: newest Upsert of each key that returned nil
    lost,       \* history: Upserts that returned an error
    served      \* history: what each client was last answered by a read

calls == <<mu, pc, arg, raw>>
history == <<acked, lost, served>>
vars == <<running, data, file, tmp, upserts, crashes, calls, history>>

Maps == [Keys -> 0..MaxUpserts]
Empty == [k \in Keys |-> 0]

\* Contents of a file: absent, cut short while being written, or whole.
Absent == [state |-> "absent", map |-> Empty]
Torn == [state |-> "torn", map |-> Empty]
Whole(m) == [state |-> "whole", map |-> m]
Contents == [state : {"absent", "torn", "whole"}, map : Maps]

TypeOK ==
    /\ running \in BOOLEAN
    /\ data \in Maps
    /\ mu \in Clients \cup {Nobody}
    /\ pc \in [Clients -> {"idle", "persist", "write", "rename", "saved", "failed"}]
    /\ arg \in [Clients -> Keys]
    /\ raw \in [Clients -> Maps]
    /\ file \in Contents
    /\ tmp \in Contents
    /\ upserts \in 0..MaxUpserts
    /\ crashes \in 0..MaxCrashes
    /\ acked \in Maps
    /\ lost \subseteq 1..MaxUpserts
    /\ served \in [Clients -> Maps]

Init ==
    /\ running = FALSE
    /\ data = Empty
    /\ mu = Nobody
    /\ pc = [c \in Clients |-> "idle"]
    /\ arg \in [Clients -> Keys]
    /\ raw = [c \in Clients |-> Empty]
    /\ file = Absent
    /\ tmp = Absent
    /\ upserts = 0
    /\ crashes = 0
    /\ acked = Empty
    /\ lost = {}
    /\ served = [c \in Clients |-> Empty]

----------------------------------------------------------------------------
Goto(c, l) == pc' = [pc EXCEPT ![c] = l]

\* Mutated form: no mutex around the map and its file.
MutexIgnored == TRUE

\* s.mu.Lock() can return.
MutexFree == mu = Nobody

\* Mutated form: the file is not read at start.
LoadedNothing == Empty

\* What load puts into s.data.
Loaded == file.map

\* NewStore and load: a missing file is an empty store, a file that does not
\* parse makes NewStore fail, and then the process exits instead of running.
Boot ==
    /\ ~running
    /\ file.state # "torn"
    /\ running' = TRUE
    /\ data' = Loaded
    /\ UNCHANGED <<file, tmp, upserts, crashes, calls, history>>

\* Mutated form: the record never gets into the map.
SetNothing(k) == data

\* s.data after the assignment of Upsert.
SetRecord(k) == [data EXCEPT ![k] = upserts + 1]

\* Upsert takes the mutex and sets the record in memory.
UpsertSet(c, k) ==
    /\ running /\ pc[c] = "idle" /\ MutexFree
    /\ upserts < MaxUpserts
    /\ upserts' = upserts + 1
    /\ mu' = c
    /\ data' = SetRecord(k)
    /\ arg' = [arg EXCEPT ![c] = k]
    /\ Goto(c, "persist")
    /\ UNCHANGED <<running, raw, file, tmp, crashes, history>>

\* Mutated form: only the record of this call is written out.
PayloadOfCall(c) == [Empty EXCEPT ![arg[c]] = data[arg[c]]]

\* The records persist marshals: every one in the map.
Payload(c) == data

\* persist marshals the whole map; os.WriteFile opens and truncates path.tmp.
OpenTmp(c) ==
    /\ pc[c] = "persist"
    /\ raw' = [raw EXCEPT ![c] = Payload(c)]
    /\ tmp' = Torn
    /\ Goto(c, "write")
    /\ UNCHANGED <<running, data, mu, arg, file, upserts, crashes, history>>

\* os.WriteFile has written every byte and closed path.tmp.
WriteTmp(c) ==
    /\ pc[c] = "write"
    /\ tmp' = Whole(raw[c])
    /\ Goto(c, "rename")
    /\ UNCHANGED <<running, data, mu, arg, raw, file, upserts, crashes, history>>

\* os.Rename puts whatever path.tmp holds in the place of path.
RenameTmp(c) ==
    /\ pc[c] = "rename"
    /\ file' = tmp
    /\ tmp' = Absent
    /\ Goto(c, "saved")
    /\ UNCHANGED <<running, data, mu, arg, raw, upserts, crashes, history>>

\* Opening, writing or renaming fails: persist returns the error, the record
\* stays in memory and path.tmp stays as it is.
PersistFails(c) ==
    /\ pc[c] \in {"persist", "write", "rename"}
    /\ Goto(c, "failed")
    /\ UNCHANGED <<running, data, mu, arg, raw, file, tmp, upserts, crashes, history>>

\* Mutated form: the error of persist is swallowed.
ReturnsNilAlways(c) == TRUE

\* persist, and so Upsert, returned nil.
ReturnsNil(c) == pc[c] = "saved"

\* The deferred Unlock runs and Upsert returns.
UpsertReturns(c) ==
    /\ pc[c] \in {"saved", "failed"}
    /\ IF ReturnsNil(c)
       THEN acked' = [acked EXCEPT ![arg[c]] = data[arg[c]]] /\ UNCHANGED lost
       ELSE lost' = lost \cup {data[arg[c]]} /\ UNCHANGED acked
    /\ mu' = Nobody
    /\ Goto(c, "idle")
    /\ UNCHANGED <<running, data, arg, raw, file, tmp, upserts, crashes, served>>

\* GetHash and List answer from memory while they hold the mutex.
Read(c) ==
    /\ running /\ pc[c] = "idle" /\ MutexFree
    /\ served' = [served EXCEPT ![c] = data]
    /\ UNCHANGED <<running, data, file, tmp, upserts, crashes, calls, acked, lost>>

\* The process is killed: memory and calls are gone, the files stay.
Crash ==
    /\ running
    /\ crashes < MaxCrashes
    /\ crashes' = crashes + 1
    /\ running' = FALSE
    /\ data' = Empty
    /\ mu' = Nobody
    /\ pc' = [c \in Clients |-> "idle"]
    /\ UNCHANGED <<arg, raw, file, tmp, upserts, history>>

ClientStep(c) ==
    \/ \E k \in Keys : UpsertSet(c, k)
    \/ OpenTmp(c)
    \/ WriteTmp(c)
    \/ RenameTmp(c)
    \/ PersistFails(c)
    \/ UpsertReturns(c)
    \/ Read(c)

Next == Boot \/ Crash \/ \E c \in Clients : ClientStep(c)

Spec == Init /\ [][Next]_vars

----------------------------------------------------------------------------
(* The file at path can always be loaded: no kill, failed write or second  *)
(* writer leaves a half-written file there, so a restart never gets stuck  *)
(* on the error that load returns.                                         *)
FileLoads == file.state # "torn"

(* An Upsert that returned nil is on disk from then on, whatever happens   *)
(* to the process or to later saves: the file has that record or a newer   *)
(* one of the same key.                                                    *)
AckedIsDurable == \A k \in Keys : file.map[k] >= acked[k]

(* Between calls the file and the memory differ only in records whose      *)
(* Upsert returned an error to its caller.                                 *)
IdleMatchesFile ==
    running /\ MutexFree =>
        \A k \in Keys : data[k] = file.map[k] \/ data[k] \in lost

(* What GetHash and List have ever answered survives a kill of the         *)
(* process, except for a record whose save was reported as failed: no      *)
(* reader is shown an update that is still on its way to the disk.         *)
ServedSurvives ==
    \A c \in Clients, k \in Keys :
        served[c][k] <= file.map[k] \/ served[c][k] \in lost

(* A save never brings an older record of any key back to the disk, also   *)
(* when earlier saves failed or path.tmp was left behind by a killed       *)
(* process.                                                                *)
FileNeverGoesBack ==
    [][\A k \in Keys : file'.map[k] >= file.map[k]]_vars

(* The store implements the promise of DurableMap.  Memory that a kill has *)
(* wiped counts as what load will read.                                    *)
Durable == INSTANCE DurableMap WITH
    Records <- 1..MaxUpserts,
    NoRecord <- 0,
    mem <- IF running THEN data ELSE file.map,
    disk <- file.map

ImplementsDurableMap == Durable!MapSpec
=============================================================================
