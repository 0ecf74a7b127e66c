----------------------------- MODULE DurableMap -----------------------------
(***************************************************************************)
(* What the operator may rely on when it uses the inventory: a map kept in *)
(* memory, a copy of it on disk that is always one whole state the map was *)
(* in, and a restart that goes back to that copy.  An update whose save    *)
(* failed is visible at once and lost by a restart.                        *)
(*                                                                         *)
(* InventoryStore shows that the file-backed store keeps this promise, and *)
(* NodeSync, which uses the store as one step per Upsert, is checked to    *)
(* use it within the promise.                                              *)
(***************************************************************************)
CONSTANTS
    Keys,       \* providerID + "|" + nodeName
    Records,    \* what is stored under a key
    NoRecord    \* the key has no record, which is no element of Records

VARIABLES
    mem,        \* the map every reader is answered from
    disk        \* the map a restart would begin with

mapVars == <<mem, disk>>

Maps == [Keys -> Records \cup {NoRecord}]

MapTypeOK == mem \in Maps /\ disk \in Maps

Empty == [k \in Keys |-> NoRecord]

MapInit == mem = Empty /\ disk = Empty

\* Mutated form: the record is taken back when its save fails.
PutUndone(k, r) == UNCHANGED mapVars

\* Upsert whose save fails, or has not happened yet.
Put(k, r) == /\ mem' = [mem EXCEPT ![k] = r]
             /\ UNCHANGED disk

\* Upsert whose save succeeds before it returns.
PutAndSave(k, r) == /\ mem' = [mem EXCEPT ![k] = r]
                    /\ disk' = mem'

\* The whole map replaces the copy on disk, never a part of it.
Save == disk' = mem /\ UNCHANGED mem

Restart == mem' = disk /\ UNCHANGED disk

\* Two steps that are outside the promise and which the store cannot prevent:
\* the volume goes away, and a process that had read the file earlier becomes
\* the one that uses it.
Lose == mem' = Empty /\ disk' = Empty
TakeOver(m) == mem' = m /\ UNCHANGED disk

MapNext == \/ \E k \in Keys, r \in Records : Put(k, r) \/ PutAndSave(k, r)
           \/ Save
           \/ Restart

MapSpec == MapInit /\ [][MapNext]_mapVars
=============================================================================
