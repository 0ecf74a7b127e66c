----------------------------- MODULE MCNodeSync -----------------------------
(***************************************************************************)
(* Instances of NodeSync.  Node names are the server names of Nova, and    *)
(* the VM ids for the case that Nova fails.                                *)
(***************************************************************************)
EXTENDS NodeSync, TLC

CONSTANTS c1, c2, v1, v2, n1, n2, p, a, b

MCNames == {n1, n2, v1, v2}
OneProvider == [c \in CRs |-> p]
Named == [vm \in VMs |-> IF vm = v1 THEN n1 ELSE n2]

\* Every object selects every port; or c2 selects other subnets than c1, so
\* that the two never find the same interfaces of a VM.
AllPorts == [c \in CRs |-> [x \in Ifaces |-> x]]
OtherSubnets ==
    [c \in CRs |-> [x \in Ifaces |-> IF c = c1 THEN x ELSE CHOOSE y \in Ifaces : y # x]]

\* Two VMs of one object, the second also listed by another object.
Overlapping == c1 :> <<v1, v2>> @@ c2 :> <<v2>>
Single == c1 :> <<v1>>

\* The instances are among those RecordsAreCoherent is about.
ASSUME NamesAreDistinct == DistinctNames

Symmetry == Permutations(Ifaces)
=============================================================================
