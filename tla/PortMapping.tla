----------------------------- MODULE PortMapping -----------------------------
(***************************************************************************)
(* How the ports that Neutron lists become the interfaces of the nodes:    *)
(* the status and creation filters, the subnet filters, mapPortsToNodes    *)
(* and normalizeNodeConfig of internal/controller/                         *)
(* openstackconfig_controller.go, computed again whenever the ports, their *)
(* state, the order of the answer or spec.subnetIDs change.                *)
(*                                                                         *)
(* MAC addresses and port ids are numbers here, since only their order     *)
(* matters.  The CIDR follows from the subnet and is left out.             *)
(***************************************************************************)
EXTENDS Lists, SequencesExt

CONSTANTS
    Ports,          \* port ids
    Mac,            \* [Ports -> Nat]
    DeviceOf,       \* [Ports -> VMs], device_id
    NetworkOf,      \* [Ports -> Networks], network_id
    FixedIPs,       \* [Ports -> Seq(Subnets)], fixed_ips by their subnet
    VMs,
    Subnets,
    Networks,
    SubnetNetwork,  \* [Subnets -> Networks]
    NetworkMTU,     \* [Networks -> Nat \ {0}]
    Listed,         \* spec.vmNames without duplicates
    Created,        \* [Ports -> {"before", "after", "unknown"}], to the object
    CanBe,          \* [Ports -> SUBSET Statuses], what a port goes through
    Allowed,        \* port statuses let through
    MaxInterfaces

Statuses == {"", "ACTIVE", "DOWN", "BUILD"}

ASSUME PortMappingAssumption ==
    /\ Ports \subseteq Nat
    /\ Mac \in [Ports -> Nat]
    /\ DeviceOf \in [Ports -> VMs]
    /\ NetworkOf \in [Ports -> Networks]
    /\ IsFiniteSet(Subnets)
    /\ FixedIPs \in [Ports -> Seq(Subnets)]
    /\ SubnetNetwork \in [Subnets -> Networks]
    /\ NetworkMTU \in [Networks -> Nat \ {0}]
    /\ Listed \in Seq(VMs) /\ IsInjective(Listed)
    /\ Created \in [Ports -> {"before", "after", "unknown"}]
    /\ CanBe \in [Ports -> (SUBSET Statuses) \ {{}}]
    /\ Allowed \subseteq Statuses
    /\ MaxInterfaces \in Nat \ {0}

VARIABLES
    listing,        \* the answer of ListPorts
    portStatus,     \* [Ports -> Statuses]
    subnetIDs,      \* spec.subnetIDs without duplicates
    nodes,          \* the normalised configs, in the order of Listed
    downPortIDs     \* the DOWN ports among their interfaces

vars == <<listing, portStatus, subnetIDs, nodes, downPortIDs>>

\* No MTU, when it is 0.
Interfaces == [port : Ports, subnet : Subnets, mtu : Nat]

TypeOK ==
    /\ listing \in Seq(Ports) /\ IsInjective(listing)
    /\ portStatus \in [Ports -> Statuses]
    /\ subnetIDs \in Seq(Subnets) /\ subnetIDs # <<>> /\ IsInjective(subnetIDs)
    /\ nodes \in Seq([instanceID : VMs, interfaces : Seq(Interfaces) \ {<<>>}])
    /\ downPortIDs \subseteq Ports

----------------------------------------------------------------------------
(* The algorithm.                                                          *)

\* portStatusAllowed: an unknown status passes.
StatusAllowed(s) == s = "" \/ s \in Allowed

\* filterPortsByStatus and filterPortsByCreatedAfter.
Eligible(status, p) == StatusAllowed(status[p]) /\ Created[p] = "after"

\* Order of the filter with this subnet, one past all of them if there is none.
OrderOf(ids, s) ==
    IF s \in ToSet(ids) THEN CHOOSE n \in DOMAIN ids : ids[n] = s ELSE Len(ids) + 1

\* selectFixedIPByFilters: the address with the least order.
SelectFixedIP(ids, p) ==
    LET found == {s \in ToSet(FixedIPs[p]) : s \in ToSet(ids)}
    IN CHOOSE s \in found : \A t \in found : OrderOf(ids, s) <= OrderOf(ids, t)

\* A filter matches, and its subnet is of the network of the port.
Matches(ids, p) ==
    /\ ToSet(FixedIPs[p]) \cap ToSet(ids) # {}
    /\ SubnetNetwork[SelectFixedIP(ids, p)] = NetworkOf[p]

OrderForPort(ids, p) ==
    LET orders == {OrderOf(ids, s) : s \in ToSet(FixedIPs[p])} \cup {Len(ids) + 1}
    IN CHOOSE o \in orders : \A other \in orders : o <= other

\* MAC addresses first, then port ids.
LessByMac(p, q) == Mac[p] < Mac[q] \/ (Mac[p] = Mac[q] /\ p < q)

\* Mutated form: the filters do not count for the order.
LessByMacOnly(ids, p, q) == LessByMac(p, q)

\* The order of the ports of a VM before they are cut off.
Less(ids, p, q) ==
    LET op == OrderForPort(ids, p) oq == OrderForPort(ids, q) IN
    \/ op < oq
    \/ op = oq /\ LessByMac(p, q)

\* Mutated form: a DOWN port is noted before its filter has matched.
TakeNotingFirst(ids, status, acc, p) ==
    IF Len(acc.ifaces) >= MaxInterfaces THEN acc
    ELSE [ifaces |-> IF Matches(ids, p)
                     THEN Append(acc.ifaces, [port |-> p, subnet |-> SelectFixedIP(ids, p)])
                     ELSE acc.ifaces,
          down |-> IF status[p] = "DOWN" THEN acc.down \cup {p} ELSE acc.down]

\* One round of the loop over the sorted ports of a VM.
Take(ids, status, acc, p) ==
    IF Len(acc.ifaces) >= MaxInterfaces \/ ~Matches(ids, p) THEN acc
    ELSE [ifaces |-> Append(acc.ifaces, [port |-> p, subnet |-> SelectFixedIP(ids, p)]),
          down |-> IF status[p] = "DOWN" THEN acc.down \cup {p} ELSE acc.down]

\* The loop over the sorted ports of a VM.
TakeAll(ids, status, ports) ==
    LET taken[n \in 0..Len(ports)] ==
            IF n = 0 THEN [ifaces |-> <<>>, down |-> {}]
            ELSE Take(ids, status, taken[n - 1], ports[n])
    IN  taken[Len(ports)]

\* portsByVM of the ports that passed the filters.
PortsOfVM(list, status, vm) ==
    Selected(list, {p \in Ports : DeviceOf[p] = vm /\ Eligible(status, p)})

\* Mutated form: the limit is applied to the ports as they are listed.
MapVMUnsorted(list, ids, status, vm) == TakeAll(ids, status, PortsOfVM(list, status, vm))

\* The ports of a VM, sorted and taken until the limit.
MapVM(list, ids, status, vm) ==
    TakeAll(ids, status,
            SortedBy(PortsOfVM(list, status, vm),
                     {pq \in Ports \X Ports : Less(ids, pq[1], pq[2])}))

\* Mutated form: the interfaces stay in the order of the filters.
NormalizeNothing(ifaces) == ifaces

\* normalizeNodeConfig sorts by MAC and port id; the position is the id and
\* the name multinic<id> of the interface.
Normalize(ifaces) ==
    SortedBy(ifaces, {xy \in ToSet(ifaces) \X ToSet(ifaces) : LessByMac(xy[1].port, xy[2].port)})

NodeOf(list, ids, status, vm) ==
    [instanceID |-> vm, interfaces |-> Normalize(MapVM(list, ids, status, vm).ifaces)]

\* The configs of the VMs, without those that have no interface.
NodesFrom(list, ids, status) ==
    Selected([n \in DOMAIN Listed |-> NodeOf(list, ids, status, Listed[n])],
             [instanceID : VMs, interfaces : Seq([port : Ports, subnet : Subnets]) \ {<<>>}])

\* Mutated form: the network is asked again for each of its subnets.
SubnetMTUAskedAgain(ids, lost, s) ==
    IF OrderOf(ids, s) \in lost THEN 0 ELSE NetworkMTU[SubnetNetwork[s]]

\* networkMTU: a network is asked at its first subnet, and the answer, or that
\* there was none, holds for the others.  lost are the places in subnetIDs at
\* which GetNetwork would fail.
SubnetMTU(ids, lost, s) ==
    LET siblings == {n \in DOMAIN ids : SubnetNetwork[ids[n]] = SubnetNetwork[s]}
        asked == CHOOSE n \in siblings : \A m \in siblings : n <= m
    IN  IF asked \in lost THEN 0 ELSE NetworkMTU[SubnetNetwork[s]]

\* Each interface has the MTU of its filter.
WithMTU(configs, ids, lost) ==
    [n \in DOMAIN configs |->
        LET ifaces == configs[n].interfaces IN
        [instanceID |-> configs[n].instanceID,
         interfaces |->
            [i \in DOMAIN ifaces |-> [port |-> ifaces[i].port, subnet |-> ifaces[i].subnet,
                                      mtu |-> SubnetMTU(ids, lost, ifaces[i].subnet)]]]]

\* downPortIDs of all nodes.
DownFrom(list, ids, status) ==
    UNION {MapVM(list, ids, status, vm).down : vm \in ToSet(Listed)}

\* Reconcile maps what it has been told.
Mapped ==
    /\ \E configs \in {NodesFrom(listing', subnetIDs', portStatus')} :
       \E lost \in SUBSET DOMAIN subnetIDs' : nodes' = WithMTU(configs, subnetIDs', lost)
    /\ downPortIDs' = DownFrom(listing', subnetIDs', portStatus')

----------------------------------------------------------------------------
(* What makes the answer of Neutron, or the object, another one.           *)

Init ==
    /\ listing = <<>>
    /\ portStatus = [p \in Ports |-> CHOOSE s \in CanBe[p] : TRUE]
    /\ subnetIDs \in {ids \in SetToAllKPermutations(Subnets) : ids # <<>>}
    /\ nodes = <<>> /\ downPortIDs = {}

\* A port is attached; the answer may have it anywhere.
Attach(p, n) ==
    /\ p \notin ToSet(listing)
    /\ listing' = InsertAt(listing, n, p)
    /\ UNCHANGED <<portStatus, subnetIDs>>
    /\ Mapped

Detach(p) ==
    /\ p \in ToSet(listing)
    /\ listing' = Selected(listing, Ports \ {p})
    /\ UNCHANGED <<portStatus, subnetIDs>>
    /\ Mapped

\* Neutron answers with the same ports in another order.
Relist(n) ==
    /\ n \in 1..Len(listing) - 1
    /\ listing' = [listing EXCEPT ![n] = listing[n + 1], ![n + 1] = listing[n]]
    /\ UNCHANGED <<portStatus, subnetIDs>>
    /\ Mapped

StatusChange(p, s) ==
    /\ p \in ToSet(listing)
    /\ portStatus' = [portStatus EXCEPT ![p] = s]
    /\ UNCHANGED <<listing, subnetIDs>>
    /\ Mapped

\* spec.subnetIDs gets another order, or other subnets.
Reselect(ids) ==
    /\ ids # <<>>
    /\ subnetIDs' = ids
    /\ UNCHANGED <<listing, portStatus>>
    /\ Mapped

Next ==
    \/ \E p \in Ports : \/ \E n \in 1..Len(listing) + 1 : Attach(p, n)
                        \/ Detach(p)
                        \/ \E s \in CanBe[p] : StatusChange(p, s)
    \/ \E n \in DOMAIN listing : Relist(n)
    \/ \E ids \in SetToAllKPermutations(Subnets) : Reselect(ids)

Spec == Init /\ [][Next]_vars

----------------------------------------------------------------------------
(* Reference definitions and properties.                                   *)

\* The ports of a VM that may become interfaces.
Candidates(vm) ==
    {p \in ToSet(listing) : DeviceOf[p] = vm /\ Eligible(portStatus, p) /\ Matches(subnetIDs, p)}

\* A port has a place when fewer than the limit come before it: first by the
\* place of its best subnet in spec.subnetIDs, then by MAC and id.
Place(p) == <<OrderOf(subnetIDs, SelectFixedIP(subnetIDs, p)), Mac[p], p>>

Before(p, q) ==
    \E k \in 1..3 : /\ Place(p)[k] < Place(q)[k]
                    /\ \A l \in 1..k-1 : Place(p)[l] = Place(q)[l]

Placed(vm) ==
    {p \in Candidates(vm) :
        Cardinality({q \in Candidates(vm) : Before(q, p)}) < MaxInterfaces}

PortsOf(node) == {node.interfaces[n].port : n \in DOMAIN node.interfaces}

(* A VM gets exactly the ports that come first among those that match,     *)
(* never more than the limit, and a port that does not match takes nobody's*)
(* place, in whatever order Neutron lists them; a VM without any has no    *)
(* node.                                                                   *)
FirstPortsWin ==
    \A vm \in ToSet(Listed) :
        LET own == {n \in DOMAIN nodes : nodes[n].instanceID = vm} IN
        IF Placed(vm) = {} THEN own = {}
        ELSE \E n \in own : own = {n} /\ PortsOf(nodes[n]) = Placed(vm)

(* The DOWN ports that drive the retries are DOWN interfaces of the nodes: *)
(* not ports that were filtered out, and all the others.                   *)
DownPortsAreSent ==
    downPortIDs = {p \in UNION {PortsOf(nodes[n]) : n \in DOMAIN nodes} :
                      portStatus[p] = "DOWN"}

(* Interfaces of one network have one MTU, on whatever node and subnet they*)
(* are: its MTU, or none anywhere when it could not be read.               *)
NetworksAgreeOnMTU ==
    LET mtus(net) == {i.mtu : i \in {i \in UNION {ToSet(nodes[n].interfaces) : n \in DOMAIN nodes} :
                                        SubnetNetwork[i.subnet] = net}}
    IN  \A net \in Networks : mtus(net) \in {{}, {0}, {NetworkMTU[net]}}

\* The configs with the MTU left out.
Wiring(configs) ==
    [n \in DOMAIN configs |->
        [vm |-> configs[n].instanceID,
         ports |-> [i \in DOMAIN configs[n].interfaces |->
                       <<configs[n].interfaces[i].port, configs[n].interfaces[i].subnet>>]]]

(* Listing the same ports in another order never changes a config, so it   *)
(* never causes a request; a network that cannot be read while they are    *)
(* listed costs them their MTU and nothing else.                           *)
RelistChangesNothing ==
    [][ToSet(listing') = ToSet(listing) /\ UNCHANGED <<portStatus, subnetIDs>>
        => Wiring(nodes') = Wiring(nodes) /\ UNCHANGED downPortIDs]_vars

(* Another order of the same spec.subnetIDs leaves a node as it was, unless*)
(* it reached the limit or one of its ports has addresses in two of them.  *)
SubnetOrderIsNoChange ==
    [][(/\ ToSet(subnetIDs') = ToSet(subnetIDs)
        /\ UNCHANGED <<listing, portStatus>>
        /\ \A vm \in ToSet(Listed) :
              /\ Cardinality(Candidates(vm)) <= MaxInterfaces
              /\ \A p \in ToSet(listing) : DeviceOf[p] = vm =>
                    Cardinality(ToSet(FixedIPs[p]) \cap ToSet(subnetIDs)) <= 1)
        => Wiring(nodes') = Wiring(nodes)]_vars
=============================================================================
