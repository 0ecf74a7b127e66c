SPECIFICATION Spec
CONSTANTS
    Ports = {1, 2, 3, 4, 5}
    Mac <- MCMac
    DeviceOf <- MCDeviceOf
    NetworkOf <- MCNetworkOf
    FixedIPs <- MCFixedIPs
    VMs = {"vm1", "vm2"}
    Subnets = {"a", "b"}
    Networks = {"net"}
    SubnetNetwork <- MCSubnetNetwork
    NetworkMTU <- MCNetworkMTU
    Listed <- MCListed
    Created <- MCCreated
    CanBe <- MCCanBe
    Allowed = {"ACTIVE", "DOWN"}
    MaxInterfaces = 2
INVARIANTS
    FirstPortsWin
    DownPortsAreSent
    NetworksAgreeOnMTU
PROPERTIES
    RelistChangesNothing
    SubnetOrderIsNoChange
