---------------------------- MODULE MCPortMapping ----------------------------
(***************************************************************************)
(* Four ports of a VM that may have two interfaces, one of them with an    *)
(* address in both subnets and one older than the object, and the port of  *)
(* another VM.                                                             *)
(***************************************************************************)
EXTENDS PortMapping

MCMac == <<30, 10, 20, 25, 5>>
MCDeviceOf == <<"vm1", "vm1", "vm1", "vm2", "vm1">>
OneNetwork(S) == [x \in S |-> "net"]
MCNetworkOf == OneNetwork(Ports)
MCSubnetNetwork == OneNetwork(Subnets)
MCNetworkMTU == [net |-> 1500]
MCFixedIPs == << <<"a">>, <<"b", "a">>, <<"b">>, <<"a">>, <<"b">> >>
MCListed == <<"vm1", "vm2">>
MCCreated == <<"after", "after", "after", "after", "before">>
MCCanBe == << {"ACTIVE"}, {"ACTIVE"}, {"", "BUILD", "DOWN"},
              {"ACTIVE", "DOWN"}, {"DOWN"} >>
=============================================================================
