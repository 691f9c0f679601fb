---------------------------- MODULE ComputeKinds ----------------------------
(***************************************************************************)
(* The kinds of apis/compute: Network, Subnetwork and GlobalAddress.       *)
(*                                                                         *)
(* Of every kind: the parameters and the observed fields its Go types      *)
(* declare, how its client's functions treat each of them, and what its    *)
(* controller does where controllers differ (see Managed).                 *)
(***************************************************************************)
EXTENDS Controllers

-----------------------------------------------------------------------------
(***************************************************************************)
(* Network.                                                                *)
(***************************************************************************)
NetworkRoutingConfig == {"routingMode"}
NetworkParameters == {"autoCreateSubnetworks", "description"} \cup NetworkRoutingConfig

NetworkPeering == {"autoCreateRoutes", "exchangeSubnetRoutes", "name", "network", "state", "stateDetails"}
NetworkObservation == {"creationTimestamp", "gatewayIPv4", "id", "selfLink", "subnetworks"}
GenerateNetworkObservation == NetworkObservation \cup NetworkPeering

\* Only a set autoCreateSubnetworks is assigned, and sent even when false.
GenerateNetwork(p) ==
  CASE p = "description"           -> [Plain EXCEPT !.gen = "always"]
    [] p = "autoCreateSubnetworks" -> [Plain EXCEPT !.gen = "ifSet", !.zero = "forced"]
    [] p = "routingMode"           -> WholeStruct

NetworkLateInitializeSpec(p) == IF p \in NetworkRoutingConfig THEN "whole" ELSE "ifUnset"

\* Update: a network that creates subnetworks and should not is switched first;
\* "All parameters except routing config are immutable".
SwitchToCustomMode == 1
PatchNetwork == 2
NetworkIsUpToDate(p) == IF p = "autoCreateSubnetworks" THEN SwitchToCustomMode ELSE PatchNetwork
NetworkFixed(p) ==
  CASE p = "routingMode" -> "no" [] p = "autoCreateSubnetworks" -> "on" [] p = "description" -> "yes"

Network(p) ==
  [GenerateNetwork(p) EXCEPT
     !.late = NetworkLateInitializeSpec(p), !.on = PatchNetwork, !.off = NetworkIsUpToDate(p),
     !.carried = {PatchNetwork, NetworkIsUpToDate(p)}, !.fixed = NetworkFixed(p)]

networkExternal == [Controller EXCEPT !.reread = "compare"]

NetworkKind ==
  [controller |-> networkExternal,
   parameters |-> {Network(p) : p \in NetworkParameters} \cup {Output : f \in GenerateNetworkObservation}]

-----------------------------------------------------------------------------
(***************************************************************************)
(* Subnetwork.                                                             *)
(***************************************************************************)
SubnetworkSecondaryRange == {"secondaryIpRanges"}
SubnetworkParameters ==
  {"ipCidrRange", "network", "region", "description", "enableFlowLogs", "privateIpGoogleAccess"}
    \cup SubnetworkSecondaryRange

SubnetworkObservation == {"creationTimestamp", "fingerprint", "gatewayAddress", "id", "selfLink"}
GenerateSubnetworkObservation == SubnetworkObservation

SubnetworkTypes(p) ==
  CASE p \in {"ipCidrRange", "region"}    -> "required"
    [] p \in SubnetworkSecondaryRange     -> "list"
    [] OTHER                              -> "pointer"

GenerateSubnetwork(p) == IF p \in SubnetworkSecondaryRange THEN "ifAny" ELSE "always"
SubnetworkLateInitializeSpec(p) == "ifUnset"

\* Private access has a call of its own, which dereferences the parameter and
\* sends it whatever it is; everything else is patched.
SetPrivateIpGoogleAccess == 1
PatchSubnetwork == 2
SubnetworkIsUpToDate(p) == IF p = "privateIpGoogleAccess" THEN SetPrivateIpGoogleAccess ELSE PatchSubnetwork

\* The patch carries all but the network and the region.
GenerateSubnetworkForUpdate(p) ==
  IF p \in {"network", "region"} THEN {} ELSE {PatchSubnetwork, SubnetworkIsUpToDate(p)}

Subnetwork(p) ==
  [Plain EXCEPT
     !.type = SubnetworkTypes(p), !.ref = IF p = "network" THEN "may" ELSE "no",
     !.gen = GenerateSubnetwork(p), !.late = SubnetworkLateInitializeSpec(p),
     !.on = SubnetworkIsUpToDate(p), !.off = SubnetworkIsUpToDate(p),
     !.carried = GenerateSubnetworkForUpdate(p),
     !.zero = IF p = "privateIpGoogleAccess" THEN "cleared" ELSE "omitted",
     !.deref = IF p = "privateIpGoogleAccess" THEN "call" ELSE "no",
     !.fixed = IF p \in {"ipCidrRange", "network", "region", "description"} THEN "yes" ELSE "no"]

\* The patch carries the fingerprint that Observe put in the status.
subnetworkExternal == [Controller EXCEPT !.reread = "compare", !.fingerprint = {PatchSubnetwork}]

SubnetworkKind ==
  [controller |-> subnetworkExternal,
   parameters |-> {Subnetwork(p) : p \in SubnetworkParameters}
                    \cup {Output : f \in GenerateSubnetworkObservation}]

-----------------------------------------------------------------------------
(***************************************************************************)
(* GlobalAddress: no parameter is ever compared, and the reference to a    *)
(* subnetwork that the spec declares is never resolved.                    *)
(***************************************************************************)
GlobalAddressParameters ==
  {"address", "addressType", "description", "ipVersion", "network", "prefixLength", "purpose",
   "subnetwork"}

GlobalAddressObservation == {"creationTimestamp", "id", "selfLink", "status", "users"}
GenerateGlobalAddressObservation == GlobalAddressObservation

GenerateGlobalAddress(p) == "always"
GlobalAddressLateInitializeSpec(p) == "ifUnset"

GlobalAddress(p) ==
  [Plain EXCEPT
     !.ref = IF p = "network" THEN "may" ELSE "no",
     !.gen = GenerateGlobalAddress(p), !.late = GlobalAddressLateInitializeSpec(p),
     !.on = 0, !.off = 0, !.carried = {}, !.fixed = "yes"]

gaExternal == Controller

GlobalAddressKind ==
  [controller |-> gaExternal,
   parameters |-> {GlobalAddress(p) : p \in GlobalAddressParameters}
                    \cup {Output : f \in GenerateGlobalAddressObservation}]

ComputeKinds == {NetworkKind, SubnetworkKind, GlobalAddressKind}
=============================================================================
