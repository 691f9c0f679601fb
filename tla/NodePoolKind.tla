---------------------------- MODULE NodePoolKind ----------------------------
(***************************************************************************)
(* The NodePool kind of apis/container/v1beta1.                            *)
(***************************************************************************)
EXTENDS Controllers

NodePoolAutoscaling == {"autoprovisioned", "enabled", "maxNodeCount", "minNodeCount"}
NodeManagementSpec == {"autoRepair", "autoUpgrade"}
MaxPodsConstraint == {"maxPodsPerNode"}
UpgradeSettings == {"maxSurge", "maxUnavailable"}

NodeKubeletConfig == {"cpuCfsQuota", "cpuCfsQuotaPeriod", "cpuManagerPolicy"}
LinuxNodeConfig == {"sysctls"}
ReservationAffinity == {"consumeReservationType", "key", "values"}
SandboxConfig == {"type"}
ShieldedInstanceConfig == {"enableIntegrityMonitoring", "enableSecureBoot"}
WorkloadMetadataConfig == {"mode"}
NodeConfig ==
  {"bootDiskKmsKey", "diskSizeGb", "diskType", "imageType", "localSsdCount", "machineType",
   "minCpuPlatform", "nodeGroup", "preemptible", "serviceAccount",
   "labels", "metadata", "oauthScopes", "tags"}
AcceleratorConfig == {"acceleratorCount", "acceleratorType"}
NodeTaint == {"effect", "key", "value"}

NodePoolParameters == {"cluster", "initialNodeCount", "locations", "version"}

AutoUpgradeOptions == {"autoUpgradeStartTime", "description"}
NodePoolObservation ==
  {"conditions", "instanceGroupUrls", "podIpv4CidrSize", "selfLink", "status", "statusMessage"}
GenerateObservation == NodePoolObservation \cup AutoUpgradeOptions

-----------------------------------------------------------------------------
(***************************************************************************)
(* IsUpToDate picks one of three calls: the autoscaling goes first, then   *)
(* the management, then whatever else differs.                             *)
(***************************************************************************)
newAutoscalingUpdateFn == 1
newManagementUpdateFn == 2
newGeneralUpdateFn == 3

IsUpToDate(c, call) == [c EXCEPT !.on = call, !.off = call, !.carried = {}]

\* The first two replace a whole struct; the general one carries four
\* parameters only, however many are compared.
Replaces(c) == [c EXCEPT !.carried = {c.on}, !.zero = "cleared"]
GenerateNodePoolUpdate(c) == [c EXCEPT !.carried = {newGeneralUpdateFn}]
Immutable(c) == [c EXCEPT !.fixed = "yes"]

General(c) == IsUpToDate(c, newGeneralUpdateFn)

GenerateAutoscaling(p) == Replaces(IsUpToDate(InStruct(Plain), newAutoscalingUpdateFn))
GenerateManagement(p) == Replaces(IsUpToDate(InStruct(Plain), newManagementUpdateFn))
GenerateMaxPodsConstraint(p) == Immutable(General(WholeStruct))
GenerateUpgradeSettings(p) == General(InStruct(Plain))

GenerateConfig(p) ==
  CASE p = "imageType" -> GenerateNodePoolUpdate(General(InStruct(Plain)))
    [] p = "nodeGroup" -> General(InStruct(Plain))
    [] p \in {"labels", "metadata", "oauthScopes", "tags"} -> Immutable(General(InStruct(List)))
    [] p \in AcceleratorConfig \cup NodeTaint -> Immutable(General(InStruct(ListIfAny)))
    [] OTHER -> Immutable(General(InStruct(Plain)))

\* The structs inside the node config.
GenerateConfigStructs ==
  {Immutable(General(InStruct(Plain))) : p \in NodeKubeletConfig \cup ShieldedInstanceConfig}
  \cup {General([WholeStruct EXCEPT !.type = "optional"]) : p \in LinuxNodeConfig}
  \cup {General(InStruct(IF p = "values" THEN List ELSE Plain)) : p \in ReservationAffinity}
  \cup {Immutable(General(WholeStruct)) : p \in SandboxConfig}
  \cup {GenerateNodePoolUpdate(General(WholeStruct)) : p \in WorkloadMetadataConfig}

\* With automatic upgrades the version is assigned only where there is none.
GenerateNodePool(p, isAutoUpgradeEnabled) ==
  CASE p = "cluster"          -> [InName EXCEPT !.type = "optional", !.ref = "may"]
    [] p = "initialNodeCount" -> Immutable(General(Plain))
    [] p = "locations"        -> GenerateNodePoolUpdate(General(List))
    [] p = "version"          -> GenerateNodePoolUpdate(General(
                                   [Plain EXCEPT !.gen = IF isAutoUpgradeEnabled THEN "ifEmpty" ELSE @]))

\* The status is observed before the spec is stored, and decides what is done.
nodePoolExternal ==
  [Controller EXCEPT
     !.status = "before", !.reread = "compare", !.async = TRUE,
     !.skips = [create |-> {"PROVISIONING"}, update |-> {"RECONCILING", "PROVISIONING"},
                delete |-> {"STOPPING"}]]

NodePoolKind ==
  [controller |-> nodePoolExternal,
   parameters |->
     {GenerateNodePool(p, u) : p \in NodePoolParameters, u \in BOOLEAN}
     \cup {GenerateAutoscaling(p) : p \in NodePoolAutoscaling}
     \cup {GenerateManagement(p) : p \in NodeManagementSpec}
     \cup {GenerateMaxPodsConstraint(p) : p \in MaxPodsConstraint}
     \cup {GenerateUpgradeSettings(p) : p \in UpgradeSettings}
     \cup {GenerateConfig(p) : p \in NodeConfig \cup AcceleratorConfig \cup NodeTaint}
     \cup GenerateConfigStructs
     \cup {Output : f \in GenerateObservation}]
=============================================================================
