---------------------------- MODULE ClusterKind ----------------------------
(***************************************************************************)
(* The Cluster kind of apis/container/v1beta2, parameter by parameter;     *)
(* GkeCluster has its operations and its bootstrap node pool.              *)
(*                                                                         *)
(* Of every struct of the spec: its fields, how GenerateCluster writes     *)
(* them, how LateInitializeSpec fills them in, and the number of its       *)
(* update call, in the order of IsUpToDate.                                *)
(***************************************************************************)
EXTENDS Controllers

\* A struct that IsUpToDate compares is sent whole; one it does not compare is
\* sent with Create only.
Message(c, late, call) ==
  [c EXCEPT !.late = late, !.on = call, !.off = call, !.carried = {call},
            !.zero = "cleared", !.wiped = TRUE]
NotCompared(c, late) == [c EXCEPT !.late = late, !.on = 0, !.off = 0, !.carried = {}]
Immutable(c) == [c EXCEPT !.fixed = "yes"]

\* A struct of one plain field; a pointer in a struct.
Flag == WholeStruct
Field == InStruct(Plain)

-----------------------------------------------------------------------------
\* An addon is a struct of its own, whose flag is sent even when false.
AddonsConfig ==
  {"cloudRunConfig", "configConnectorConfig", "dnsCacheConfig", "gcePersistentDiskCsiDriverConfig",
   "horizontalPodAutoscaling", "httpLoadBalancing", "kubernetesDashboard", "networkPolicyConfig"}
GenerateAddonsConfig(p) == [Flag EXCEPT !.zero = "forced"]
\* Of the Cloud Run addon the code asks twice whether the cluster has it, never
\* whether the spec does.
LateInitializeAddonsConfig(p) == IF p = "cloudRunConfig" THEN "panics" ELSE "whole"
newAddonsConfigUpdateFn == 1

Autopilot == {"enabled"}
GenerateAutopilot(p) == Immutable(Flag)
newAutopilotUpdateFn == 2

NodeManagement == {"autoRepair", "autoUpgrade"}
ShieldedInstanceConfig == {"enableIntegrityMonitoring", "enableSecureBoot"}
UpgradeSettings == {"maxSurge", "maxUnavailable"}
AutoprovisioningNodePoolDefaults ==
  {"bootDiskKmsKey", "diskSizeGb", "diskType", "minCpuPlatform", "oauthScopes", "serviceAccount"}
    \cup NodeManagement \cup ShieldedInstanceConfig \cup UpgradeSettings
ResourceLimit == {"maximum", "minimum", "resourceType"}
ClusterAutoscaling ==
  {"autoprovisioningLocations", "enableNodeAutoprovisioning"}
    \cup AutoprovisioningNodePoolDefaults \cup ResourceLimit
\* The disk type is filled in, but never sent.
GenerateAutoscaling(p) ==
  CASE p \in {"autoprovisioningLocations", "oauthScopes"} -> InStruct(List)
    [] p \in ResourceLimit                                -> InStruct(ListIfAny)
    [] p = "diskType"                                     -> [Field EXCEPT !.gen = "never"]
    [] OTHER                                              -> Field
LateInitializeAutoscaling(p) == "ifUnset"
newAutoscalingUpdateFn == 3

BinaryAuthorization == {"enabled"}
GenerateBinaryAuthorization(p) == Flag
LateInitializeBinaryAuthorization(p) == "whole"
newBinaryAuthorizationUpdateFn == 4

DatabaseEncryption == {"keyName", "state"}
GenerateDatabaseEncryption(p) == Field
LateInitializeDatabaseEncryption(p) == "ifUnset"
newDatabaseEncryptionUpdateFn == 5

LegacyAbac == {"enabled"}
GenerateLegacyAbac(p) == Flag
LateInitializeLegacyAbac(p) == "whole"
newLegacyAbacUpdateFn == 6

newLocationsUpdateFn == 7
newLoggingServiceUpdateFn == 8

\* The maintenance policy is filled in only when there is none at all, and its
\* recurring window from the spec that has none.
DailyMaintenanceWindowSpec == {"dailyStartTime"}
TimeWindow == {"endTime", "startTime"}
MaintenanceExclusions == {"maintenanceExclusions"}
RecurringTimeWindow == {"recurrence"} \cup TimeWindow
MaintenanceWindowSpec == DailyMaintenanceWindowSpec \cup MaintenanceExclusions \cup RecurringTimeWindow
GenerateMaintenancePolicy(p) ==
  [Field EXCEPT !.type = IF p \in MaintenanceExclusions THEN "list" ELSE "optional", !.gen = "ifSet"]
LateInitializeMaintenancePolicy(p) == IF p \in RecurringTimeWindow THEN "panicsWhole" ELSE "whole"
newMaintenancePolicyUpdateFn == 9

CidrBlock == {"cidrBlock", "displayName"}
MasterAuthorizedNetworksConfig == {"enabled"} \cup CidrBlock
GenerateMasterAuthorizedNetworksConfig(p) == IF p \in CidrBlock THEN InStruct(ListIfAny) ELSE Field
LateInitializeMasterAuthorizedNetworksConfig(p) == "ifUnset"
newMasterAuthorizedNetworksConfigUpdateFn == 10

newMonitoringServiceUpdateFn == 11

\* Two of the fields of the network config are compared, with those of an empty
\* one where the cluster has none.
NetworkConfigSpec ==
  {"datapathProvider", "defaultSnatStatus", "enableIntraNodeVisibility", "privateIpv6GoogleAccess"}
GenerateNetworkConfig(p) == IF p = "defaultSnatStatus" THEN Flag ELSE [Field EXCEPT !.compare = "leaf"]
LateInitializeNetworkConfig(p) == IF p = "defaultSnatStatus" THEN "whole" ELSE "ifUnset"
newIntraNodeVisibilityConfigUpdateFn == 12
newDatapathProviderUpdateFn == 13

NetworkPolicy == {"enabled", "provider"}
GenerateNetworkPolicy(p) == Field
LateInitializeNetworkPolicy(p) == "ifUnset"
newNetworkPolicyUpdateFn == 14

\* Written only where the cluster has none.
PubSub == {"enabled", "topic"}
NotificationConfig == PubSub
GenerateNotificationConfig(p) == [Flag EXCEPT !.gen = "ifEmpty"]
LateInitializeNotificationConfig(p) == "whole"
newNotificationConfigUpdateFn == 15

PrivateClusterConfigSpec ==
  {"enablePrivateEndpoint", "enablePrivateNodes", "masterIpv4CidrBlock", "masterGlobalAccessConfig"}
GeneratePrivateClusterConfig(p) == IF p = "masterGlobalAccessConfig" THEN Flag ELSE Field
LateInitializePrivateClusterConfig(p) == IF p = "masterGlobalAccessConfig" THEN "whole" ELSE "ifUnset"
newPrivateClusterConfigUpdateFn == 16

ReleaseChannel == {"channel"}
GenerateReleaseChannel(p) == Flag
LateInitializeReleaseChannel(p) == "whole"
newReleaseChannelUpdateFn == 17

newResourceLabelsUpdateFn == 18

BigQueryDestination == {"datasetId"}
ConsumptionMeteringConfig == {"meteringEnabled"}
ResourceUsageExportConfig ==
  {"enableNetworkEgressMetering"} \cup BigQueryDestination \cup ConsumptionMeteringConfig
GenerateResourceUsageExportConfig(p) == IF p = "enableNetworkEgressMetering" THEN Field ELSE Flag
LateInitializeResourceUsageExportConfig(p) ==
  IF p = "enableNetworkEgressMetering" THEN "ifUnset" ELSE "whole"
newResourceUsageExportConfigUpdateFn == 19

VerticalPodAutoscaling == {"enabled"}
GenerateVerticalPodAutoscaling(p) == Flag
LateInitializeVerticalPodAutoscaling(p) == "whole"
newVerticalPodAutoscalingUpdateFn == 20

WorkloadIdentityConfig == {"workloadPool"}
GenerateWorkloadIdentityConfig(p) == Flag
LateInitializeWorkloadIdentityConfig(p) == "whole"
newWorkloadIdentityConfigUpdateFn == 21

-----------------------------------------------------------------------------
\* What is never compared.
AuthenticatorGroupsConfig == {"enabled", "securityGroup"}
GenerateAuthenticatorGroupsConfig(p) == Immutable(Field)
LateInitializeAuthenticatorGroupsConfig(p) == "ifUnset"

ConfidentialNodes == {"enabled"}
GenerateConfidentialNodes(p) == Immutable(Flag)

MaxPodsConstraint == {"maxPodsPerNode"}
GenerateDefaultMaxPodsConstraint(p) == Immutable(Flag)
LateInitializeDefaultMaxPodsConstraint(p) == "whole"

IPAllocationPolicy ==
  {"clusterIpv4CidrBlock", "clusterSecondaryRangeName", "createSubnetwork", "nodeIpv4CidrBlock",
   "servicesIpv4CidrBlock", "servicesSecondaryRangeName", "subnetworkName", "tpuIpv4CidrBlock",
   "useIpAliases", "useRoutes"}
GenerateIPAllocationPolicy(p) == Immutable(Field)
LateInitializeIPAllocationPolicy(p) ==
  IF p \in {"servicesSecondaryRangeName", "useRoutes"} THEN "never" ELSE "ifUnset"

\* The certificate's flag is overwritten with what the cluster has.
MasterAuth == {"username", "clientCertificateConfig"}
GenerateMasterAuth(p) == IF p = "clientCertificateConfig" THEN Flag ELSE Field
LateInitializeMasterAuth(p) == IF p = "clientCertificateConfig" THEN "overwrite" ELSE "ifUnset"

ClusterParameters ==
  {"clusterIpv4Cidr", "description", "enableKubernetesAlpha", "enableTpu", "initialClusterVersion",
   "labelFingerprint", "network", "subnetwork"}

-----------------------------------------------------------------------------
StatusCondition == {"code", "message"}
NetworkConfigStatus == {"network", "subnetwork"}
PrivateClusterConfigStatus == {"privateEndpoint", "publicEndpoint"}
MaintenancePolicyStatus == {"duration"}
AcceleratorConfigClusterStatus == {"acceleratorCount", "acceleratorType"}
SandboxConfigClusterStatus == {"sandboxType"}
ShieldedInstanceConfigClusterStatus == {"enableIntegrityMonitoring", "enableSecureBoot"}
NodeTaintClusterStatus == {"effect", "key", "value"}
NodeConfigClusterStatus ==
  {"diskSizeGb", "diskType", "imageType", "labels", "localSsdCount", "machineType", "metadata",
   "minCpuPlatform", "oauthScopes", "preemptible", "serviceAccount", "tags"}
    \cup AcceleratorConfigClusterStatus \cup SandboxConfigClusterStatus
    \cup ShieldedInstanceConfigClusterStatus \cup NodeTaintClusterStatus
NodePoolAutoscalingClusterStatus == {"autoprovisioned", "enabled", "maxNodeCount", "minNodeCount"}
NodePoolClusterStatus ==
  {"instanceGroupUrls", "name", "podIpv4CidrSize", "selfLink", "status", "statusMessage", "version"}
ClusterObservation ==
  {"createTime", "currentMasterVersion", "currentNodeCount", "currentNodeVersion", "endpoint",
   "expireTime", "location", "nodeIpv4CidrSize", "selfLink", "servicesIpv4Cidr", "status",
   "statusMessage", "tpuIpv4CidrBlock", "zone"}
GenerateObservation ==
  ClusterObservation \cup StatusCondition \cup NetworkConfigStatus \cup PrivateClusterConfigStatus
    \cup MaintenancePolicyStatus \cup NodePoolClusterStatus \cup NodePoolAutoscalingClusterStatus
    \cup NodeConfigClusterStatus

-----------------------------------------------------------------------------
\* A scalar has an update call of its own too, which leaves out a zero; that of
\* the labels replaces them.
ResolveReferences(p) == IF p \in {"network", "subnetwork"} THEN "may" ELSE "no"
Scalar(c, call) == [c EXCEPT !.on = call, !.off = call, !.carried = {call}]

GenerateCluster ==
  {Immutable(NotCompared([Plain EXCEPT !.ref = ResolveReferences(p)], "ifUnset")) :
     p \in ClusterParameters}
  \cup {Scalar(List, newLocationsUpdateFn), Scalar(Plain, newLoggingServiceUpdateFn),
        Scalar(Plain, newMonitoringServiceUpdateFn),
        Message(List, "ifUnset", newResourceLabelsUpdateFn)}

GenerateNotCompared ==
  {NotCompared(GenerateAuthenticatorGroupsConfig(p), LateInitializeAuthenticatorGroupsConfig(p)) :
     p \in AuthenticatorGroupsConfig}
  \cup {NotCompared(GenerateConfidentialNodes(p), "never") : p \in ConfidentialNodes}
  \cup {NotCompared(GenerateDefaultMaxPodsConstraint(p), LateInitializeDefaultMaxPodsConstraint(p)) :
          p \in MaxPodsConstraint}
  \cup {NotCompared(GenerateIPAllocationPolicy(p), LateInitializeIPAllocationPolicy(p)) :
          p \in IPAllocationPolicy}
  \cup {NotCompared(GenerateMasterAuth(p), LateInitializeMasterAuth(p)) : p \in MasterAuth}
  \cup {NotCompared(GenerateNetworkConfig(p), LateInitializeNetworkConfig(p)) :
          p \in {"defaultSnatStatus", "privateIpv6GoogleAccess"}}

IsUpToDate ==
  {[Message(GenerateAddonsConfig(p), LateInitializeAddonsConfig(p), newAddonsConfigUpdateFn)
      EXCEPT !.zero = "forced", !.wiped = FALSE] : p \in AddonsConfig}
  \cup {Message(GenerateAutopilot(p), "never", newAutopilotUpdateFn) : p \in Autopilot}
  \cup {Message(GenerateAutoscaling(p), LateInitializeAutoscaling(p), newAutoscalingUpdateFn) :
          p \in ClusterAutoscaling}
  \cup {Message(GenerateBinaryAuthorization(p), LateInitializeBinaryAuthorization(p),
                newBinaryAuthorizationUpdateFn) : p \in BinaryAuthorization}
  \cup {Message(GenerateDatabaseEncryption(p), LateInitializeDatabaseEncryption(p),
                newDatabaseEncryptionUpdateFn) : p \in DatabaseEncryption}
  \cup {Message(GenerateLegacyAbac(p), LateInitializeLegacyAbac(p), newLegacyAbacUpdateFn) :
          p \in LegacyAbac}
  \cup {Message(GenerateMaintenancePolicy(p), LateInitializeMaintenancePolicy(p),
                newMaintenancePolicyUpdateFn) : p \in MaintenanceWindowSpec}
  \cup {Message(GenerateMasterAuthorizedNetworksConfig(p),
                LateInitializeMasterAuthorizedNetworksConfig(p),
                newMasterAuthorizedNetworksConfigUpdateFn) : p \in MasterAuthorizedNetworksConfig}
  \cup {Message(GenerateNetworkConfig(p), LateInitializeNetworkConfig(p),
                newIntraNodeVisibilityConfigUpdateFn) : p \in {"enableIntraNodeVisibility"}}
  \cup {Scalar(GenerateNetworkConfig(p), newDatapathProviderUpdateFn) : p \in {"datapathProvider"}}
  \cup {Message(GenerateNetworkPolicy(p), LateInitializeNetworkPolicy(p), newNetworkPolicyUpdateFn) :
          p \in NetworkPolicy}
  \cup {Message(GenerateNotificationConfig(p), LateInitializeNotificationConfig(p),
                newNotificationConfigUpdateFn) : p \in NotificationConfig}
  \cup {Message(GeneratePrivateClusterConfig(p), LateInitializePrivateClusterConfig(p),
                newPrivateClusterConfigUpdateFn) : p \in PrivateClusterConfigSpec}
  \cup {Message(GenerateReleaseChannel(p), LateInitializeReleaseChannel(p), newReleaseChannelUpdateFn) :
          p \in ReleaseChannel}
  \cup {Message(GenerateResourceUsageExportConfig(p), LateInitializeResourceUsageExportConfig(p),
                newResourceUsageExportConfigUpdateFn) : p \in ResourceUsageExportConfig}
  \cup {Message(GenerateVerticalPodAutoscaling(p), LateInitializeVerticalPodAutoscaling(p),
                newVerticalPodAutoscalingUpdateFn) : p \in VerticalPodAutoscaling}
  \cup {Message(GenerateWorkloadIdentityConfig(p), LateInitializeWorkloadIdentityConfig(p),
                newWorkloadIdentityConfigUpdateFn) : p \in WorkloadIdentityConfig}

\* The status is observed before the spec is stored, and decides what is done.
clusterExternal ==
  [Controller EXCEPT
     !.status = "before", !.reread = "compare", !.async = TRUE,
     !.skips = [create |-> {"PROVISIONING"}, update |-> {"RECONCILING", "PROVISIONING"},
                delete |-> {"STOPPING"}]]

ClusterKind ==
  [controller |-> clusterExternal,
   parameters |-> GenerateCluster \cup GenerateNotCompared \cup IsUpToDate
                    \cup {Output : f \in GenerateObservation}]
=============================================================================
