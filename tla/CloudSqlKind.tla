---------------------------- MODULE CloudSqlKind ----------------------------
(***************************************************************************)
(* The CloudSQLInstance kind of apis/database/v1beta1, parameter by        *)
(* parameter; CloudSql has its operations, its password and its labels.    *)
(***************************************************************************)
EXTENDS Controllers

CloudSQLInstanceParameters ==
  {"databaseVersion", "gceZone", "instanceType", "masterInstanceName", "maxDiskSize", "region",
   "replicaNames", "suspensionReason"}
DiskEncryptionConfiguration == {"kmsKeyName"}
DatabaseInstanceFailoverReplicaSpec == {"failoverReplica"}
OnPremisesConfiguration == {"hostPort"}
Settings ==
  {"activationPolicy", "authorizedGaeApplications", "availabilityType", "crashSafeReplicationEnabled",
   "dataDiskSizeGb", "dataDiskType", "databaseReplicationEnabled", "pricingPlan", "replicationType",
   "storageAutoResize", "storageAutoResizeLimit", "tier", "userLabels"}
BackupConfiguration ==
  {"binaryLogEnabled", "enabled", "location", "replicationLogArchivingEnabled", "startTime"}
ACLEntry == {"expirationTime", "name", "value"}
IPConfiguration == {"ipv4Enabled", "privateNetwork", "requireSsl"}
LocationPreference == {"followGaeApplication", "zone"}
MaintenanceWindow == {"day", "hour", "updateTrack"}
DatabaseFlags == {"flagName", "flagValue"}

IPMapping == {"ipAddress", "timeToRetire", "type"}
CloudSQLInstanceObservation ==
  {"backendType", "currentDiskSize", "connectionName", "gceZone", "ipv6Address", "project",
   "selfLink", "serviceAccountEmailAddress", "state", "settingsVersion",
   "diskEncryptionStatus", "failoverReplica"}
GenerateObservation == CloudSQLInstanceObservation \cup IPMapping

-----------------------------------------------------------------------------
\* Go types that are not pointers.
CloudSQLTypes(p) ==
  CASE p \in {"region", "tier"} -> "required"
    [] p = "kmsKeyName" -> "optional"
    [] p \in {"replicaNames", "suspensionReason", "authorizedGaeApplications", "userLabels"}
         \cup ACLEntry \cup DatabaseFlags -> "list"
    [] p \in DatabaseInstanceFailoverReplicaSpec \cup OnPremisesConfiguration
         \cup {"storageAutoResize"} -> "plain"
    [] OTHER -> "pointer"

\* A false or an empty value is sent of two parameters only: the storage's
\* automatic resize, which is a pointer in the request and in the instance too
\* and so a struct of one field, and the IPv4 address.
GenerateDatabaseInstance(p) ==
  CASE p \in CloudSQLInstanceParameters \cup (Settings \ {"storageAutoResize"}) -> Plain
    [] p = "storageAutoResize" -> [WholeStruct EXCEPT !.zero = "forced"]
    [] p \in DatabaseFlags     -> ListIfAny
    [] p \in ACLEntry          -> InStruct(ListIfAny)
    [] p = "ipv4Enabled"       -> [InStruct(Plain) EXCEPT !.zero = "cleared"]
    [] OTHER                   -> InStruct(Plain)

CloudSQLLateInitializeSpec(p) ==
  IF p \in DatabaseInstanceFailoverReplicaSpec \cup OnPremisesConfiguration \cup {"storageAutoResize"}
  THEN "whole" ELSE "ifUnset"

\* Everything is compared, and patched.
CloudSQLIsUpToDate(p) == 1

CloudSQLFixed(p) ==
  IF p \in {"databaseVersion", "instanceType", "masterInstanceName", "region", "kmsKeyName"}
  THEN "yes" ELSE "no"

CloudSQLInstance(p) ==
  [GenerateDatabaseInstance(p) EXCEPT
     !.type = CloudSQLTypes(p), !.late = CloudSQLLateInitializeSpec(p),
     !.ref = IF p = "privateNetwork" THEN "may" ELSE "no",
     !.on = CloudSQLIsUpToDate(p), !.off = CloudSQLIsUpToDate(p), !.fixed = CloudSQLFixed(p)]

\* Update patches, unless the status says that the instance is being created.
cloudsqlExternal ==
  [Controller EXCEPT !.async = TRUE, !.skips["update"] = {"PROVISIONING"}]

CloudSQLInstanceKind ==
  [controller |-> cloudsqlExternal,
   parameters |->
     {CloudSQLInstance(p) :
        p \in CloudSQLInstanceParameters \cup DiskEncryptionConfiguration
              \cup DatabaseInstanceFailoverReplicaSpec \cup OnPremisesConfiguration \cup Settings
              \cup BackupConfiguration \cup ACLEntry \cup IPConfiguration \cup LocationPreference
              \cup MaintenanceWindow \cup DatabaseFlags}
     \cup {Output : f \in GenerateObservation}]
=============================================================================
