----------------------------- MODULE MCManaged -----------------------------
(* Managed for TLC, with the parameters of the provider's kinds.           *)
EXTENDS Managed

CONSTANTS a, b

Compute == INSTANCE ComputeKinds
Cluster == INSTANCE ClusterKind
NodePool == INSTANCE NodePoolKind
CloudSql == INSTANCE CloudSqlKind
Cache == INSTANCE CacheKind
Pubsub == INSTANCE PubsubKind
ServiceNetworking == INSTANCE ServiceNetworkingKind
Storage == INSTANCE StorageKind
Iam == INSTANCE IamKinds
Kms == INSTANCE KmsKinds

Kinds ==
  Compute!ComputeKinds \cup Iam!IamKinds \cup Kms!KmsKinds
  \cup {Cluster!ClusterKind, NodePool!NodePoolKind, CloudSql!CloudSQLInstanceKind,
        Cache!CloudMemorystoreInstanceKind, Pubsub!TopicKind, ServiceNetworking!ConnectionKind,
        Storage!BucketKind}

\* Operations of the service take time in the instances of these parameters;
\* in the others they end at once.
Timed == {<<NodePool!nodePoolExternal, NodePool!GenerateAutoscaling("enabled")>>,
          <<Cache!cloudMemorystoreExternal, Cache!CloudMemorystoreInstance("memorySizeGb")>>}

\* A parameter on its own: which of several calls updates it makes no difference.
Alone(c) ==
  IF c.on # c.off THEN c
  ELSE [c EXCEPT !.on = IF @ = 0 THEN 0 ELSE 1, !.off = IF @ = 0 THEN 0 ELSE 1,
                 !.carried = IF c.on \in @ THEN {1} ELSE {}]
AloneController(k, c) ==
  LET timed == <<k, c>> \in Timed IN
  [k EXCEPT !.async = timed,
            !.skips = IF timed THEN @ ELSE Always,
            !.fingerprint = IF c.on \in @ THEN {1} ELSE {}]

\* An update is tried again when an etag or, for one of the parameters that are
\* sent with it, the fingerprint is old: two changes.
Single(k, c) ==
  LET t == AloneController(k.controller, c) IN
  [controller |-> t, par |-> <<Alone(c)>>,
   changes |-> IF (t.etag # {} /\ c.on # 0) \/ c = Compute!Subnetwork("secondaryIpRanges") THEN 2 ELSE 1]

\* Two parameters that two calls update, one in a reconcile; a missing one that
\* the call for another finds changed; and an output beside one that is filled in
\* when the status has been set already.
Pairs ==
  {[controller |-> Compute!networkExternal, changes |-> 1,
    par |-> <<Compute!Network("autoCreateSubnetworks"), Compute!Network("routingMode")>>],
   [controller |-> Compute!subnetworkExternal, changes |-> 2,
    par |-> <<Compute!Subnetwork("privateIpGoogleAccess"), Compute!Subnetwork("ipCidrRange")>>],
   [controller |-> AloneController(NodePool!nodePoolExternal, Output), changes |-> 1,
    par |-> <<Output, NodePool!GenerateNodePool("locations", FALSE)>>]}

MCInstances == UNION {{Single(k, c) : c \in k.parameters} : k \in Kinds} \cup Pairs
=============================================================================
