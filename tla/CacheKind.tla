----------------------------- MODULE CacheKind -----------------------------
(***************************************************************************)
(* The CloudMemorystoreInstance kind of apis/cache/v1beta1.                *)
(***************************************************************************)
EXTENDS Controllers

CloudMemorystoreInstanceParameters ==
  {"region", "tier", "memorySizeGb", "displayName", "labels", "locationId", "alternativeLocationId",
   "redisVersion", "reservedIpRange", "redisConfigs", "authorizedNetwork", "connectMode"}

CloudMemorystoreInstanceObservation ==
  {"name", "host", "port", "currentLocationId", "createTime", "state", "statusMessage",
   "persistenceIamIdentity"}
GenerateObservation == CloudMemorystoreInstanceObservation

\* The region is part of the name only.
GenerateRedisInstance(p) ==
  CASE p = "region"                    -> [InName EXCEPT !.type = "required"]
    [] p \in {"tier", "memorySizeGb"}  -> [Plain EXCEPT !.type = "required"]
    [] p \in {"labels", "redisConfigs"} -> List
    [] OTHER                           -> Plain

RedisLateInitializeSpec(p) == IF p = "region" THEN "never" ELSE "ifUnset"

\* "It considers only fields that can be modified in place", and takes an empty
\* list for a change of one that is missing.
RedisIsUpToDate(p) == IF p \in {"memorySizeGb", "displayName", "redisConfigs", "labels"} THEN 1 ELSE 0

CloudMemorystoreInstance(p) ==
  [GenerateRedisInstance(p) EXCEPT
     !.late = RedisLateInitializeSpec(p), !.compare = "exact", !.on = RedisIsUpToDate(p), !.off = RedisIsUpToDate(p),
     !.fixed = IF RedisIsUpToDate(p) = 0 THEN "yes" ELSE "no"]

\* Update patches whatever the state of the instance, and reads nothing again.
cloudMemorystoreExternal == [Controller EXCEPT !.async = TRUE]

CloudMemorystoreInstanceKind ==
  [controller |-> cloudMemorystoreExternal,
   parameters |-> {CloudMemorystoreInstance(p) : p \in CloudMemorystoreInstanceParameters}
                    \cup {Output : f \in GenerateObservation}]
=============================================================================
