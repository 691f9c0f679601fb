---------------------------- MODULE StorageKind ----------------------------
(***************************************************************************)
(* The Bucket kind of apis/storage/v1alpha3.                               *)
(***************************************************************************)
EXTENDS Controllers

\* Structs that the New... and CopyTo... functions convert field by field.
ProjectTeam == {"projectNumber", "team"}
ACLRule == {"entity", "entityId", "role", "domain", "email"} \cup ProjectTeam
LifecycleAction == {"storageClass", "type"}
LifecycleCondition ==
  {"ageInDays", "createdBefore", "liveness", "matchesStorageClasses", "numNewerVersions"}
LifecycleRule == LifecycleAction \cup LifecycleCondition
Lifecycle == LifecycleRule
RetentionPolicy == {"retentionPeriodSeconds"}
BucketEncryption == {"defaultKmsKeyName"}
BucketLogging == {"logBucket", "logObjectPrefix"}
CORS == {"maxAge", "methods", "origins", "responseHeaders"}
BucketWebsite == {"mainPageSuffix", "notFoundPage"}
BucketPolicyOnly == {"enabled", "lockedTime"}
Predefined == {"predefinedAcl", "predefinedDefaultObjectAcl"}
Flags == {"defaultEventBasedHold", "requesterPays", "versioningEnabled"}

RetentionPolicyStatus == {"effectiveTime", "isLocked"}
BucketOutputAttrs == {"created"} \cup RetentionPolicyStatus \cup BucketPolicyOnly
NewBucketOutputAttrs == BucketOutputAttrs

-----------------------------------------------------------------------------
(***************************************************************************)
(* A struct that is missing and one whose fields are all zero are the same *)
(* to the service, but not in the spec; a label here is one key of the map.*)
(***************************************************************************)
Optional == [Plain EXCEPT !.type = "optional"]

\* What is always sent, if only to clear it: a plain value, a struct that is
\* made when there is none; and what is sent only when it is there.
CopyToBucketPolicyOnly == [Plain EXCEPT !.zero = "cleared"]
CopyToRetentionPolicy == [Plain EXCEPT !.zero = "cleared"]
CopyToBucketEncryption == [Plain EXCEPT !.gen = "ifSet", !.zero = "cleared"]
CopyToBucketLogging == [Plain EXCEPT !.gen = "ifSet", !.zero = "cleared"]
CopyToBucketWebsite == [Plain EXCEPT !.gen = "ifSet", !.zero = "cleared"]
CopyToCORSList == [List EXCEPT !.gen = "ifSet", !.zero = "cleared"]
CopyToLifecycle == List
CopyToACLRules == [List EXCEPT !.on = 0, !.off = 0, !.carried = {}]

CopyToBucketUpdateAttrs ==
  {[Optional EXCEPT !.zero = "cleared"] : p \in Flags} \cup {[List EXCEPT !.zero = "cleared"]}
  \cup {CopyToBucketPolicyOnly : p \in BucketPolicyOnly}
  \cup {CopyToRetentionPolicy : p \in RetentionPolicy}
  \cup {CopyToBucketEncryption : p \in BucketEncryption}
  \cup {CopyToBucketLogging : p \in BucketLogging}
  \cup {CopyToBucketWebsite : p \in BucketWebsite}
  \cup {CopyToCORSList : p \in CORS} \cup {CopyToLifecycle : p \in Lifecycle}

\* "It is always empty for BucketAttrs returned from the service."
NewBucketUpdatableAttrs ==
  CopyToBucketUpdateAttrs \cup {[Optional EXCEPT !.created = FALSE, !.carried = {}] : p \in Predefined}

\* What is sent with Create only, and what is not even then.
CopyBucketSpecAttrs(p) ==
  CASE p \in {"location", "storageClass"} -> [CopyToACLRules EXCEPT !.type = "optional", !.fixed = "yes"]
    [] p \in ACLRule                      -> CopyToACLRules
    [] p = "defaultObjectAcl"             -> [CopyToACLRules EXCEPT !.created = FALSE]
BucketSpecAttrs == {"location", "storageClass", "defaultObjectAcl"} \cup ACLRule

\* mergo fills in every field that is zero, and the spec is compared with what
\* the service reports, an empty list with none too.
mergoMerge == "ifZero"
Bucket(c) == [c EXCEPT !.late = mergoMerge, !.compare = "spec"]

\* Update reads the bucket again, for its labels.
bucketExternal == [Controller EXCEPT !.reread = "read"]

BucketKind ==
  [controller |-> bucketExternal,
   parameters |-> {Bucket(c) : c \in NewBucketUpdatableAttrs}
                    \cup {Bucket(CopyBucketSpecAttrs(p)) : p \in BucketSpecAttrs}
                    \cup {Output : f \in NewBucketOutputAttrs}]
=============================================================================
