# TLA+ models of provider-gcp

provider-gcp is a set of Kubernetes controllers. Each watches one kind of custom
resource (a *managed resource*: a bucket policy, a GKE cluster, a Cloud SQL
instance, ...) and drives one resource of Google Cloud towards what the object
says. This directory models those controllers where their steps interleave with
other writers, with slow operations, with restarts and with stale reads, checks the
models with TLC and proves the central results with TLAPS.

Contents: [the system](#the-system) · [modules](#modules-and-the-code-they-model) ·
[runs](#runs) · [findings](#where-code-and-comments-disagree) ·
[fairness](#fairness) · [proofs](#proofs) · [not modelled](#what-is-not-modelled)

## The system

### Parts

| part | code | state it owns | operations |
|---|---|---|---|
| BucketPolicyMember | `pkg/controller/storage/bucketpolicymember.go`, `pkg/clients/bucketpolicy` | one (role, member) grant in a bucket's IAM policy | Observe, Create, Delete (Update is Create, and is never called: a grant that exists is up to date) |
| BucketPolicy | `pkg/controller/storage/bucketpolicy.go`, `pkg/clients/bucketpolicy` | the whole IAM policy of a bucket | Observe, Create, Update, Delete |
| GKE Cluster | `pkg/controller/container/cluster.go`, `pkg/clients/cluster` | a cluster, its parameters, its bootstrap node pool; the recorded status | Observe (late initialisation), Create, Update (one parameter per call), Delete |
| GKE NodePool | `pkg/controller/container/nodepool.go`, `pkg/clients/nodepool` | a node pool | as Cluster, three update calls |
| CloudSQLInstance | `pkg/controller/database/cloudsql.go`, `pkg/clients/cloudsql` | an instance, its root password, the connection secret | Initialize (tags), Observe, Create, Update, Delete |
| CloudMemorystoreInstance | `pkg/controller/cache/managed.go`, `pkg/clients/cloudmemorystore` | a Redis instance | Observe, Create, Update, Delete |
| ServiceAccount, ServiceAccountKey, ServiceAccountPolicy | `pkg/controller/iam` | an account; a key, its id (external name) and its private half; a policy | Observe, Create, Update, Delete |
| KeyRing, CryptoKey, CryptoKeyPolicy | `pkg/controller/kms` | KMS objects, which GCP cannot delete; a policy | Observe, Create, Update, Delete |
| Network, Subnetwork, GlobalAddress | `pkg/controller/compute` | VPC objects | Observe, Create, Update (two calls each), Delete |
| Connection | `pkg/controller/servicenetworking` | a VPC peering | Observe, Create, Update, Delete |
| Topic | `pkg/controller/pubsub` | a topic | Observe, Create, Update (by mask), Delete |
| Bucket | `pkg/controller/storage/bucket.go`, `apis/storage/v1alpha3` | a bucket | Observe, Create, Update, Delete |
| References | `apis/*/referencers.go` | fields filled from other objects | ResolveReferences |
| Authentication, ProviderConfig | `pkg/clients/gcp.go`, `pkg/controller/config` | usages of a ProviderConfig | GetAuthInfo, Track |
| Start-up | `cmd/provider/main.go`, `pkg/controller/gcp.go` | none | Setup |

### How a reconcile runs

The reconciler itself is crossplane-runtime's `managed.Reconciler`, a library; it
is modelled from how the controllers here use it and marked external. One pass,
by the one worker a controller has in each provider process:

1. read the object from the informer cache, which may lag behind the API server;
2. initializers, reference resolution, `Connect`;
3. `Observe`; in many controllers Observe late-initialises the spec and stores it
   with `kube.Update`, which is refused when the object has changed since it was
   read, and whose response replaces the copy in memory, status included;
4. if the object is being deleted: `Delete` when the resource exists, otherwise
   remove the finalizer;
5. otherwise publish connection details, add the finalizer if it is missing, and
   then `Create`, or `Update`, or nothing; publish again; record the status.

Any call may fail, its answer may be lost, and the process may restart between
two calls: the pass ends and another begins later from the cache. Leader election
is an option that is off by default (`cmd/provider/main.go`), so two processes may
work on one object.

### What makes it hard

* read-modify-write of a shared IAM policy by several controllers, replicas and
  strangers, protected by an etag in some places and not in others;
* a pass started from a stale copy of the object;
* guards that read the *recorded* status, which an Update of the object may bring
  back after Observe replaced it;
* a restart between the creation of something and the recording of its name, its
  password or its private key, which cannot be asked for again;
* services whose operations take time, fail, and refuse one another;
* one update call per pass, with convergence required all the same;
* more than two hundred parameters, each written, filled in, compared and sent by code of
  its own, in which a zero, a missing pointer and a missing struct differ;
* deletion, which has to end and must leave nothing behind.

The list `hazards` of `PROJECT.json` has them one by one, with the line where
each bites and the property that covers it.

## Modules and the code they model

`PROJECT.json` maps every definition to its lines. In all modules a *worker* is a
record: `pc` is the next call to make, `seen` the version of the object it was
given, the other fields are its local variables. A step is one call that another
process can come between. `Fail` ends a pass at any call. The resource version of
an object is abstracted: an Update of the object is refused unless the stored
object equals `seen`. Definitions whose comment starts with "Mutated" are wrong on
purpose: `PROJECT.json` names, for each property, one that it catches.

* **`IamPolicy`**: the IAM policy of a bucket as a function from bindings
  (role, condition) to members, `BindRoleToMember` and `UnbindRoleFromMember` of
  `pkg/clients/bucketpolicy`, and the two kinds of `SetIamPolicy`. `current` is the
  set of clients whose last read is still the policy in force: exactly those
  whose etag the service would accept.
* **`BucketPolicyMember`**: the controller for one grant. `ObserveMember`,
  `CreateGet`/`DeleteGet` (read and compute) and `SetMember` (write under the etag).
* **`BucketPolicy`**: the controller for the whole policy. `CreatePolicy` and
  `DeletePolicy` write without an etag, `UpdateGet`/`UpdateSet` with one.
* **`BucketIam`**: both controllers of every replica, foreign IAM clients and the
  deletion of the bucket, together; the properties of their composition. `Setups`
  says which objects exist.
* **`GkeCluster`**: the cluster controller against a service whose operations take
  time (`PROVISIONING`, `RECONCILING`, `STOPPING`), may fail and exclude one another.
  A parameter is `Unset` or has a value, and belongs to classes by how
  `GenerateCluster`, `LateInitializeSpec` and `IsUpToDate` treat it: `UpdateOrder` (the
  order of comparison), `Scalars` (written even when the spec has none, as
  `resourceLabels`), `Sticky` (written only where the cluster has none, as the
  notification topic), `LateInited`, `Overwritten` (`masterAuth.clientCertificateConfig`).
  `UpdateObject` models what `kube.Update` does to the status in memory.
* **`CloudSql`**: the instance controller on several replicas. `Initialize` is the
  tagger, which stores the object on every pass, so that a stale pass ends there;
  `Create` generates a password, `PublishConnection` stores it; `Fail` in between
  loses it. Passwords are numbered.
* **`ServiceAccountKey`**: `Create` makes a key, `RecordExternalName` stores its id,
  `PublishCreated` its private half, which replaces that half of the secret and leaves the
  other (`CreatedDetails`). The public half is published by Observe, when the spec asks
  for it (`asks`, which `EditPublicKeyType` changes). `faults` counts what this sequence is
  not protected from; `lost` has the keys whose private half was lost in a fault.
* **`ManagedLifecycle`**: the abstract specification, four variables and six actions:
  an object is held by its finalizer before its resource is made and until it has
  gone, and the provider removes a resource only when its object is deleted.
  `GkeCluster` and `Managed` implement it; `Promise` in each is the refinement
  mapping and `KeepsPromise` the property. `CloudSql` implements it while one replica
  works alone (`Promise` in `CloudSqlProofs`).
* **`Parameters`**: one parameter as the client packages treat it. A record of type
  `Parameter` says how `Generate...` writes it, how `LateInitializeSpec` fills it in,
  how `IsUpToDate` compares it, which update call a difference selects and which calls
  carry it. The operators `Generate`, `LateInitializeSpec`, `Differs`, `Created` and
  `Patched` give the records their meaning. A value is set, `Zero`, `Nil` (a missing
  pointer, list or map) or `Absent` (in a missing struct). An empty list or map is not a
  missing one to `cmp.Equal`, unless it is told so (`compare`), nor to a test for nil, but
  is one to a test of its length (`gen`) and to every Update of the object, whose JSON
  leaves it out (`Stored`).
* **`Controllers`**: a record of type `ControllerType` says where controllers differ:
  who stores a late-initialised spec and whether the status is set before that, whether
  Update reads again, which calls carry a fingerprint or an etag, which states a call
  waits for, whether operations take time, whether the resource can be deleted.
* **`ComputeKinds`, `NodePoolKind`, `CloudSqlKind`, `CacheKind`, `PubsubKind`,
  `ServiceNetworkingKind`, `StorageKind`, `KmsKinds`, `IamKinds`, `ClusterKind`**: the
  fields of the Go types of every kind, the record of each parameter, read off the
  functions of its client, and the record of the controller (`networkExternal`,
  `nodePoolExternal`, ...). Their operators have the names of the functions they
  are read from, with the kind in front where two kinds share a module.
* **`Managed`**: a reconcile of a managed resource of any kind, with references,
  against a service and other users of it. `Init` chooses an instance: a controller
  and one or two parameters. The worker's steps are those of the list above: `Begin`,
  `ResolveReferences`, `ObserveMissing` or `ObserveFound`, `StoreSpec` (the Update in
  Observe) or `StoreLateInitialized` (the runtime's), `AddFinalizer`, `Create`, `Update`
  and `UpdateCall`, `Delete`, `RemoveFinalizer`, `UpdateStatus`; `Fail` at any of them.
* **`MC*`**: instances for TLC. **`*Proofs`**: theorems.

`GkeCluster` and `CloudSql` model two controllers more closely than `Managed` does (the
bootstrap node pool, several parameters and operations that fail; the tagger, the
password and several replicas); `ClusterKind` and `CloudSqlKind` give `Managed` their
parameters one by one.

## Runs

All runs bound what is unbounded with constants named `Max...`; each bound allows
every kind of event at least once, and the ones that matter twice or in two
orders. `CHECK_DEADLOCK` is off because a system whose objects have all gone may stop.

| run | instance | shows |
|---|---|---|
| `iam_replicas` | 2 replicas, 2 objects of one role, 1 foreign edit of the grant of one of them, symmetric replicas | `FreshInstance`, `OnlyOwnGrantChanges`: a member's write, computed from a policy read one call earlier, changes its own grant and no other |
| `iam_one_replica` | 1 replica; two objects for the same grant, a BucketPolicy, or one of each, where the policy may list the grant too; a foreign edit of another grant where a controller is alone; the bucket may go | `TypeOK`, `NoOrphanedGrant`; `OnlyOwnGrantChanges` with both controllers and a stranger writing; grants and policies converge; deleted objects go |
| `iam_etag` | a BucketPolicy without conditions, a foreign conditional binding | *violation*, below |
| `gke_late_init` | 2 parameters, 2 edits that set or unset them, 1 failed operation, 1 foreign deletion | `TypeOK`, `UpdatesWait`, `UserValuesSurvive`, `NoOrphanedCluster`, `KeepsPromise` (the refinement) |
| `gke_live` | the same without the foreign deletion; an operation may still fail | `ClusterConverges`, `ClusterDeletionEnds` |
| `gke_stale_status`, `gke_recreate`, `gke_overwritten`, `gke_notification` | as small as the behaviour allows | *violations*, below |
| `cloudsql` | 2 replicas, 2 passwords, 1 edit or foreign deletion | `TypeOK`, `PublishedPasswordWorks`, `EveryInstanceTagged`, `NoOrphan`, convergence, deletion |
| `service_account_key` | 2 faults, 2 foreign deletions, 5 keys (more are never made) | `LeaksNeedFaults`, `RecordedKeyDeleted`, `SecretHoldsKey`; the public half follows, deletion |
| `managed` | every different pair of a controller and a parameter of the provider's kinds (about a hundred instances), and three pairs of parameters, 1 change by the user or by somebody else, 2 where an etag is sent and for a parameter and a pair sent with a fingerprint | `TypeOK`, `NoOrphan`, `CreatedWhereReferred`, `FilledInOnce`, `CallsSettle`, `KeepsPromise` (the refinement), `UserValuesSurvive`, `UpdatesOnlyWhatDiffers`; the resource converges, updates end, the status follows, deletions end |

In `managed` two parameters that their client treats alike are one instance, which is
why all parameters of all kinds fit in one run. A parameter is alone in its instance,
because clients treat parameters one by one. Where the parameters of one object do
meet there is an instance with two (`Pairs`): a controller that makes one of two calls per
reconcile (a Network, and a Subnetwork whose first call dereferences a pointer that may
be missing), and a status that an Update of the object, made for another parameter,
replaces in memory (a NodePool). Two values, with zero, nil and a missing struct, are enough,
because the code only compares them. One change is enough to put an edit, a change by
somebody else or a foreign deletion between any two steps; retries after a conflict
need a second. Operations take time for one parameter of a node pool and one of a
Memorystore instance (`Timed`); in the other instances they end at once. How several
operations are ordered is the business of `GkeCluster`.

Some of what the properties say is limited by what the code does, and says so:

* `NoOrphanedGrant` is for one replica of both controllers, and for grants that only
  the provider makes (`Ours`). With two replicas, one that observed before the other deleted can make the grant again after the object has gone. A request that
  is still under way when its process restarts has the same effect; requests are
  atomic in the models.
* `MemberDeletionEnds` excepts a bucket that has gone, because Observe of a
  BucketPolicyMember does not ignore "not found" (BucketPolicy's does), and a live
  object for the same grant, a BucketPolicy that lists it included, which may win every
  race.
* `GkeCluster` and `ServiceAccountKey` have one replica; `UpdatesWait` needs it.
* `gke_live` has no foreign deletion, because of the finding `gke_recreate`: with
  `MaxForeign = 1`, TLC shows a behaviour in which `ClusterConverges` fails, Create
  passing over the missing cluster in every reconcile.
* `PublishedPasswordWorks` is for instances nobody else deletes, and nothing says
  that a password *is* published: a restart after `Insert` loses it for good.
* `LeaksNeedFaults` allows one key per fault, and a stale cache is a fault.
* `Managed` has one replica. With two, one that observed before the other deleted can
  create again after the object has gone. `CloudSql` has several replicas and this
  behaviour: its `NoOrphan` is for behaviours in which one replica does all the work
  (`Sole`), and only those implement `ManagedLifecycle`.
* `Converges` and `UpdatesEnd` are for the parameters that a client can apply
  (`Applies`). The others are real: a topic's KMS key is compared and never sent, nor
  are the upgrade settings, the Linux node config, the node group and the reservation
  affinity of a node pool; a bucket never reports its predefined ACL; a zero is left
  out of most requests; what is immutable is refused; and the labels of a topic, the
  labels and the Redis configs of a Memorystore instance, and the labels and lists of a
  bucket, made empty by an edit and not removed, never compare as equal to what the
  service reports. Such an object is updated again in every reconcile, or never; with the
  empty list, until some Update of the object drops it. A Connection compares its
  ranges in the same way, but its selector is a struct and not a pointer
  (`apis/servicenetworking/v1beta1/connection_types.go:64`), so that empty ranges are
  always resolved before Observe.
* `Converges` also excepts `Stuck`, the node pool's form of `gke_recreate`.
* `UserValuesSurvive` of `Managed` excepts what `Overwritten` names: the cluster's
  client certificate (`gke_overwritten`), the labels of a crypto key, an explicit false
  or empty string of a bucket, an empty string where a reference may be, and an empty
  list or map.
* `SecretHoldsKey` is about the private half, and excepts a key whose private half was
  lost in a fault. The public half of an earlier key may be beside it until Observe has
  read the new key, and for good if the spec does not ask for a public half any more:
  `PublicHalfFollows` says that it does not stay behind while the spec asks.
* `DeletionEnds` excepts parameters that make Observe panic (`Crashing`): a Cloud Run
  addon or a recurring maintenance window that the cluster has and the spec has not.
* `UpdatesOnlyWhatDiffers` is about calls that send a fingerprint or an etag. Both stand
  for what the resource contains: a change that was undone again is not noticed. The other
  updates may be made of a resource that somebody else has made right in the meantime,
  and Create of a policy sends no etag.

## Where code and comments disagree

* `iam_etag`: Create and Delete of BucketPolicy call `SetIamPolicy` without an etag.
  A conditional binding made between Observe and Create is lost;
  `apis/storage/v1alpha1/bucketpolicy_types.go` says the etag must be included.
* `gke_stale_status`: Observe sets the status (line 108), then stores the
  late-initialised spec (line 112), whose response brings the recorded status
  back. Update's guard, "Do not issue another update until the cluster finishes
  the previous one", reads it and lets a second update through. `UpdatesWait`
  shows that, with one replica, this is the only way, and `UpdatesOneAtATime` that it
  takes a late-initialised parameter. The Cloud SQL and Redis controllers set the
  status after the Update.
* `gke_recreate`: Create returns at once when the recorded status is PROVISIONING
  ("Wait until creation is complete"), also when Observe has just found no cluster.
  Nothing resets that status, so every later pass does the same. It takes a deletion
  by somebody else (`CreateWaits`).
* `gke_overwritten`: `LateInitializeSpec` "fills unassigned fields", but replaces
  the client certificate setting, set or not.
* `gke_notification`: an edited notification topic is reported as up to date,
  because `GenerateNotificationConfig` fills in only what is missing. Every parameter
  that is not filled in like that is compared (`ComparisonMeansSame`).

## Fairness

The liveness runs assume, and the code's libraries give: operations of the service
end; the watch delivers (`Sync`); the work queue hands an object out again and again,
also after errors, because every pass ends in a requeue or a poll (`Begin`; strong
fairness where several objects share the worker); every reconcile ends, if only by
its timeout (`[]<>At("idle")`); and a call that could succeed does not fail for ever.
Users, strangers and failures are under no obligation. The last assumption is stated as
`<>[][Fail /\ ENABLED WorkerStep => WorkerStep]_vars`: from some point on a worker
only gives up when its call cannot succeed, such as an Update of a changed object.

## Proofs

All theorems hold for every value of the constants: any sets of objects, replicas,
roles, parameters and values, any bounds. They rest on the named assumptions, which
give the types of the constants (`AtomAssumption` and `ManagedAssumption`,
`SpecsAssumption`, `IamAssumption`, ...), and never on fairness. Two assumptions are about
the code. `ClientAssumption` says what the clients have in common: a parameter that says
where a resource is, and may be a reference, is in no optional struct and is sent by
Create; and where `IsUpToDate` compares the spec as it is, `LateInitializeSpec` puts no
zero in the place of what is missing. `VersionAssumption` is about controllers whose calls
carry an etag, which compare what they read with it, and those whose calls carry the
fingerprint in the status, which store the spec in Observe and set the status after
that. TLC evaluates both for all controllers and parameters of all kinds.
A theorem that needs more than these assumptions says so in its statement. Invariants
are proved by an inductive invariant that TLC has checked too, with one lemma per action
or group of actions.

**`BucketIamProofs`**

* `TypeCorrect`, `InstancesAreFresh`, `OnlyOwnGrantsChange`. The last is the safety of
  the read-modify-write. It is not inductive: a write may go wrong because of what was
  read long before. `FreshInstance` closes the gap: as long as the service would accept
  a worker's etag, the policy the worker holds is the policy in force with the
  worker's own grant made, or withdrawn, in one binding. A step of the worker
  establishes it; a write by anyone else empties `current` and makes it vacuous
  (`FreshAfterSet`); other steps leave both sides alone (`FreshKept`).

**`BucketIamOrphanProofs`**: `NoGrantOrphaned`, under `OneWriter`: one replica, and no
conditions, because Observe and Bind look at one binding of the role only. Both
controllers work on the bucket. A cache is never ahead of its object and a worker is
where it is for a reason that its object still gives (`MemberInv`, `PolicyInv`); a grant
that is ours has a held object that stands for it (`GrantHeld`). That is not inductive,
because an object that loses its finalizer might be the last: `MemberDispensable` and
`PolicyDispensable` say that it is not. Since its worker looked, only the other controller
can have made the grant, and that controller's object is held.

**`ManagedLifecycleProofs`**: `NothingIsLeftBehind`, that the abstract specification
keeps its promise.

**`ManagedProofs`**, for every controller, any number of parameters and any changes:

* `TypeCorrect`, `NothingOrphaned`, and `Implementation`: `Spec => KeepsPromise`, each
  step is a step of `ManagedLifecycle` or stutters. `IInv` says that a resource
  exists only while its object is held (`ResourceHeld`), that a worker's copy of the
  object is not ahead of it (`CacheFollows`, `SeenHeld`), and that what the worker is
  about to do is justified by the object (`StepJustified`): it creates or updates only
  for an object it has seen with its finalizer, removes only for one it has seen
  deleted, and lets go only when there is no resource that can be deleted.
* `ValuesSurvive`: `Spec => UserValuesSurvive`. A spec in memory differs from the object
  seen only in what was unset or may be overwritten (`SpecKept`), and a store succeeds
  only if the object is still the one seen.

**`ManagedValuesProofs`**, what `Managed` does to the values, for every record of a parameter:

* `ReferencesResolved`: `Spec => []CreatedWhereReferred`. With `ClientAssumption`, a copy of
  the object that has been resolved has a value where the reference was, and no copy
  ever lacks the struct it would be in (`ReferredHeld`).
* `FillingInSettles`: `Spec => []FilledInOnce`, from lemmas about the operators of
  `Parameters`: `LateInitializeSpec` is idempotent (`LateInitializeIdempotent`) and gives
  `IsUpToDate` no difference that was not there (`LateInitializeAgrees`).
* `UpdatesSettle`: `Spec => CallsSettle`. What an accepted call carries does not differ any
  more (`PatchedSettles`).
* `UpdatesNeeded`: `Spec => UpdatesOnlyWhatDiffers`. On its way from the comparison to the call a
  worker keeps a spec that differs from the resource as the status in memory, or its last
  read, has it (`UpdateNeeded`). That is inductive only with the reason why `AddFinalizer`,
  whose answer may bring back an older status, is refused on this way: where there is a
  resource the object has had its finalizer all along, whatever the cache said.

**`GkeClusterProofs`**: `TypeCorrect`, `NoClusterOrphaned` and `Implementation` as above;
`UpdateWaits`, from `OperationKnown` (a worker whose status is still that of its
Observe knows of an operation under way); `ValuesSurvive`, if no parameter is of the
class `Overwritten` (with one, it is the violation `gke_overwritten`). Three more theorems
say where the statements hold that other violations refute, each under the condition
that its violation lacks:

* `UpdatesOneAtATime`, if no parameter is late-initialised or overwritten: then no reconcile
  loses the status it observed (`NeverLate`), and `UpdatesWait` does the rest.
* `CreateWaits`, if nobody else deletes the cluster (`MaxForeign = 0`). `RecordInv`: an object
  that is not being deleted has no status while there is no cluster, because the
  cluster goes only when everybody has seen the deletion.
* `ComparisonMeansSame`, if no compared parameter is of the class `Sticky`.

**`ServiceAccountKeyProofs`**: `TypeCorrect`; `KeyDeleted`; `FaultsBoundLeaks`, by a count:
every key except the one that the object or the worker owns (`Owner`) was lost in a
fault of its own (`LostNeedsFault`); `PrivateHalfKept`, that the secret of an object has
the private half of the key that it names, unless that half was lost in a fault.

**`CloudSqlProofs`**, for any number of replicas: `TypeCorrect`; `InstancesTagged`, since a
worker past `Initialize` has seen an object with tags and stops if it changed
(`WorkersKnow`); `PasswordWorks`, since of the passwords in flight only the one whose
insert succeeded can reach the secret (`OnePassword`). For a replica `r` that works alone
(`[]Sole(r)`), whatever the others have in their caches: `NoInstanceOrphaned`, and
`Implementation`, that it implements `ManagedLifecycle`. `HeldInv(r)` says that its cache is
not ahead of the object, that an instance has an object that is held, and that the worker
lets go only when there is no instance.

Every safety property that a passing run checks is a theorem, under the conditions named
above. Only model-checked are the
liveness properties, which need fairness and ENABLED, which the prover does not handle,
and the violations.

## What is not modelled

* ProviderConfig usage and authentication: the controller is crossplane-runtime's, and
  `UseProviderConfig` reads everything anew in each reconcile. That it fails is `Fail`.
* Start-up, registration, deep copies and generated code: no state of their own.
* The fields of a status one by one: GenerateObservation copies them all alike, so that they
  are one parameter of a kind (`Output`).
* Text: names, URLs, kubeconfigs, conditions and their messages, events, logs.
  So the condition of a Connection, which follows the state of its peering, is left out.
* The references of a policy's bindings to service accounts, and selectors.
* That operations of a node pool and of its cluster exclude one another: to each
  controller the other's operation is a refused call.
* The deletion policy Orphan, pausing, and adoption of resources that exist before
  their object.
* Two bindings of a policy with the same role and condition, and the choice of the
  binding by position (`BindRoleToMember` takes the first of the role, whatever its
  condition; the model takes any).

What is assumed of the services, which are not in the repository: a request that succeeds
takes effect at once, but for the operations of GKE, Cloud SQL and Redis; a parameter
that the types mark `+immutable`, or whose comment says so, cannot be changed; a parameter
that a request leaves out is given a default by Create and kept by an update; a
struct that was sent is reported; a request with an old etag or fingerprint is
refused; and the patch of a Memorystore instance, which is sent without an update mask
(`pkg/controller/cache/managed.go:171`), is taken as one of all fields it has.
