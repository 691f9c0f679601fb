----------------------- MODULE ServiceAccountKeyProofs -----------------------
(***************************************************************************)
(* Proofs about ServiceAccountKey, for any number of keys, faults and      *)
(* deletions by others.                                                    *)
(***************************************************************************)
EXTENDS ServiceAccountKey, FiniteSetTheorems, TLAPS

-----------------------------------------------------------------------------
(* The inductive invariant.                                                *)

CacheFollows ==
  /\ cr.state = "new" => cache.state = "new"
  /\ cr.state = "managed" => cache.state \in {"new", "managed"}
  /\ cr.state = "deleting" => cache.state \in {"new", "managed", "deleting"}
  /\ cr.state = "gone" => cache.state \in {"new", "deleting", "gone"}

\* Only keys that were made are there or named, and a new object names none.
OnlyMade ==
  /\ keys \subseteq 1..made
  /\ {cr.externalName, cache.externalName} \subseteq 0..made
  /\ cr.state = "new" => cr.externalName = NoKey
  /\ ~At("idle") => worker.seen.externalName \in 0..made /\ worker.key \in 0..made

\* The object as the worker last saw it, now.
SeenHeld ==
  ~At("idle") =>
    /\ worker.seen.state \in {"new", "managed", "deleting"}
    /\ worker.seen.state = "managed" => cr.state \in {"managed", "deleting"}
    /\ worker.seen.state = "deleting" => cr.state \in {"deleting", "gone"}
    /\ At("observe") /\ worker.seen.state = "deleting" => cache.state \in {"deleting", "gone"}

\* What the worker has seen, and made, when it is at a step.
StepJustified ==
  /\ At("finalizer") => worker.seen.state = "new"
  /\ At("create") => worker.seen.state = "managed"
  /\ worker.pc \in {"record", "publishCreated"} =>
       worker.key # NoKey /\ cr.state \in {"managed", "deleting"}
  /\ worker.pc \notin {"idle", "record", "publishCreated"} => worker.key = NoKey
  /\ At("publishCreated") => worker.key = cr.externalName
  /\ At("unfinalize") => /\ worker.seen.state = "deleting" /\ worker.seen.externalName \notin keys
                         /\ cache.state \in {"deleting", "gone"}

\* The key that somebody knows of: the one the worker has just made, or else the
\* one the object names.  Any other is lost by a fault.
Owner == IF worker.pc \in {"record", "publishCreated"} THEN worker.key ELSE cr.externalName
LostNeedsFault == Cardinality(keys \ {Owner}) <= faults

\* The secret has the private half of the key that the object names, but between
\* the recording of the name and the publishing of the key, or if that failed.
SecretKept ==
  ~At("publishCreated") /\ cr.externalName # NoKey /\ cr.state # "gone" =>
    secret.private = cr.externalName \/ cr.externalName \in lost

IInv ==
  /\ TypeOK /\ CacheFollows /\ OnlyMade /\ SeenHeld /\ StepJustified
  /\ RecordedKeyDeleted /\ LostNeedsFault /\ SecretKept

-----------------------------------------------------------------------------
(* Sets of keys.                                                           *)

LEMMA FiniteKeys ==
  ASSUME TypeOK, NEW S \in SUBSET Key
  PROVE  IsFiniteSet(S) /\ Cardinality(S) \in Nat
<1>1. IsFiniteSet(Key)
  BY KeyAssumption, FS_Interval DEF Key
<1>2. IsFiniteSet(S)
  BY <1>1, FS_Subset
<1>3. QED
  BY <1>2, FS_CardinalityType

\* What is known of a smaller set, and of one with one more key.
LEMMA FewerKeys ==
  ASSUME TypeOK, NEW S \in SUBSET Key, NEW T \in SUBSET S
  PROVE  Cardinality(T) <= Cardinality(S)
  BY FiniteKeys, FS_Subset

LEMMA OneMoreKey ==
  ASSUME TypeOK, NEW S \in SUBSET Key, NEW T \in SUBSET Key, NEW k, T \subseteq S \cup {k}
  PROVE  Cardinality(T) <= Cardinality(S) + 1
<1>1. IsFiniteSet(S) /\ Cardinality(S) \in Nat /\ Cardinality(T) \in Nat
  BY FiniteKeys
<1>2. /\ IsFiniteSet(S \cup {k})
      /\ Cardinality(S \cup {k}) = IF k \in S THEN Cardinality(S) ELSE Cardinality(S) + 1
  BY <1>1, FS_AddElement
<1>3. Cardinality(T) <= Cardinality(S \cup {k})
  BY <1>2, FS_Subset
<1>4. QED
  BY <1>1, <1>2, <1>3

-----------------------------------------------------------------------------
(* The invariant holds at first, and every step keeps it.                  *)

LEMMA BusyWorker ==
  ASSUME TypeOK, ~At("idle")
  PROVE  /\ worker \in Busy /\ worker.seen \in CR /\ worker.key \in OptKey
         /\ worker.seen.externalName \in OptKey
  BY DEF TypeOK, Idle, Busy, At, CR

LEMMA Numbers ==
  ASSUME TypeOK
  PROVE  /\ made \in Nat /\ faults \in Nat /\ MaxKeys \in Nat /\ made <= MaxKeys
         /\ cr.externalName \in Nat /\ keys \subseteq Key
  BY KeyAssumption DEF TypeOK, OptKey, CR

LEMMA InitialInvariant ==
  ASSUME Init PROVE IInv
<1>1. TypeOK
  BY KeyAssumption DEF Init, TypeOK, CR, OptKey, NoKey
<1>2. CacheFollows /\ OnlyMade /\ SeenHeld /\ StepJustified /\ RecordedKeyDeleted /\ SecretKept
  BY DEF Init, CacheFollows, OnlyMade, SeenHeld, StepJustified, RecordedKeyDeleted, SecretKept, At, Idle, NoKey
<1>3. LostNeedsFault
  <2>1. keys \ {Owner} = {} /\ faults = 0
    BY DEF Init
  <2>2. Cardinality({}) = 0
    BY FS_EmptySet
  <2>3. QED
    BY <2>1, <2>2 DEF LostNeedsFault
<1>4. QED
  BY <1>1, <1>2, <1>3 DEF IInv

\* Faults are counted up, or nothing is lost by the step.
LEMMA LostStep ==
  ASSUME IInv, TypeOK',
         \/ keys' \ {Owner'} \subseteq keys \ {Owner} /\ faults' = faults
         \/ (\E k : keys' \ {Owner'} \subseteq (keys \ {Owner}) \cup {k}) /\ faults' = faults + 1
  PROVE  LostNeedsFault'
<1> DEFINE S == keys \ {Owner}
           T == keys' \ {Owner'}
<1>1. S \in SUBSET Key /\ T \in SUBSET Key /\ TypeOK /\ faults \in Nat
  BY Numbers DEF IInv, TypeOK, Key
<1>2. Cardinality(S) \in Nat /\ Cardinality(T) \in Nat /\ Cardinality(S) <= faults
  BY <1>1, FiniteKeys DEF IInv, LostNeedsFault
<1>3. CASE T \subseteq S /\ faults' = faults
  BY <1>1, <1>2, <1>3, FewerKeys DEF LostNeedsFault
<1>4. CASE (\E k : T \subseteq S \cup {k}) /\ faults' = faults + 1
  <2>1. Cardinality(T) <= Cardinality(S) + 1
    BY <1>1, <1>4, OneMoreKey
  <2>2. QED
    BY <1>1, <1>2, <1>4, <2>1 DEF LostNeedsFault
<1>5. QED
  BY <1>3, <1>4

LEMMA DeleteCRInvariant ==
  ASSUME IInv, DeleteCR PROVE IInv'
<1>1. /\ cr' \in CR /\ cr'.externalName = cr.externalName
      /\ (cr.state = "new" /\ cr'.state = "gone") \/ (cr.state = "managed" /\ cr'.state = "deleting")
  BY DEF IInv, TypeOK, CR, DeleteCR
<1>2. TypeOK'
  BY <1>1 DEF IInv, TypeOK, DeleteCR
<1>3. CacheFollows' /\ OnlyMade' /\ SeenHeld' /\ StepJustified'
  BY <1>1 DEF IInv, CacheFollows, OnlyMade, SeenHeld, StepJustified, At, DeleteCR
<1>4. RecordedKeyDeleted'
  BY <1>1 DEF IInv, OnlyMade, RecordedKeyDeleted, NoKey, DeleteCR
<1>5. LostNeedsFault'
  BY <1>1, <1>2, LostStep DEF Owner, DeleteCR
<1>6. SecretKept'
  BY <1>1 DEF IInv, SecretKept, At, DeleteCR
<1>7. QED
  BY <1>2, <1>3, <1>4, <1>5, <1>6 DEF IInv

LEMMA EditPublicKeyTypeInvariant ==
  ASSUME IInv, EditPublicKeyType PROVE IInv'
<1>1. /\ cr' \in CR /\ cr'.externalName = cr.externalName /\ cr'.state = cr.state
      /\ UNCHANGED <<cache, worker, keys, made, secret, faults, foreign, lost>>
  BY DEF IInv, TypeOK, CR, EditPublicKeyType
<1>2. TypeOK'
  BY <1>1 DEF IInv, TypeOK
<1>3. CacheFollows' /\ OnlyMade' /\ SeenHeld' /\ StepJustified'
  BY <1>1 DEF IInv, CacheFollows, OnlyMade, SeenHeld, StepJustified, At
<1>4. RecordedKeyDeleted' /\ SecretKept'
  BY <1>1 DEF IInv, RecordedKeyDeleted, SecretKept, At
<1>5. LostNeedsFault'
  BY <1>1, <1>2, LostStep DEF Owner
<1>6. QED
  BY <1>2, <1>3, <1>4, <1>5 DEF IInv

LEMMA SyncInvariant ==
  ASSUME IInv, Sync PROVE IInv'
<1>1. TypeOK'
  BY DEF IInv, TypeOK, Sync
<1>2. CacheFollows'
  BY DEF IInv, CacheFollows, TypeOK, CR, Sync
<1>3. OnlyMade' /\ RecordedKeyDeleted' /\ SecretKept'
  BY DEF IInv, OnlyMade, RecordedKeyDeleted, SecretKept, At, Sync
<1>4. SeenHeld' /\ StepJustified'
  BY DEF IInv, CacheFollows, SeenHeld, StepJustified, At, Sync
<1>5. LostNeedsFault'
  BY <1>1, LostStep DEF Owner, Sync
<1>6. QED
  BY <1>1, <1>2, <1>3, <1>4, <1>5 DEF IInv

LEMMA ForeignDeleteInvariant ==
  ASSUME IInv, ForeignDelete PROVE IInv'
<1>1. TypeOK'
  BY KeyAssumption DEF IInv, TypeOK, ForeignDelete
<1>2. CacheFollows' /\ OnlyMade' /\ SeenHeld' /\ StepJustified'
  BY DEF IInv, CacheFollows, OnlyMade, SeenHeld, StepJustified, At, ForeignDelete
<1>3. RecordedKeyDeleted' /\ SecretKept'
  BY DEF IInv, RecordedKeyDeleted, SecretKept, At, ForeignDelete
<1>4. LostNeedsFault'
  BY <1>1, LostStep DEF Owner, ForeignDelete
<1>5. QED
  BY <1>1, <1>2, <1>3, <1>4 DEF IInv

LEMMA BeginInvariant ==
  ASSUME IInv, Begin PROVE IInv'
<1>1. /\ worker' \in Busy /\ worker'.pc = "observe" /\ worker'.seen = cache /\ worker'.key = NoKey
      /\ cache.state \in {"new", "managed", "deleting"}
  BY KeyAssumption DEF IInv, TypeOK, CR, Begin, Busy, OptKey, NoKey
<1>2. TypeOK'
  BY <1>1 DEF IInv, TypeOK, Begin
<1>3. CacheFollows' /\ RecordedKeyDeleted'
  BY DEF IInv, CacheFollows, RecordedKeyDeleted, Begin
<1>4. OnlyMade'
  BY <1>1, Numbers DEF IInv, OnlyMade, Begin, NoKey
<1>5. SeenHeld'
  BY <1>1 DEF IInv, CacheFollows, SeenHeld, At, Begin, TypeOK, CR
<1>6. StepJustified' /\ SecretKept'
  BY <1>1 DEF IInv, StepJustified, SecretKept, At, Begin
<1>7. LostNeedsFault'
  BY <1>1, <1>2, LostStep DEF Owner, At, Begin
<1>8. QED
  BY <1>2, <1>3, <1>4, <1>5, <1>6, <1>7 DEF IInv

LEMMA FailInvariant ==
  ASSUME IInv, Fail PROVE IInv'
<1>1. worker' = Idle /\ worker'.pc = "idle"
  BY DEF Fail, Idle
<1>2. TypeOK'
  <2>1. worker.key # NoKey => worker.key \in Key
    BY BusyWorker, KeyAssumption DEF IInv, Fail, Key, OptKey, NoKey
  <2>2. lost' \subseteq Key
    BY <2>1 DEF IInv, TypeOK, Fail
  <2>3. faults' \in 0..MaxFaults
    BY KeyAssumption DEF IInv, TypeOK, Fail
  <2>4. QED
    BY <1>1, <2>2, <2>3 DEF IInv, TypeOK, Fail
<1>3. CacheFollows' /\ OnlyMade' /\ SeenHeld' /\ StepJustified' /\ RecordedKeyDeleted'
  BY <1>1 DEF IInv, CacheFollows, OnlyMade, SeenHeld, StepJustified, RecordedKeyDeleted, At, Fail
<1>4. Owner' = cr.externalName /\ keys' = keys
  BY <1>1 DEF Owner, Fail
<1>5. CASE worker.key = NoKey
  <2>1. worker.pc \notin {"record", "publishCreated"} /\ faults' = faults /\ lost' = lost
    BY <1>5 DEF Fail, IInv, StepJustified
  <2>2. LostNeedsFault'
    BY <1>2, <1>4, <2>1, LostStep DEF Owner
  <2>3. SecretKept'
    BY <1>1, <2>1 DEF IInv, SecretKept, At, Fail
  <2>4. QED
    BY <1>2, <1>3, <2>2, <2>3 DEF IInv
<1>6. CASE worker.key # NoKey
  <2>1. faults' = faults + 1 /\ keys' \ {Owner'} \subseteq (keys \ {Owner}) \cup {Owner}
        /\ lost' = lost \cup {worker.key}
    BY <1>4, <1>6 DEF Fail
  <2>2. LostNeedsFault'
    BY <1>2, <2>1, LostStep
  <2>3. SecretKept'
    BY <1>1, <2>1 DEF IInv, StepJustified, SecretKept, At, Fail
  <2>4. QED
    BY <1>2, <1>3, <2>2, <2>3 DEF IInv
<1>7. QED
  BY <1>5, <1>6

LEMMA ObserveInvariant ==
  ASSUME IInv, Observe PROVE IInv'
<1> DEFINE pc == IF worker.seen.state = "deleting"
                   THEN IF Exists(worker.seen) THEN "delete" ELSE "unfinalize"
                 ELSE IF Exists(worker.seen) THEN "publishObserved"
                 ELSE IF worker.seen.state = "new" THEN "finalizer" ELSE "create"
<1>1. /\ ~At("idle") /\ worker.pc = "observe" /\ worker' = [worker EXCEPT !.pc = pc]
      /\ UNCHANGED <<cr, cache, keys, made, secret, faults, foreign, lost>>
  BY DEF Observe, Goto, At
<1>2. worker.seen.state \in {"new", "managed", "deleting"} /\ worker.key = NoKey /\ worker \in Busy
  BY <1>1, BusyWorker DEF IInv, SeenHeld, StepJustified
<1>3. /\ pc \in {"delete", "unfinalize", "publishObserved", "finalizer", "create"}
      /\ pc = "unfinalize" => worker.seen.state = "deleting" /\ worker.seen.externalName \notin keys
      /\ pc = "publishObserved" => worker.seen.externalName \in keys
      /\ pc = "finalizer" => worker.seen.state = "new"
      /\ pc = "create" => worker.seen.state = "managed"
  BY <1>2 DEF Exists
<1> HIDE DEF pc
<1>4. worker' \in Busy /\ worker'.pc = pc /\ worker'.seen = worker.seen /\ worker'.key = worker.key
  BY <1>1, <1>2, <1>3 DEF Busy
<1>5. TypeOK' /\ CacheFollows' /\ OnlyMade' /\ RecordedKeyDeleted'
  BY <1>1, <1>3, <1>4 DEF IInv, TypeOK, CacheFollows, OnlyMade, RecordedKeyDeleted, At
<1>6. SeenHeld' /\ StepJustified'
  BY <1>1, <1>2, <1>3, <1>4 DEF IInv, SeenHeld, StepJustified, At
<1>7. LostNeedsFault'
  <2>1. Owner' = Owner
    BY <1>1, <1>3, <1>4 DEF Owner
  <2>2. QED
    BY <1>1, <1>5, <2>1, LostStep
<1>8. SecretKept'
  BY <1>1, <1>3, <1>4 DEF IInv, SecretKept, At
<1>9. QED
  BY <1>5, <1>6, <1>7, <1>8 DEF IInv

LEMMA PublishObservedInvariant ==
  ASSUME IInv, PublishObserved PROVE IInv'
<1>1. /\ ~At("idle") /\ worker.pc = "publishObserved" /\ worker' = Idle /\ worker'.pc = "idle"
      /\ secret' = ObservedDetails(worker.seen)
      /\ UNCHANGED <<cr, cache, keys, made, faults, foreign, lost>>
  BY DEF PublishObserved, Idle, At
<1>2. secret' \in [public : OptKey, private : OptKey] /\ secret'.private = secret.private
  BY <1>1, BusyWorker DEF IInv, TypeOK, ObservedDetails
<1>3. TypeOK' /\ CacheFollows' /\ OnlyMade' /\ SeenHeld' /\ StepJustified' /\ RecordedKeyDeleted'
  BY <1>1, <1>2 DEF IInv, TypeOK, CacheFollows, OnlyMade, SeenHeld, StepJustified, RecordedKeyDeleted, At
<1>4. LostNeedsFault'
  BY <1>1, <1>3, LostStep DEF Owner
<1>5. SecretKept'
  BY <1>1, <1>2 DEF IInv, SecretKept, At, TypeOK
<1>6. QED
  BY <1>3, <1>4, <1>5 DEF IInv

LEMMA AddFinalizerInvariant ==
  ASSUME IInv, AddFinalizer PROVE IInv'
<1>1. /\ ~At("idle") /\ worker.pc = "finalizer" /\ cr = worker.seen /\ cr \in CR /\ worker \in Busy
      /\ cr.state = "new" /\ worker.key = NoKey /\ UNCHANGED <<cache, keys, made, secret, faults, foreign, lost>>
  BY BusyWorker DEF AddFinalizer, At, IInv, TypeOK, StepJustified
<1>2. cr' \in CR /\ cr'.state = "managed" /\ cr'.externalName = cr.externalName
  BY <1>1 DEF AddFinalizer, CR
<1>3. worker' = [worker EXCEPT !.pc = "create", !.seen = cr']
  BY DEF AddFinalizer
<1>4. worker' \in Busy /\ worker'.pc = "create" /\ worker'.seen = cr' /\ worker'.key = NoKey
  BY <1>1, <1>2, <1>3 DEF Busy
<1>5. TypeOK' /\ CacheFollows' /\ OnlyMade' /\ SeenHeld' /\ StepJustified' /\ RecordedKeyDeleted'
  BY <1>1, <1>2, <1>4 DEF IInv, TypeOK, CacheFollows, OnlyMade, SeenHeld, StepJustified, RecordedKeyDeleted, At
<1>6. LostNeedsFault'
  BY <1>1, <1>2, <1>4, <1>5, LostStep DEF Owner
<1>7. SecretKept'
  BY <1>1, <1>2, <1>4 DEF IInv, SecretKept, At
<1>8. QED
  BY <1>5, <1>6, <1>7 DEF IInv

LEMMA RemoveFinalizerInvariant ==
  ASSUME IInv, RemoveFinalizer PROVE IInv'
<1>1. /\ ~At("idle") /\ worker.pc = "unfinalize" /\ cr = worker.seen /\ worker' = Idle /\ worker'.pc = "idle"
      /\ cr.state = "deleting" /\ cr.externalName \notin keys /\ cache.state \in {"deleting", "gone"}
      /\ UNCHANGED <<cache, keys, made, faults, foreign, lost>>
  BY DEF RemoveFinalizer, At, IInv, StepJustified, Idle
<1>2. cr' \in CR /\ cr'.state = "gone" /\ cr'.externalName = cr.externalName
  BY DEF RemoveFinalizer, IInv, TypeOK, CR
<1>3. TypeOK'
  BY <1>1, <1>2, KeyAssumption DEF RemoveFinalizer, IInv, TypeOK, OptKey, NoKey
<1>4. CacheFollows' /\ OnlyMade' /\ SeenHeld' /\ StepJustified' /\ RecordedKeyDeleted' /\ SecretKept'
  BY <1>1, <1>2 DEF IInv, CacheFollows, OnlyMade, SeenHeld, StepJustified, RecordedKeyDeleted, SecretKept, At
<1>5. LostNeedsFault'
  BY <1>1, <1>2, <1>3, LostStep DEF Owner
<1>6. QED
  BY <1>3, <1>4, <1>5 DEF IInv

LEMMA CreateInvariant ==
  ASSUME IInv, Create PROVE IInv'
<1>1. /\ ~At("idle") /\ worker.pc = "create" /\ made < MaxKeys /\ made' = made + 1
      /\ keys' = keys \cup {made + 1} /\ worker' = [worker EXCEPT !.pc = "record", !.key = made + 1]
      /\ UNCHANGED <<cr, cache, secret, foreign, lost>> /\ worker \in Busy /\ worker.key = NoKey
  BY BusyWorker DEF Create, At, IInv, StepJustified
<1>2. IF cr.externalName \in keys THEN faults < MaxFaults /\ faults' = faults + 1 ELSE faults' = faults
  BY DEF Create
<1>3. made \in Nat /\ made + 1 \in Key /\ made + 1 \in OptKey /\ faults \in Nat
  BY <1>1, Numbers DEF IInv, Key, OptKey
<1>4. worker' \in Busy /\ worker'.pc = "record" /\ worker'.seen = worker.seen /\ worker'.key = made + 1
  BY <1>1, <1>3 DEF Busy
<1>5. TypeOK'
  BY <1>1, <1>2, <1>3, <1>4, KeyAssumption DEF IInv, TypeOK
<1>6. CacheFollows'
  BY <1>1 DEF IInv, CacheFollows
<1>7. OnlyMade'
  BY <1>1, <1>3, <1>4 DEF IInv, OnlyMade, At
<1>8. cr.state \in {"managed", "deleting"}
  BY <1>1 DEF IInv, SeenHeld, StepJustified, At
<1>9. SeenHeld' /\ StepJustified'
  BY <1>1, <1>3, <1>4, <1>8 DEF IInv, SeenHeld, StepJustified, At, NoKey
<1>10. RecordedKeyDeleted'
  BY <1>1, <1>8 DEF RecordedKeyDeleted
<1>11. LostNeedsFault'
  <2>1. Owner = cr.externalName /\ Owner' = made + 1 /\ keys' \ {Owner'} \subseteq keys
    BY <1>1, <1>4 DEF Owner
  <2>2. CASE cr.externalName \in keys
    <3>1. keys' \ {Owner'} \subseteq (keys \ {Owner}) \cup {Owner} /\ faults' = faults + 1
      BY <1>2, <2>1, <2>2
    <3>2. QED
      BY <1>5, <3>1, LostStep
  <2>3. CASE cr.externalName \notin keys
    BY <1>2, <1>5, <2>1, <2>3, LostStep
  <2>4. QED
    BY <2>2, <2>3
<1>12. SecretKept'
  BY <1>1, <1>2, <1>4 DEF IInv, SecretKept, At
<1>13. QED
  BY <1>5, <1>6, <1>7, <1>9, <1>10, <1>11, <1>12 DEF IInv

LEMMA RecordExternalNameInvariant ==
  ASSUME IInv, RecordExternalName PROVE IInv'
<1>1. /\ ~At("idle") /\ worker.pc = "record" /\ cache = cr /\ cr \in CR /\ worker \in Busy
      /\ worker.key \in OptKey /\ worker.key \in 0..made /\ worker.key # NoKey
      /\ cr.state \in {"managed", "deleting"}
      /\ UNCHANGED <<cache, keys, made, secret, faults, foreign, lost>>
  BY BusyWorker DEF RecordExternalName, At, IInv, TypeOK, StepJustified, OnlyMade
<1>2. cr' \in CR /\ cr'.state = cr.state /\ cr'.externalName = worker.key
  BY <1>1 DEF RecordExternalName, CR
<1>3. worker' = [worker EXCEPT !.pc = "publishCreated", !.seen = cr']
  BY DEF RecordExternalName
<1>4. worker' \in Busy /\ worker'.pc = "publishCreated" /\ worker'.seen = cr' /\ worker'.key = worker.key
  BY <1>1, <1>2, <1>3 DEF Busy
<1>5. TypeOK' /\ CacheFollows' /\ OnlyMade' /\ SeenHeld' /\ StepJustified' /\ RecordedKeyDeleted'
  BY <1>1, <1>2, <1>4 DEF IInv, TypeOK, CacheFollows, OnlyMade, SeenHeld, StepJustified, RecordedKeyDeleted, At
<1>6. LostNeedsFault'
  BY <1>1, <1>4, <1>5, LostStep DEF Owner
<1>7. SecretKept'
  BY <1>4 DEF SecretKept, At
<1>8. QED
  BY <1>5, <1>6, <1>7 DEF IInv

LEMMA PublishCreatedInvariant ==
  ASSUME IInv, PublishCreated PROVE IInv'
<1>1. /\ ~At("idle") /\ worker.pc = "publishCreated" /\ worker' = Idle /\ worker'.pc = "idle"
      /\ worker.key \in OptKey /\ worker.key = cr.externalName
      /\ secret' = [secret EXCEPT !.private = worker.key]
      /\ UNCHANGED <<cr, cache, keys, made, faults, foreign, lost>>
  BY BusyWorker DEF PublishCreated, CreatedDetails, At, IInv, StepJustified, Idle
<1>2. TypeOK' /\ CacheFollows' /\ OnlyMade' /\ SeenHeld' /\ StepJustified' /\ RecordedKeyDeleted'
  BY <1>1 DEF IInv, TypeOK, CacheFollows, OnlyMade, SeenHeld, StepJustified, RecordedKeyDeleted, At
<1>3. LostNeedsFault'
  BY <1>1, <1>2, LostStep DEF Owner
<1>4. SecretKept'
  BY <1>1 DEF SecretKept, At
<1>5. QED
  BY <1>2, <1>3, <1>4 DEF IInv

LEMMA DeleteInvariant ==
  ASSUME IInv, Delete PROVE IInv'
<1>1. /\ ~At("idle") /\ worker.pc = "delete" /\ worker' = Idle /\ worker'.pc = "idle"
      /\ keys' \subseteq keys /\ UNCHANGED <<cr, cache, made, secret, faults, foreign, lost>>
  BY DEF Delete, At, Idle
<1>2. TypeOK' /\ CacheFollows' /\ OnlyMade' /\ SeenHeld' /\ StepJustified' /\ RecordedKeyDeleted'
  BY <1>1 DEF IInv, TypeOK, CacheFollows, OnlyMade, SeenHeld, StepJustified, RecordedKeyDeleted, At
<1>3. LostNeedsFault'
  BY <1>1, <1>2, LostStep DEF Owner
<1>4. SecretKept'
  BY <1>1 DEF IInv, SecretKept, At
<1>5. QED
  BY <1>2, <1>3, <1>4 DEF IInv

LEMMA InvariantStep ==
  ASSUME IInv, [Next]_vars PROVE IInv'
<1>1. CASE UNCHANGED vars
  BY <1>1 DEF vars, IInv, TypeOK, CacheFollows, OnlyMade, SeenHeld, StepJustified, RecordedKeyDeleted,
              LostNeedsFault, Owner, SecretKept, At
<1>2. CASE WorkerStep
  BY <1>2, ObserveInvariant, PublishObservedInvariant, AddFinalizerInvariant, RemoveFinalizerInvariant,
     CreateInvariant, RecordExternalNameInvariant, PublishCreatedInvariant, DeleteInvariant DEF WorkerStep
<1>3. QED
  BY <1>1, <1>2, DeleteCRInvariant, EditPublicKeyTypeInvariant, SyncInvariant, ForeignDeleteInvariant, BeginInvariant, FailInvariant
     DEF Next

LEMMA Invariance == Spec => []IInv
<1>1. Init => IInv
  BY InitialInvariant
<1>2. IInv /\ [Next]_vars => IInv'
  BY InvariantStep
<1>3. QED
  BY <1>1, <1>2, PTL DEF Spec

-----------------------------------------------------------------------------
(* The theorems.                                                           *)

\* The object, its copies, the keys and the secret are well formed, whatever
\* Observe, Create and Delete make of them.
THEOREM TypeCorrect == Spec => []TypeOK
<1>1. IInv => TypeOK
  BY DEF IInv
<1>2. QED
  BY <1>1, Invariance, PTL

\* Delete ends the key that the object names before the object is let go, however
\* old the copies of the object are that Observe and Delete work with.
THEOREM KeyDeleted == Spec => []RecordedKeyDeleted
<1>1. IInv => RecordedKeyDeleted
  BY DEF IInv
<1>2. QED
  BY <1>1, Invariance, PTL

\* Create makes a new key each time it runs: at most one of them leaks per fault
\* between the call and the recording of its name, however many are made.
THEOREM FaultsBoundLeaks == Spec => []LeaksNeedFaults
<1>1. IInv => LeaksNeedFaults
  <2> SUFFICES ASSUME IInv PROVE LeaksNeedFaults
    OBVIOUS
  <2>1. Leaked \subseteq keys \ {Owner}
    BY DEF Leaked, Owner, At
  <2>2. TypeOK /\ keys \ {Owner} \in SUBSET Key /\ faults \in Nat
    BY Numbers DEF IInv, TypeOK
  <2>3. Cardinality(Leaked) <= Cardinality(keys \ {Owner}) /\ Cardinality(Leaked) \in Nat
        /\ Cardinality(keys \ {Owner}) \in Nat
    BY <2>1, <2>2, FewerKeys, FiniteKeys
  <2>4. QED
    BY <2>2, <2>3 DEF IInv, LostNeedsFault, LeaksNeedFaults
<1>2. QED
  BY <1>1, Invariance, PTL

\* Create's connection details and Observe's, which lack the private half, are
\* published over one another: the secret has the private half of the key that
\* the object names unless the answer to that key's creation was lost, whatever
\* else failed or was created before and after.
THEOREM PrivateHalfKept == Spec => []SecretHoldsKey
<1>1. IInv => SecretHoldsKey
  BY DEF IInv, SecretKept, SecretHoldsKey, At
<1>2. QED
  BY <1>1, Invariance, PTL
=============================================================================
